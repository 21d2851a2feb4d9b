---------------------------- MODULE ServingCert ----------------------------
(***************************************************************************)
(* The certificate and the key the program serves HTTPS with (tls.py): two *)
(* files, each replaced through a temporary file of a fixed name, one      *)
(* after the other, by requests and by the start of the container.         *)
(*                                                                         *)
(* A file is the pair it comes from: certificate and key match if they are *)
(* of one pair.  Writing a temporary file is one step.                     *)
(***************************************************************************)
EXTENDS Naturals, FiniteSets

CONSTANTS
  Pairs,      \* matching certificates and keys
  NoFile,
  Installers, \* requests, and the start of the container
  MaxEvents   \* bound: requests, crashes and other events from outside

ASSUME CertAssumption == Pairs # {} /\ NoFile \notin Pairs /\ MaxEvents \in Nat

VARIABLES
  served,     \* the two files
  tmp,        \* their temporary files
  install,    \* an installation under way
  torn,       \* history: since the last one that ran alone and whole, one was cut
              \* short, failed or overlapped with another
  budget      \* bound: events still to come

certVars == <<served, tmp, install, torn, budget>>

Slots == {"cert", "key"}
NoInstall == [pc |-> "none"]

(* Installations are alike: a new one takes the first free place. *)
Idle(i) == install[i] = NoInstall /\ i = CHOOSE j \in Installers : install[j] = NoInstall
Installing == {i \in Installers : install[i] # NoInstall}

CertInit ==
  /\ served = [s \in Slots |-> NoFile] /\ tmp = [s \in Slots |-> NoFile]
  /\ install = [i \in Installers |-> NoInstall]
  /\ torn = FALSE /\ budget = MaxEvents

Spends == budget > 0 /\ budget' = budget - 1

(* Two installations under way are neither of them alone. *)
Begins(i, pair) ==
  /\ install' = [j \in Installers |->
                   IF j = i THEN [pc |-> "write", slot |-> "cert", pair |-> pair, alone |-> Installing = {}]
                   ELSE IF install[j] = NoInstall THEN NoInstall ELSE [install[j] EXCEPT !.alone = FALSE]]
  /\ torn' = (torn \/ Installing # {})
  /\ UNCHANGED <<served, tmp>>

(* validate_and_install_cert compares the public keys. *)
Accepts(c, k) == c = k

Uploads(i, c, k) ==
  /\ Idle(i) /\ Accepts(c, k)
  /\ Spends /\ Begins(i, [cert |-> c, key |-> k])

(* generate_self_signed makes a pair and replaces what is there. *)
Regenerates(i, p) ==
  /\ Idle(i)
  /\ Spends /\ Begins(i, [cert |-> p, key |-> p])

(* ensure_tls_cert makes a pair only if both files are missing. *)
NoFiles == \A s \in Slots : served[s] = NoFile

(* Mutant: a temporary file that is there is not written again. *)
WritesOnce(i) ==
  /\ install[i].pc = "write"
  /\ LET s == install[i].slot
     IN  tmp' = [tmp EXCEPT ![s] = IF @ = NoFile THEN install[i].pair[s] ELSE @]
  /\ install' = [install EXCEPT ![i].pc = "move"]
  /\ UNCHANGED <<served, torn, budget>>

(* _write_atomic: write the temporary file, whatever is in it, ... *)
Writes(i) ==
  /\ install[i].pc = "write"
  /\ tmp' = [tmp EXCEPT ![install[i].slot] = install[i].pair[install[i].slot]]
  /\ install' = [install EXCEPT ![i].pc = "move"]
  /\ UNCHANGED <<served, torn, budget>>

(* ... rename it, which fails if another has moved or removed it, ... *)
Moves(i) ==
  LET s == install[i].slot IN
  /\ install[i].pc = "move"
  /\ IF tmp[s] = NoFile
       THEN /\ install' = [install EXCEPT ![i] = NoInstall]
            /\ torn' = TRUE /\ UNCHANGED <<served, tmp>>
       ELSE /\ served' = [served EXCEPT ![s] = tmp[s]]
            /\ tmp' = [tmp EXCEPT ![s] = NoFile]
            /\ install' = [install EXCEPT ![i].pc = "clean"]
            /\ UNCHANGED torn
  /\ UNCHANGED budget

(* ... and remove what is left of it.  The key follows the certificate. *)
Cleans(i) ==
  /\ install[i].pc = "clean"
  /\ tmp' = [tmp EXCEPT ![install[i].slot] = NoFile]
  /\ install' = [install EXCEPT ![i] = IF @.slot = "cert" THEN [@ EXCEPT !.pc = "write", !.slot = "key"]
                                       ELSE NoInstall]
  /\ torn' = (torn /\ (install[i].slot = "cert" \/ ~install[i].alone))
  /\ UNCHANGED <<served, budget>>

(* An OSError where it opens, writes, renames or changes the mode: the     *)
(* installation ends there, with or without its temporary file, and what   *)
(* it has replaced stays replaced.                                         *)
InstallFails(i) ==
  /\ install[i] # NoInstall /\ Spends
  /\ tmp' \in {tmp, [tmp EXCEPT ![install[i].slot] = NoFile]}
  /\ install' = [install EXCEPT ![i] = NoInstall]
  /\ torn' = TRUE
  /\ UNCHANGED served

CertStops ==
  /\ install' = [i \in Installers |-> NoInstall]
  /\ torn' = (torn \/ Installing # {})
  /\ UNCHANGED <<served, tmp>>

Asks(i) ==
  \/ \E c, k \in Pairs : Uploads(i, c, k)
  \/ \E p \in Pairs : Regenerates(i, p)

Installs(i) == Writes(i) \/ Moves(i) \/ Cleans(i)
-----------------------------------------------------------------------------
CertTypeOK ==
  /\ served \in [Slots -> Pairs \cup {NoFile}]
  /\ tmp \in [Slots -> Pairs \cup {NoFile}]
  /\ install \in [Installers -> {NoInstall} \cup
                    [pc : {"write", "move", "clean"}, slot : Slots, pair : [Slots -> Pairs],
                     alone : BOOLEAN]]
  /\ torn \in BOOLEAN /\ budget \in Nat

(* An installation that ran alone, from the first write to the last, leaves *)
(* a certificate and a key that belong together, whatever crossed files and *)
(* temporary ones others cut short, failed or overlapping before it left    *)
(* behind; and they stay together until the next that is not whole.         *)
PairMatches == Installing = {} /\ ~torn => served["cert"] = served["key"]
=============================================================================
