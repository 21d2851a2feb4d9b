----------------------------- MODULE HostVault -----------------------------
(***************************************************************************)
(* Hosts, their secrets and the shared credentials (inventory.py), and the *)
(* two requests that switch a host to another key (app.py): provisioning a *)
(* new one and deploying a shared one.  Both work over SSH for up to       *)
(* minutes from the row they read first, while others edit it.             *)
(*                                                                         *)
(* A key stands for its pair; encryption is left out.  What machines let   *)
(* in is the set accepted of address, user and secret.                     *)
(***************************************************************************)
EXTENDS Naturals

CONSTANTS
  Hosts, Credentials,      \* ids; none is used twice
  Addresses, Users,
  Keys, Passwords,
  FreshKeys,               \* bound: those provisioning may make
  Root,                    \* the user of a login that names none
  Blank,                   \* an empty column or field
  None, Gone,              \* a row not inserted yet, and a deleted one
  FirstRows, FirstCredentials, FirstAccepted,   \* bound: what there is to begin with
  Forms,                   \* bound: rows people type
  Requests,                \* bound: requests in flight
  MaxMishaps               \* bound: edits, creations, deletions, outside changes, restarts

Secrets == Keys \cup Passwords
UserFields == Users \cup {Blank}
CredFields == Credentials \cup {Blank}
Rows == [address : Addresses, user : UserFields, cred : CredFields,
         password : Passwords \cup {Blank}, own : Keys \cup {Blank}]
Shared == [user : UserFields, key : Keys]
Logins == Addresses \X Users \X Secrets

ASSUME VaultAssumption ==
  /\ Root \in Users /\ Blank \notin Users \cup Credentials \cup Secrets
  /\ None \notin Rows \cup Shared /\ Gone \notin Rows \cup Shared /\ None # Gone
  /\ FirstRows \subseteq Rows \cup {None} /\ FirstCredentials \subseteq Shared \cup {None}
  /\ FirstAccepted \subseteq SUBSET Logins /\ Forms \subseteq Rows
  /\ FreshKeys \subseteq Keys /\ MaxMishaps \in Nat

VARIABLES
  hosts,          \* the hosts table
  credentials,    \* the credentials table
  accepted,       \* what the machines let in
  generated,      \* keys made by provisioning
  at,             \* the requests
  mishaps,        \* bound
  lastKey,        \* history: the last key somebody or some switch gave a host
  tampered        \* history: somebody has taken a login off a machine

vars == <<hosts, credentials, accepted, generated, at, mishaps, lastKey, tampered>>

Idle == [pc |-> "idle"]
Mishap == mishaps < MaxMishaps /\ mishaps' = mishaps + 1

Init ==
  /\ hosts \in [Hosts -> FirstRows]
  /\ credentials \in [Credentials -> FirstCredentials]
  /\ accepted \in FirstAccepted
  /\ generated = {}
  /\ at = [r \in Requests |-> Idle]
  /\ mishaps = 0
  /\ lastKey = [h \in Hosts |-> IF hosts[h] = None THEN Blank ELSE hosts[h].own]
  /\ tampered = FALSE
-----------------------------------------------------------------------------
(* secrets_for: a host's own key wins; otherwise its credential, if it is  *)
(* still there, gives the key, and the user where the host has none.       *)
Lends(row) ==
  row.own = Blank /\ row.cred # Blank /\ credentials[row.cred] \in Shared

SecretsFor(row) ==
  IF Lends(row)
  THEN [user |-> IF row.user = Blank THEN credentials[row.cred].user ELSE row.user,
        password |-> row.password, key |-> credentials[row.cred].key]
  ELSE [user |-> row.user, password |-> row.password, key |-> row.own]

LoginUser(secrets) == IF secrets.user = Blank THEN Root ELSE secrets.user

(* connect offers the key and the password. *)
Opens(address, secrets) ==
  \E s \in {secrets.key, secrets.password} : <<address, LoginUser(secrets), s>> \in accepted

(* update: a blank secret keeps the stored one. *)
Updated(row, form) ==
  [form EXCEPT !.password = IF @ = Blank THEN row.password ELSE @,
               !.own = IF @ = Blank THEN row.own ELSE @]

(* Mutant: only saved forms know the stored key. *)
TestedAsTyped(row, form) ==
  [user |-> form.user, key |-> form.own,
   password |-> IF form.password = Blank THEN row.password ELSE form.password]

(* The secrets a test of the form of a saved host uses. *)
Tested(row, form) ==
  LET stored == SecretsFor(row)
      key == IF form.own = Blank THEN stored.key ELSE form.own
      user == IF form.user = Blank THEN stored.user ELSE form.user
      lends == key = Blank /\ form.cred # Blank /\ credentials[form.cred] \in Shared
  IN  [password |-> IF form.password = Blank THEN row.password ELSE form.password,
       key |-> IF lends THEN credentials[form.cred].key ELSE key,
       user |-> IF lends /\ user = Blank THEN credentials[form.cred].user ELSE user]
-----------------------------------------------------------------------------
(* Inserting, editing and deleting hosts. *)
Creates(h, row) ==
  /\ Mishap
  /\ hosts[h] = None
  /\ hosts' = [hosts EXCEPT ![h] = row]
  /\ lastKey' = [lastKey EXCEPT ![h] = row.own]
  /\ UNCHANGED <<credentials, accepted, generated, at, tampered>>

EditAsked(r, h, form) ==
  /\ Mishap
  /\ at[r] = Idle /\ hosts[h] \in Rows
  /\ at' = [at EXCEPT ![r] = [pc |-> "edit", host |-> h, rec |-> hosts[h], form |-> form]]
  /\ UNCHANGED <<hosts, credentials, accepted, generated, lastKey, tampered>>

(* Mutant: the row as it was when the request came is written back. *)
EditsStale(r) ==
  /\ at[r].pc = "edit"
  /\ hosts' = [hosts EXCEPT ![at[r].host] = IF @ \in Rows THEN Updated(at[r].rec, at[r].form) ELSE @]
  /\ lastKey' = IF at[r].form.own = Blank THEN lastKey
                ELSE [lastKey EXCEPT ![at[r].host] = at[r].form.own]
  /\ at' = [at EXCEPT ![r] = Idle]
  /\ UNCHANGED <<credentials, accepted, generated, mishaps, tampered>>

(* One UPDATE of the columns the form fills; none if the row is gone. *)
Edits(r) ==
  /\ at[r].pc = "edit"
  /\ hosts' = [hosts EXCEPT ![at[r].host] = IF @ \in Rows THEN Updated(@, at[r].form) ELSE @]
  /\ lastKey' = IF at[r].form.own = Blank THEN lastKey
                ELSE [lastKey EXCEPT ![at[r].host] = at[r].form.own]
  /\ at' = [at EXCEPT ![r] = Idle]
  /\ UNCHANGED <<credentials, accepted, generated, mishaps, tampered>>

Deletes(h) ==
  /\ Mishap
  /\ hosts[h] \in Rows
  /\ hosts' = [hosts EXCEPT ![h] = Gone]
  /\ UNCHANGED <<credentials, accepted, generated, at, lastKey, tampered>>
-----------------------------------------------------------------------------
(* Shared credentials. *)
CreatesCredential(c, shared) ==
  /\ Mishap
  /\ credentials[c] = None
  /\ credentials' = [credentials EXCEPT ![c] = shared]
  /\ UNCHANGED <<hosts, accepted, generated, at, lastKey, tampered>>

(* cred_delete detaches the hosts, then deletes the row. *)
Detaches(r, c) ==
  /\ Mishap
  /\ at[r] = Idle /\ credentials[c] \in Shared
  /\ hosts' = [h \in Hosts |-> IF hosts[h] \in Rows /\ hosts[h].cred = c
                               THEN [hosts[h] EXCEPT !.cred = Blank] ELSE hosts[h]]
  /\ at' = [at EXCEPT ![r] = [pc |-> "drop", cred |-> c]]
  /\ UNCHANGED <<credentials, accepted, generated, lastKey, tampered>>

Drops(r) ==
  /\ at[r].pc = "drop"
  /\ credentials' = [credentials EXCEPT ![at[r].cred] = Gone]
  /\ at' = [at EXCEPT ![r] = Idle]
  /\ UNCHANGED <<hosts, accepted, generated, mishaps, lastKey, tampered>>
-----------------------------------------------------------------------------
(* The two switches: deploy the public key over the secrets in use, test   *)
(* the key alone, then store it.                                           *)
Job(h, c, user, key) ==
  [pc |-> "deploy", host |-> h, rec |-> hosts[h], secrets |-> SecretsFor(hosts[h]),
   cred |-> c, user |-> user, key |-> key]

HasSecrets(row) == SecretsFor(row).password # Blank \/ SecretsFor(row).key # Blank

Provisions(r, h, key) ==
  /\ at[r] = Idle /\ hosts[h] \in Rows /\ HasSecrets(hosts[h])
  /\ key \notin generated /\ generated' = generated \cup {key}
  /\ at' = [at EXCEPT ![r] = Job(h, Blank, hosts[h].user, key)]
  /\ UNCHANGED <<hosts, credentials, accepted, mishaps, lastKey, tampered>>

DeploysCredential(r, h, c) ==
  /\ at[r] = Idle /\ hosts[h] \in Rows /\ HasSecrets(hosts[h]) /\ credentials[c] \in Shared
  /\ at' = [at EXCEPT ![r] = Job(h, c, IF hosts[h].user = Blank THEN credentials[c].user ELSE hosts[h].user,
                                 credentials[c].key)]
  /\ UNCHANGED <<hosts, credentials, accepted, generated, mishaps, lastKey, tampered>>

Authorised(r) == accepted \cup {<<at[r].rec.address, LoginUser(at[r].secrets), at[r].key>>}

Deploys(r) ==
  /\ at[r].pc = "deploy"
  /\ Opens(at[r].rec.address, at[r].secrets)
  /\ accepted' = Authorised(r)
  /\ at' = [at EXCEPT ![r].pc = "test"]
  /\ UNCHANGED <<hosts, credentials, generated, mishaps, lastKey, tampered>>

(* No session, or its answer is lost: the request ends. *)
DeployFails(r) ==
  /\ at[r].pc = "deploy"
  /\ \/ UNCHANGED accepted
     \/ Opens(at[r].rec.address, at[r].secrets) /\ accepted' = Authorised(r)
  /\ at' = [at EXCEPT ![r] = Idle]
  /\ UNCHANGED <<hosts, credentials, generated, mishaps, lastKey, tampered>>

(* A deleted credential has no key to test. *)
TestKey(r) ==
  IF at[r].cred = Blank THEN at[r].key
  ELSE IF credentials[at[r].cred] \in Shared THEN credentials[at[r].cred].key ELSE Blank

(* Mutant: the test logs in as the deployment did. *)
VerifiedAnyhow(r) ==
  Opens(at[r].rec.address, [user |-> at[r].secrets.user, password |-> at[r].secrets.password, key |-> TestKey(r)])

Verified(r) ==
  Opens(at[r].rec.address, [user |-> at[r].user, password |-> Blank, key |-> TestKey(r)])

Tests(r) ==
  /\ at[r].pc = "test" /\ Verified(r)
  /\ at' = [at EXCEPT ![r].pc = "switch"]
  /\ UNCHANGED <<hosts, credentials, accepted, generated, mishaps, lastKey, tampered>>

TestFails(r) ==
  /\ at[r].pc = "test"
  /\ at' = [at EXCEPT ![r] = Idle]
  /\ UNCHANGED <<hosts, credentials, accepted, generated, mishaps, lastKey, tampered>>

Switched(r, row) ==
  IF at[r].cred = Blank THEN [row EXCEPT !.own = at[r].key] ELSE [row EXCEPT !.cred = at[r].cred]

(* The sudo drop-in, last_seen and the audit row follow; nothing here      *)
(* reads them.                                                             *)
Switches(r) ==
  /\ at[r].pc = "switch"
  /\ hosts' = [hosts EXCEPT ![at[r].host] = IF @ \in Rows THEN Switched(r, @) ELSE @]
  /\ lastKey' = IF at[r].cred # Blank THEN lastKey
                ELSE [lastKey EXCEPT ![at[r].host] = at[r].key]
  /\ at' = [at EXCEPT ![r] = Idle]
  /\ UNCHANGED <<credentials, accepted, generated, mishaps, tampered>>
-----------------------------------------------------------------------------
(* Somebody takes a login off a machine. *)
ChangesOutside(login) ==
  /\ Mishap
  /\ login \in accepted /\ accepted' = accepted \ {login}
  /\ tampered' = TRUE
  /\ UNCHANGED <<hosts, credentials, generated, at, lastKey>>

Restart ==
  /\ Mishap
  /\ at' = [r \in Requests |-> Idle]
  /\ UNCHANGED <<hosts, credentials, accepted, generated, lastKey, tampered>>

Next ==
  \/ \E h \in Hosts : Deletes(h) \/ \E row \in Forms : Creates(h, row)
  \/ \E c \in Credentials, shared \in Shared : CreatesCredential(c, shared)
  \/ \E r \in Requests :
       \/ \E h \in Hosts : \/ \E form \in Forms : EditAsked(r, h, form)
                           \/ \E key \in FreshKeys : Provisions(r, h, key)
                           \/ \E c \in Credentials : DeploysCredential(r, h, c)
       \/ \E c \in Credentials : Detaches(r, c)
       \/ Edits(r) \/ Drops(r)
       \/ Deploys(r) \/ DeployFails(r) \/ Tests(r) \/ TestFails(r) \/ Switches(r)
  \/ \E login \in Logins : ChangesOutside(login)
  \/ Restart

Spec == Init /\ [][Next]_vars
-----------------------------------------------------------------------------
SecretsShape == [user : UserFields, password : Passwords \cup {Blank}, key : Keys \cup {Blank}]

RequestShape ==
  {Idle}
  \cup [pc : {"edit"}, host : Hosts, rec : Rows, form : Rows]
  \cup [pc : {"drop"}, cred : Credentials]
  \cup [pc : {"deploy", "test", "switch"}, host : Hosts, rec : Rows, secrets : SecretsShape,
        cred : CredFields, user : UserFields, key : Keys]

(* Rows and requests hold what the code puts there. *)
TypeOK ==
  /\ hosts \in [Hosts -> Rows \cup {None, Gone}]
  /\ credentials \in [Credentials -> Shared \cup {None, Gone}]
  /\ accepted \subseteq Logins
  /\ generated \subseteq FreshKeys
  /\ at \in [Requests -> RequestShape]
  /\ mishaps \in Nat
  /\ lastKey \in [Hosts -> Keys \cup {Blank}] /\ tampered \in BOOLEAN

(* "leave blank to keep": a host's key is the last one somebody typed or a *)
(* provisioning made; no edit of other fields, however late it lands, no   *)
(* deployment and no deletion of a credential brings an older one back or  *)
(* clears it.                                                              *)
LastKeyWins == \A h \in Hosts : hosts[h] \in Rows => hosts[h].own = lastKey[h]

Reaches(h) == hosts[h] \in Rows /\ Opens(hosts[h].address, SecretsFor(hosts[h]))

Switching(r, h) == at[r].pc = "switch" /\ at[r].host = h /\ hosts'[h] # hosts[h] /\ at'[r] = Idle

(* The row still names the place and the user the request found, the       *)
(* credential is there, and no login was taken away.                       *)
StillTrue(r, h) ==
  /\ ~tampered
  /\ hosts[h].address = at[r].rec.address /\ hosts[h].user = at[r].rec.user
  /\ at[r].cred # Blank => credentials[at[r].cred] \in Shared

(* A switch never locks the app out: a host its stored secrets open is     *)
(* open after the switch, as long as nobody has edited the address or the  *)
(* user, deleted the credential or taken a login off a machine since the   *)
(* test ("verifies key auth, and switches the host to it").                *)
SwitchKeepsAccess ==
  [][\A r \in Requests, h \in Hosts :
       Switching(r, h) /\ Reaches(h) /\ StillTrue(r, h) => Reaches(h)']_vars

(* A test takes a blank field from the secrets of the stored row, whose    *)
(* credential may give both the key and the user, where a save changes the *)
(* row first.  They part company on a form that leaves the key blank and   *)
(* names another credential, ...                                           *)
KeepsTheLender(row, form) == Lends(row) /\ form.own = Blank => form.cred = row.cred

(* ... and on one that removes the user, or with a key of its own gives up *)
(* the credential the user came from.                                      *)
KeepsTheUser(row, form) ==
  form.user = Blank => row.user = Blank /\ (Lends(row) => form.own = Blank)

(* But for these, testing the form of a saved host tries the very secrets  *)
(* that saving it would leave the host with ("same leave blank to keep     *)
(* semantics as saving").                                                  *)
TestMirrorsSave ==
  \A h \in Hosts, form \in Rows :
    hosts[h] \in Rows /\ KeepsTheLender(hosts[h], form) /\ KeepsTheUser(hosts[h], form)
    => Tested(hosts[h], form) = SecretsFor(Updated(hosts[h], form))
=============================================================================
