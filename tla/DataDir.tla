------------------------------ MODULE DataDir ------------------------------
(***************************************************************************)
(* What the program keeps on disk, and what happens to it when processes   *)
(* start, die and are restored over: the key file (config.py), the         *)
(* database with its migrations (store/db.py), backup and restore          *)
(* (backup.py), the start of a process (app.boot), and the files of        *)
(* ServingCert.                                                            *)
(*                                                                         *)
(* A database is the statements of the migrations that were executed, the  *)
(* versions recorded, the keys its secrets are sealed with, and whether    *)
(* there is a user account and a mission.  A transaction log left beside a *)
(* database it does not belong to spoils it: from then on nobody knows what *)
(* is in it, and a statement may find anything, or fail.                    *)
(***************************************************************************)
EXTENDS ServingCert, Sequences

CONSTANTS
  Workers,    \* processes
  Main,       \* the one meant to run; others may be started beside it
  Keys,       \* encryption keys
  NoKey,
  Scripts,    \* migrations: their statements, TRUE if one may be repeated
  Requests,   \* bound: backups and restores in flight
  Given       \* backup files people have from elsewhere

Versions == DOMAIN Scripts
Statements == UNION {{<<v, k>> : k \in DOMAIN Scripts[v]} : v \in Versions}

(* People may remove what a start has made. *)
Presence == {"never", "here", "removed"}

DbShape == [done : SUBSET Statements, versions : SUBSET Versions, sealed : SUBSET Keys,
            account : Presence, mission : Presence, mixed : BOOLEAN]
BundleShape == [key : Keys \cup {NoKey}, db : DbShape, torn : BOOLEAN]

ASSUME DataAssumption ==
  /\ Scripts \in Seq(Seq(BOOLEAN))
  /\ NoKey \notin Keys /\ Main \in Workers
  /\ \A b \in Given : b \in BundleShape

(* Backups were made by this program: only a torn one may hold another key *)
(* than that of its database.                                              *)
KeyOpens(key, d) == d.sealed \subseteq {key} /\ ~d.mixed
Recorded(d) == ~d.mixed => \A v \in d.versions : \A k \in DOMAIN Scripts[v] : <<v, k>> \in d.done

ASSUME GivenAssumption ==
  \A b \in Given : Recorded(b.db) /\ (~b.torn => KeyOpens(b.key, b.db))

VARIABLES
  config,     \* config.json: its key, NoKey if there is no file
  db,         \* naa.db
  wal,        \* naa.db-wal: none, live, or stale if naa.db was replaced beneath it
  phase,      \* where each process is
  memKey,     \* the key it has in memory
  applied,    \* migrate: the versions it takes as applied
  at,         \* migrate: the next statement
  request,    \* backups and restores
  bundles,    \* backup files
  parted,     \* history: a restore was cut short, or met another or a use of the database
  raced       \* history: two processes made a key, or one started during a restore

dataVars == <<config, db, wal, phase, memKey, applied, at, request, bundles, parted, raced>>
vars == <<certVars, dataVars>>

NoRequest == [op |-> "none"]

(* Requests are alike: a new one takes the first free place. *)
Free(r) == request[r] = NoRequest /\ r = CHOOSE s \in Requests : request[s] = NoRequest
EmptyDb == [done |-> {}, versions |-> {}, sealed |-> {},
            account |-> "never", mission |-> "never", mixed |-> FALSE]
Spoilt == [EmptyDb EXCEPT !.mixed = TRUE]

Init ==
  /\ CertInit
  /\ config = NoKey /\ db = EmptyDb /\ wal = "none"
  /\ phase = [p \in Workers |-> "down"]
  /\ memKey = [p \in Workers |-> NoKey]
  /\ applied = [p \in Workers |-> {}] /\ at = [p \in Workers |-> 1]
  /\ request = [r \in Requests |-> NoRequest]
  /\ bundles = Given
  /\ parted = FALSE /\ raced = {}

Restores == {r \in Requests : request[r].op = "restore"}
Up == {p \in Workers : phase[p] = "up"}

(* A statement on a spoiled database may fail, and find whatever there is  *)
(* not: only on a sound one it finds what is there.                        *)
Spoiled == db.mixed \/ wal = "stale"
Found(what, is) == Spoiled \/ what = is

(* A connection finds the database and its log. *)
OnDb(new) ==
  /\ db' = IF Spoiled THEN Spoilt ELSE new
  /\ wal' = IF wal = "stale" THEN "none" ELSE wal
  /\ parted' = (parted \/ wal = "stale")

Local == <<phase, memKey, applied, at>>

GoesTo(p, ph) == phase' = [phase EXCEPT ![p] = ph] /\ UNCHANGED <<memKey, applied, at>>

(* A process that ends forgets all it had in memory. *)
Ends(p) ==
  /\ phase' = [phase EXCEPT ![p] = "down"] /\ memKey' = [memKey EXCEPT ![p] = NoKey]
  /\ applied' = [applied EXCEPT ![p] = {}] /\ at' = [at EXCEPT ![p] = 1]

GoesOnIf(ok, p, ph) == IF ok THEN GoesTo(p, ph) ELSE Ends(p)
-----------------------------------------------------------------------------
(***************************************************************************)
(* The start of a process: boot().  Where an exception ends it the         *)
(* supervisor starts another.                                              *)
(***************************************************************************)
BootKeeps == <<certVars, request, bundles>>
Untouched == <<BootKeeps, config, db, wal, parted, raced>>
KeyKept == <<BootKeeps, config, raced>>

(* The container prepares the certificate first: it makes a pair only if   *)
(* both files are missing, and refuses to start if one is.                 *)
PreparesCert(i) ==
  /\ Up = {} /\ Installing = {} /\ NoFiles /\ Idle(i)
  /\ Begins(i, LET p == CHOOSE q \in Pairs : TRUE IN [cert |-> p, key |-> p])
  /\ UNCHANGED <<budget, dataVars>>

(* One process is always started again; another may be, beside it.         *)
Starts(p) ==
  /\ phase[p] = "down"
  /\ served["cert"] = served["key"] /\ ~NoFiles
  /\ IF \A q \in Workers : phase[q] = "down" THEN p = Main /\ UNCHANGED budget ELSE Spends
  /\ GoesTo(p, "load")
  /\ UNCHANGED <<served, tmp, install, torn, request, bundles, config, db, wal, parted, raced>>

(* load: the key of the file, or a new one (bound: Keys has another), ... *)
FreshKeys == Keys \ ({config} \cup db.sealed \cup {memKey[p] : p \in Workers}
                     \cup {b.key : b \in bundles})

Loads(p) ==
  /\ phase[p] = "load"
  /\ config # NoKey \/ FreshKeys # {}
  /\ memKey' = [memKey EXCEPT ![p] = IF config # NoKey THEN config
                                      ELSE CHOOSE k \in FreshKeys : TRUE]
  /\ phase' = [phase EXCEPT ![p] = IF config # NoKey THEN "open" ELSE "write"]
  /\ raced' = IF config = NoKey /\ \E q \in Workers : phase[q] = "write"
                THEN raced \cup {"key"} ELSE raced
  /\ UNCHANGED <<BootKeeps, config, db, wal, applied, at, parted>>

(* ... which is written before it is used. *)
WritesKey(p) ==
  /\ phase[p] = "write"
  /\ config' = memKey[p]
  /\ GoesTo(p, "open")
  /\ UNCHANGED <<BootKeeps, db, wal, parted, raced>>

(* Mutant: what was recorded is not looked at. *)
OpensAnew(p) ==
  /\ phase[p] = "open"
  /\ OnDb(db)
  /\ phase' = [phase EXCEPT ![p] = "migrate"]
  /\ UNCHANGED <<KeyKept, memKey, applied, at>>

(* migrate: which versions are recorded, ... *)
Opens(p) ==
  /\ phase[p] = "open"
  /\ OnDb(db)
  /\ \E found \in SUBSET Versions : /\ Found(found, db.versions)
                                    /\ applied' = [applied EXCEPT ![p] = found]
  /\ phase' = [phase EXCEPT ![p] = "migrate"]
  /\ UNCHANGED <<KeyKept, memKey, at>>

Missing(p) == Versions \ applied[p]
Current(p) == CHOOSE v \in Missing(p) : \A w \in Missing(p) : v <= w

(* ... each statement of a missing one, committed by itself, ... *)
Executes(p) ==
  /\ phase[p] = "migrate" /\ Missing(p) # {} /\ at[p] \in DOMAIN Scripts[Current(p)]
  /\ LET s == <<Current(p), at[p]>>
     IN  \E there \in BOOLEAN :
           /\ Found(there, s \in db.done)
           /\ IF there /\ ~Scripts[s[1]][s[2]]
                THEN Ends(p) /\ OnDb(db)
                ELSE /\ OnDb([db EXCEPT !.done = @ \cup {s}])
                     /\ at' = [at EXCEPT ![p] = @ + 1]
                     /\ UNCHANGED <<phase, memKey, applied>>
  /\ UNCHANGED KeyKept

(* Mutant: off by one, the last statement of a script is left out. *)
RecordsEarly(p) ==
  /\ phase[p] = "migrate" /\ Missing(p) # {} /\ at[p] = Len(Scripts[Current(p)])
  /\ OnDb([db EXCEPT !.versions = @ \cup {Current(p)}])
  /\ applied' = [applied EXCEPT ![p] = @ \cup {Current(p)}]
  /\ at' = [at EXCEPT ![p] = 1]
  /\ UNCHANGED <<KeyKept, phase, memKey>>

(* ... and its version, which a second process may have recorded. *)
Records(p) ==
  /\ phase[p] = "migrate" /\ Missing(p) # {} /\ at[p] \notin DOMAIN Scripts[Current(p)]
  /\ \E there \in BOOLEAN :
       /\ Found(there, Current(p) \in db.versions)
       /\ IF there
            THEN Ends(p) /\ OnDb(db)
            ELSE /\ OnDb([db EXCEPT !.versions = @ \cup {Current(p)}])
                 /\ applied' = [applied EXCEPT ![p] = @ \cup {Current(p)}]
                 /\ at' = [at EXCEPT ![p] = 1]
                 /\ UNCHANGED <<phase, memKey>>
  /\ UNCHANGED KeyKept

(* ensure_admin and ensure_mission look, and insert what they missed: any  *)
(* account will do, whatever its role, ...                                 *)
LooksForAdmin(p) ==
  /\ phase[p] = "migrate" /\ Missing(p) = {}
  /\ OnDb(db)
  /\ \E there \in BOOLEAN :
       /\ Found(there, db.account = "here")
       /\ phase' = [phase EXCEPT ![p] = IF there THEN "mission" ELSE "add_admin"]
  /\ applied' = [applied EXCEPT ![p] = {}]
  /\ UNCHANGED <<KeyKept, memKey, at>>

(* ... but the name admin is given once. *)
AddsAdmin(p) ==
  /\ phase[p] = "add_admin"
  /\ OnDb([db EXCEPT !.account = "here"])
  /\ \E ok \in BOOLEAN : (db.account = "here" \/ ok) /\ GoesOnIf(ok, p, "mission")
  /\ UNCHANGED KeyKept

LooksForMission(p) ==
  /\ phase[p] = "mission"
  /\ OnDb(db)
  /\ \E there \in BOOLEAN :
       /\ Found(there, db.mission = "here")
       /\ GoesTo(p, IF there THEN "guard" ELSE "add_mission")
  /\ UNCHANGED KeyKept

AddsMission(p) ==
  /\ phase[p] = "add_mission"
  /\ OnDb([db EXCEPT !.mission = "here"])
  /\ GoesTo(p, "guard")
  /\ UNCHANGED KeyKept

(* A spoiled database may end any start that works on it. *)
Chokes(p) ==
  /\ Spoiled /\ phase[p] \in {"open", "migrate", "add_admin", "mission", "add_mission"}
  /\ Ends(p) /\ OnDb(db)
  /\ UNCHANGED KeyKept

(* _single_instance_guard comes last. *)
Guards(p) ==
  /\ phase[p] = "guard"
  /\ GoesOnIf(Up = {}, p, "up")
  /\ UNCHANGED Untouched

Boots(p) ==
  \/ Starts(p) \/ Loads(p) \/ WritesKey(p)
  \/ Opens(p) \/ Executes(p) \/ Records(p)
  \/ LooksForAdmin(p) \/ AddsAdmin(p) \/ LooksForMission(p) \/ AddsMission(p)
  \/ Chokes(p) \/ Guards(p)
-----------------------------------------------------------------------------
(***************************************************************************)
(* What the serving process is asked for.                                  *)
(***************************************************************************)
ServeKeeps == <<Local, raced>>

(* Restores that have replaced the database. *)
Replaced == {r \in Restores : request[r].pc \in {"wal", "exit"}}

(* The log stays while other connections are open. *)
Commits(p, new) ==
  /\ phase[p] = "up"
  /\ db' = IF Spoiled THEN Spoilt ELSE new
  /\ wal' \in {"none", "live"}
  /\ parted' = (parted \/ Replaced # {})
  /\ UNCHANGED <<served, tmp, install, torn, ServeKeeps, config, request, bundles>>

(* A secret is sealed with the key in memory. *)
SavesSecret(p) ==
  Commits(p, [db EXCEPT !.sealed = @ \cup {memKey[p]}]) /\ UNCHANGED budget

(* People remove the mission, or make it again, and the last accounts,     *)
(* where two administrators delete each other.                             *)
EditsData(p) ==
  /\ Spends
  /\ \/ \E m \in {"here", "removed"} \ {db.mission} : Commits(p, [db EXCEPT !.mission = m])
     \/ db.account = "here" /\ Commits(p, [db EXCEPT !.account = "removed"])

(* create_backup: a snapshot of the database, and then the key file. *)
Snapshots(r) ==
  /\ Up # {} /\ Free(r) /\ Spends
  /\ OnDb(db)
  /\ request' = [request EXCEPT ![r] = [op |-> "backup", db |-> db']]
  /\ UNCHANGED <<served, tmp, install, torn, ServeKeeps, config, bundles>>

Bundles(r) ==
  /\ request[r].op = "backup"
  /\ bundles' = bundles \cup {[key |-> config, db |-> request[r].db,
                               torn |-> parted \/ raced # {} \/ Restores # {}]}
  /\ request' = [request EXCEPT ![r] = NoRequest]
  /\ UNCHANGED <<certVars, ServeKeeps, config, db, wal, parted>>

(* restore_backup refuses a file without a key. *)
AsksRestore(r, b) ==
  /\ Up # {} /\ Free(r) /\ b.key # NoKey /\ Spends
  /\ request' = [request EXCEPT ![r] = [op |-> "restore", pc |-> "key", from |-> b]]
  /\ parted' = (parted \/ Restores # {})
  /\ UNCHANGED <<served, tmp, install, torn, ServeKeeps, config, db, wal, bundles>>

Meets == IF \E p \in Workers : phase[p] \notin {"down", "up"} THEN {"restore"} ELSE {}

Step(r, pc) == request' = [request EXCEPT ![r].pc = pc]

(* Mutant: the key file is left as it is. *)
RestoresNoKey(r) ==
  /\ request[r].op = "restore" /\ request[r].pc = "key"
  /\ raced' = raced \cup Meets
  /\ Step(r, "db")
  /\ UNCHANGED <<certVars, Local, config, db, wal, bundles, parted>>

(* It replaces the key file, ... *)
RestoresKey(r) ==
  /\ request[r].op = "restore" /\ request[r].pc = "key"
  /\ config' = request[r].from.key
  /\ raced' = raced \cup Meets
  /\ Step(r, "db")
  /\ UNCHANGED <<certVars, Local, db, wal, bundles, parted>>

(* ... the database, whose log is now another's, ... *)
RestoresDb(r) ==
  /\ request[r].op = "restore" /\ request[r].pc = "db"
  /\ db' = request[r].from.db
  /\ wal' = IF wal = "none" THEN "none" ELSE "stale"
  /\ parted' = (parted \/ request[r].from.torn)
  /\ raced' = raced \cup Meets
  /\ Step(r, "wal")
  /\ UNCHANGED <<certVars, Local, config, bundles>>

(* ... and drops the log, by now perhaps one in use. *)
DropsLog(r) ==
  /\ request[r].op = "restore" /\ request[r].pc = "wal"
  /\ wal' = "none"
  /\ db' = IF wal = "live" THEN Spoilt ELSE db
  /\ Step(r, "exit")
  /\ UNCHANGED <<certVars, ServeKeeps, config, bundles, parted>>

Dies(p) ==
  /\ Ends(p)
  /\ IF phase[p] = "up"
       THEN request' = [r \in Requests |-> NoRequest] /\ CertStops
       ELSE UNCHANGED <<request, served, tmp, install, torn>>
  /\ UNCHANGED <<config, db, wal, bundles, raced>>

(* The process exits a little later to start again. *)
Exits(p) ==
  /\ phase[p] = "up" /\ \E r \in Restores : request[r].pc = "exit"
  /\ Dies(p)
  /\ parted' = (parted \/ \E r \in Restores : request[r].pc \in {"db", "wal"})
  /\ UNCHANGED budget

Crash(p) ==
  /\ phase[p] # "down" /\ Spends
  /\ Dies(p)
  /\ parted' = (parted \/ (phase[p] = "up" /\ \E r \in Restores : request[r].pc \in {"db", "wal"}))

(* A crash of the container while it prepares the certificate. *)
CertCrash == Up = {} /\ Installing # {} /\ Spends /\ CertStops /\ UNCHANGED dataVars

Serves(r) == Bundles(r) \/ RestoresKey(r) \/ RestoresDb(r) \/ DropsLog(r)

Next ==
  \/ \E i \in Installers : PreparesCert(i)
  \/ \E p \in Workers : Boots(p) \/ SavesSecret(p) \/ EditsData(p) \/ Exits(p) \/ Crash(p)
  \/ \E r \in Requests : Snapshots(r) \/ Serves(r) \/ (\E b \in bundles : AsksRestore(r, b))
  \/ \E i \in Installers : (Installs(i) \/ InstallFails(i) \/ (Up # {} /\ Asks(i))) /\ UNCHANGED dataVars
  \/ CertCrash

Spec == Init /\ [][Next]_vars

(* The supervisor starts a process again, nothing in boot waits, and an    *)
(* installation goes on.                                                   *)
FairSpec ==
  /\ Spec
  /\ \A p \in Workers : WF_vars(Boots(p))
  /\ WF_vars(\E p \in Workers : Exits(p))
  /\ WF_vars(\E i \in Installers : PreparesCert(i) \/ (Installs(i) /\ UNCHANGED dataVars))
-----------------------------------------------------------------------------
PhaseShape == {"down", "load", "write", "open", "migrate", "add_admin", "mission",
               "add_mission", "guard", "up"}
RequestShape == {NoRequest} \cup [op : {"backup"}, db : DbShape]
                \cup [op : {"restore"}, pc : {"key", "db", "wal", "exit"}, from : BundleShape]

(* Files, processes and requests keep their shapes. *)
TypeOK ==
  /\ CertTypeOK
  /\ config \in Keys \cup {NoKey} /\ db \in DbShape /\ wal \in {"none", "live", "stale"}
  /\ phase \in [Workers -> PhaseShape] /\ memKey \in [Workers -> Keys \cup {NoKey}]
  /\ applied \in [Workers -> SUBSET Versions] /\ at \in [Workers -> Nat]
  /\ request \in [Requests -> RequestShape]
  /\ bundles \subseteq BundleShape
  /\ parted \in BOOLEAN /\ raced \subseteq {"key", "restore"}

(* The key on disk opens every secret of the database on disk, and of each *)
(* backup, and is the one the serving process seals with, wherever         *)
(* processes die and whatever is restored: only a restore that was cut     *)
(* short or met another or a use of the database, and two processes        *)
(* started at once on an empty directory, can part them.                   *)
KeyStaysWithTheDatabase ==
  /\ \A b \in bundles : ~b.torn => KeyOpens(b.key, b.db)
  /\ Restores = {} /\ ~parted /\ raced = {} =>
       KeyOpens(config, db) /\ \A p \in Up : memKey[p] = config

(* A process that serves has the whole schema, each version recorded, and *)
(* an account and a mission unless people removed them, though a start may *)
(* have been cut between any two statements or run beside another, and an  *)
(* older backup restored; but for a database that a log has spoiled.       *)
UpMeansReady ==
  Up # {} /\ Restores = {} /\ "restore" \notin raced /\ ~db.mixed =>
    /\ db.done = Statements /\ db.versions = Versions
    /\ db.account # "never" /\ db.mission # "never"

(* A version whose script was begun and not recorded. *)
HalfMigrated == \E v \in Versions \ db.versions : \E k \in DOMAIN Scripts[v] : <<v, k>> \in db.done

(* After the last crash the program serves again, unless a migration was   *)
(* cut between its statements, the certificate between its files, or a     *)
(* restore between the database and its log.                               *)
ServesAgain == []<>(Up # {}) \/ <>[](HalfMigrated \/ served["cert"] # served["key"] \/ db.mixed)
=============================================================================
