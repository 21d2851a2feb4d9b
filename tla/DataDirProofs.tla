--------------------------- MODULE DataDirProofs ---------------------------
(***************************************************************************)
(* What DataDir and ServingCert keep, for every number of processes,       *)
(* requests, keys, backups and migrations.                                 *)
(*                                                                         *)
(* The invariant has three parts, each with the steps that can disturb it: *)
(* the two certificate files against the temporary ones and the            *)
(* installation under way; the key file against the database, its log, the *)
(* memory of each process and the backups, at each step of a restore; the  *)
(* schema against what each start has read of it and done so far.          *)
(***************************************************************************)
EXTENDS DataDir, TLAPS, FiniteSetTheorems, WellFoundedInduction, SequenceTheorems

(***************************************************************************)
(* The certificate.                                                        *)
(***************************************************************************)
(* An installation on its way, against the two files and the temporary     *)
(* ones.                                                                   *)
OnItsWay(n, files, temps) ==
  /\ n.pair["cert"] = n.pair["key"]
  /\ n.pc = "move" => temps[n.slot] = n.pair[n.slot]
  /\ n.pc = "clean" => files[n.slot] = n.pair[n.slot]
  /\ n.slot = "key" => files["cert"] = n.pair["cert"]

(* One that runs alone has no other beside it, and is on its way whatever  *)
(* the others left; while none was torn, everyone runs alone.              *)
CertKept ==
  /\ \A i, j \in Installing : install[i].alone => i = j
  /\ \A i \in Installing : install[i].alone => OnItsWay(install[i], served, tmp)
  /\ ~torn => PairMatches /\ \A i \in Installing : install[i].alone

(***************************************************************************)
(* The key.                                                                *)
(***************************************************************************)
(* Phases of a start in which the key file has been read or written. *)
Late == {"open", "migrate", "add_admin", "mission", "add_mission", "guard"}

(* One process serves, and requests are its own. *)
OneServes ==
  /\ \A p, q \in Up : p = q
  /\ Up = {} => \A r \in Requests : request[r] = NoRequest

(* Nobody goes on without a key. *)
KeyComesFirst ==
  /\ \A p \in Workers : phase[p] \in Late \cup {"up"} => config # NoKey
  /\ \A p \in Workers : phase[p] \in Late \cup {"write", "up"} => memKey[p] # NoKey
  /\ \A r \in Restores : request[r].from.key # NoKey

(* Unless two made one, a key is made when there is none, and everyone who *)
(* starts has that of the file.                                            *)
OneKey ==
  raced = {} =>
    /\ \A p, q \in Workers : phase[p] = "write" /\ phase[q] = "write" => p = q
    /\ \A p \in Workers : phase[p] = "write" => config = NoKey
    /\ \A p \in Workers : phase[p] \in Late => memKey[p] = config

(* The key file, the database, its log, the memory of the serving process  *)
(* and the snapshots, at each step of a restore.                           *)
KeyFits ==
  ~parted /\ raced = {} =>
    /\ \A r, s \in Restores : r = s
    /\ \A r \in Restores : request[r].pc # "key" => config = request[r].from.key
    /\ (\A r \in Restores : request[r].pc # "db") => KeyOpens(config, db)
    /\ (\A r \in Restores : request[r].pc # "wal") => wal # "stale"
    /\ Replaced # {} => wal # "live"
    /\ (\A r \in Restores : request[r].pc = "key") => \A p \in Up : memKey[p] = config
    /\ Restores = {} =>
         \A r \in Requests : request[r].op = "backup" => KeyOpens(config, request[r].db)

BundlesFit ==
  /\ \A b \in bundles : ~b.torn => KeyOpens(b.key, b.db)
  /\ \A r \in Restores : ~request[r].from.torn => KeyOpens(request[r].from.key, request[r].from.db)

KeyInv == OneServes /\ KeyComesFirst /\ OneKey /\ KeyFits /\ BundlesFit

(***************************************************************************)
(* The schema.                                                             *)
(***************************************************************************)
(* The statement a migration is at. *)
StatementsCounted ==
  \A p \in Workers : at[p] >= 1 /\ (phase[p] # "migrate" \/ Missing(p) = {} => at[p] = 1)

Migrated == db.versions = Versions
Ready == Migrated /\ db.account # "never" /\ db.mission # "never"

(* What a start has found and done by the phase it is in. *)
Prepared(p) ==
  /\ phase[p] = "migrate" =>
       /\ applied[p] \subseteq db.versions
       /\ Missing(p) # {} => \A k \in 1 .. at[p] - 1 : <<Current(p), k>> \in db.done
  /\ phase[p] \in {"add_admin", "mission", "add_mission", "guard"} => Migrated
  /\ phase[p] \in {"mission", "add_mission", "guard"} => db.account # "never"
  /\ phase[p] = "guard" => db.mission # "never"

SchemaFits ==
  "restore" \notin raced =>
    /\ Recorded(db)
    /\ \A b \in bundles : Recorded(b.db)
    /\ \A r \in Requests : /\ request[r].op = "backup" => Recorded(request[r].db)
                           /\ request[r].op = "restore" => Recorded(request[r].from.db)
    /\ ~db.mixed => \A p \in Workers : Prepared(p)
    /\ Up # {} /\ Replaced = {} /\ ~db.mixed => Ready

ReadyInv == StatementsCounted /\ SchemaFits

(* All of it: where one part needs another is what the lemmas assume. *)
DirInv == TypeOK /\ CertKept /\ KeyInv /\ ReadyInv
-----------------------------------------------------------------------------
(***************************************************************************)
(* What the operators give.                                                *)
(***************************************************************************)
(* The migrations still to come have a first. *)
LEMMA LeastExists ==
  ASSUME NEW n \in Nat, NEW S \in SUBSET (1 .. n), S # {}
  PROVE  \E v \in S : \A w \in S : v <= w
<1> DEFINE Below(v) == {x \in S : x <= v}
           Belows == {Below(v) : v \in S}
<1>1. IsFiniteSet(S)
  <2>1. IsFiniteSet(1 .. n)  BY FS_Interval
  <2>2. QED  BY <2>1, FS_Subset
<1>2. IsWellFoundedOn(StrictSubsetOrdering(S), SUBSET S)
  BY <1>1, FS_StrictSubsetOrderingWellFounded, FS_FiniteSubsetsOfFinite
<1>3. Belows \subseteq SUBSET S /\ Belows # {}  OBVIOUS
<1>4. PICK m \in Belows : \A b \in Belows : <<b, m>> \notin StrictSubsetOrdering(S)
  <2> HIDE DEF Belows
  <2>1. QED  BY <1>2, <1>3, WFMin
<1>5. PICK v \in S : m = Below(v)  OBVIOUS
<1>6. ASSUME NEW w \in S, ~(v <= w) PROVE FALSE
  <2>1. Below(w) \subseteq Below(v) /\ v \in Below(v) /\ v \notin Below(w)
    <3>1. w \in Int /\ v \in Int /\ w < v  BY <1>6
    <3>2. \A x \in S : x \in Int /\ (x <= w => x <= v)  BY <3>1
    <3>3. Below(w) \subseteq Below(v)  BY <3>2
    <3>4. v \in Below(v) /\ v \notin Below(w)  BY <3>1
    <3>5. QED  BY <3>3, <3>4
  <2>2. <<Below(w), Below(v)>> \in StrictSubsetOrdering(S)
    BY <2>1 DEF StrictSubsetOrdering
  <2>3. Below(w) \in Belows  OBVIOUS
  <2>4. QED  BY <1>4, <1>5, <2>2, <2>3
<1>7. QED  BY <1>6

LEMMA CurrentIsMissing ==
  ASSUME NEW p \in Workers, Missing(p) # {}
  PROVE  Current(p) \in Missing(p) /\ Current(p) \in Versions
<1>1. Missing(p) \in SUBSET (1 .. Len(Scripts)) /\ Len(Scripts) \in Nat
  BY DataAssumption DEF Missing, Versions
<1>2. \E v \in Missing(p) : \A w \in Missing(p) : v <= w
  BY <1>1, LeastExists
<1>3. Current(p) \in Missing(p)  BY <1>2 DEF Current
<1>4. QED  BY <1>3 DEF Missing

(* A connection to the database, whose log may be another's. *)
LEMMA SpoiltShape ==
  Spoilt \in DbShape /\ Spoilt.mixed /\ Spoilt.sealed = {} /\ EmptyDb \in DbShape
<1>1. EmptyDb \in DbShape  BY DEF EmptyDb, DbShape, Presence
<1>2. QED  BY <1>1 DEF Spoilt, EmptyDb, DbShape

LEMMA Connected ==
  ASSUME NEW new \in DbShape, OnDb(new), parted \in BOOLEAN, wal \in {"none", "live", "stale"}
  PROVE  /\ db' \in DbShape /\ wal' \in {"none", "live"} /\ parted' \in BOOLEAN
         /\ Spoiled => db' = Spoilt
         /\ ~Spoiled => db' = new /\ wal' = wal /\ parted' = parted
         /\ ~parted' => ~parted /\ wal' = wal /\ wal # "stale"
<1>1. db' \in DbShape /\ (Spoiled => db' = Spoilt) /\ (~Spoiled => db' = new)
  BY SpoiltShape DEF OnDb
<1>2. CASE wal = "stale"  BY <1>1, <1>2 DEF OnDb, Spoiled
<1>3. CASE wal # "stale"
  <2>1. wal' = wal /\ parted' = parted  BY <1>3 DEF OnDb
  <2>2. QED  BY <1>1, <1>3, <2>1
<1>4. QED  BY <1>2, <1>3

(* One that is sound afterwards was sound, and is as the step left it. *)
LEMMA SoundIsRead ==
  ASSUME TypeOK, NEW new \in DbShape, OnDb(new), ~db'.mixed
  PROVE  ~Spoiled /\ ~db.mixed /\ db' = new
<1>1. parted \in BOOLEAN /\ wal \in {"none", "live", "stale"}  BY DEF TypeOK
<1>2. ~Spoiled  BY <1>1, Connected, SpoiltShape
<1>3. QED  BY <1>1, <1>2, Connected DEF Spoiled

(* A statement, a version, a key, an account and a mission more. *)
LEMMA DbGrows ==
  ASSUME NEW d \in DbShape
  PROVE  /\ \A s \in Statements : [d EXCEPT !.done = @ \cup {s}] \in DbShape
         /\ \A v \in Versions : [d EXCEPT !.versions = @ \cup {v}] \in DbShape
         /\ \A k \in Keys : [d EXCEPT !.sealed = @ \cup {k}] \in DbShape
         /\ \A a \in Presence : [d EXCEPT !.account = a] \in DbShape
         /\ \A m \in Presence : [d EXCEPT !.mission = m] \in DbShape
         /\ {"here", "removed"} \subseteq Presence
<1>1. \A s \in Statements : [d EXCEPT !.done = @ \cup {s}] \in DbShape  BY DEF DbShape
<1>2. \A v \in Versions : [d EXCEPT !.versions = @ \cup {v}] \in DbShape  BY DEF DbShape
<1>3. \A k \in Keys : [d EXCEPT !.sealed = @ \cup {k}] \in DbShape  BY DEF DbShape
<1>4. \A a \in Presence : [d EXCEPT !.account = a] \in DbShape  BY DEF DbShape
<1>5. \A m \in Presence : [d EXCEPT !.mission = m] \in DbShape  BY DEF DbShape
<1>6. QED  BY <1>1, <1>2, <1>3, <1>4, <1>5 DEF Presence

LEMMA StatementsAre ==
  ASSUME NEW v \in Versions, NEW k \in DOMAIN Scripts[v]
  PROVE  <<v, k>> \in Statements
  BY DEF Statements

(* What a request looks like. *)
LEMMA RequestKinds ==
  ASSUME TypeOK
  PROVE  \A r \in Requests :
           /\ request[r] = NoRequest \/ request[r].op \in {"backup", "restore"}
           /\ request[r].op = "backup" =>
                /\ request[r] \in [op : {"backup"}, db : DbShape]
                /\ request[r].db \in DbShape
           /\ request[r].op = "restore" =>
                /\ request[r] \in [op : {"restore"}, pc : {"key", "db", "wal", "exit"}, from : BundleShape]
                /\ request[r].from \in BundleShape /\ request[r].pc \in {"key", "db", "wal", "exit"}
  BY DEF TypeOK, RequestShape, NoRequest
-----------------------------------------------------------------------------
(***************************************************************************)
(* Types.                                                                  *)
(***************************************************************************)
DataTypeOK ==
  /\ config \in Keys \cup {NoKey} /\ db \in DbShape /\ wal \in {"none", "live", "stale"}
  /\ phase \in [Workers -> PhaseShape] /\ memKey \in [Workers -> Keys \cup {NoKey}]
  /\ applied \in [Workers -> SUBSET Versions] /\ at \in [Workers -> Nat]
  /\ request \in [Requests -> RequestShape]
  /\ bundles \subseteq BundleShape
  /\ parted \in BOOLEAN /\ raced \subseteq {"key", "restore"}

LEMMA TypeBegins == Init => TypeOK
<1> SUFFICES ASSUME Init PROVE TypeOK
  OBVIOUS
<1>1. CertTypeOK  BY CertAssumption DEF Init, CertInit, CertTypeOK
<1>2. EmptyDb \in DbShape  BY SpoiltShape
<1>3. DataTypeOK
  BY <1>2, DataAssumption DEF Init, DataTypeOK, PhaseShape, RequestShape
<1>4. QED  BY <1>1, <1>3 DEF TypeOK, DataTypeOK

(* A start of a process leaves everything of its shape. *)
LEMMA BootTyped ==
  ASSUME TypeOK, NEW p \in Workers, Boots(p)
  PROVE  DataTypeOK'
<1> USE DEF TypeOK, DataTypeOK
<1>p. "down" \in PhaseShape /\ NoKey \in Keys \cup {NoKey}  BY DEF PhaseShape
<1>e. ASSUME Ends(p) PROVE /\ phase' \in [Workers -> PhaseShape]
                           /\ memKey' \in [Workers -> Keys \cup {NoKey}]
                           /\ applied' \in [Workers -> SUBSET Versions] /\ at' \in [Workers -> Nat]
  BY <1>p, <1>e DEF Ends
<1>g. ASSUME NEW ph \in PhaseShape, GoesTo(p, ph)
      PROVE  /\ phase' \in [Workers -> PhaseShape]
             /\ memKey' \in [Workers -> Keys \cup {NoKey}]
             /\ applied' \in [Workers -> SUBSET Versions] /\ at' \in [Workers -> Nat]
  BY <1>g DEF GoesTo
<1>1. CASE Starts(p)
  BY <1>1, <1>g DEF Starts, PhaseShape
<1>2. CASE Loads(p)
  <2>1. (IF config # NoKey THEN config ELSE CHOOSE k \in FreshKeys : TRUE) \in Keys
    BY <1>2 DEF Loads, FreshKeys
  <2>2. (IF config # NoKey THEN "open" ELSE "write") \in PhaseShape  BY DEF PhaseShape
  <2>3. raced' \subseteq {"key", "restore"}  BY <1>2 DEF Loads
  <2>4. QED  BY <1>2, <2>1, <2>2, <2>3 DEF Loads, BootKeeps
<1>3. CASE WritesKey(p)
  BY <1>3, <1>g DEF WritesKey, PhaseShape, BootKeeps
<1>4. CASE Opens(p)
  <2>1. db' \in DbShape /\ wal' \in {"none", "live"} /\ parted' \in BOOLEAN
    BY <1>4, Connected DEF Opens
  <2>2. PICK found \in SUBSET Versions : applied' = [applied EXCEPT ![p] = found]
    BY <1>4 DEF Opens
  <2>3. "migrate" \in PhaseShape  BY DEF PhaseShape
  <2>4. QED  BY <1>4, <2>1, <2>2, <2>3 DEF Opens, KeyKept, BootKeeps
<1>5. CASE Executes(p)
  <2>1. Current(p) \in Versions /\ <<Current(p), at[p]>> \in Statements
    BY <1>5, CurrentIsMissing, StatementsAre DEF Executes
  <2> DEFINE s == <<Current(p), at[p]>>
  <2>2. UNCHANGED <<config, request, bundles, raced>>
    BY <1>5 DEF Executes, KeyKept, BootKeeps
  <2>3. CASE Ends(p) /\ OnDb(db)
    BY <1>e, <2>2, <2>3, Connected
  <2>4. CASE /\ OnDb([db EXCEPT !.done = @ \cup {s}])
             /\ at' = [at EXCEPT ![p] = @ + 1]
             /\ UNCHANGED <<phase, memKey, applied>>
    <3> HIDE DEF s
    <3>1. [db EXCEPT !.done = @ \cup {s}] \in DbShape  BY <2>1, DbGrows DEF s
    <3>2. db' \in DbShape /\ wal' \in {"none", "live"} /\ parted' \in BOOLEAN
      BY <2>4, <3>1, Connected
    <3>3. QED  BY <2>2, <2>4, <3>2
  <2>5. QED  BY <1>5, <2>3, <2>4 DEF Executes
<1>6. CASE Records(p)
  <2>1. Current(p) \in Versions  BY <1>6, CurrentIsMissing DEF Records
  <2>2. UNCHANGED <<config, request, bundles, raced>>
    BY <1>6 DEF Records, KeyKept, BootKeeps
  <2>3. CASE Ends(p) /\ OnDb(db)
    BY <1>e, <2>2, <2>3, Connected
  <2>4. CASE /\ OnDb([db EXCEPT !.versions = @ \cup {Current(p)}])
             /\ applied' = [applied EXCEPT ![p] = @ \cup {Current(p)}]
             /\ at' = [at EXCEPT ![p] = 1]
             /\ UNCHANGED <<phase, memKey>>
    <3>1. [db EXCEPT !.versions = @ \cup {Current(p)}] \in DbShape  BY <2>1, DbGrows
    <3>2. db' \in DbShape /\ wal' \in {"none", "live"} /\ parted' \in BOOLEAN
      BY <2>4, <3>1, Connected
    <3>3. QED  BY <2>1, <2>2, <2>4, <3>2
  <2>5. QED  BY <1>6, <2>3, <2>4 DEF Records
<1>7. CASE LooksForAdmin(p)
  <2>1. db' \in DbShape /\ wal' \in {"none", "live"} /\ parted' \in BOOLEAN
    BY <1>7, Connected DEF LooksForAdmin
  <2>2. PICK ph \in PhaseShape : phase' = [phase EXCEPT ![p] = ph]
    BY <1>7 DEF LooksForAdmin, PhaseShape
  <2>3. QED  BY <1>7, <2>1, <2>2 DEF LooksForAdmin, KeyKept, BootKeeps
<1>8. CASE AddsAdmin(p)
  <2>1. db' \in DbShape /\ wal' \in {"none", "live"} /\ parted' \in BOOLEAN
    BY <1>8, Connected, DbGrows DEF AddsAdmin
  <2>2. GoesTo(p, "mission") \/ Ends(p)  BY <1>8 DEF AddsAdmin, GoesOnIf
  <2>3. "mission" \in PhaseShape  BY DEF PhaseShape
  <2>4. QED  BY <1>8, <1>e, <1>g, <2>1, <2>2, <2>3 DEF AddsAdmin, KeyKept, BootKeeps
<1>9. CASE LooksForMission(p)
  <2>1. db' \in DbShape /\ wal' \in {"none", "live"} /\ parted' \in BOOLEAN
    BY <1>9, Connected DEF LooksForMission
  <2>2. PICK ph \in PhaseShape : GoesTo(p, ph)
    BY <1>9 DEF LooksForMission, PhaseShape
  <2>3. QED  BY <1>9, <1>g, <2>1, <2>2 DEF LooksForMission, KeyKept, BootKeeps
<1>10. CASE AddsMission(p)
  <2>1. db' \in DbShape /\ wal' \in {"none", "live"} /\ parted' \in BOOLEAN
    BY <1>10, Connected, DbGrows DEF AddsMission
  <2>2. "guard" \in PhaseShape  BY DEF PhaseShape
  <2>3. QED  BY <1>10, <1>g, <2>1, <2>2 DEF AddsMission, KeyKept, BootKeeps
<1>11. CASE Guards(p)
  <2>1. "up" \in PhaseShape  BY DEF PhaseShape
  <2>2. QED  BY <1>11, <1>e, <1>g, <2>1 DEF Guards, GoesOnIf, Untouched, BootKeeps
<1>12. CASE Chokes(p)
  <2>1. db' \in DbShape /\ wal' \in {"none", "live"} /\ parted' \in BOOLEAN
    BY <1>12, Connected DEF Chokes
  <2>2. QED  BY <1>12, <1>e, <2>1 DEF Chokes, KeyKept, BootKeeps
<1>13. QED
  BY <1>1, <1>2, <1>3, <1>4, <1>5, <1>6, <1>7, <1>8, <1>9, <1>10, <1>11, <1>12 DEF Boots

(* What is committed is a database. *)
LEMMA CommitsShape ==
  ASSUME TypeOK, KeyComesFirst, NEW p \in Workers, SavesSecret(p) \/ EditsData(p)
  PROVE  \E new \in DbShape :
           /\ Commits(p, new)
           /\ new.mixed = db.mixed /\ new.sealed \subseteq db.sealed \cup {memKey[p]}
           /\ new.done = db.done /\ new.versions = db.versions
           /\ db.account # "never" => new.account # "never"
           /\ db.mission # "never" => new.mission # "never"
<1>1. db \in DbShape /\ memKey[p] \in Keys \cup {NoKey}  BY DEF TypeOK
<1>2. CASE SavesSecret(p)
  <2> DEFINE new == [db EXCEPT !.sealed = @ \cup {memKey[p]}]
  <2>1. Commits(p, new)  BY <1>2 DEF SavesSecret
  <2>2. phase[p] = "up"  BY <2>1 DEF Commits
  <2>3. memKey[p] \in Keys  BY <1>1, <2>2 DEF KeyComesFirst
  <2>4. new \in DbShape  BY <1>1, <2>3, DbGrows
  <2>5. /\ new.mixed = db.mixed /\ new.sealed = db.sealed \cup {memKey[p]}
        /\ new.done = db.done /\ new.versions = db.versions
        /\ new.account = db.account /\ new.mission = db.mission
    BY <1>1 DEF DbShape
  <2>6. QED  BY <2>1, <2>4, <2>5
<1>3. ASSUME NEW m \in {"here", "removed"}, Commits(p, [db EXCEPT !.mission = m])
      PROVE  \E new \in DbShape :
               /\ Commits(p, new)
               /\ new.mixed = db.mixed /\ new.sealed = db.sealed
               /\ new.done = db.done /\ new.versions = db.versions
               /\ new.account = db.account /\ new.mission # "never"
  <2> DEFINE new == [db EXCEPT !.mission = m]
  <2>1. new \in DbShape  BY <1>1, DbGrows
  <2>2. /\ new.mixed = db.mixed /\ new.sealed = db.sealed
        /\ new.done = db.done /\ new.versions = db.versions
        /\ new.account = db.account /\ new.mission # "never"
    BY <1>1 DEF DbShape
  <2>3. QED  BY <1>3, <2>1, <2>2
<1>4. ASSUME Commits(p, [db EXCEPT !.account = "removed"])
      PROVE  \E new \in DbShape :
               /\ Commits(p, new)
               /\ new.mixed = db.mixed /\ new.sealed = db.sealed
               /\ new.done = db.done /\ new.versions = db.versions
               /\ new.account # "never" /\ new.mission = db.mission
  <2> DEFINE new == [db EXCEPT !.account = "removed"]
  <2>1. new \in DbShape  BY <1>1, DbGrows
  <2>2. /\ new.mixed = db.mixed /\ new.sealed = db.sealed
        /\ new.done = db.done /\ new.versions = db.versions
        /\ new.account # "never" /\ new.mission = db.mission
    BY <1>1 DEF DbShape
  <2>3. QED  BY <1>4, <2>1, <2>2
<1>5. CASE EditsData(p)
  <2>1. \/ \E m \in {"here", "removed"} : Commits(p, [db EXCEPT !.mission = m])
        \/ Commits(p, [db EXCEPT !.account = "removed"])
    BY <1>5 DEF EditsData
  <2>2. QED  BY <1>3, <1>4, <2>1
<1>6. QED  BY <1>2, <1>5

(* So does what a serving process does, and its end. *)
LEMMA ServeTyped ==
  ASSUME TypeOK, KeyComesFirst,
         \/ \E p \in Workers : SavesSecret(p) \/ EditsData(p) \/ Exits(p) \/ Crash(p)
         \/ \E r \in Requests : \/ Snapshots(r) \/ Serves(r)
                                \/ \E b \in bundles : AsksRestore(r, b)
  PROVE  DataTypeOK'
<1> USE DEF TypeOK, DataTypeOK
<1>c. ASSUME NEW p \in Workers, NEW new \in DbShape, Commits(p, new) PROVE DataTypeOK'
  <2>1. /\ db' \in DbShape /\ wal' \in {"none", "live"} /\ parted' \in BOOLEAN
        /\ UNCHANGED <<phase, memKey, applied, at, raced, config, request, bundles>>
    BY <1>c, SpoiltShape DEF Commits, ServeKeeps, Local
  <2>2. QED  BY <2>1
<1>1. ASSUME NEW p \in Workers, SavesSecret(p) \/ EditsData(p) PROVE DataTypeOK'
  <2>1. PICK new \in DbShape : Commits(p, new)  BY <1>1, CommitsShape
  <2>2. QED  BY <1>c, <2>1
<1>2. ASSUME NEW p \in Workers, Dies(p), parted' \in BOOLEAN PROVE DataTypeOK'
  <2>1. \A r \in Requests : request'[r] \in {NoRequest, request[r]}
    BY <1>2 DEF Dies
  <2>2. request' \in [Requests -> RequestShape]
    BY <1>2, <2>1 DEF Dies, RequestShape
  <2>3. "down" \in PhaseShape  BY DEF PhaseShape
  <2>4. QED  BY <1>2, <2>2, <2>3 DEF Dies, Ends
<1>3. ASSUME NEW p \in Workers, Exits(p) \/ Crash(p) PROVE DataTypeOK'
  BY <1>2, <1>3 DEF Exits, Crash
<1>4. ASSUME NEW r \in Requests, Snapshots(r) PROVE DataTypeOK'
  <2>1. db' \in DbShape /\ wal' \in {"none", "live"} /\ parted' \in BOOLEAN
    BY <1>4, Connected DEF Snapshots
  <2>2. [op |-> "backup", db |-> db'] \in RequestShape  BY <2>1 DEF RequestShape
  <2>3. QED  BY <1>4, <2>1, <2>2 DEF Snapshots, ServeKeeps, Local
<1>5. ASSUME NEW r \in Requests, NEW b \in bundles, AsksRestore(r, b) PROVE DataTypeOK'
  <2>1. [op |-> "restore", pc |-> "key", from |-> b] \in RequestShape  BY DEF RequestShape
  <2>2. QED  BY <1>5, <2>1 DEF AsksRestore, ServeKeeps, Local
<1>6. ASSUME NEW r \in Requests, Bundles(r) PROVE DataTypeOK'
  <2> DEFINE torn2 == parted \/ raced # {} \/ Restores # {}
  <2>1. torn2 \in BOOLEAN  OBVIOUS
  <2>2. /\ bundles' = bundles \cup {[key |-> config, db |-> request[r].db, torn |-> torn2]}
        /\ request' = [request EXCEPT ![r] = NoRequest]
        /\ UNCHANGED <<phase, memKey, applied, at, raced, config, db, wal, parted>>
    BY <1>6 DEF Bundles, ServeKeeps, Local
  <2>3. request[r].db \in DbShape  BY <1>6, RequestKinds DEF Bundles
  <2> HIDE DEF torn2
  <2>4. bundles' \subseteq BundleShape  BY <2>1, <2>2, <2>3 DEF BundleShape
  <2>5. request' \in [Requests -> RequestShape]  BY <2>2 DEF RequestShape
  <2>6. QED  BY <2>2, <2>4, <2>5
<1>7. ASSUME NEW r \in Requests, request[r].op = "restore", NEW pc \in {"key", "db", "wal", "exit"},
             Step(r, pc)
      PROVE  request' \in [Requests -> RequestShape]
  <2>1. [request[r] EXCEPT !.pc = pc] \in [op : {"restore"}, pc : {"key", "db", "wal", "exit"},
                                           from : BundleShape]
    BY <1>7, RequestKinds
  <2>2. [request[r] EXCEPT !.pc = pc] \in RequestShape  BY <2>1 DEF RequestShape
  <2>3. QED  BY <1>7, <2>2 DEF Step
<1>8. Meets \subseteq {"key", "restore"}  BY DEF Meets
<1>9. ASSUME NEW r \in Requests, RestoresKey(r) PROVE DataTypeOK'
  <2>1. request[r].from.key \in Keys \cup {NoKey}
    BY <1>9, RequestKinds DEF RestoresKey, BundleShape
  <2>2. request' \in [Requests -> RequestShape]  BY <1>7, <1>9 DEF RestoresKey
  <2>3. QED  BY <1>8, <1>9, <2>1, <2>2 DEF RestoresKey, Local
<1>10. ASSUME NEW r \in Requests, RestoresDb(r) PROVE DataTypeOK'
  <2>1. request[r].from.db \in DbShape /\ request[r].from.torn \in BOOLEAN
    BY <1>10, RequestKinds DEF RestoresDb, BundleShape
  <2>2. request' \in [Requests -> RequestShape]  BY <1>7, <1>10 DEF RestoresDb
  <2>3. QED  BY <1>8, <1>10, <2>1, <2>2 DEF RestoresDb, Local
<1>11. ASSUME NEW r \in Requests, DropsLog(r) PROVE DataTypeOK'
  <2>1. db' \in DbShape  BY <1>11, SpoiltShape DEF DropsLog
  <2>2. request' \in [Requests -> RequestShape]  BY <1>7, <1>11 DEF DropsLog
  <2>3. /\ wal' = "none"
        /\ UNCHANGED <<phase, memKey, applied, at, raced, config, bundles, parted>>
    BY <1>11 DEF DropsLog, ServeKeeps, Local
  <2>4. QED  BY <2>1, <2>2, <2>3
<1>12. QED  BY <1>1, <1>3, <1>4, <1>5, <1>6, <1>9, <1>10, <1>11 DEF Serves

(* What is asked of the certificate alone. *)
CertOnly ==
  \/ \E i \in Installers : /\ Installs(i) \/ InstallFails(i) \/ (Up # {} /\ Asks(i))
                           /\ UNCHANGED dataVars
  \/ \E i \in Installers : PreparesCert(i)
  \/ CertCrash

LEMMA CertOnlyKeeps == CertOnly => UNCHANGED dataVars
  BY DEF CertOnly, CertCrash, PreparesCert

LEMMA DataTypeStep ==
  ASSUME TypeOK, KeyComesFirst, [Next]_vars
  PROVE  DataTypeOK'
<1>1. CASE CertOnly \/ UNCHANGED vars
  BY <1>1, CertOnlyKeeps DEF vars, dataVars, TypeOK, DataTypeOK
<1>2. CASE Next /\ ~CertOnly
  BY <1>2, BootTyped, ServeTyped DEF Next, CertOnly
<1>3. QED  BY <1>1, <1>2
-----------------------------------------------------------------------------
(***************************************************************************)
(* The certificate: what is being installed is a pair, and each of its     *)
(* files is in place before the next step counts on it.                    *)
(***************************************************************************)
InstallShape == [pc : {"write", "move", "clean"}, slot : Slots, pair : [Slots -> Pairs],
                 alone : BOOLEAN]

CertInv == CertTypeOK /\ CertKept

LEMMA InstallKinds ==
  ASSUME CertTypeOK, NEW i \in Installers
  PROVE  /\ install[i] # NoInstall => install[i] \in InstallShape
         /\ install[i].pc \in {"write", "move", "clean"} => install[i] # NoInstall
  BY DEF CertTypeOK, NoInstall, InstallShape

(* Nothing is done to the files. *)
LEMMA CertAlone ==
  ASSUME CertInv, UNCHANGED <<served, tmp, install, torn>>, budget' \in Nat
  PROVE  CertInv'
  BY DEF CertInv, CertTypeOK, CertKept, PairMatches, Installing

LEMMA CertBegins ==
  ASSUME CertInv, NEW i \in Installers, NEW pair \in [Slots -> Pairs], pair["cert"] = pair["key"],
         install[i] = NoInstall, Begins(i, pair), budget' \in Nat
  PROVE  CertInv'
<1> DEFINE n == [pc |-> "write", slot |-> "cert", pair |-> pair, alone |-> Installing = {}]
           Other(j) == [install[j] EXCEPT !.alone = FALSE]
<1>1. /\ n \in InstallShape /\ n # NoInstall /\ n.pc = "write" /\ n.slot = "cert" /\ n.pair = pair
      /\ n.alone <=> Installing = {}
  BY DEF InstallShape, Slots, NoInstall
<1>2. /\ install' = [j \in Installers |-> IF j = i THEN n
                                          ELSE IF install[j] = NoInstall THEN NoInstall ELSE Other(j)]
      /\ torn' = (torn \/ Installing # {}) /\ UNCHANGED <<served, tmp>>
  BY DEF Begins
<1>3. ASSUME NEW j \in Installers, install[j] # NoInstall
      PROVE  Other(j) \in InstallShape /\ Other(j) # NoInstall /\ ~Other(j).alone
  <2>1. install[j] \in InstallShape  BY <1>3, InstallKinds DEF CertInv
  <2>2. QED  BY <2>1 DEF InstallShape, NoInstall
<1> HIDE DEF n, Other
<1>4. CertTypeOK'
  <2>1. \A j \in Installers : install'[j] \in {NoInstall} \cup InstallShape
    BY <1>1, <1>2, <1>3
  <2>2. torn' \in BOOLEAN  BY <1>2 DEF CertInv, CertTypeOK
  <2>3. install' \in [Installers -> {NoInstall} \cup InstallShape]  BY <1>2, <2>1
  <2>4. QED  BY <1>2, <2>2, <2>3 DEF CertInv, CertTypeOK, InstallShape
<1>5. install'[i] = n /\ i \in Installing'  BY <1>1, <1>2 DEF Installing
<1>6. \A j \in Installing' : j # i => j \in Installing /\ ~install'[j].alone
  BY <1>2, <1>3 DEF Installing
<1>7. \A j \in Installing' : install'[j].alone => j = i /\ Installing = {} /\ Installing' = {i}
  BY <1>1, <1>5, <1>6
<1>8. OnItsWay(n, served', tmp')  BY <1>1 DEF OnItsWay
<1>9. PairMatches'  BY <1>5 DEF PairMatches
<1>10. ~torn' => \A j \in Installing' : install'[j].alone
  BY <1>1, <1>2, <1>5, <1>6 DEF CertInv, CertTypeOK
<1>11. CertKept'  BY <1>5, <1>7, <1>8, <1>9, <1>10 DEF CertKept
<1>12. QED  BY <1>4, <1>11 DEF CertInv

(* The process ends. *)
LEMMA CertEnds ==
  ASSUME CertInv, CertStops, budget' \in Nat
  PROVE  CertInv'
<1>1. Installing' = {}  BY DEF CertStops, Installing
<1>2. CertTypeOK'  BY DEF CertInv, CertTypeOK, CertStops
<1>3. ~torn' => PairMatches'  BY DEF CertInv, CertTypeOK, CertKept, PairMatches, CertStops
<1>4. QED  BY <1>1, <1>2, <1>3 DEF CertInv, CertKept

(* An installation goes on, ... *)
LEMMA CertGoesOn ==
  ASSUME CertInv, NEW i \in Installers, install[i] # NoInstall,
         NEW n \in InstallShape, install' = [install EXCEPT ![i] = n],
         n.alone = install[i].alone, n.alone => OnItsWay(n, served', tmp'),
         served' \in [Slots -> Pairs \cup {NoFile}], tmp' \in [Slots -> Pairs \cup {NoFile}],
         UNCHANGED <<torn, budget>>
  PROVE  CertInv'
<1>1. n # NoInstall  BY DEF InstallShape, NoInstall
<1>2. CertTypeOK'  BY DEF CertInv, CertTypeOK, InstallShape
<1>3. /\ install'[i] = n /\ Installing' = Installing /\ i \in Installing
      /\ \A j \in Installing : j # i => install'[j] = install[j]
  BY <1>1 DEF CertInv, CertTypeOK, Installing
<1>4. \A j \in Installing' : install'[j].alone = install[j].alone  BY <1>3
<1>5. \A j, k \in Installing' : install'[j].alone => j = k
  BY <1>3, <1>4 DEF CertInv, CertKept
<1>6. \A j \in Installing' : install'[j].alone => OnItsWay(install'[j], served', tmp')
  BY <1>3, <1>5
<1>7. PairMatches'  BY <1>3 DEF PairMatches
<1>8. CertKept'  BY <1>3, <1>4, <1>5, <1>6, <1>7 DEF CertInv, CertKept
<1>9. QED  BY <1>2, <1>8 DEF CertInv

(* ... and ends, whole or not. *)
LEMMA CertFinishes ==
  ASSUME CertInv, NEW i \in Installers, install[i] # NoInstall,
         install' = [install EXCEPT ![i] = NoInstall],
         torn' \in BOOLEAN, torn' \/ (install[i].alone /\ served'["cert"] = served'["key"]),
         served' \in [Slots -> Pairs \cup {NoFile}], tmp' \in [Slots -> Pairs \cup {NoFile}],
         budget' \in Nat
  PROVE  CertInv'
<1>1. CertTypeOK'  BY DEF CertInv, CertTypeOK
<1>2. /\ Installing' = Installing \ {i} /\ i \in Installing
      /\ \A j \in Installing' : install'[j] = install[j]
  BY DEF CertInv, CertTypeOK, Installing
<1>3. \A j \in Installing' : ~install'[j].alone
  BY <1>2 DEF CertInv, CertKept
<1>4. install[i].alone => Installing' = {}  BY <1>2 DEF CertInv, CertKept
<1>5. ~torn' => PairMatches' /\ \A j \in Installing' : install'[j].alone
  BY <1>4 DEF PairMatches
<1>6. CertKept'  BY <1>3, <1>5 DEF CertKept
<1>7. QED  BY <1>1, <1>6 DEF CertInv

LEMMA CertInstalls ==
  ASSUME CertInv, NEW i \in Installers, Installs(i) \/ InstallFails(i)
  PROVE  CertInv'
<1> DEFINE n == install[i]
<1>1. /\ n # NoInstall /\ n \in InstallShape /\ n.slot \in Slots /\ n.pair \in [Slots -> Pairs]
      /\ n.alone \in BOOLEAN /\ i \in Installing
  <2>1. n # NoInstall \/ n.pc \in {"write", "move", "clean"}
    BY DEF Installs, Writes, Moves, Cleans, InstallFails
  <2>2. n # NoInstall /\ n \in InstallShape  BY <2>1, InstallKinds DEF CertInv
  <2>3. QED  BY <2>2 DEF InstallShape, Installing
<1>2. /\ served \in [Slots -> Pairs \cup {NoFile}] /\ tmp \in [Slots -> Pairs \cup {NoFile}]
      /\ install \in [Installers -> {NoInstall} \cup InstallShape]
      /\ "cert" \in Slots /\ "key" \in Slots /\ budget \in Nat
  BY DEF CertInv, CertTypeOK, InstallShape, Slots
<1>3. n.alone => OnItsWay(n, served, tmp)  BY <1>1 DEF CertInv, CertKept
<1>4. CASE Writes(i)
  <2> DEFINE m == [n EXCEPT !.pc = "move"]
  <2>1. m \in InstallShape /\ m.pc = "move" /\ m.slot = n.slot /\ m.pair = n.pair /\ m.alone = n.alone
    BY <1>1 DEF InstallShape
  <2>2. /\ install' = [install EXCEPT ![i] = m] /\ tmp' = [tmp EXCEPT ![n.slot] = n.pair[n.slot]]
        /\ UNCHANGED <<served, torn, budget>>
    BY <1>4 DEF Writes
  <2> HIDE DEF m, n
  <2>3. m.alone => OnItsWay(m, served', tmp')
    BY <1>1, <1>2, <1>3, <2>1, <2>2 DEF OnItsWay
  <2>4. tmp' \in [Slots -> Pairs \cup {NoFile}]  BY <1>1, <1>2, <2>2
  <2>5. QED  BY <1>1, <1>2, <2>1, <2>2, <2>3, <2>4, CertGoesOn DEF n
<1>5. CASE Moves(i)
  <2>1. n.pc = "move" /\ UNCHANGED budget  BY <1>5 DEF Moves
  <2>2. n.alone => tmp[n.slot] = n.pair[n.slot]
    BY <1>1, <1>3, <2>1 DEF OnItsWay
  <2>3. CASE tmp[n.slot] = NoFile
    <3>1. install' = [install EXCEPT ![i] = NoInstall] /\ torn' = TRUE /\ UNCHANGED <<served, tmp>>
      BY <1>5, <2>3 DEF Moves
    <3>2. QED  BY <1>1, <1>2, <2>1, <3>1, CertFinishes
  <2>4. CASE tmp[n.slot] # NoFile
    <3> DEFINE m == [n EXCEPT !.pc = "clean"]
    <3>1. m \in InstallShape /\ m.pc = "clean" /\ m.slot = n.slot /\ m.pair = n.pair /\ m.alone = n.alone
      BY <1>1 DEF InstallShape
    <3>2. /\ install' = [install EXCEPT ![i] = m] /\ served' = [served EXCEPT ![n.slot] = tmp[n.slot]]
          /\ tmp' = [tmp EXCEPT ![n.slot] = NoFile] /\ UNCHANGED torn
      BY <1>5, <2>4 DEF Moves
    <3> HIDE DEF m, n
    <3>3. m.alone => OnItsWay(m, served', tmp')
      <4> SUFFICES ASSUME n.alone PROVE OnItsWay(m, served', tmp')
        BY <3>1
      <4>1. served'[n.slot] = n.pair[n.slot]  BY <1>1, <1>2, <2>2, <3>2
      <4>2. n.slot = "key" => served'["cert"] = n.pair["cert"]
        BY <1>2, <1>3, <3>2 DEF OnItsWay
      <4>3. QED  BY <1>3, <3>1, <4>1, <4>2 DEF OnItsWay
    <3>4. /\ served' \in [Slots -> Pairs \cup {NoFile}]
          /\ tmp' \in [Slots -> Pairs \cup {NoFile}]
      BY <1>1, <1>2, <3>2
    <3>5. QED  BY <1>1, <1>2, <2>1, <3>1, <3>2, <3>3, <3>4, CertGoesOn DEF n
  <2>5. QED  BY <2>3, <2>4
<1>6. CASE Cleans(i)
  <2>1. /\ n.pc = "clean" /\ UNCHANGED <<served, budget>>
        /\ tmp' = [tmp EXCEPT ![n.slot] = NoFile]
        /\ torn' = (torn /\ (n.slot = "cert" \/ ~n.alone))
    BY <1>6 DEF Cleans
  <2>2. tmp' \in [Slots -> Pairs \cup {NoFile}] /\ torn \in BOOLEAN /\ torn' \in BOOLEAN
    BY <1>1, <1>2, <2>1 DEF CertInv, CertTypeOK
  <2>3. CASE n.slot = "cert"
    <3> DEFINE m == [n EXCEPT !.pc = "write", !.slot = "key"]
    <3>1. m \in InstallShape /\ m.pc = "write" /\ m.slot = "key" /\ m.pair = n.pair /\ m.alone = n.alone
      BY <1>1, <1>2 DEF InstallShape
    <3>2. install' = [install EXCEPT ![i] = m] /\ UNCHANGED torn
      <4>1. install' = [install EXCEPT ![i] = m]  BY <1>6, <2>3 DEF Cleans
      <4>2. UNCHANGED torn  BY <2>1, <2>2, <2>3
      <4>3. QED  BY <4>1, <4>2
    <3> HIDE DEF m, n
    <3>3. m.alone => OnItsWay(m, served', tmp')
      BY <1>3, <2>1, <2>3, <3>1 DEF OnItsWay
    <3>4. QED  BY <1>1, <1>2, <2>1, <2>2, <3>1, <3>2, <3>3, CertGoesOn DEF n
  <2>4. CASE n.slot = "key"
    <3>1. install' = [install EXCEPT ![i] = NoInstall]  BY <1>6, <2>4 DEF Cleans
    <3>2. n.alone => served["cert"] = served["key"]  BY <1>3, <2>1, <2>4 DEF OnItsWay
    <3>3. torn' \/ (n.alone /\ served'["cert"] = served'["key"])
      <4>1. CASE torn /\ ~n.alone  BY <2>1, <4>1
      <4>2. CASE ~torn
        <5>1. n.alone  BY <1>1, <4>2 DEF CertInv, CertKept
        <5>2. QED  BY <2>1, <3>2, <5>1
      <4>3. CASE n.alone  BY <2>1, <3>2, <4>3
      <4>4. QED  BY <4>1, <4>2, <4>3
    <3>4. QED  BY <1>1, <1>2, <2>1, <2>2, <3>1, <3>3, CertFinishes
  <2>5. QED  BY <1>1, <2>3, <2>4 DEF Slots
<1>7. CASE InstallFails(i)
  <2>1. /\ install' = [install EXCEPT ![i] = NoInstall] /\ torn' = TRUE /\ UNCHANGED served
        /\ tmp' \in {tmp, [tmp EXCEPT ![n.slot] = NoFile]} /\ Spends
    BY <1>7 DEF InstallFails
  <2>2. tmp' \in [Slots -> Pairs \cup {NoFile}] /\ budget' \in Nat
    BY <1>1, <1>2, <2>1 DEF Spends
  <2>3. QED  BY <1>1, <1>2, <2>1, <2>2, CertFinishes
<1>8. QED  BY <1>4, <1>5, <1>6, <1>7 DEF Installs

(* What is asked of the certificate, by people or by the start of the      *)
(* container.                                                              *)
LEMMA CertRequests ==
  ASSUME CertInv, NEW i \in Installers, PreparesCert(i) \/ Asks(i)
  PROVE  CertInv'
<1>1. ASSUME Spends PROVE budget' \in Nat
  BY <1>1 DEF Spends, CertInv, CertTypeOK
<1>2. \A p \in Pairs : [cert |-> p, key |-> p] \in [Slots -> Pairs]
                       /\ [cert |-> p, key |-> p]["cert"] = [cert |-> p, key |-> p]["key"]
  BY DEF Slots
<1>3. CASE PreparesCert(i)
  <2> DEFINE p == CHOOSE q \in Pairs : TRUE
  <2>1. p \in Pairs  BY CertAssumption
  <2>2. install[i] = NoInstall /\ Begins(i, [cert |-> p, key |-> p]) /\ UNCHANGED budget
    BY <1>3 DEF PreparesCert, Idle
  <2> HIDE DEF p
  <2>3. budget' \in Nat  BY <2>2 DEF CertInv, CertTypeOK
  <2>4. QED  BY <1>2, <2>1, <2>2, <2>3, CertBegins
<1>4. ASSUME NEW c \in Pairs, NEW k \in Pairs, Uploads(i, c, k) PROVE CertInv'
  <2>1. /\ c = k /\ install[i] = NoInstall /\ Spends /\ Begins(i, [cert |-> c, key |-> c])
    BY <1>4 DEF Uploads, Accepts, Idle
  <2>2. QED  BY <1>1, <1>2, <2>1, CertBegins
<1>5. ASSUME NEW p \in Pairs, Regenerates(i, p) PROVE CertInv'
  <2>1. install[i] = NoInstall /\ Spends /\ Begins(i, [cert |-> p, key |-> p])
    BY <1>5 DEF Regenerates, Idle
  <2>2. QED  BY <1>1, <1>2, <2>1, CertBegins
<1>6. QED  BY <1>3, <1>4, <1>5 DEF Asks

LEMMA CertStep == CertInv /\ [Next]_vars => CertInv'
<1> SUFFICES ASSUME CertInv, [Next]_vars PROVE CertInv'
  OBVIOUS
<1>0. budget \in Nat  BY DEF CertInv, CertTypeOK
<1>s. Spends => budget' \in Nat  BY <1>0 DEF Spends
<1>1. CASE UNCHANGED vars  BY <1>0, <1>1, CertAlone DEF vars, certVars
<1>2. ASSUME NEW p \in Workers, Boots(p) PROVE CertInv'
  <2>1. UNCHANGED <<served, tmp, install, torn>> /\ budget' \in Nat
    BY <1>0, <1>2, <1>s DEF Boots, Starts, Loads, WritesKey, Opens, Executes, Records, LooksForAdmin, AddsAdmin,
                      LooksForMission, AddsMission, Chokes, Guards, BootKeeps, KeyKept, Untouched, certVars
  <2>2. QED  BY <2>1, CertAlone
<1>3. ASSUME NEW p \in Workers, Exits(p) \/ Crash(p) PROVE CertInv'
  <2>1. budget' \in Nat  BY <1>0, <1>3, <1>s DEF Exits, Crash
  <2>2. CertStops \/ UNCHANGED <<served, tmp, install, torn>>
    BY <1>3 DEF Exits, Crash, Dies
  <2>3. QED  BY <2>1, <2>2, CertAlone, CertEnds
<1>4. ASSUME \/ \E p \in Workers : SavesSecret(p) \/ EditsData(p)
             \/ \E r \in Requests : \/ Snapshots(r) \/ Serves(r)
                                    \/ \E b \in bundles : AsksRestore(r, b)
      PROVE  CertInv'
  <2>1. UNCHANGED <<served, tmp, install, torn>> /\ budget' \in Nat
    BY <1>0, <1>4, <1>s DEF SavesSecret, EditsData, Commits, Snapshots, Serves, AsksRestore, Bundles, RestoresKey, RestoresDb,
                      DropsLog, certVars
  <2>2. QED  BY <2>1, CertAlone
<1>5. CASE CertCrash
  BY <1>5, <1>s, CertEnds DEF CertCrash
<1>6. QED
  BY <1>1, <1>2, <1>3, <1>4, <1>5, CertInstalls, CertRequests DEF Next
-----------------------------------------------------------------------------
(***************************************************************************)
(* The key.                                                                *)
(***************************************************************************)
GoingTo(p, ph) == phase' = [phase EXCEPT ![p] = ph]

(* What the start of a process does to the key and the database's secrets. *)
BootEffect(p) ==
  /\ UNCHANGED <<request, bundles>>
  /\ ~parted' => ~parted /\ wal' = wal
  /\ ~parted' /\ ~db.mixed => db'.sealed = db.sealed /\ ~db'.mixed
  /\ raced \subseteq raced'
  /\ \/ phase[p] = "down" /\ GoingTo(p, "load") /\ UNCHANGED <<memKey, config>>
     \/ /\ phase[p] = "load" /\ config # NoKey /\ GoingTo(p, "open")
        /\ memKey' = [memKey EXCEPT ![p] = config] /\ UNCHANGED config
     \/ /\ phase[p] = "load" /\ config = NoKey /\ GoingTo(p, "write")
        /\ \E k \in Keys : memKey' = [memKey EXCEPT ![p] = k]
        /\ raced' = {} => \A q \in Workers : phase[q] # "write"
        /\ UNCHANGED config
     \/ phase[p] = "write" /\ config' = memKey[p] /\ GoingTo(p, "open") /\ UNCHANGED memKey
     \/ phase[p] \in Late /\ (\E ph \in Late : GoingTo(p, ph)) /\ UNCHANGED <<memKey, config>>
     \/ /\ phase[p] \in Late /\ GoingTo(p, "down")
        /\ memKey' = [memKey EXCEPT ![p] = NoKey] /\ UNCHANGED config
     \/ phase[p] = "guard" /\ Up = {} /\ GoingTo(p, "up") /\ UNCHANGED <<memKey, config>>

LEMMA BootsDo ==
  ASSUME TypeOK, NEW p \in Workers, Boots(p)
  PROVE  BootEffect(p)
<1> USE DEF GoingTo
<1>t. /\ phase \in [Workers -> PhaseShape] /\ db \in DbShape /\ parted \in BOOLEAN
      /\ wal \in {"none", "live", "stale"} /\ config \in Keys \cup {NoKey}
  BY DEF TypeOK
<1>d. ASSUME NEW new \in DbShape, OnDb(new), new.sealed = db.sealed, new.mixed = db.mixed
      PROVE  /\ ~parted' => ~parted /\ wal' = wal
             /\ ~parted' /\ ~db.mixed => db'.sealed = db.sealed /\ ~db'.mixed
  <2>1. ~parted' => ~parted /\ wal' = wal /\ wal # "stale"  BY <1>t, <1>d, Connected
  <2>2. ~Spoiled => db' = new  BY <1>t, <1>d, Connected
  <2>3. QED  BY <1>d, <2>1, <2>2 DEF Spoiled
<1>1. CASE Starts(p)
  BY <1>1, <1>t DEF Starts, GoesTo, BootEffect
<1>2. CASE Loads(p)
  <2>1. /\ UNCHANGED <<request, bundles, config, db, wal, parted>> /\ phase[p] = "load"
        /\ raced \subseteq raced'
    BY <1>2 DEF Loads, BootKeeps
  <2>2. CASE config # NoKey
    <3>1. GoingTo(p, "open") /\ memKey' = [memKey EXCEPT ![p] = config]
      BY <1>2, <2>2 DEF Loads
    <3>2. QED  BY <2>1, <2>2, <3>1 DEF BootEffect
  <2>3. CASE config = NoKey
    <3> DEFINE k == CHOOSE x \in FreshKeys : TRUE
    <3>1. k \in Keys  BY <1>2, <2>3 DEF Loads, FreshKeys
    <3>2. /\ GoingTo(p, "write") /\ memKey' = [memKey EXCEPT ![p] = k]
          /\ raced' = {} => \A q \in Workers : phase[q] # "write"
      BY <1>2, <2>3 DEF Loads
    <3> HIDE DEF k
    <3>3. QED  BY <2>1, <2>3, <3>1, <3>2 DEF BootEffect
  <2>4. QED  BY <2>2, <2>3
<1>3. CASE WritesKey(p)
  BY <1>3 DEF WritesKey, GoesTo, BootEffect, BootKeeps
<1>l. "migrate" \in Late /\ "add_admin" \in Late /\ "mission" \in Late /\ "add_mission" \in Late
      /\ "guard" \in Late /\ "open" \in Late
  BY DEF Late
<1>4. CASE Opens(p)
  <2>1. /\ UNCHANGED <<request, bundles, config, raced, memKey>> /\ phase[p] = "open"
        /\ GoingTo(p, "migrate") /\ OnDb(db)
    BY <1>4 DEF Opens, KeyKept, BootKeeps
  <2>2. QED  BY <1>d, <1>l, <1>t, <2>1 DEF BootEffect
<1>m. phase[p] = phase[p] => phase = [phase EXCEPT ![p] = phase[p]]  BY <1>t
<1>5. CASE Executes(p)
  <2>1. Current(p) \in Versions /\ <<Current(p), at[p]>> \in Statements
    BY <1>5, CurrentIsMissing, StatementsAre DEF Executes
  <2> DEFINE s == <<Current(p), at[p]>>
             new == [db EXCEPT !.done = @ \cup {s}]
  <2>2. new \in DbShape /\ new.sealed = db.sealed /\ new.mixed = db.mixed
    BY <1>t, <2>1 DEF DbShape
  <2>3. UNCHANGED <<request, bundles, config, raced>> /\ phase[p] = "migrate"
    BY <1>5 DEF Executes, KeyKept, BootKeeps
  <2>4. \/ Ends(p) /\ OnDb(db)
        \/ OnDb(new) /\ UNCHANGED <<phase, memKey>>
    BY <1>5 DEF Executes
  <2> HIDE DEF new
  <2>5. CASE Ends(p) /\ OnDb(db)
    BY <1>d, <1>l, <1>t, <2>3, <2>5 DEF BootEffect, Ends
  <2>6. CASE OnDb(new) /\ UNCHANGED <<phase, memKey>>
    <3>1. \E ph \in Late : GoingTo(p, ph)  BY <1>l, <1>m, <2>3, <2>6
    <3>2. QED  BY <1>d, <1>l, <2>2, <2>3, <2>6, <3>1 DEF BootEffect
  <2>7. QED  BY <2>4, <2>5, <2>6
<1>6. CASE Records(p)
  <2>1. Current(p) \in Versions  BY <1>6, CurrentIsMissing DEF Records
  <2> DEFINE new == [db EXCEPT !.versions = @ \cup {Current(p)}]
  <2>2. new \in DbShape /\ new.sealed = db.sealed /\ new.mixed = db.mixed
    BY <1>t, <2>1 DEF DbShape
  <2>3. UNCHANGED <<request, bundles, config, raced>> /\ phase[p] = "migrate"
    BY <1>6 DEF Records, KeyKept, BootKeeps
  <2>4. \/ Ends(p) /\ OnDb(db)
        \/ OnDb(new) /\ UNCHANGED <<phase, memKey>>
    BY <1>6 DEF Records
  <2> HIDE DEF new
  <2>5. CASE Ends(p) /\ OnDb(db)
    BY <1>d, <1>l, <1>t, <2>3, <2>5 DEF BootEffect, Ends
  <2>6. CASE OnDb(new) /\ UNCHANGED <<phase, memKey>>
    <3>1. \E ph \in Late : GoingTo(p, ph)  BY <1>l, <1>m, <2>3, <2>6
    <3>2. QED  BY <1>d, <1>l, <2>2, <2>3, <2>6, <3>1 DEF BootEffect
  <2>7. QED  BY <2>4, <2>5, <2>6
<1>7. CASE LooksForAdmin(p)
  <2>1. /\ UNCHANGED <<request, bundles, config, raced, memKey>> /\ phase[p] = "migrate" /\ OnDb(db)
        /\ \E ph \in Late : GoingTo(p, ph)
    BY <1>7, <1>l DEF LooksForAdmin, KeyKept, BootKeeps
  <2>2. QED  BY <1>d, <1>l, <1>t, <2>1 DEF BootEffect
<1>8. CASE AddsAdmin(p)
  <2> DEFINE new == [db EXCEPT !.account = "here"]
  <2>1. new \in DbShape /\ new.sealed = db.sealed /\ new.mixed = db.mixed
    BY <1>t, DbGrows DEF DbShape
  <2>2. /\ UNCHANGED <<request, bundles, config, raced>> /\ phase[p] = "add_admin" /\ OnDb(new)
        /\ GoesTo(p, "mission") \/ Ends(p)
    BY <1>8 DEF AddsAdmin, KeyKept, BootKeeps, GoesOnIf
  <2> HIDE DEF new
  <2>3. CASE GoesTo(p, "mission")
    BY <1>d, <1>l, <2>1, <2>2, <2>3 DEF BootEffect, GoesTo
  <2>4. CASE Ends(p)
    BY <1>d, <1>l, <2>1, <2>2, <2>4 DEF BootEffect, Ends
  <2>5. QED  BY <2>2, <2>3, <2>4
<1>9. CASE LooksForMission(p)
  <2>1. /\ UNCHANGED <<request, bundles, config, raced, memKey>> /\ phase[p] = "mission" /\ OnDb(db)
        /\ \E ph \in Late : GoingTo(p, ph)
    BY <1>9, <1>l DEF LooksForMission, KeyKept, BootKeeps, GoesTo
  <2>2. QED  BY <1>d, <1>l, <1>t, <2>1 DEF BootEffect
<1>10. CASE AddsMission(p)
  <2> DEFINE new == [db EXCEPT !.mission = "here"]
  <2>1. new \in DbShape /\ new.sealed = db.sealed /\ new.mixed = db.mixed
    BY <1>t, DbGrows DEF DbShape
  <2>2. /\ UNCHANGED <<request, bundles, config, raced, memKey>> /\ phase[p] = "add_mission" /\ OnDb(new)
        /\ \E ph \in Late : GoingTo(p, ph)
    BY <1>10, <1>l DEF AddsMission, KeyKept, BootKeeps, GoesTo
  <2> HIDE DEF new
  <2>3. QED  BY <1>d, <1>l, <2>1, <2>2 DEF BootEffect
<1>11. CASE Guards(p)
  <2>1. /\ UNCHANGED <<request, bundles, config, db, wal, parted, raced>> /\ phase[p] = "guard"
        /\ (Up = {} /\ GoesTo(p, "up")) \/ Ends(p)
    BY <1>11 DEF Guards, GoesOnIf, Untouched, BootKeeps
  <2>2. CASE Up = {} /\ GoesTo(p, "up")  BY <2>1, <2>2 DEF BootEffect, GoesTo
  <2>3. CASE Ends(p)  BY <1>l, <2>1, <2>3 DEF BootEffect, Ends
  <2>4. QED  BY <2>1, <2>2, <2>3
<1>12. CASE Chokes(p)
  <2>1. /\ UNCHANGED <<request, bundles, config, raced>> /\ phase[p] \in Late /\ Ends(p) /\ OnDb(db)
    BY <1>12 DEF Chokes, KeyKept, BootKeeps, Late
  <2>2. QED  BY <1>d, <1>t, <2>1 DEF BootEffect, Ends
<1>13. QED
  BY <1>1, <1>2, <1>3, <1>4, <1>5, <1>6, <1>7, <1>8, <1>9, <1>10, <1>11, <1>12 DEF Boots

LEMMA KeyBoots ==
  ASSUME TypeOK, KeyInv, NEW p \in Workers, BootEffect(p)
  PROVE  KeyInv'
<1> USE DEF GoingTo
<1>1. /\ phase \in [Workers -> PhaseShape] /\ memKey \in [Workers -> Keys \cup {NoKey}]
      /\ NoKey \notin Keys /\ db.sealed \subseteq Keys
  BY DataAssumption DEF TypeOK, DbShape
<1>2. /\ UNCHANGED <<request, bundles>>
      /\ ~parted' => ~parted /\ wal' = wal
      /\ ~parted' /\ ~db.mixed => db'.sealed = db.sealed /\ ~db'.mixed
      /\ raced' = {} => raced = {}
      /\ Restores' = Restores /\ Replaced' = Replaced
  BY DEF BootEffect, Restores, Replaced
<1>3. BundlesFit'  BY <1>2 DEF KeyInv, BundlesFit
<1>4. ASSUME UNCHANGED config PROVE KeyOpens(config, db) /\ ~parted' => KeyOpens(config', db')
  BY <1>2, <1>4 DEF KeyOpens
(* Where neither the file nor who serves changes. *)
<1>5. ASSUME UNCHANGED config, \A q \in Up' : q \in Up /\ memKey'[q] = memKey[q]
      PROVE  KeyFits'
  <2> SUFFICES ASSUME ~parted', raced' = {} PROVE
        /\ \A r, s \in Restores : r = s
        /\ \A r \in Restores : request[r].pc # "key" => config = request[r].from.key
        /\ (\A r \in Restores : request[r].pc # "db") => KeyOpens(config', db')
        /\ (\A r \in Restores : request[r].pc # "wal") => wal # "stale"
        /\ Replaced # {} => wal # "live"
        /\ (\A r \in Restores : request[r].pc = "key") => \A q \in Up' : memKey'[q] = config
        /\ Restores = {} =>
             \A r \in Requests : request[r].op = "backup" => KeyOpens(config, request[r].db)
    BY <1>2, <1>5 DEF KeyFits, KeyOpens
  <2>1. QED  BY <1>2, <1>4, <1>5 DEF KeyInv, KeyFits
<1>6. CASE phase[p] = "down" /\ GoingTo(p, "load") /\ UNCHANGED <<memKey, config>>
  <2>1. Up' = Up  BY <1>1, <1>6 DEF Up
  <2>2. OneServes' /\ KeyComesFirst' /\ OneKey'
    BY <1>1, <1>2, <1>6, <2>1 DEF KeyInv, OneServes, KeyComesFirst, OneKey, Late
  <2>3. QED  BY <1>3, <1>5, <1>6, <2>1, <2>2 DEF KeyInv
<1>7. CASE /\ phase[p] = "load" /\ config # NoKey /\ GoingTo(p, "open")
           /\ memKey' = [memKey EXCEPT ![p] = config] /\ UNCHANGED config
  <2>1. Up' = Up /\ p \notin Up  BY <1>1, <1>7 DEF Up
  <2>2. OneServes' /\ KeyComesFirst' /\ OneKey'
    BY <1>1, <1>2, <1>7, <2>1 DEF KeyInv, OneServes, KeyComesFirst, OneKey, Late
  <2>3. \A q \in Up : memKey'[q] = memKey[q]  BY <1>1, <1>7, <2>1 DEF Up
  <2>4. QED  BY <1>3, <1>5, <1>7, <2>1, <2>2, <2>3 DEF KeyInv
<1>8. CASE /\ phase[p] = "load" /\ config = NoKey /\ GoingTo(p, "write")
           /\ \E k \in Keys : memKey' = [memKey EXCEPT ![p] = k]
           /\ raced' = {} => \A q \in Workers : phase[q] # "write"
           /\ UNCHANGED config
  <2>1. Up' = Up /\ p \notin Up  BY <1>1, <1>8 DEF Up
  <2>2. memKey'[p] \in Keys /\ \A q \in Workers : q # p => memKey'[q] = memKey[q]
    BY <1>1, <1>8
  <2>3. phase'[p] = "write" /\ \A q \in Workers : q # p => phase'[q] = phase[q]
    BY <1>1, <1>8
  <2>4. OneServes'  BY <1>2, <2>1 DEF KeyInv, OneServes
  <2>5. KeyComesFirst'
    BY <1>1, <1>2, <1>8, <2>2, <2>3 DEF KeyInv, KeyComesFirst, Late
  <2>6. OneKey'
    BY <1>1, <1>2, <1>8, <2>2, <2>3 DEF KeyInv, OneKey, Late
  <2>7. \A q \in Up : memKey'[q] = memKey[q]  BY <2>1, <2>2 DEF Up
  <2>8. QED  BY <1>3, <1>5, <1>8, <2>1, <2>4, <2>5, <2>6, <2>7 DEF KeyInv
<1>9. CASE phase[p] = "write" /\ config' = memKey[p] /\ GoingTo(p, "open") /\ UNCHANGED memKey
  <2>1. Up' = Up  BY <1>1, <1>9 DEF Up
  <2>2. memKey[p] # NoKey /\ config' # NoKey  BY <1>9 DEF KeyInv, KeyComesFirst
  <2>3. OneServes' /\ KeyComesFirst'
    BY <1>1, <1>2, <1>9, <2>1, <2>2 DEF KeyInv, OneServes, KeyComesFirst, Late
  <2>4. ASSUME raced = {}
        PROVE  config = NoKey /\ \A q \in Workers : phase[q] \notin Late \cup {"up"}
                                                    /\ (phase[q] = "write" => q = p)
    BY <1>9, <2>4 DEF KeyInv, OneKey, KeyComesFirst
  <2>5. OneKey'  BY <1>1, <1>2, <1>9, <2>4 DEF OneKey, Late
  <2>6. ASSUME raced = {} PROVE Up = {} /\ \A r \in Requests : request[r] = NoRequest
    BY <2>4, <2>6 DEF KeyInv, OneServes, Up
  <2>7. ASSUME raced = {} PROVE Restores = {} /\ \A r \in Requests : request[r].op # "backup"
    BY <2>6, <2>7 DEF Restores, NoRequest
  <2>8. ASSUME ~parted', raced = {} PROVE KeyOpens(config', db') /\ wal' # "stale"
    BY <1>1, <1>2, <2>4, <2>7, <2>8 DEF KeyInv, KeyFits, KeyOpens
  <2>9. KeyFits'
    BY <1>2, <2>1, <2>6, <2>7, <2>8 DEF KeyFits, Replaced, KeyOpens
  <2>10. QED  BY <1>3, <2>3, <2>5, <2>9 DEF KeyInv
<1>10. CASE phase[p] \in Late /\ (\E ph \in Late : GoingTo(p, ph)) /\ UNCHANGED <<memKey, config>>
  <2>1. /\ phase'[p] \in Late /\ phase[p] \in Late /\ "up" \notin Late /\ "write" \notin Late
        /\ \A q \in Workers : q # p => phase'[q] = phase[q]
    BY <1>1, <1>10 DEF Late
  <2>2. Up' = Up  BY <2>1 DEF Up
  <2>3. OneServes' /\ KeyComesFirst' /\ OneKey'
    BY <1>1, <1>2, <1>10, <2>1, <2>2 DEF KeyInv, OneServes, KeyComesFirst, OneKey
  <2>4. QED  BY <1>3, <1>5, <1>10, <2>2, <2>3 DEF KeyInv
<1>11. CASE /\ phase[p] \in Late /\ GoingTo(p, "down")
            /\ memKey' = [memKey EXCEPT ![p] = NoKey] /\ UNCHANGED config
  <2>1. /\ phase'[p] = "down" /\ phase[p] \in Late /\ "up" \notin Late /\ "down" \notin Late
        /\ \A q \in Workers : q # p => phase'[q] = phase[q] /\ memKey'[q] = memKey[q]
    BY <1>1, <1>11 DEF Late
  <2>2. Up' = Up /\ \A q \in Up : memKey'[q] = memKey[q]  BY <2>1 DEF Up
  <2>3. OneServes' /\ KeyComesFirst' /\ OneKey'
    BY <1>1, <1>2, <1>11, <2>1, <2>2 DEF KeyInv, OneServes, KeyComesFirst, OneKey
  <2>4. QED  BY <1>3, <1>5, <1>11, <2>2, <2>3 DEF KeyInv
<1>12. CASE phase[p] = "guard" /\ Up = {} /\ GoingTo(p, "up") /\ UNCHANGED <<memKey, config>>
  <2>1. Up' = {p}  BY <1>1, <1>12 DEF Up
  <2>2. Restores = {} /\ \A r \in Requests : request[r] = NoRequest /\ request[r].op # "backup"
    BY <1>12 DEF KeyInv, OneServes, Restores, NoRequest
  <2>3. OneServes' /\ KeyComesFirst' /\ OneKey'
    BY <1>1, <1>2, <1>12, <2>1, <2>2 DEF KeyInv, OneServes, KeyComesFirst, OneKey, Late
  <2>4. raced = {} => memKey[p] = config  BY <1>12 DEF KeyInv, OneKey, Late
  <2>5. ASSUME ~parted', raced = {} PROVE KeyOpens(config', db') /\ wal' # "stale"
    BY <1>2, <1>12, <2>2, <2>5 DEF KeyInv, KeyFits, KeyOpens
  <2>6. KeyFits'
    BY <1>2, <1>12, <2>1, <2>2, <2>4, <2>5 DEF KeyFits, Replaced, KeyOpens
  <2>7. QED  BY <1>3, <2>3, <2>6 DEF KeyInv
<1>13. QED
  BY <1>6, <1>7, <1>8, <1>9, <1>10, <1>11, <1>12 DEF BootEffect

(* A step of a restore moves that restore on, and nothing else. *)
LEMMA StepMoves ==
  ASSUME TypeOK, NEW r \in Restores, NEW pc \in {"key", "db", "wal", "exit"}, Step(r, pc)
  PROVE  /\ request'[r].op = "restore" /\ request'[r].pc = pc /\ request'[r].from = request[r].from
         /\ \A s \in Requests : s # r => request'[s] = request[s]
         /\ Restores' = Restores
<1>1. request \in [Requests -> RequestShape] /\ r \in Requests  BY DEF TypeOK, Restores
<1>2. request[r] \in [op : {"restore"}, pc : {"key", "db", "wal", "exit"}, from : BundleShape]
  BY <1>1, RequestKinds DEF Restores
<1>3. request' = [request EXCEPT ![r] = [request[r] EXCEPT !.pc = pc]]  BY <1>1 DEF Step
<1>4. request'[r] = [request[r] EXCEPT !.pc = pc]  BY <1>1, <1>3
<1>5. request'[r].op = "restore" /\ request'[r].pc = pc /\ request'[r].from = request[r].from
  BY <1>2, <1>4
<1>6. \A s \in Requests : s # r => request'[s] = request[s]  BY <1>1, <1>3
<1>7. Restores' = Restores  BY <1>5, <1>6 DEF Restores
<1>8. QED  BY <1>5, <1>6, <1>7

(* A secret is saved, or other data. *)
LEMMA KeySaves ==
  ASSUME TypeOK, KeyInv, NEW p \in Workers, SavesSecret(p) \/ EditsData(p)
  PROVE  KeyInv'
<1>1. PICK new \in DbShape :
        /\ Commits(p, new) /\ new.mixed = db.mixed
        /\ new.sealed \subseteq db.sealed \cup {memKey[p]}
  BY CommitsShape DEF KeyInv
<1>2. /\ UNCHANGED <<config, request, bundles, phase, memKey, raced>>
      /\ p \in Up /\ wal' # "stale" /\ parted \in BOOLEAN
      /\ parted' = (parted \/ Replaced # {})
      /\ ~Spoiled => db' = new
  BY <1>1 DEF Commits, ServeKeeps, Local, Up, TypeOK
<1>3. Restores' = Restores /\ Replaced' = Replaced /\ Up' = Up
  BY <1>2 DEF Restores, Replaced, Up
<1>4. OneServes' /\ KeyComesFirst' /\ OneKey' /\ BundlesFit'
  BY <1>2, <1>3 DEF KeyInv, OneServes, KeyComesFirst, OneKey, BundlesFit
<1>5. ASSUME ~parted', raced' = {} PROVE ~parted /\ raced = {} /\ Replaced = {}
  BY <1>2, <1>5
<1>6. ASSUME ~parted', raced' = {}, \A r \in Restores : request[r].pc # "db"
      PROVE  KeyOpens(config, db')
  <2>1. \A r \in Restores : request[r].pc = "key"
    BY <1>5, <1>6, RequestKinds DEF Replaced, Restores
  <2>2. KeyOpens(config, db) /\ wal # "stale" /\ memKey[p] = config
    BY <1>2, <1>5, <1>6, <2>1 DEF KeyInv, KeyFits
  <2>3. QED  BY <1>1, <1>2, <2>2 DEF KeyOpens, Spoiled
<1>7. KeyFits'  BY <1>2, <1>3, <1>5, <1>6 DEF KeyInv, KeyFits, KeyOpens
<1>8. QED  BY <1>4, <1>7 DEF KeyInv

(* A backup: the snapshot, and then the key file. *)
LEMMA KeySnapshots ==
  ASSUME TypeOK, KeyInv, NEW r \in Requests, Snapshots(r)
  PROVE  KeyInv'
<1>1. /\ UNCHANGED <<config, bundles, phase, memKey, raced>>
      /\ Up # {} /\ request[r] = NoRequest /\ OnDb(db)
      /\ request' = [request EXCEPT ![r] = [op |-> "backup", db |-> db']]
      /\ request \in [Requests -> RequestShape]
  BY DEF Snapshots, Free, ServeKeeps, Local, TypeOK
<1>2. db \in DbShape /\ parted \in BOOLEAN /\ wal \in {"none", "live", "stale"}  BY DEF TypeOK
<1>3. /\ ~parted' => ~parted /\ wal' = wal
      /\ ~parted' /\ ~db.mixed => db' = db
  BY <1>1, <1>2, Connected DEF Spoiled
<1>k. KeyOpens(config, db) /\ ~parted' => KeyOpens(config', db') /\ db' = db
  BY <1>1, <1>3 DEF KeyOpens
<1>4. /\ request'[r].op = "backup" /\ request'[r].db = db' /\ request[r].op = "none"
      /\ \A s \in Requests : s # r => request'[s] = request[s]
  BY <1>1 DEF NoRequest
<1>5. Restores' = Restores  BY <1>4 DEF Restores
<1>6. \A s \in Restores : s \in Requests /\ request'[s] = request[s]  BY <1>4 DEF Restores
<1>7. Replaced' = Replaced /\ Up' = Up  BY <1>1, <1>5, <1>6 DEF Replaced, Up
<1>8. OneServes' /\ KeyComesFirst' /\ OneKey' /\ BundlesFit'
  BY <1>1, <1>5, <1>6, <1>7 DEF KeyInv, OneServes, KeyComesFirst, OneKey, BundlesFit
<1>9. KeyFits'  BY <1>1, <1>3, <1>k, <1>4, <1>5, <1>6, <1>7 DEF KeyInv, KeyFits
<1>10. QED  BY <1>8, <1>9 DEF KeyInv

LEMMA KeyBundles ==
  ASSUME TypeOK, KeyInv, NEW r \in Requests, Bundles(r)
  PROVE  KeyInv'
<1> DEFINE b == [key |-> config, db |-> request[r].db, torn |-> parted \/ raced # {} \/ Restores # {}]
<1>1. /\ UNCHANGED <<config, db, wal, parted, phase, memKey, raced>>
      /\ request[r].op = "backup" /\ bundles' = bundles \cup {b}
      /\ request' = [request EXCEPT ![r] = NoRequest]
      /\ request \in [Requests -> RequestShape]
  BY DEF Bundles, ServeKeeps, Local, TypeOK
<1>2. /\ request'[r].op = "none" /\ request'[r] = NoRequest
      /\ \A s \in Requests : s # r => request'[s] = request[s]
  BY <1>1 DEF NoRequest
<1>3. Restores' = Restores  BY <1>1, <1>2 DEF Restores
<1>4. \A s \in Restores : s \in Requests /\ request'[s] = request[s]  BY <1>1, <1>2 DEF Restores
<1>5. Replaced' = Replaced /\ Up' = Up  BY <1>1, <1>3, <1>4 DEF Replaced, Up
<1>6. OneServes' /\ KeyComesFirst' /\ OneKey'
  BY <1>1, <1>2, <1>3, <1>4, <1>5 DEF KeyInv, OneServes, KeyComesFirst, OneKey
<1>7. b.torn = (parted \/ raced # {} \/ Restores # {}) /\ b.key = config /\ b.db = request[r].db
  OBVIOUS
<1>8. ~b.torn => KeyOpens(b.key, b.db)
  BY <1>1, <1>7 DEF KeyInv, KeyFits
<1> HIDE DEF b
<1>9. BundlesFit'  BY <1>1, <1>3, <1>4, <1>8 DEF KeyInv, BundlesFit
<1>10. KeyFits'  BY <1>1, <1>2, <1>3, <1>4, <1>5 DEF KeyInv, KeyFits
<1>11. QED  BY <1>6, <1>9, <1>10 DEF KeyInv

(* A restore: asked for, ... *)
LEMMA KeyAsks ==
  ASSUME TypeOK, KeyInv, NEW r \in Requests, NEW b \in bundles, AsksRestore(r, b)
  PROVE  KeyInv'
<1>1. /\ UNCHANGED <<config, db, wal, bundles, phase, memKey, raced>>
      /\ Up # {} /\ request[r] = NoRequest /\ b.key # NoKey
      /\ request' = [request EXCEPT ![r] = [op |-> "restore", pc |-> "key", from |-> b]]
      /\ request \in [Requests -> RequestShape] /\ parted \in BOOLEAN
      /\ parted' = (parted \/ Restores # {})
  BY DEF AsksRestore, Free, ServeKeeps, Local, TypeOK
<1>2. /\ request'[r].op = "restore" /\ request'[r].pc = "key" /\ request'[r].from = b
      /\ request[r].op = "none"
      /\ \A s \in Requests : s # r => request'[s] = request[s]
  BY <1>1 DEF NoRequest
<1>3. Restores' = Restores \cup {r} /\ r \notin Restores  BY <1>2 DEF Restores
<1>4. \A s \in Restores : s \in Requests /\ s # r /\ request'[s] = request[s]
  BY <1>2, <1>3 DEF Restores
<1>5. Replaced' = Replaced /\ Up' = Up
  BY <1>1, <1>2, <1>3, <1>4 DEF Replaced, Up
<1>6. OneServes' /\ OneKey'  BY <1>1, <1>5 DEF KeyInv, OneServes, OneKey
<1>7. KeyComesFirst'  BY <1>1, <1>2, <1>3, <1>4 DEF KeyInv, KeyComesFirst
<1>8. BundlesFit'  BY <1>1, <1>2, <1>3, <1>4 DEF KeyInv, BundlesFit
<1>9. ASSUME ~parted', raced' = {}
      PROVE  ~parted /\ raced = {} /\ Restores = {} /\ Restores' = {r} /\ Replaced' = {}
  BY <1>1, <1>3, <1>5, <1>9 DEF Replaced
<1>10. KeyFits'  BY <1>1, <1>2, <1>5, <1>9 DEF KeyInv, KeyFits
<1>11. QED  BY <1>6, <1>7, <1>8, <1>10 DEF KeyInv

(* ... its key file, its database, and the log. *)
LEMMA KeyRestores ==
  ASSUME TypeOK, KeyInv, NEW r \in Requests, RestoresKey(r) \/ RestoresDb(r) \/ DropsLog(r)
  PROVE  KeyInv'
<1>1. /\ UNCHANGED <<bundles, phase, memKey>> /\ r \in Restores /\ r \in Requests
      /\ \E pc \in {"key", "db", "wal", "exit"} : Step(r, pc)
      /\ raced \subseteq raced' /\ request[r] # NoRequest
      /\ parted \in BOOLEAN /\ (parted => parted')
  BY DEF RestoresKey, RestoresDb, DropsLog, ServeKeeps, Local, Restores, TypeOK, NoRequest
<1>2. PICK pc \in {"key", "db", "wal", "exit"} : Step(r, pc)  BY <1>1
<1>3. /\ request'[r].op = "restore" /\ request'[r].pc = pc /\ request'[r].from = request[r].from
      /\ \A s \in Requests : s # r => request'[s] = request[s]
      /\ Restores' = Restores
  BY <1>1, <1>2, StepMoves
<1>4. Up' = Up /\ Up # {}  BY <1>1 DEF Up, KeyInv, OneServes
<1>5. OneServes'  BY <1>1, <1>4 DEF KeyInv, OneServes
<1>6. \A s \in Restores : s \in Requests /\ request'[s].from = request[s].from
  BY <1>3 DEF Restores
<1>7. BundlesFit'  BY <1>1, <1>3, <1>6 DEF KeyInv, BundlesFit
<1>8. request[r].from.key # NoKey  BY <1>1 DEF KeyInv, KeyComesFirst
<1>9. \A s \in Requests : request'[s].op = "backup" => request[s].op = "backup" /\ request'[s].db = request[s].db
  BY <1>3
<1>10. ASSUME ~parted, raced = {}
       PROVE  Restores = {r}
  BY <1>1, <1>10 DEF KeyInv, KeyFits
<1>11. CASE RestoresKey(r)
  <2>1. config' = request[r].from.key /\ raced' = raced \cup Meets /\ request[r].pc = "key"
        /\ Step(r, "db") /\ UNCHANGED <<db, wal, parted>>
    BY <1>11 DEF RestoresKey
  <2>2. request'[r].pc = "db"  BY <1>1, <2>1, StepMoves
  <2>3. KeyComesFirst'  BY <1>1, <1>3, <1>6, <1>8, <2>1 DEF KeyInv, KeyComesFirst
  <2>4. raced' = {} => \A p \in Workers : phase[p] \in {"down", "up"}
    BY <2>1 DEF Meets
  <2>5. OneKey'  BY <1>1, <2>4 DEF OneKey, Late
  <2>6. ASSUME ~parted', raced' = {}
        PROVE  /\ ~parted /\ raced = {} /\ Restores = {r} /\ wal' # "stale" /\ Replaced' = {}
    <3>1. ~parted /\ raced = {} /\ Restores = {r}  BY <1>1, <1>10, <2>6
    <3>2. wal # "stale"  BY <2>1, <3>1 DEF KeyInv, KeyFits
    <3>3. QED  BY <1>3, <2>1, <2>2, <3>1, <3>2 DEF Replaced
  <2>7. KeyFits'  BY <1>3, <2>1, <2>2, <2>6 DEF KeyFits
  <2>8. QED  BY <1>5, <1>7, <2>3, <2>5, <2>7 DEF KeyInv
<1>12. CASE RestoresDb(r)
  <2>1. /\ db' = request[r].from.db /\ wal' = (IF wal = "none" THEN "none" ELSE "stale")
        /\ parted' = (parted \/ request[r].from.torn)
        /\ raced' = raced \cup Meets /\ request[r].pc = "db"
        /\ Step(r, "wal") /\ UNCHANGED config
    BY <1>12 DEF RestoresDb, Local
  <2>2. request'[r].pc = "wal"  BY <1>1, <2>1, StepMoves
  <2>3. KeyComesFirst'  BY <1>1, <1>3, <1>6, <2>1 DEF KeyInv, KeyComesFirst
  <2>4. raced' = {} => \A p \in Workers : phase[p] \in {"down", "up"}
    BY <2>1 DEF Meets
  <2>5. OneKey'  BY <1>1, <2>4 DEF OneKey, Late
  <2>t. request[r].from.torn \in BOOLEAN  BY <1>1, RequestKinds DEF Restores, BundleShape
  <2>6. ASSUME ~parted', raced' = {}
        PROVE  /\ ~parted /\ raced = {} /\ Restores = {r} /\ wal' # "live"
               /\ config = request[r].from.key /\ KeyOpens(config, request[r].from.db)
    <3>1. ~parted /\ raced = {} /\ Restores = {r} /\ ~request[r].from.torn
      BY <1>1, <1>10, <2>1, <2>6, <2>t
    <3>2. config = request[r].from.key  BY <2>1, <3>1 DEF KeyInv, KeyFits
    <3>3. KeyOpens(config, request[r].from.db)  BY <3>1, <3>2 DEF KeyInv, BundlesFit
    <3>4. QED  BY <2>1, <3>1, <3>2, <3>3
  <2>7. KeyFits'  BY <1>3, <2>1, <2>2, <2>6 DEF KeyFits
  <2>8. QED  BY <1>5, <1>7, <2>3, <2>5, <2>7 DEF KeyInv
<1>13. CASE DropsLog(r)
  <2>1. /\ wal' = "none" /\ (wal # "live" => db' = db)
        /\ request[r].pc = "wal" /\ Step(r, "exit") /\ UNCHANGED <<config, parted, raced>>
    BY <1>13 DEF DropsLog, ServeKeeps
  <2>2. request'[r].pc = "exit"  BY <1>1, <2>1, StepMoves
  <2>3. KeyComesFirst'  BY <1>1, <1>3, <1>6, <2>1 DEF KeyInv, KeyComesFirst
  <2>4. OneKey'  BY <1>1, <2>1 DEF KeyInv, OneKey
  <2>5. ASSUME ~parted', raced' = {}
        PROVE  /\ Restores = {r} /\ config = request[r].from.key /\ KeyOpens(config, db')
    <3>1. ~parted /\ raced = {} /\ Restores = {r}  BY <1>1, <1>10, <2>1, <2>5
    <3>2. config = request[r].from.key /\ KeyOpens(config, db)
      BY <2>1, <3>1 DEF KeyInv, KeyFits
    <3>3. wal # "live"  BY <1>1, <2>1, <3>1 DEF KeyInv, KeyFits, Replaced
    <3>4. QED  BY <2>1, <3>1, <3>2, <3>3
  <2>6. KeyFits'  BY <1>3, <2>1, <2>2, <2>5 DEF KeyFits
  <2>7. QED  BY <1>5, <1>7, <2>3, <2>4, <2>6 DEF KeyInv
<1>14. QED  BY <1>11, <1>12, <1>13

(* The end of a process. *)
LEMMA KeyDies ==
  ASSUME TypeOK, KeyInv, NEW p \in Workers, Exits(p) \/ Crash(p)
  PROVE  KeyInv'
<1>1. /\ UNCHANGED <<config, db, wal, bundles, raced>> /\ Ends(p) /\ phase[p] # "down"
      /\ IF phase[p] = "up" THEN request' = [r \in Requests |-> NoRequest] ELSE UNCHANGED request
      /\ phase[p] = "up" => parted' = (parted \/ \E r \in Restores : request[r].pc \in {"db", "wal"})
      /\ phase[p] # "up" => parted' = parted
      /\ parted \in BOOLEAN
      /\ phase \in [Workers -> PhaseShape] /\ memKey \in [Workers -> Keys \cup {NoKey}]
  BY DEF Exits, Crash, Dies, TypeOK
<1>2. /\ phase'[p] = "down"
      /\ \A q \in Workers : q # p => phase'[q] = phase[q] /\ memKey'[q] = memKey[q]
  BY <1>1 DEF Ends
<1>3. Up' = Up \ {p} /\ \A q \in Up' : memKey'[q] = memKey[q]  BY <1>2 DEF Up
<1>4. OneKey'
  <2>1. \A q \in Workers : phase'[q] \in Late \cup {"write"} => q # p /\ phase'[q] = phase[q] /\ memKey'[q] = memKey[q]
    BY <1>2 DEF Late
  <2>2. QED  BY <1>1, <2>1 DEF KeyInv, OneKey, Late
<1>5. \A q \in Workers : phase'[q] \in Late \cup {"write", "up"} =>
        q # p /\ phase'[q] = phase[q] /\ memKey'[q] = memKey[q]
  BY <1>2 DEF Late
<1>6. CASE phase[p] = "up"
  <2>1. Up' = {}  BY <1>3, <1>6 DEF KeyInv, OneServes, Up
  <2>2. \A r \in Requests : request'[r] = NoRequest /\ request'[r].op = "none"
    BY <1>1, <1>6 DEF NoRequest
  <2>3. Restores' = {} /\ Replaced' = {}  BY <2>2 DEF Restores, Replaced
  <2>4. OneServes' /\ KeyComesFirst' /\ BundlesFit'
    BY <1>1, <1>5, <2>1, <2>2, <2>3 DEF KeyInv, OneServes, KeyComesFirst, BundlesFit
  <2>5. ASSUME ~parted', raced' = {} PROVE KeyOpens(config, db) /\ wal # "stale"
    BY <1>1, <1>6, <2>5 DEF KeyInv, KeyFits
  <2>6. KeyFits'  BY <1>1, <2>1, <2>2, <2>3, <2>5 DEF KeyFits
  <2>7. QED  BY <1>4, <2>4, <2>6 DEF KeyInv
<1>7. CASE phase[p] # "up"
  <2>1. Up' = Up  BY <1>3, <1>7 DEF Up
  <2>2. UNCHANGED <<request, parted>> /\ Restores' = Restores /\ Replaced' = Replaced
    BY <1>1, <1>7 DEF Restores, Replaced
  <2>3. OneServes' /\ KeyComesFirst' /\ BundlesFit'
    BY <1>1, <1>5, <2>1, <2>2 DEF KeyInv, OneServes, KeyComesFirst, BundlesFit
  <2>4. KeyFits'  BY <1>1, <1>3, <2>1, <2>2 DEF KeyInv, KeyFits
  <2>5. QED  BY <1>4, <2>3, <2>4 DEF KeyInv
<1>8. QED  BY <1>6, <1>7

LEMMA KeyBegins == Init => KeyInv
<1> SUFFICES ASSUME Init PROVE KeyInv
  OBVIOUS
<1>1. /\ config = NoKey /\ db = EmptyDb /\ wal = "none" /\ bundles = Given
      /\ \A p \in Workers : phase[p] = "down"
      /\ \A r \in Requests : request[r] = NoRequest /\ request[r].op = "none"
  BY DEF Init, NoRequest
<1>2. Up = {} /\ Restores = {} /\ Replaced = {}  BY <1>1 DEF Up, Restores, Replaced
<1>3. OneServes /\ KeyComesFirst /\ OneKey /\ KeyFits
  BY <1>1, <1>2 DEF OneServes, KeyComesFirst, OneKey, KeyFits, KeyOpens, EmptyDb, Late
<1>4. BundlesFit  BY <1>1, <1>2, GivenAssumption DEF BundlesFit
<1>5. QED  BY <1>3, <1>4 DEF KeyInv

LEMMA KeyStep ==
  ASSUME TypeOK, KeyInv, [Next]_vars
  PROVE  KeyInv'
<1>1. ASSUME UNCHANGED dataVars PROVE KeyInv'
  BY <1>1 DEF dataVars, KeyInv, OneServes, KeyComesFirst, OneKey, KeyFits, BundlesFit, Up, Restores,
              Replaced, KeyOpens
<1>2. ASSUME NEW p \in Workers, Boots(p) \/ SavesSecret(p) \/ EditsData(p) \/ Exits(p) \/ Crash(p)
      PROVE  KeyInv'
  BY <1>2, BootsDo, KeyBoots, KeySaves, KeyDies
<1>3. ASSUME NEW r \in Requests, Snapshots(r) \/ Serves(r) PROVE KeyInv'
  BY <1>3, KeySnapshots, KeyBundles, KeyRestores DEF Serves
<1>4. ASSUME NEW r \in Requests, NEW b \in bundles, AsksRestore(r, b) PROVE KeyInv'
  BY <1>4, KeyAsks
<1>5. QED  BY <1>1, <1>2, <1>3, <1>4 DEF Next, vars, PreparesCert, CertCrash
-----------------------------------------------------------------------------
(***************************************************************************)
(* The schema.                                                             *)
(***************************************************************************)
(* A database with all that another has. *)
HasAll(new, old) ==
  /\ old.done \subseteq new.done /\ old.versions \subseteq new.versions
  /\ old.account # "never" => new.account # "never"
  /\ old.mission # "never" => new.mission # "never"

LEMMA StaysPrepared ==
  ASSUME TypeOK, NEW p \in Workers, Prepared(p), db' \in DbShape, HasAll(db', db),
         phase'[p] = phase[p], applied'[p] = applied[p], at'[p] = at[p]
  PROVE  Prepared(p)'
<1>1. Missing(p)' = Missing(p) /\ Current(p)' = Current(p)  BY DEF Missing, Current
<1>2. Migrated => Migrated'  BY DEF Migrated, HasAll, DbShape
<1>3. QED  BY <1>1, <1>2 DEF Prepared, HasAll

(* What the start of a process does to the database and to itself. *)
BootGrows(p) ==
  /\ UNCHANGED <<request, bundles>>
  /\ "restore" \in raced => "restore" \in raced'
  /\ db' \in DbShape
  /\ \A q \in Workers : q # p => phase'[q] = phase[q] /\ applied'[q] = applied[q] /\ at'[q] = at[q]
  /\ at'[p] >= 1 /\ (phase'[p] # "migrate" \/ Missing(p)' = {} => at'[p] = 1)
  /\ ~db'.mixed => /\ ~db.mixed /\ HasAll(db', db)
                   /\ Prepared(p) => Prepared(p)'
                   /\ Recorded(db) /\ Prepared(p) => Recorded(db')
  /\ phase'[p] = "up" => phase[p] = "guard" /\ UNCHANGED db

LEMMA EndsWell ==
  ASSUME TypeOK, NEW p \in Workers, Ends(p)
  PROVE  /\ phase'[p] = "down" /\ at'[p] = 1 /\ Prepared(p)'
         /\ \A q \in Workers : q # p => phase'[q] = phase[q] /\ applied'[q] = applied[q] /\ at'[q] = at[q]
  BY DEF TypeOK, Ends, Prepared

LEMMA GoesWell ==
  ASSUME TypeOK, NEW p \in Workers, NEW ph, GoesTo(p, ph)
  PROVE  /\ phase'[p] = ph /\ at' = at /\ applied' = applied
         /\ \A q \in Workers : q # p => phase'[q] = phase[q] /\ applied'[q] = applied[q] /\ at'[q] = at[q]
  BY DEF TypeOK, GoesTo

LEMMA BootsGrow ==
  ASSUME TypeOK, StatementsCounted, NEW p \in Workers, Boots(p)
  PROVE  BootGrows(p)
<1>t. /\ phase \in [Workers -> PhaseShape] /\ applied \in [Workers -> SUBSET Versions]
      /\ at \in [Workers -> Nat] /\ db \in DbShape /\ parted \in BOOLEAN
      /\ wal \in {"none", "live", "stale"} /\ HasAll(db, db)
  BY DEF TypeOK, HasAll
<1>c. at[p] \in Nat /\ at[p] >= 1 /\ (phase[p] # "migrate" \/ Missing(p) = {} => at[p] = 1)
  BY <1>t DEF StatementsCounted
(* Where the database stays, but for what spoils it. *)
<1>s. ASSUME OnDb(db) \/ UNCHANGED db
      PROVE  db' \in DbShape /\ (~db'.mixed => db' = db /\ ~db.mixed)
  BY <1>s, <1>t, Connected, SoundIsRead
<1>1. CASE Starts(p) \/ WritesKey(p)
  <2>1. /\ UNCHANGED <<request, bundles, raced, db>>
        /\ (phase[p] = "down" /\ GoesTo(p, "load")) \/ (phase[p] = "write" /\ GoesTo(p, "open"))
    BY <1>1 DEF Starts, WritesKey, BootKeeps
  <2>2. Prepared(p)'  BY <2>1, GoesWell DEF Prepared
  <2>3. QED  BY <1>c, <1>t, <2>1, <2>2, GoesWell DEF BootGrows, Recorded
<1>2. CASE Loads(p)
  <2>1. /\ UNCHANGED <<request, bundles, db, applied, at>> /\ phase[p] = "load"
        /\ phase'[p] \in {"open", "write"} /\ \A q \in Workers : q # p => phase'[q] = phase[q]
        /\ raced' \in {raced, raced \cup {"key"}}
    BY <1>2, <1>t DEF Loads, BootKeeps
  <2>2. Prepared(p)'  BY <2>1 DEF Prepared
  <2>3. QED  BY <1>c, <1>t, <2>1, <2>2 DEF BootGrows, Recorded
<1>3. CASE Opens(p)
  <2>1. PICK found \in SUBSET Versions : /\ Found(found, db.versions)
                                        /\ applied' = [applied EXCEPT ![p] = found]
    BY <1>3 DEF Opens
  <2>2. /\ UNCHANGED <<request, bundles, raced, at>> /\ phase[p] = "open" /\ OnDb(db)
        /\ phase'[p] = "migrate" /\ applied'[p] = found
        /\ \A q \in Workers : q # p => phase'[q] = phase[q] /\ applied'[q] = applied[q]
    BY <1>3, <1>t, <2>1 DEF Opens, KeyKept, BootKeeps
  <2>3. at'[p] = 1 /\ 1 .. 1 - 1 = {}  BY <1>c, <2>2
  <2>4. ASSUME ~db'.mixed PROVE Prepared(p)'
    <3>1. db' = db /\ found = db.versions
      BY <1>s, <1>t, <2>1, <2>2, <2>4, SoundIsRead DEF Found
    <3>2. QED  BY <2>2, <2>3, <3>1 DEF Prepared
  <2>5. QED  BY <1>s, <1>t, <2>2, <2>3, <2>4 DEF BootGrows, Recorded
<1>4. CASE Executes(p)
  <2>1. /\ UNCHANGED <<request, bundles, raced>> /\ phase[p] = "migrate" /\ Missing(p) # {}
        /\ Current(p) \in Missing(p) /\ <<Current(p), at[p]>> \in Statements
    BY <1>4, CurrentIsMissing, StatementsAre DEF Executes, KeyKept, BootKeeps
  <2> DEFINE s == <<Current(p), at[p]>>
             new == [db EXCEPT !.done = @ \cup {s}]
  <2>2. \/ Ends(p) /\ OnDb(db)
        \/ OnDb(new) /\ at' = [at EXCEPT ![p] = @ + 1] /\ UNCHANGED <<phase, applied>>
    BY <1>4 DEF Executes
  <2>3. CASE Ends(p) /\ OnDb(db)
    BY <1>s, <1>t, <2>1, <2>3, EndsWell DEF BootGrows, Recorded
  <2>4. CASE OnDb(new) /\ at' = [at EXCEPT ![p] = @ + 1] /\ UNCHANGED <<phase, applied>>
    <3>1. /\ new \in DbShape /\ new.done = db.done \cup {s} /\ new.versions = db.versions
          /\ new.account = db.account /\ new.mission = db.mission
      BY <1>t, <2>1 DEF DbShape
    <3> HIDE DEF new
    <3>2. db' \in DbShape /\ (~db'.mixed => ~db.mixed /\ db' = new)
      BY <1>t, <2>4, <3>1, Connected, SoundIsRead
    <3>3. ~db'.mixed => HasAll(db', db) /\ (Recorded(db) => Recorded(db'))
      BY <3>1, <3>2 DEF HasAll, Recorded
    <3>4. /\ at'[p] = at[p] + 1 /\ \A q \in Workers : q # p => at'[q] = at[q]
          /\ Missing(p)' = Missing(p) /\ Current(p)' = Current(p)
      BY <1>t, <2>4 DEF Missing, Current
    <3>5. ASSUME Prepared(p), ~db'.mixed, NEW k \in 1 .. at'[p] - 1
          PROVE  <<Current(p), k>> \in db'.done
      <4>1. k \in 1 .. at[p] - 1 \/ k = at[p]  BY <1>c, <3>4
      <4>2. QED  BY <2>1, <3>1, <3>2, <3>5, <4>1 DEF Prepared
    <3>6. ~db'.mixed /\ Prepared(p) => Prepared(p)'
      BY <2>1, <2>4, <3>1, <3>2, <3>4, <3>5 DEF Prepared
    <3>7. QED  BY <1>c, <2>1, <2>4, <3>2, <3>3, <3>4, <3>6 DEF BootGrows
  <2>5. QED  BY <2>2, <2>3, <2>4
<1>5. CASE Records(p)
  <2>1. /\ UNCHANGED <<request, bundles, raced>> /\ phase[p] = "migrate" /\ Missing(p) # {}
        /\ Current(p) \in Versions /\ at[p] \notin DOMAIN Scripts[Current(p)]
    BY <1>5, CurrentIsMissing DEF Records, KeyKept, BootKeeps
  <2> DEFINE v == Current(p)
             new == [db EXCEPT !.versions = @ \cup {v}]
  <2>2. \/ Ends(p) /\ OnDb(db)
        \/ /\ OnDb(new) /\ applied' = [applied EXCEPT ![p] = @ \cup {v}]
           /\ at' = [at EXCEPT ![p] = 1] /\ UNCHANGED phase
    BY <1>5 DEF Records
  <2>3. CASE Ends(p) /\ OnDb(db)
    BY <1>s, <1>t, <2>1, <2>3, EndsWell DEF BootGrows, Recorded
  <2>4. CASE /\ OnDb(new) /\ applied' = [applied EXCEPT ![p] = @ \cup {v}]
             /\ at' = [at EXCEPT ![p] = 1] /\ UNCHANGED phase
    <3>1. /\ new \in DbShape /\ new.done = db.done /\ new.versions = db.versions \cup {v}
          /\ new.account = db.account /\ new.mission = db.mission
      BY <1>t, <2>1 DEF DbShape
    <3> HIDE DEF new
    <3>2. db' \in DbShape /\ (~db'.mixed => ~db.mixed /\ db' = new)
      BY <1>t, <2>4, <3>1, Connected, SoundIsRead
    <3>3. ~db'.mixed => HasAll(db', db)  BY <3>1, <3>2 DEF HasAll
    <3>4. ASSUME Prepared(p) PROVE \A k \in DOMAIN Scripts[v] : <<v, k>> \in db.done
      <4>1. Scripts[v] \in Seq(BOOLEAN)  BY <2>1, DataAssumption DEF Versions
      <4>2. DOMAIN Scripts[v] = 1 .. Len(Scripts[v]) /\ Len(Scripts[v]) \in Nat  BY <4>1
      <4>3. DOMAIN Scripts[v] \subseteq 1 .. at[p] - 1  BY <1>c, <2>1, <4>2
      <4>4. QED  BY <2>1, <3>4, <4>3 DEF Prepared
    <3>5. ~db'.mixed /\ Recorded(db) /\ Prepared(p) => Recorded(db')
      BY <3>1, <3>2, <3>4 DEF Recorded
    <3>6. /\ at'[p] = 1 /\ applied'[p] = applied[p] \cup {v} /\ 1 .. 1 - 1 = {}
          /\ \A q \in Workers : q # p => at'[q] = at[q] /\ applied'[q] = applied[q]
      BY <1>t, <2>4
    <3>7. ~db'.mixed /\ Prepared(p) => Prepared(p)'
      BY <2>1, <2>4, <3>1, <3>2, <3>6 DEF Prepared
    <3>8. QED  BY <2>1, <2>4, <3>2, <3>3, <3>5, <3>6, <3>7 DEF BootGrows
  <2>5. QED  BY <2>2, <2>3, <2>4
<1>6. CASE LooksForAdmin(p)
  <2>1. PICK there \in BOOLEAN :
          /\ Found(there, db.account = "here")
          /\ phase' = [phase EXCEPT ![p] = IF there THEN "mission" ELSE "add_admin"]
    BY <1>6 DEF LooksForAdmin
  <2>2. /\ UNCHANGED <<request, bundles, raced, at>> /\ phase[p] = "migrate" /\ Missing(p) = {}
        /\ OnDb(db) /\ phase'[p] = IF there THEN "mission" ELSE "add_admin"
        /\ \A q \in Workers : q # p => phase'[q] = phase[q] /\ applied'[q] = applied[q]
    BY <1>6, <1>t, <2>1 DEF LooksForAdmin, KeyKept, BootKeeps
  <2>3. ASSUME ~db'.mixed, Prepared(p) PROVE Prepared(p)'
    <3>1. Migrated  BY <1>t, <2>2, <2>3 DEF Prepared, Missing, Migrated, DbShape
    <3>2. db' = db /\ (there <=> db.account = "here")
      BY <1>s, <1>t, <2>1, <2>2, <2>3, SoundIsRead DEF Found
    <3>3. QED  BY <2>2, <3>1, <3>2 DEF Prepared, Migrated
  <2>4. QED  BY <1>c, <1>s, <1>t, <2>2, <2>3 DEF BootGrows, Recorded
<1>7. CASE AddsAdmin(p)
  <2> DEFINE new == [db EXCEPT !.account = "here"]
  <2>1. /\ new \in DbShape /\ new.account = "here" /\ new.done = db.done /\ new.versions = db.versions
        /\ new.mission = db.mission
    BY <1>t, DbGrows DEF DbShape
  <2>2. /\ UNCHANGED <<request, bundles, raced>> /\ phase[p] = "add_admin" /\ OnDb(new)
        /\ GoesTo(p, "mission") \/ Ends(p)
    BY <1>7 DEF AddsAdmin, KeyKept, BootKeeps, GoesOnIf
  <2> HIDE DEF new
  <2>3. db' \in DbShape /\ (~db'.mixed => ~db.mixed /\ db' = new)
    BY <1>t, <2>1, <2>2, Connected, SoundIsRead
  <2>4. ~db'.mixed => HasAll(db', db) /\ (Recorded(db) => Recorded(db'))
    BY <2>1, <2>3 DEF HasAll, Recorded
  <2>5. CASE GoesTo(p, "mission")
    <3>1. ~db'.mixed /\ Prepared(p) => Prepared(p)'
      BY <2>1, <2>2, <2>3, <2>5, GoesWell DEF Prepared, Migrated
    <3>2. QED  BY <1>c, <2>2, <2>3, <2>4, <2>5, <3>1, GoesWell DEF BootGrows
  <2>6. CASE Ends(p)  BY <2>2, <2>3, <2>4, <2>6, EndsWell DEF BootGrows
  <2>7. QED  BY <2>2, <2>5, <2>6
<1>8. CASE LooksForMission(p)
  <2>1. PICK there \in BOOLEAN :
          /\ Found(there, db.mission = "here")
          /\ GoesTo(p, IF there THEN "guard" ELSE "add_mission")
    BY <1>8 DEF LooksForMission
  <2> DEFINE ph == IF there THEN "guard" ELSE "add_mission"
  <2>2. UNCHANGED <<request, bundles, raced>> /\ phase[p] = "mission" /\ OnDb(db)
    BY <1>8 DEF LooksForMission, KeyKept, BootKeeps
  <2>3. /\ phase'[p] = ph /\ at' = at /\ applied' = applied
        /\ \A q \in Workers : q # p => phase'[q] = phase[q] /\ applied'[q] = applied[q] /\ at'[q] = at[q]
    BY <2>1, GoesWell
  <2>4. ASSUME ~db'.mixed, Prepared(p) PROVE Prepared(p)'
    <3>1. db' = db /\ (there <=> db.mission = "here")
      BY <1>s, <1>t, <2>1, <2>2, <2>4, SoundIsRead DEF Found
    <3>2. QED  BY <2>2, <2>3, <2>4, <3>1 DEF Prepared, Migrated
  <2>5. QED  BY <1>c, <1>s, <1>t, <2>2, <2>3, <2>4 DEF BootGrows, Recorded
<1>9. CASE AddsMission(p)
  <2> DEFINE new == [db EXCEPT !.mission = "here"]
  <2>1. /\ new \in DbShape /\ new.mission = "here" /\ new.done = db.done /\ new.versions = db.versions
        /\ new.account = db.account
    BY <1>t, DbGrows DEF DbShape
  <2>2. /\ UNCHANGED <<request, bundles, raced>> /\ phase[p] = "add_mission" /\ OnDb(new)
        /\ GoesTo(p, "guard")
    BY <1>9 DEF AddsMission, KeyKept, BootKeeps
  <2> HIDE DEF new
  <2>3. db' \in DbShape /\ (~db'.mixed => ~db.mixed /\ db' = new)
    BY <1>t, <2>1, <2>2, Connected, SoundIsRead
  <2>4. ~db'.mixed => HasAll(db', db) /\ (Recorded(db) => Recorded(db'))
    BY <2>1, <2>3 DEF HasAll, Recorded
  <2>5. ~db'.mixed /\ Prepared(p) => Prepared(p)'
    BY <2>1, <2>2, <2>3, GoesWell DEF Prepared, Migrated
  <2>6. QED  BY <1>c, <2>2, <2>3, <2>4, <2>5, GoesWell DEF BootGrows
<1>10. CASE Guards(p)
  <2>1. /\ UNCHANGED <<request, bundles, raced, db>> /\ phase[p] = "guard"
        /\ GoesTo(p, "up") \/ Ends(p)
    BY <1>10 DEF Guards, GoesOnIf, Untouched, BootKeeps
  <2>2. CASE GoesTo(p, "up")
    <3>1. Prepared(p)'  BY <2>2, GoesWell DEF Prepared
    <3>2. QED  BY <1>c, <1>t, <2>1, <2>2, <3>1, GoesWell DEF BootGrows, Recorded
  <2>3. CASE Ends(p)  BY <1>t, <2>1, <2>3, EndsWell DEF BootGrows, Recorded
  <2>4. QED  BY <2>1, <2>2, <2>3
<1>11. CASE Chokes(p)
  <2>1. UNCHANGED <<request, bundles, raced>> /\ Ends(p) /\ OnDb(db)
    BY <1>11 DEF Chokes, KeyKept, BootKeeps
  <2>2. QED  BY <1>s, <1>t, <2>1, EndsWell DEF BootGrows, Recorded
<1>12. QED
  BY <1>1, <1>2, <1>3, <1>4, <1>5, <1>6, <1>7, <1>8, <1>9, <1>10, <1>11 DEF Boots

LEMMA ReadyBoots ==
  ASSUME TypeOK, ReadyInv, OneServes, NEW p \in Workers, Boots(p)
  PROVE  ReadyInv'
<1>1. BootGrows(p)  BY BootsGrow DEF ReadyInv
<1>2. StatementsCounted'
  <2>1. ASSUME NEW q \in Workers, q # p PROVE Missing(q)' = Missing(q)
    BY <1>1, <2>1 DEF BootGrows, Missing
  <2>2. QED  BY <1>1, <2>1 DEF BootGrows, ReadyInv, StatementsCounted
<1>3. SchemaFits'
  <2> SUFFICES ASSUME "restore" \notin raced'
               PROVE  /\ Recorded(db')
                      /\ \A b \in bundles : Recorded(b.db)
                      /\ \A r \in Requests : /\ request[r].op = "backup" => Recorded(request[r].db)
                                             /\ request[r].op = "restore" => Recorded(request[r].from.db)
                      /\ ~db'.mixed => \A q \in Workers : Prepared(q)'
                      /\ Up' # {} /\ Replaced' = {} /\ ~db'.mixed => Ready'
    BY <1>1 DEF SchemaFits, BootGrows, Recorded
  <2>1. "restore" \notin raced  BY <1>1 DEF BootGrows
  <2>2. Recorded(db) /\ (~db.mixed => \A q \in Workers : Prepared(q))
    BY <2>1 DEF ReadyInv, SchemaFits
  <2>3. Recorded(db')
    <3>1. CASE db'.mixed  BY <3>1 DEF Recorded
    <3>2. CASE ~db'.mixed  BY <1>1, <2>2, <3>2 DEF BootGrows
    <3>3. QED  BY <3>1, <3>2
  <2>4. ASSUME ~db'.mixed, NEW q \in Workers PROVE Prepared(q)'
    <3>1. ~db.mixed /\ HasAll(db', db)  BY <1>1, <2>4 DEF BootGrows
    <3>2. CASE q = p  BY <1>1, <2>2, <2>4, <3>1, <3>2 DEF BootGrows
    <3>3. CASE q # p  BY <1>1, <2>2, <3>1, <3>3, StaysPrepared DEF BootGrows
    <3>4. QED  BY <3>2, <3>3
  <2>5. Replaced' = Replaced  BY <1>1 DEF BootGrows, Replaced, Restores
  <2>6. ASSUME Up' # {}, Replaced' = {}, ~db'.mixed PROVE Ready'
    <3>0. ~db.mixed /\ HasAll(db', db)  BY <1>1, <2>6 DEF BootGrows
    <3>1. CASE phase'[p] = "up"
      <4>1. Prepared(p) /\ phase[p] = "guard" /\ UNCHANGED db
        BY <1>1, <2>2, <3>0, <3>1 DEF BootGrows
      <4>2. QED  BY <4>1 DEF Prepared, Migrated, Ready
    <3>2. CASE phase'[p] # "up"
      <4>1. Up # {}  BY <1>1, <2>6, <3>2 DEF BootGrows, Up
      <4>2. Ready  BY <2>1, <2>5, <2>6, <3>0, <4>1 DEF ReadyInv, SchemaFits
      <4>3. db' \in DbShape  BY <1>1 DEF BootGrows
      <4>4. QED  BY <3>0, <4>2, <4>3 DEF HasAll, Ready, Migrated, DbShape
    <3>3. QED  BY <3>1, <3>2
  <2>7. /\ \A b \in bundles : Recorded(b.db)
        /\ \A r \in Requests : /\ request[r].op = "backup" => Recorded(request[r].db)
                               /\ request[r].op = "restore" => Recorded(request[r].from.db)
    BY <2>1 DEF ReadyInv, SchemaFits
  <2>8. QED  BY <2>3, <2>4, <2>6, <2>7
<1>4. QED  BY <1>2, <1>3 DEF ReadyInv

(* Where only what is not of the schema changes. *)
LEMMA ReadyStays ==
  ASSUME TypeOK, ReadyInv, db' \in DbShape, UNCHANGED <<applied, at, phase, raced>>,
         ~db'.mixed => /\ ~db.mixed /\ db'.done = db.done /\ db'.versions = db.versions
                       /\ HasAll(db', db)
  PROVE  /\ StatementsCounted'
         /\ Recorded(db) => Recorded(db')
         /\ Up' = Up
         /\ ~db'.mixed => /\ ~db.mixed
                          /\ (\A p \in Workers : Prepared(p)) => \A p \in Workers : Prepared(p)'
                          /\ Ready => Ready'
<1>1. \A p \in Workers : Missing(p)' = Missing(p)
  BY DEF Missing
<1>2. StatementsCounted'  BY <1>1 DEF ReadyInv, StatementsCounted
<1>3. ASSUME ~db'.mixed, NEW p \in Workers, Prepared(p) PROVE Prepared(p)'
  BY <1>3, StaysPrepared
<1>4. Recorded(db) => Recorded(db')  BY DEF Recorded
<1>5. Up' = Up  BY DEF Up
<1>6. ~db'.mixed /\ Ready => Ready'  BY DEF Ready, Migrated, HasAll
<1>7. QED  BY <1>2, <1>3, <1>4, <1>5, <1>6

(* The schema fits, where only what is not of it changes. *)
LEMMA ReadyFits ==
  ASSUME TypeOK, ReadyInv, db' \in DbShape, UNCHANGED <<applied, at, phase, raced>>,
         ~db'.mixed => /\ ~db.mixed /\ db'.done = db.done /\ db'.versions = db.versions
                       /\ HasAll(db', db),
         Replaced' = {} => Replaced = {},
         "restore" \notin raced =>
           /\ \A b \in bundles' : Recorded(b.db)
           /\ \A r \in Requests : /\ request'[r].op = "backup" => Recorded(request'[r].db)
                                  /\ request'[r].op = "restore" => Recorded(request'[r].from.db)
  PROVE  ReadyInv'
<1>1. /\ StatementsCounted' /\ Up' = Up
      /\ Recorded(db) => Recorded(db')
      /\ ~db'.mixed => /\ ~db.mixed
                       /\ (\A p \in Workers : Prepared(p)) => \A p \in Workers : Prepared(p)'
                       /\ Ready => Ready'
  BY ReadyStays
<1>2. SchemaFits'
  <2> SUFFICES ASSUME "restore" \notin raced
               PROVE  /\ Recorded(db')
                      /\ \A b \in bundles' : Recorded(b.db)
                      /\ \A r \in Requests : /\ request'[r].op = "backup" => Recorded(request'[r].db)
                                             /\ request'[r].op = "restore" => Recorded(request'[r].from.db)
                      /\ ~db'.mixed => \A p \in Workers : Prepared(p)'
                      /\ Up' # {} /\ Replaced' = {} /\ ~db'.mixed => Ready'
    BY DEF SchemaFits, Recorded
  <2>1. /\ Recorded(db) /\ (~db.mixed => \A p \in Workers : Prepared(p))
        /\ Up # {} /\ Replaced = {} /\ ~db.mixed => Ready
    BY DEF ReadyInv, SchemaFits
  <2>2. QED  BY <1>1, <2>1
<1>3. QED  BY <1>1, <1>2 DEF ReadyInv

(* What is saved, and a backup taken. *)
LEMMA ReadySaves ==
  ASSUME TypeOK, ReadyInv, KeyComesFirst, NEW p \in Workers, SavesSecret(p) \/ EditsData(p)
  PROVE  ReadyInv'
<1>1. PICK new \in DbShape :
        /\ Commits(p, new) /\ new.mixed = db.mixed
        /\ new.done = db.done /\ new.versions = db.versions
        /\ db.account # "never" => new.account # "never"
        /\ db.mission # "never" => new.mission # "never"
  BY CommitsShape
<1>2. /\ UNCHANGED <<applied, at, phase, raced, request, bundles>>
      /\ db' = IF Spoiled THEN Spoilt ELSE new
  BY <1>1 DEF Commits, ServeKeeps, Local
<1>3. db' \in DbShape /\ (~db'.mixed => ~db.mixed /\ db' = new)
  BY <1>1, <1>2, SpoiltShape
<1>4. ~db'.mixed => db'.done = db.done /\ db'.versions = db.versions /\ HasAll(db', db)
  BY <1>1, <1>3 DEF HasAll
<1>5. Replaced' = Replaced  BY <1>2 DEF Replaced, Restores
<1>6. "restore" \notin raced =>
        /\ \A b \in bundles' : Recorded(b.db)
        /\ \A r \in Requests : /\ request'[r].op = "backup" => Recorded(request'[r].db)
                               /\ request'[r].op = "restore" => Recorded(request'[r].from.db)
  BY <1>2 DEF ReadyInv, SchemaFits
<1>7. QED  BY <1>2, <1>3, <1>4, <1>5, <1>6, ReadyFits

LEMMA ReadyBacksUp ==
  ASSUME TypeOK, ReadyInv, NEW r \in Requests, Snapshots(r) \/ Bundles(r)
  PROVE  ReadyInv'
<1>1. /\ db \in DbShape /\ parted \in BOOLEAN /\ wal \in {"none", "live", "stale"}
      /\ request \in [Requests -> RequestShape]
  BY DEF TypeOK
<1>2. UNCHANGED <<applied, at, phase, raced>> /\ (OnDb(db) \/ UNCHANGED db)
  BY DEF Snapshots, Bundles, ServeKeeps, Local
<1>3. db' \in DbShape /\ (~db'.mixed => ~db.mixed /\ db' = db)
  BY <1>1, <1>2, Connected, SoundIsRead
<1>4. ~db'.mixed => db'.done = db.done /\ db'.versions = db.versions /\ HasAll(db', db)
  BY <1>3 DEF HasAll
<1>5. "restore" \notin raced =>
        /\ Recorded(db')
        /\ \A b \in bundles : Recorded(b.db)
        /\ \A s \in Requests : /\ request[s].op = "backup" => Recorded(request[s].db)
                               /\ request[s].op = "restore" => Recorded(request[s].from.db)
  BY <1>3 DEF ReadyInv, SchemaFits, Recorded
<1>6. CASE Snapshots(r)
  <2>1. /\ UNCHANGED bundles /\ request[r] = NoRequest
        /\ request' = [request EXCEPT ![r] = [op |-> "backup", db |-> db']]
    BY <1>6 DEF Snapshots, Free
  <2>2. /\ request'[r].op = "backup" /\ request'[r].db = db' /\ request[r].op = "none"
        /\ \A s \in Requests : s # r => request'[s] = request[s]
    BY <1>1, <2>1 DEF NoRequest
  <2>3. Restores' = Restores  BY <2>2 DEF Restores
  <2>4. Replaced' = Replaced  BY <2>2, <2>3 DEF Replaced, Restores
  <2>5. "restore" \notin raced =>
          /\ \A b \in bundles' : Recorded(b.db)
          /\ \A s \in Requests : /\ request'[s].op = "backup" => Recorded(request'[s].db)
                                 /\ request'[s].op = "restore" => Recorded(request'[s].from.db)
    BY <1>5, <2>1, <2>2
  <2>6. QED  BY <1>2, <1>3, <1>4, <2>4, <2>5, ReadyFits
<1>7. CASE Bundles(r)
  <2> DEFINE b == [key |-> config, db |-> request[r].db, torn |-> parted \/ raced # {} \/ Restores # {}]
  <2>1. /\ request[r].op = "backup" /\ bundles' = bundles \cup {b} /\ b.db = request[r].db
        /\ request' = [request EXCEPT ![r] = NoRequest]
    BY <1>7 DEF Bundles
  <2> HIDE DEF b
  <2>2. /\ request'[r].op = "none" /\ \A s \in Requests : s # r => request'[s] = request[s]
    BY <1>1, <2>1 DEF NoRequest
  <2>3. Restores' = Restores  BY <2>1, <2>2 DEF Restores
  <2>4. Replaced' = Replaced  BY <2>1, <2>2, <2>3 DEF Replaced, Restores
  <2>5. "restore" \notin raced =>
          /\ \A c \in bundles' : Recorded(c.db)
          /\ \A s \in Requests : /\ request'[s].op = "backup" => Recorded(request'[s].db)
                                 /\ request'[s].op = "restore" => Recorded(request'[s].from.db)
    BY <1>5, <2>1, <2>2
  <2>6. QED  BY <1>2, <1>3, <1>4, <2>4, <2>5, ReadyFits
<1>8. QED  BY <1>6, <1>7

(* A restore. *)
LEMMA ReadyAsks ==
  ASSUME TypeOK, ReadyInv, NEW r \in Requests, NEW b \in bundles, AsksRestore(r, b)
  PROVE  ReadyInv'
<1>1. /\ UNCHANGED <<applied, at, phase, raced, db, bundles>> /\ request[r] = NoRequest
      /\ request' = [request EXCEPT ![r] = [op |-> "restore", pc |-> "key", from |-> b]]
      /\ request \in [Requests -> RequestShape] /\ db \in DbShape
  BY DEF AsksRestore, Free, ServeKeeps, Local, TypeOK
<1>2. /\ request'[r].op = "restore" /\ request'[r].pc = "key" /\ request'[r].from = b
      /\ request[r].op = "none"
      /\ \A s \in Requests : s # r => request'[s] = request[s]
  BY <1>1 DEF NoRequest
<1>3. Replaced' = Replaced  BY <1>2 DEF Replaced, Restores
<1>4. "restore" \notin raced =>
        /\ \A c \in bundles' : Recorded(c.db)
        /\ \A s \in Requests : /\ request'[s].op = "backup" => Recorded(request'[s].db)
                               /\ request'[s].op = "restore" => Recorded(request'[s].from.db)
  BY <1>1, <1>2 DEF ReadyInv, SchemaFits
<1>5. HasAll(db, db)  BY DEF HasAll
<1>6. QED  BY <1>1, <1>3, <1>4, <1>5, ReadyFits

LEMMA ReadyRestores ==
  ASSUME TypeOK, ReadyInv, NEW r \in Requests, RestoresKey(r) \/ RestoresDb(r) \/ DropsLog(r)
  PROVE  ReadyInv'
<1>1. /\ UNCHANGED <<bundles, phase, applied, at>> /\ r \in Restores
      /\ \E pc \in {"key", "db", "wal", "exit"} : Step(r, pc)
      /\ raced \subseteq raced'
  BY DEF RestoresKey, RestoresDb, DropsLog, ServeKeeps, Local, Restores
<1>2. PICK pc \in {"key", "db", "wal", "exit"} : Step(r, pc)  BY <1>1
<1>3. /\ request'[r].op = "restore" /\ request'[r].pc = pc /\ request'[r].from = request[r].from
      /\ \A s \in Requests : s # r => request'[s] = request[s]
      /\ Restores' = Restores /\ request[r].op = "restore"
  BY <1>1, <1>2, StepMoves DEF Restores
<1>4. StatementsCounted'
  BY <1>1 DEF ReadyInv, StatementsCounted, Missing
<1>5. Up' = Up  BY <1>1 DEF Up
<1>6. ASSUME "restore" \notin raced'
      PROVE  /\ \A b \in bundles' : Recorded(b.db)
             /\ \A s \in Requests : /\ request'[s].op = "backup" => Recorded(request'[s].db)
                                    /\ request'[s].op = "restore" => Recorded(request'[s].from.db)
  BY <1>1, <1>3, <1>6 DEF ReadyInv, SchemaFits
<1>7. CASE RestoresKey(r) \/ DropsLog(r)
  <2>1. db' \in DbShape /\ (~db'.mixed => db' = db)
    BY <1>7, SpoiltShape DEF RestoresKey, DropsLog, TypeOK
  <2>2. /\ (request[r].pc = "key" /\ Step(r, "db")) \/ (request[r].pc = "wal" /\ Step(r, "exit"))
    BY <1>7 DEF RestoresKey, DropsLog
  <2>3. Replaced # {} => Replaced' # {}
    <3>1. (request[r].pc = "key" /\ request'[r].pc = "db") \/ request'[r].pc = "exit"
      BY <1>1, <2>2, StepMoves
    <3>2. \A s \in Restores : request[s].pc \in {"wal", "exit"} => request'[s].pc \in {"wal", "exit"}
      BY <1>3, <3>1 DEF Restores
    <3>3. QED  BY <1>3, <3>2 DEF Replaced
  <2>4. \A p \in Workers : Missing(p)' = Missing(p) /\ Current(p)' = Current(p)
    BY <1>1 DEF Missing, Current
  <2>5. ~db'.mixed => \A p \in Workers : Prepared(p) => Prepared(p)'
    BY <1>1, <2>1, <2>4 DEF Prepared, Migrated
  <2>6. ASSUME "restore" \notin raced'
        PROVE  /\ Recorded(db')
               /\ ~db'.mixed => \A p \in Workers : Prepared(p)'
               /\ Up' # {} /\ Replaced' = {} /\ ~db'.mixed => Ready'
    <3>1. "restore" \notin raced  BY <1>1, <2>6
    <3>2. Recorded(db')  BY <2>1, <3>1 DEF ReadyInv, SchemaFits, Recorded
    <3>3. ~db'.mixed => \A p \in Workers : Prepared(p)'
      BY <2>1, <2>5, <3>1 DEF ReadyInv, SchemaFits
    <3>4. Up' # {} /\ Replaced' = {} /\ ~db'.mixed => Ready'
      BY <1>5, <2>1, <2>3, <3>1 DEF ReadyInv, SchemaFits, Ready, Migrated
    <3>5. QED  BY <3>2, <3>3, <3>4
  <2>7. SchemaFits'  BY <1>6, <2>6 DEF SchemaFits, Recorded
  <2>8. QED  BY <1>4, <2>7 DEF ReadyInv
<1>8. CASE RestoresDb(r)
  <2>1. /\ db' = request[r].from.db /\ raced' = raced \cup Meets /\ Step(r, "wal")
    BY <1>8 DEF RestoresDb
  <2>2. Replaced' # {}  BY <1>1, <1>3, <2>1, StepMoves DEF Replaced
  <2>3. ASSUME "restore" \notin raced' PROVE Recorded(db') /\ \A p \in Workers : Prepared(p)'
    <3>1. \A p \in Workers : phase[p] \in {"down", "up"}  BY <2>1, <2>3 DEF Meets
    <3>2. \A p \in Workers : Prepared(p)'  BY <1>1, <3>1 DEF Prepared
    <3>3. "restore" \notin raced  BY <1>1, <2>3
    <3>4. Recorded(request[r].from.db)  BY <1>1, <1>3, <3>3 DEF ReadyInv, SchemaFits
    <3>5. QED  BY <2>1, <3>2, <3>4 DEF Recorded
  <2>4. SchemaFits'  BY <1>6, <2>2, <2>3 DEF SchemaFits, Recorded
  <2>5. QED  BY <1>4, <2>4 DEF ReadyInv
<1>9. QED  BY <1>7, <1>8

(* The end of a process. *)
LEMMA ReadyDies ==
  ASSUME TypeOK, ReadyInv, OneServes, NEW p \in Workers, Exits(p) \/ Crash(p)
  PROVE  ReadyInv'
<1>1. /\ UNCHANGED <<db, bundles, raced>> /\ Ends(p)
      /\ IF phase[p] = "up" THEN request' = [r \in Requests |-> NoRequest] ELSE UNCHANGED request
  BY DEF Exits, Crash, Dies
<1>2. /\ phase'[p] = "down" /\ at'[p] = 1 /\ Prepared(p)'
      /\ \A q \in Workers : q # p => phase'[q] = phase[q] /\ applied'[q] = applied[q] /\ at'[q] = at[q]
  BY <1>1, EndsWell
<1>3. \A q \in Workers : q # p => Missing(q)' = Missing(q) /\ Current(q)' = Current(q)
  BY <1>2 DEF Missing, Current
<1>4. StatementsCounted'  BY <1>2, <1>3 DEF ReadyInv, StatementsCounted
<1>5. \A q \in Workers : Prepared(q) => Prepared(q)'
  BY <1>1, <1>2, <1>3 DEF Prepared, Migrated
<1>6. Up' = Up \ {p}  BY <1>2 DEF Up
<1>7. CASE phase[p] = "up"
  <2>1. Up' = {}  BY <1>6, <1>7 DEF OneServes, Up
  <2>2. \A r \in Requests : request'[r].op = "none"  BY <1>1, <1>7 DEF NoRequest
  <2>3. SchemaFits'
    BY <1>1, <1>5, <2>1, <2>2 DEF ReadyInv, SchemaFits, Recorded
  <2>4. QED  BY <1>4, <2>3 DEF ReadyInv
<1>8. CASE phase[p] # "up"
  <2>1. Up' = Up /\ UNCHANGED request  BY <1>1, <1>6, <1>8 DEF Up
  <2>2. Replaced' = Replaced  BY <2>1 DEF Replaced, Restores
  <2>3. SchemaFits'
    BY <1>1, <1>5, <2>1, <2>2 DEF ReadyInv, SchemaFits, Recorded, Ready, Migrated
  <2>4. QED  BY <1>4, <2>3 DEF ReadyInv
<1>9. QED  BY <1>7, <1>8

LEMMA ReadyBegins == Init => ReadyInv
<1> SUFFICES ASSUME Init PROVE ReadyInv
  OBVIOUS
<1>1. /\ db = EmptyDb /\ bundles = Given
      /\ \A p \in Workers : phase[p] = "down" /\ at[p] = 1
      /\ \A r \in Requests : request[r].op = "none"
  BY DEF Init, NoRequest
<1>2. Up = {}  BY <1>1 DEF Up
<1>3. Recorded(db)  BY <1>1 DEF Recorded, EmptyDb
<1>4. \A p \in Workers : Prepared(p)  BY <1>1 DEF Prepared
<1>5. SchemaFits  BY <1>1, <1>2, <1>3, <1>4, GivenAssumption DEF SchemaFits
<1>6. StatementsCounted  BY <1>1 DEF StatementsCounted
<1>7. QED  BY <1>5, <1>6 DEF ReadyInv

LEMMA ReadyStep ==
  ASSUME TypeOK, ReadyInv, OneServes, KeyComesFirst, [Next]_vars
  PROVE  ReadyInv'
<1>1. ASSUME UNCHANGED dataVars PROVE ReadyInv'
  <2>1. /\ UNCHANGED <<applied, at, phase, raced, db, request, bundles>>
        /\ Replaced' = Replaced
    BY <1>1 DEF dataVars, Replaced, Restores
  <2>2. db \in DbShape /\ HasAll(db, db)  BY DEF TypeOK, HasAll
  <2>3. "restore" \notin raced =>
          /\ \A b \in bundles' : Recorded(b.db)
          /\ \A r \in Requests : /\ request'[r].op = "backup" => Recorded(request'[r].db)
                                 /\ request'[r].op = "restore" => Recorded(request'[r].from.db)
    BY <2>1 DEF ReadyInv, SchemaFits
  <2>4. QED  BY <2>1, <2>2, <2>3, ReadyFits
<1>2. ASSUME NEW p \in Workers, Boots(p) \/ SavesSecret(p) \/ EditsData(p) \/ Exits(p) \/ Crash(p)
      PROVE  ReadyInv'
  BY <1>2, ReadyBoots, ReadySaves, ReadyDies
<1>3. ASSUME NEW r \in Requests, Snapshots(r) \/ Serves(r) PROVE ReadyInv'
  BY <1>3, ReadyBacksUp, ReadyRestores DEF Serves
<1>4. ASSUME NEW r \in Requests, NEW b \in bundles, AsksRestore(r, b) PROVE ReadyInv'
  BY <1>4, ReadyAsks
<1>5. QED  BY <1>1, <1>2, <1>3, <1>4 DEF Next, vars, PreparesCert, CertCrash
-----------------------------------------------------------------------------
(***************************************************************************)
(* The theorems.                                                           *)
(***************************************************************************)
LEMMA DirBegins == Init => DirInv
<1> SUFFICES ASSUME Init PROVE DirInv
  OBVIOUS
<1>1. CertKept
  <2>1. Installing = {} /\ served["cert"] = served["key"]
    BY DEF Init, CertInit, Installing, Slots
  <2>2. QED  BY <2>1 DEF CertKept, PairMatches
<1>2. QED  BY <1>1, TypeBegins, KeyBegins, ReadyBegins DEF DirInv

LEMMA DirStep == DirInv /\ [Next]_vars => DirInv'
<1> SUFFICES ASSUME DirInv, [Next]_vars PROVE DirInv'
  OBVIOUS
<1>1. CertInv /\ CertInv'
  <2>1. CertInv  BY DEF DirInv, TypeOK, CertInv
  <2>2. QED  BY <2>1, CertStep
<1>2. DataTypeOK'  BY DataTypeStep DEF DirInv, KeyInv
<1>3. TypeOK' /\ CertKept'  BY <1>1, <1>2 DEF TypeOK, CertInv, DataTypeOK
<1>4. KeyInv'  BY KeyStep DEF DirInv
<1>5. ReadyInv'  BY ReadyStep DEF DirInv, KeyInv
<1>6. QED  BY <1>3, <1>4, <1>5 DEF DirInv

LEMMA DirInvHolds == Spec => []DirInv
  BY DirBegins, DirStep, PTL DEF Spec

(* Files, databases, backups, processes and requests keep their shapes     *)
(* (config.py, store/db.py, backup.py, tls.py).                            *)
THEOREM DataTyped == Spec => []TypeOK
<1>1. DirInv => TypeOK  BY DEF DirInv
<1>2. QED  BY <1>1, DirInvHolds, PTL

(* An installation that ran alone and whole leaves a certificate and a key *)
(* that belong together, whatever crossed pair and temporary files others  *)
(* left when they were cut short, failed or overlapped; and they stay so   *)
(* until the next that is not whole (tls.py: _write_atomic,                *)
(* validate_and_install_cert, generate_self_signed).                       *)
THEOREM PairHolds == Spec => []PairMatches
<1>1. DirInv => PairMatches
  BY DEF DirInv, CertKept, PairMatches
<1>2. QED  BY <1>1, DirInvHolds, PTL

(* The key on disk opens the database on disk and every backup, and is the *)
(* one the serving process seals with, across crashes and restores, but    *)
(* for the restores and first starts the property names (config.py: load;  *)
(* backup.py: create_backup, restore_backup).                              *)
THEOREM KeyStays == Spec => []KeyStaysWithTheDatabase
<1>1. DirInv => KeyStaysWithTheDatabase
  <2> SUFFICES ASSUME DirInv PROVE KeyStaysWithTheDatabase
    OBVIOUS
  <2>1. \A b \in bundles : ~b.torn => KeyOpens(b.key, b.db)
    BY DEF DirInv, KeyInv, BundlesFit
  <2>2. Restores = {} /\ ~parted /\ raced = {} =>
          KeyOpens(config, db) /\ \A p \in Up : memKey[p] = config
    BY DEF DirInv, KeyInv, KeyFits
  <2>3. QED  BY <2>1, <2>2 DEF KeyStaysWithTheDatabase
<1>2. QED  BY <1>1, DirInvHolds, PTL

(* A process that serves has the whole schema, each version of it          *)
(* recorded, and an account and a mission unless people removed them,      *)
(* wherever starts were cut and however many ran at once, but for a        *)
(* database that another's log has spoiled (store/db.py: migrate; app.py:  *)
(* boot; auth.py: ensure_admin).                                           *)
THEOREM ReadyHolds == Spec => []UpMeansReady
<1>1. DirInv => UpMeansReady
  <2> SUFFICES ASSUME DirInv, Up # {}, Restores = {}, "restore" \notin raced, ~db.mixed
               PROVE  /\ db.done = Statements /\ db.versions = Versions
                      /\ db.account # "never" /\ db.mission # "never"
    BY DEF UpMeansReady
  <2>1. Replaced = {}  BY DEF Replaced
  <2>2. Recorded(db) /\ Ready  BY <2>1 DEF DirInv, ReadyInv, SchemaFits
  <2>3. db.done \subseteq Statements  BY DEF DirInv, TypeOK, DbShape
  <2>4. Statements \subseteq db.done  BY <2>2 DEF Recorded, Ready, Migrated, Statements
  <2>5. QED  BY <2>2, <2>3, <2>4 DEF Ready, Migrated
<1>2. QED  BY <1>1, DirInvHolds, PTL
=============================================================================
