------------------------- MODULE JobSchedulerProofs -------------------------
(***************************************************************************)
(* No cron job is started twice for one minute in one life of the service, *)
(* however ticks, restarts and people interleave, and none that a tick got *)
(* past is missed.                                                         *)
(*                                                                         *)
(* _fired holds only the local time a job last fired at, and local times   *)
(* come back when the clocks are put back; it is enough for one minute     *)
(* because no tick looks at an earlier minute than one a job has already   *)
(* fired in.  A restart empties it, and then only the minute it falls in   *)
(* can still be looked at among those that have begun.                     *)
(***************************************************************************)
EXTENDS JobScheduler, TLAPS

(* No tick looks at minute m any more. *)
Past(m) == m < minute /\ (tick.on => m < tick.at)

(* _fired against the clock: no start is ahead of the tick that may fire   *)
(* next, and once the starts its restarts allow a minute are used up,      *)
(* _fired tells of it or no tick can come back to it.                      *)
FiredUpToNow ==
  /\ tick.todo # {} => tick.on
  /\ tick.on => tick.at <= minute
  /\ \A j \in Jobs, m \in Minutes : starts[j][m] > 0 => m <= minute /\ (tick.on => m <= tick.at)
  /\ \A j \in Jobs, m \in Minutes : starts[j][m] > boots[m] => fired[j] = LocalOf[m] \/ Past(m)

FireInv == TypeOK /\ FiredUpToNow /\ FiresOncePerMinute

(* What a thread, a request and a row look like when there is one. *)
LEMMA Shapes ==
  ASSUME TypeOK
  PROVE  /\ \A j \in Jobs : Live(j) => jobs[j] \in JobShape
         /\ \A t \in tick.todo : t.id \in Jobs /\ t.job \in JobShape
         /\ \A e \in Editors : edits[e] # NoEdit => edits[e].job \in Jobs /\ edits[e].row \in JobShape
         /\ \A r \in RunIds : runs[r].pc # Idle => runs[r].job \in Jobs
         /\ \A r \in RunIds : runs[r].pc = "start" => runs[r] \in [pc : {"start"}, job : Jobs]
         /\ \A r \in RunIds : runs[r].pc \in {"working", "report", "disable"} =>
              runs[r] \in [pc : {"working", "report", "disable"}, job : Jobs, row : JobShape]
  BY DEF TypeOK, Live, TickShape, RunShape, NoRun, Idle

(* The scheduler between two ticks. *)
LEMMA BetweenTicks == NoTick \in TickShape /\ NoTick.todo = {} /\ 0 \in Minutes
  BY ClockAssumption DEF NoTick, TickShape, Minutes

(* The initial state is well typed. *)
LEMMA TypeInit == Init => TypeOK
<1> SUFFICES ASSUME Init PROVE TypeOK
  OBVIOUS
<1>1. tick \in TickShape /\ \A t, u \in tick.todo : t.id = u.id => t = u
  BY BetweenTicks DEF Init
<1>2. jobs \in [Jobs -> Rows] /\ minute \in Minutes  BY BetweenTicks DEF Init, Rows
<1>3. runs \in [RunIds -> RunShape]  BY DEF Init, RunShape
<1>4. QED  BY <1>1, <1>2, <1>3 DEF Init, TypeOK

(* A step keeps the state well typed. *)
LEMMA TypeStep == TypeOK /\ [Next]_vars => TypeOK'
<1> SUFFICES ASSUME TypeOK, [Next]_vars PROVE TypeOK'
  OBVIOUS
<1> USE DEF TypeOK
<1>1. CASE Advance
  BY <1>1 DEF Advance
<1>2. CASE TickStart
  <2>1. tick' \in TickShape
    BY <1>2 DEF TickStart, TickShape, Live
  <2>2. \A t, u \in tick'.todo : t.id = u.id => t = u
    BY <1>2 DEF TickStart
  <2>3. QED  BY <1>2, <2>1, <2>2 DEF TickStart
<1>3. ASSUME NEW t \in tick.todo, TickTakes(t) PROVE TypeOK'
  <2>1. t.id \in Jobs /\ tick.at \in Minutes /\ tick \in TickShape  BY Shapes DEF TickShape
  <2>2. tick' \in TickShape /\ tick'.todo \subseteq tick.todo
    BY <1>3, <2>1 DEF TickTakes, TickShape
  <2>3. runs' \in [RunIds -> RunShape]
    <3>1. \A r \in RunIds : Spawn(r, t.id) => runs' \in [RunIds -> RunShape]
      BY <2>1 DEF Spawn, RunShape
    <3>2. QED  BY <1>3, <3>1 DEF TickTakes
  <2>4. fired' \in [Jobs -> Nat \cup {Never}]
    <3>1. LocalOf[tick.at] \in Nat  BY <2>1, ClockAssumption
    <3>2. QED  BY <1>3, <2>1, <3>1 DEF TickTakes
  <2>5. starts' \in [Jobs -> [Minutes -> Nat]]
    <3>1. [starts EXCEPT ![t.id][tick.at] = @ + 1] \in [Jobs -> [Minutes -> Nat]]
      BY <2>1
    <3>2. QED  BY <1>3, <3>1 DEF TickTakes
  <2>6. seen' \subseteq Jobs  BY <1>3, <2>1 DEF TickTakes
  <2>7. QED  BY <1>3, <2>2, <2>3, <2>4, <2>5, <2>6 DEF TickTakes
<1>4. CASE TickEnds \/ TickFails
  <2>1. tick' \in TickShape /\ \A t, u \in tick'.todo : t.id = u.id => t = u
    BY <1>4, BetweenTicks DEF TickEnds, TickFails
  <2>2. seen' \subseteq Jobs  BY <1>4 DEF TickEnds, TickFails
  <2>3. QED  BY <1>4, <2>1, <2>2 DEF TickEnds, TickFails
<1>5. ASSUME NEW r \in RunIds, RunStep(r) PROVE TypeOK'
  <2>1. CASE RunReads(r)
    <3>1. runs[r].job \in Jobs  BY <2>1, Shapes DEF RunReads, Idle
    <3>2. QED  BY <2>1, <3>1, Shapes DEF RunReads, runUnchanged, RunShape
  <2>2. CASE RunWorks(r)
    <3>1. runs[r] \in [pc : {"working", "report", "disable"}, job : Jobs, row : JobShape]
      BY <2>2, Shapes DEF RunWorks
    <3>2. [runs[r] EXCEPT !.pc = "report"] \in RunShape  BY <3>1 DEF RunShape
    <3>3. QED  BY <2>2, <3>2 DEF RunWorks, runUnchanged
  <2>3. CASE RunReports(r)
    <3>1. runs[r] \in [pc : {"working", "report", "disable"}, job : Jobs, row : JobShape]
      BY <2>3, Shapes DEF RunReports
    <3>2. [runs[r] EXCEPT !.pc = "disable"] \in RunShape /\ NoRun \in RunShape
      BY <3>1 DEF RunShape
    <3>3. runs' \in [RunIds -> RunShape]  BY <2>3, <3>2 DEF RunReports
    <3>4. QED  BY <2>3, <3>3 DEF RunReports, runUnchanged
  <2>4. CASE RunDisables(r)
    <3>1. \A row \in JobShape : [row EXCEPT !.enabled = FALSE] \in JobShape  BY DEF JobShape
    <3>2. jobs' \in [Jobs -> Rows]  BY <2>4, <3>1 DEF RunDisables, Rows, Live
    <3>3. QED  BY <2>4, <3>2 DEF RunDisables, runUnchanged, RunShape
  <2>5. QED  BY <1>5, <2>1, <2>2, <2>3, <2>4 DEF RunStep
<1>6. ASSUME NEW j \in Jobs, NEW kind \in Kinds, NEW when \in Schedules, NEW enabled \in BOOLEAN,
             Create(j, kind, when, enabled)
      PROVE TypeOK'
  <2>1. [kind |-> kind, when |-> when, enabled |-> enabled] \in Rows
    BY DEF JobShape, Rows
  <2>2. QED  BY <1>6, <2>1 DEF Create, Acts, Touch
<1>7. ASSUME NEW e \in Editors, NEW j \in Jobs, EditReads(e, j) PROVE TypeOK'
  BY <1>7, Shapes DEF EditReads, Acts
<1>8. ASSUME NEW e \in Editors, Write(e) PROVE TypeOK'
  <2>1. PICK change \in Changes : EditWrites(e, change)  BY <1>8 DEF Write
  <2>2. edits[e].job \in Jobs /\ edits[e].row \in JobShape  BY <1>8, Shapes DEF Write
  <2>3. Merged(edits[e].row, change) \in JobShape  BY <2>2 DEF Merged, Changes, JobShape
  <2>4. QED  BY <2>1, <2>2, <2>3 DEF EditWrites, Touch, Rows
<1>9. ASSUME NEW j \in Jobs, Delete(j) PROVE TypeOK'
  BY <1>9 DEF Delete, Acts, Touch, Rows
<1>10. ASSUME NEW j \in Jobs, RunNow(j) PROVE TypeOK'
  <2>1. \A r \in RunIds : Spawn(r, j) => runs' \in [RunIds -> RunShape]  BY DEF Spawn, RunShape
  <2>2. QED  BY <1>10, <2>1 DEF RunNow, Acts
<1>11. CASE Restart
  <2>1. tick' \in TickShape /\ \A t, u \in tick'.todo : t.id = u.id => t = u
    BY <1>11, BetweenTicks DEF Restart
  <2>2. runs' \in [RunIds -> RunShape]  BY <1>11 DEF Restart, RunShape
  <2>3. boots' \in [Minutes -> Nat]
    BY <1>11 DEF Restart
  <2>4. fired' \in [Jobs -> Nat \cup {Never}]  BY <1>11 DEF Restart
  <2>5. edits' \in [Editors -> [job : Jobs, row : JobShape] \cup {NoEdit}]
    BY <1>11 DEF Restart
  <2>6. UNCHANGED <<jobs, minute, seen, touched, starts>> /\ acts' = acts + 1
    BY <1>11 DEF Restart, Acts
  <2>7. acts' \in Nat  BY <2>6
  <2>8. QED  BY <2>1, <2>2, <2>3, <2>4, <2>5, <2>6, <2>7
<1>12. CASE UNCHANGED vars
  BY <1>12 DEF vars
<1>13. QED
  BY <1>1, <1>2, <1>3, <1>4, <1>5, <1>6, <1>7, <1>8, <1>9, <1>10, <1>11, <1>12
     DEF Next, Tick, People
-----------------------------------------------------------------------------
(* Initially nothing has fired. *)
LEMMA FireInit == Init => FireInv
<1> SUFFICES ASSUME Init PROVE FireInv
  OBVIOUS
<1>1. TypeOK  BY TypeInit
<1>2. FiredUpToNow /\ FiresOncePerMinute
  BY <1>1 DEF Init, FiredUpToNow, FiresOncePerMinute, NoTick
<1>3. QED  BY <1>1, <1>2 DEF FireInv

(* A step starts no job in a minute that has had all its starts. *)
LEMMA FireStep == FireInv /\ [Next]_vars => FireInv'
<1> SUFFICES ASSUME FireInv, [Next]_vars PROVE (FiredUpToNow /\ FiresOncePerMinute)'
  BY TypeStep DEF FireInv
<1>0. /\ TypeOK /\ FiredUpToNow /\ FiresOncePerMinute
      /\ minute \in Int
      /\ \A j \in Jobs, m \in Minutes : starts[j][m] \in Nat /\ boots[m] \in Nat
      /\ \A m \in Minutes : m \in Int
      /\ tick.at \in Int
  BY ClockAssumption DEF FireInv, TypeOK, Minutes, TickShape
<1>1. CASE Advance
  BY <1>0, <1>1 DEF Advance, FiredUpToNow, FiresOncePerMinute, Past
<1>2. CASE TickStart
  BY <1>0, <1>2 DEF TickStart, FiredUpToNow, FiresOncePerMinute, Past
<1>3. ASSUME NEW t \in tick.todo, TickTakes(t) PROVE (FiredUpToNow /\ FiresOncePerMinute)'
  <2>1. t.id \in Jobs /\ tick.at \in Minutes  BY <1>0, Shapes DEF TypeOK, TickShape
  <2>2. /\ minute' = minute /\ tick'.on = tick.on /\ tick'.at = tick.at /\ boots' = boots
    BY <1>0, <1>3 DEF TickTakes, TypeOK, TickShape
  <2>3. CASE UNCHANGED <<fired, starts>>
    BY <1>0, <2>2, <2>3 DEF FiredUpToNow, FiresOncePerMinute, Past
  <2>4. CASE /\ fired[t.id] # LocalOf[tick.at]
             /\ fired' = [fired EXCEPT ![t.id] = LocalOf[tick.at]]
             /\ starts' = [starts EXCEPT ![t.id][tick.at] = @ + 1]
    <3>1. tick.on  BY <1>0, <1>3 DEF FiredUpToNow
    <3>2. starts[t.id][tick.at] <= boots[tick.at]
      BY <1>0, <2>1, <2>4, <3>1 DEF FiredUpToNow, Past
    <3>3. \A j \in Jobs, m \in Minutes :
            starts'[j][m] = IF j = t.id /\ m = tick.at THEN starts[j][m] + 1 ELSE starts[j][m]
      BY <1>0, <2>1, <2>4 DEF TypeOK
    <3>4. \A j \in Jobs : fired'[j] = IF j = t.id THEN LocalOf[tick.at] ELSE fired[j]
      BY <1>0, <2>4 DEF TypeOK
    <3>5. ASSUME NEW j \in Jobs, NEW m \in Minutes, starts'[j][m] > 0
          PROVE  m <= minute /\ m <= tick.at
      BY <1>0, <3>1, <3>3, <3>5 DEF FiredUpToNow
    <3>6. ASSUME NEW j \in Jobs, NEW m \in Minutes, starts'[j][m] > boots[m]
          PROVE  fired'[j] = LocalOf[m] \/ (m < minute /\ m < tick.at)
      <4>1. CASE j = t.id
        <5>1. starts'[j][m] > 0  BY <1>0, <3>3, <3>6, <4>1
        <5>2. m <= minute /\ m <= tick.at  BY <3>5, <5>1
        <5>3. tick.at <= minute  BY <1>0, <3>1 DEF FiredUpToNow
        <5>4. CASE m = tick.at  BY <3>4, <4>1, <5>4
        <5>5. CASE m # tick.at  BY <1>0, <5>2, <5>3, <5>5
        <5>6. QED  BY <5>4, <5>5
      <4>2. CASE j # t.id
        BY <1>0, <3>1, <3>3, <3>4, <3>6, <4>2 DEF FiredUpToNow, Past
      <4>3. QED  BY <4>1, <4>2
    <3>7. FiredUpToNow'
      BY <1>0, <1>3, <2>2, <3>1, <3>5, <3>6 DEF FiredUpToNow, Past
    <3>8. FiresOncePerMinute'  BY <1>0, <2>1, <2>2, <3>2, <3>3 DEF FiresOncePerMinute
    <3>9. QED  BY <3>7, <3>8
  <2>5. QED  BY <1>3, <2>3, <2>4 DEF TickTakes, Due
<1>4. CASE TickEnds \/ TickFails
  BY <1>0, <1>4 DEF TickEnds, TickFails, FiredUpToNow, FiresOncePerMinute, NoTick, Past
<1>5. CASE UNCHANGED <<minute, tick, fired, starts, boots>>
  BY <1>0, <1>5 DEF FiredUpToNow, FiresOncePerMinute, Past
<1>6. CASE Restart
  <2>1. /\ UNCHANGED <<minute, starts>> /\ ~tick'.on /\ tick'.todo = {}
        /\ \A m \in Minutes : boots'[m] = IF m = minute THEN boots[m] + 1 ELSE boots[m]
    BY <1>0, <1>6 DEF Restart, NoTick, TypeOK
  <2>2. ASSUME NEW j \in Jobs, NEW m \in Minutes, starts[j][m] > boots'[m] PROVE m < minute
    <3>1. starts[j][m] > 0 /\ m <= minute  BY <1>0, <2>1, <2>2 DEF FiredUpToNow
    <3>2. m # minute  BY <1>0, <2>1, <2>2 DEF FiresOncePerMinute
    <3>3. QED  BY <1>0, <3>1, <3>2
  <2>3. FiredUpToNow'  BY <1>0, <2>1, <2>2 DEF FiredUpToNow, Past
  <2>4. FiresOncePerMinute'  BY <1>0, <2>1 DEF FiresOncePerMinute
  <2>5. QED  BY <2>3, <2>4
<1>7. QED
  <2>1. CASE UNCHANGED vars  BY <1>5, <2>1 DEF vars
  <2>2. CASE Next
    BY <1>1, <1>2, <1>3, <1>4, <1>5, <1>6, <2>2
       DEF Next, Tick, People, RunStep, RunReads, RunWorks, RunReports, RunDisables, runUnchanged,
           Create, EditReads, Write, EditWrites, Delete, RunNow
  <2>3. QED  BY <2>1, <2>2
-----------------------------------------------------------------------------
(* Every behaviour keeps the scheduler's state typed. *)
THEOREM SchedulerTyped == Spec => []TypeOK
<1>1. TypeOK /\ [Next]_vars => TypeOK'  BY TypeStep
<1>2. QED  BY <1>1, TypeInit, PTL DEF Spec

(* _fired keeps every cron job to one start a minute and one more for each *)
(* restart within it (schedule._tick), for every set of jobs, schedules,   *)
(* requests and run threads, and any clock.                                *)
THEOREM FiresOnce == Spec => []FiresOncePerMinute
<1>1. FireInv => FiresOncePerMinute  BY DEF FireInv
<1>2. QED  BY <1>1, FireInit, FireStep, PTL DEF Spec

(* Nothing writes to the row of a deleted job. *)
LEMMA GoneStays == TypeOK /\ [Next]_vars => \A j \in Jobs : jobs[j] = Gone => jobs'[j] = Gone
<1> SUFFICES ASSUME TypeOK, [Next]_vars, NEW j \in Jobs, jobs[j] = Gone PROVE jobs'[j] = Gone
  OBVIOUS
<1>1. jobs \in [Jobs -> Rows] /\ ~Live(j) /\ jobs[j] # NotYet
  BY RowsAssumption DEF TypeOK, Live
<1>2. ASSUME NEW k \in Jobs, NEW kind \in Kinds, NEW when \in Schedules, NEW enabled \in BOOLEAN,
             Create(k, kind, when, enabled)
      PROVE jobs'[j] = Gone
  BY <1>1, <1>2 DEF Create
<1>3. ASSUME NEW e \in Editors, Write(e) PROVE jobs'[j] = Gone
  BY <1>1, <1>3 DEF Write, EditWrites
<1>4. ASSUME NEW k \in Jobs, Delete(k) PROVE jobs'[j] = Gone
  BY <1>1, <1>4 DEF Delete
<1>5. ASSUME NEW r \in RunIds, RunDisables(r) PROVE jobs'[j] = Gone
  BY <1>1, <1>5 DEF RunDisables
<1>6. CASE UNCHANGED jobs
  BY <1>6
<1>7. QED
  BY <1>2, <1>3, <1>4, <1>5, <1>6
     DEF Next, vars, Advance, Tick, TickStart, TickTakes, TickEnds, TickFails, RunStep, RunReads,
         RunWorks, RunReports, People, EditReads, RunNow, Restart

(* A deleted job stays deleted: neither the run that outlives it nor the   *)
(* edit that read it before writes its row again (schedule.update, run_job).*)
THEOREM DeletedStays == Spec => DeletedForGood
<1>1. TypeOK /\ [Next]_vars => [\A j \in Jobs : jobs[j] = Gone => jobs'[j] = Gone]_vars
  BY GoneStays
<1>2. QED  BY <1>1, SchedulerTyped, PTL DEF Spec, DeletedForGood
-----------------------------------------------------------------------------
(* What a tick owes a job that nobody touches: it is started in a minute   *)
(* that reads as the present one.                                          *)
Wants(j) == Live(j) /\ jobs[j].enabled /\ jobs[j].kind = "cron" /\ LocalOf[minute] \in jobs[j].when

StartedAt(local, now, counts) == \E m \in 0 .. now : LocalOf[m] = local /\ counts[m] > 0

(* _fired never lies: it names a minute the job was started in.  So a job  *)
(* a tick of this minute has got past has been started, and the others are *)
(* still before it, with the row they have now, until a restart ends it.   *)
NothingPassedOver ==
  /\ \A j \in Jobs : fired[j] # Never => StartedAt(fired[j], minute, starts[j])
  /\ \A j \in Jobs \ touched : Wants(j) =>
       /\ tick.on /\ tick.at = minute =>
            [id |-> j, job |-> jobs[j]] \in tick.todo \/ StartedAt(LocalOf[minute], minute, starts[j])
       /\ j \in seen => StartedAt(LocalOf[minute], minute, starts[j])

MissInv == FireInv /\ NothingPassedOver

(* Initially no tick has passed over anything. *)
LEMMA MissInit == Init => MissInv
<1> SUFFICES ASSUME Init PROVE MissInv
  OBVIOUS
<1>1. FireInv  BY FireInit
<1>2. NothingPassedOver  BY DEF Init, NothingPassedOver, NoTick
<1>3. QED  BY <1>1, <1>2 DEF MissInv

(* A start stays counted. *)
LEMMA StartsStay ==
  ASSUME FireInv, [Next]_vars
  PROVE  \A j \in Jobs : \A local :
           StartedAt(local, minute, starts[j]) => StartedAt(local, minute', starts'[j])
<1> SUFFICES ASSUME NEW j \in Jobs, NEW m \in 0 .. minute, starts[j][m] > 0
             PROVE  m \in 0 .. minute' /\ starts'[j][m] > 0
  BY DEF StartedAt
<1>1. TypeOK /\ TypeOK'  BY TypeStep DEF FireInv
<1>2. m \in Minutes /\ minute \in Int /\ m \in 0 .. minute + 1
  BY <1>1, ClockAssumption DEF TypeOK, Minutes
<1>3. ASSUME NEW t \in tick.todo, TickTakes(t) PROVE m \in 0 .. minute' /\ starts'[j][m] > 0
  <2>1. t.id \in Jobs /\ tick.at \in Minutes  BY <1>1, Shapes DEF TypeOK, TickShape
  <2>2. \/ UNCHANGED starts
        \/ starts' = [starts EXCEPT ![t.id][tick.at] = @ + 1]
    BY <1>3 DEF TickTakes
  <2>3. starts[j][m] \in Nat /\ starts \in [Jobs -> [Minutes -> Nat]]
    BY <1>1, <1>2 DEF TypeOK
  <2>4. starts'[j][m] \in {starts[j][m], starts[j][m] + 1}
    BY <1>2, <2>1, <2>2, <2>3
  <2>5. QED  BY <1>3, <2>3, <2>4 DEF TickTakes
<1>4. CASE Advance  BY <1>2, <1>4 DEF Advance
<1>5. CASE UNCHANGED <<minute, starts>>  BY <1>5
<1>6. QED
  BY <1>3, <1>4, <1>5
     DEF Next, vars, Tick, TickStart, TickEnds, TickFails, RunStep, RunReads, RunWorks, RunReports,
         RunDisables, runUnchanged, People, Create, EditReads, Write, EditWrites, Delete, RunNow,
         Restart

(* A step passes over no job. *)
LEMMA MissStep == MissInv /\ [Next]_vars => MissInv'
<1> SUFFICES ASSUME MissInv, [Next]_vars PROVE NothingPassedOver'
  BY FireStep DEF MissInv
<1>0. /\ TypeOK /\ TypeOK' /\ FireInv /\ FireInv' /\ NothingPassedOver
      /\ minute \in Int /\ minute \in Minutes
  <2>1. TypeOK /\ TypeOK' /\ FireInv /\ FireInv' /\ NothingPassedOver
    BY FireStep DEF MissInv, FireInv
  <2>2. minute \in Minutes  BY <2>1 DEF TypeOK
  <2>3. minute \in Int  BY <2>2, ClockAssumption DEF Minutes
  <2>4. QED  BY <2>1, <2>2, <2>3
<1>S. \A j \in Jobs : \A local :
         StartedAt(local, minute, starts[j]) => StartedAt(local, minute', starts'[j])
  BY <1>0, StartsStay
<1>1. CASE Advance
  <2>1. \A j \in Jobs : fired'[j] # Never => StartedAt(fired'[j], minute', starts'[j])
    BY <1>0, <1>1, <1>S DEF Advance, NothingPassedOver
  <2>2. seen' = {} /\ (tick'.on => tick'.at # minute')
    BY <1>0, <1>1 DEF Advance, FireInv, FiredUpToNow, TypeOK, TickShape, Minutes
  <2>3. QED  BY <2>1, <2>2 DEF NothingPassedOver
<1>2. CASE TickStart
  <2>1. \A j \in Jobs : Wants(j)' => [id |-> j, job |-> jobs[j]] \in tick'.todo
    BY <1>2 DEF TickStart, Wants, Live
  <2>2. \A j \in Jobs : Wants(j)' = Wants(j)  BY <1>2 DEF TickStart, Wants, Live
  <2>3. \A j \in Jobs : \A local :
             StartedAt(local, minute', starts'[j]) = StartedAt(local, minute, starts[j])
    BY <1>2 DEF TickStart, StartedAt
  <2>4. QED  BY <1>0, <1>2, <2>1, <2>2, <2>3 DEF TickStart, NothingPassedOver
<1>3. ASSUME NEW t \in tick.todo, TickTakes(t) PROVE NothingPassedOver'
  <2>1. /\ t.id \in Jobs /\ t.job \in JobShape /\ tick.at \in Minutes /\ tick.on /\ tick.at <= minute
        /\ tick'.on = tick.on /\ tick'.at = tick.at /\ tick'.todo = tick.todo \ {t}
    BY <1>0, <1>3, Shapes DEF TickTakes, TypeOK, TickShape, FireInv, FiredUpToNow
  <2>2. /\ \A j \in Jobs : Wants(j)' = Wants(j)
        /\ UNCHANGED <<jobs, minute, touched>>
        /\ seen' \subseteq IF tick.at = minute THEN seen \cup {t.id} ELSE seen
    BY <1>0, <1>3 DEF TickTakes, Wants, Live
  <2>3. \A j \in Jobs : StartedAt(LocalOf[minute], minute, starts[j])
                        => StartedAt(LocalOf[minute'], minute', starts'[j])
    BY <1>S, <2>2
  <2>4. \A j \in Jobs : fired'[j] # Never => StartedAt(fired'[j], minute', starts'[j])
    <3>1. CASE UNCHANGED <<fired, starts>>
      BY <1>0, <2>2, <3>1 DEF NothingPassedOver, StartedAt
    <3>2. CASE /\ fired' = [fired EXCEPT ![t.id] = LocalOf[tick.at]]
               /\ starts' = [starts EXCEPT ![t.id][tick.at] = @ + 1]
      <4> SUFFICES ASSUME NEW j \in Jobs, fired'[j] # Never
                   PROVE  StartedAt(fired'[j], minute', starts'[j])
        OBVIOUS
      <4>1. CASE j = t.id
        <5>1. starts'[j][tick.at] > 0
          <6>1. starts \in [Jobs -> [Minutes -> Nat]]  BY <1>0 DEF TypeOK
          <6>2. starts'[j][tick.at] = starts[j][tick.at] + 1 /\ starts[j][tick.at] \in Nat
            BY <2>1, <3>2, <4>1, <6>1
          <6>3. QED  BY <6>2
        <5>2. fired'[j] = LocalOf[tick.at]  BY <1>0, <3>2, <4>1 DEF TypeOK
        <5>3. tick.at \in 0 .. minute'  BY <1>0, <2>1, <2>2, ClockAssumption DEF Minutes
        <5>4. QED  BY <5>1, <5>2, <5>3 DEF StartedAt
      <4>2. CASE j # t.id
        <5>1. fired'[j] = fired[j]  BY <1>0, <3>2, <4>2 DEF TypeOK
        <5>2. StartedAt(fired[j], minute, starts[j])  BY <1>0, <5>1 DEF NothingPassedOver
        <5>3. QED  BY <1>S, <5>1, <5>2
      <4>3. QED  BY <4>1, <4>2
    <3>3. QED  BY <1>3, <3>1, <3>2 DEF TickTakes
  <2>5. ASSUME Wants(t.id), tick.at = minute, t.job = jobs[t.id]
        PROVE  StartedAt(LocalOf[minute'], minute', starts'[t.id])
    <3>1. fired'[t.id] = LocalOf[minute]
      BY <1>0, <1>3, <2>1, <2>5 DEF TickTakes, Due, Wants, TypeOK
    <3>2. fired'[t.id] # Never  BY <1>0, <3>1, ClockAssumption DEF Never
    <3>3. QED  BY <2>1, <2>2, <2>4, <3>1, <3>2
  <2>6. ASSUME NEW j \in Jobs \ touched, Wants(j)
        PROVE  /\ tick.at = minute => \/ [id |-> j, job |-> jobs[j]] \in tick'.todo
                                      \/ StartedAt(LocalOf[minute'], minute', starts'[j])
               /\ j \in seen' => StartedAt(LocalOf[minute'], minute', starts'[j])
    <3>1. /\ tick.at = minute => \/ [id |-> j, job |-> jobs[j]] \in tick.todo
                                  \/ StartedAt(LocalOf[minute], minute, starts[j])
          /\ j \in seen => StartedAt(LocalOf[minute], minute, starts[j])
      BY <1>0, <2>1, <2>6 DEF NothingPassedOver
    <3>2. CASE j # t.id
      <4>1. t # [id |-> j, job |-> jobs[j]] /\ (j \in seen' => j \in seen)
        BY <2>2, <3>2
      <4>2. QED  BY <2>1, <2>3, <3>1, <4>1
    <3>3. CASE j = t.id /\ tick.at = minute
      <4>1. CASE [id |-> j, job |-> jobs[j]] \in tick.todo
        <5>1. t = [id |-> j, job |-> jobs[j]]  BY <1>0, <3>3, <4>1 DEF TypeOK
        <5>2. QED  BY <2>5, <2>6, <3>3, <5>1
      <4>2. CASE StartedAt(LocalOf[minute], minute, starts[j])
        BY <2>3, <4>2
      <4>3. QED  BY <3>1, <3>3, <4>1, <4>2
    <3>4. CASE j = t.id /\ tick.at # minute
      BY <2>2, <2>3, <3>1, <3>4
    <3>5. QED  BY <3>2, <3>3, <3>4
  <2>7. QED  BY <1>0, <2>1, <2>2, <2>4, <2>6 DEF NothingPassedOver
<1>4. CASE TickEnds \/ TickFails
  <2>1. \A j \in Jobs : Wants(j)' = Wants(j)
    BY <1>4 DEF TickEnds, TickFails, Wants, Live
  <2>2. /\ ~tick'.on /\ UNCHANGED <<jobs, minute, fired, touched, starts>>
        /\ (tick.on /\ tick.todo = {} /\ tick.at = minute) \/ seen' = seen
    BY <1>0, <1>4 DEF TickEnds, TickFails, NoTick, TypeOK
  <2>3. \A j \in Jobs : fired'[j] # Never => StartedAt(fired'[j], minute', starts'[j])
    BY <1>0, <2>2 DEF NothingPassedOver
  <2>4. ASSUME NEW j \in Jobs \ touched, Wants(j), j \in seen'
        PROVE  StartedAt(LocalOf[minute], minute, starts[j])
    BY <1>0, <2>2, <2>4 DEF NothingPassedOver
  <2>5. QED  BY <2>1, <2>2, <2>3, <2>4 DEF NothingPassedOver
<1>5. CASE /\ UNCHANGED <<minute, tick, fired, starts, seen>> /\ touched \subseteq touched'
           /\ \A j \in Jobs \ touched' : Live(j)' /\ jobs'[j].enabled => jobs'[j] = jobs[j]
  BY <1>0, <1>5 DEF NothingPassedOver, Wants, Live, StartedAt
<1>6. CASE Restart
  <2>1. /\ UNCHANGED <<jobs, minute, seen, touched, starts>> /\ ~tick'.on
        /\ \A j \in Jobs : fired'[j] = Never
    BY <1>6 DEF Restart, NoTick
  <2>2. \A j \in Jobs : Wants(j)' = Wants(j)  BY <2>1 DEF Wants, Live
  <2>3. QED  BY <1>0, <2>1, <2>2 DEF NothingPassedOver
<1>7. ASSUME NEW r \in RunIds, RunDisables(r) PROVE NothingPassedOver'
  <2>1. \A j \in Jobs : Live(j)' /\ jobs'[j].enabled => jobs'[j] = jobs[j]
    BY <1>0, <1>7, Shapes DEF RunDisables, TypeOK, Live, JobShape
  <2>2. QED  BY <1>5, <1>7, <2>1 DEF RunDisables, runUnchanged
<1>8. ASSUME NEW e \in Editors, Write(e) PROVE NothingPassedOver'
  BY <1>0, <1>5, <1>8 DEF Write, EditWrites, Touch, TypeOK
<1>9. ASSUME NEW j \in Jobs, Delete(j) PROVE NothingPassedOver'
  BY <1>0, <1>5, <1>9 DEF Delete, Touch, TypeOK
<1>10. ASSUME NEW j \in Jobs, NEW kind \in Kinds, NEW when \in Schedules, NEW on \in BOOLEAN,
              Create(j, kind, when, on)
       PROVE NothingPassedOver'
  BY <1>0, <1>5, <1>10 DEF Create, Touch, TypeOK
<1>11. CASE UNCHANGED <<jobs, minute, tick, fired, starts, seen, touched>>
  BY <1>5, <1>11
<1>12. QED
  <2>1. CASE UNCHANGED vars  BY <1>11, <2>1 DEF vars
  <2>2. CASE Next
    BY <1>1, <1>2, <1>3, <1>4, <1>6, <1>7, <1>8, <1>9, <1>10, <1>11, <2>2
       DEF Next, Tick, People, RunStep, RunReads, RunWorks, RunReports, runUnchanged, EditReads, RunNow
  <2>3. QED  BY <2>1, <2>2

(* When the minute ends, the jobs left alone that match it and that a tick *)
(* of it got past were started, whatever became of that tick (_tick).      *)
THEOREM NoneMissed == Spec => NoMinuteIsMissed
<1>1. MissInv /\ [Next]_vars =>
        [minute' # minute =>
           \A j \in seen \ touched :
             Live(j) /\ jobs[j].enabled /\ jobs[j].kind = "cron" /\ LocalOf[minute] \in jobs[j].when
             => \E m \in 0 .. minute : LocalOf[m] = LocalOf[minute] /\ starts[j][m] > 0]_vars
  <2>1. MissInv => seen \subseteq Jobs  BY DEF MissInv, FireInv, TypeOK
  <2>2. QED  BY <2>1 DEF MissInv, NothingPassedOver, Wants, StartedAt
<1>2. QED  BY <1>1, MissInit, MissStep, PTL DEF Spec, NoMinuteIsMissed
=============================================================================
