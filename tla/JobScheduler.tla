---------------------------- MODULE JobScheduler ----------------------------
(***************************************************************************)
(* The scheduler of schedule.py: the thread that looks for due jobs twice  *)
(* a minute, the threads that run them, and the requests that create,      *)
(* edit, delete and start jobs, all over the jobs table.                   *)
(*                                                                         *)
(* Time is the minute, and the jobs' time zone gives the local time of     *)
(* each: one is repeated when the clocks are put back, one is skipped when *)
(* they are put forward.  A schedule is a set of local times: those a cron *)
(* expression matches (CronRule), or the one of a one-off job.  What a run *)
(* does is in AgentRun; here it takes a while and ends.                    *)
(***************************************************************************)
EXTENDS CronRule

CONSTANTS
  Jobs,        \* job ids; create() draws a fresh one
  NotYet, Gone, \* no row: not created, deleted
  LastMinute,  \* bound: the last minute of a behaviour
  LocalOf,     \* the local time of each minute
  Schedules,   \* schedules a person may give
  RunIds,      \* bound: run threads alive at once
  Editors,     \* PUT requests in flight at once
  NoEdit,
  MaxActs      \* bound: requests and restarts in a behaviour

Minutes == 0 .. LastMinute
Kinds == {"cron", "once"}
JobShape == [kind : Kinds, when : Schedules, enabled : BOOLEAN]
Rows == JobShape \cup {NotYet, Gone}

(* What a PUT may carry: any of the fields, the rest keep their value. *)
Changes == [kind : Kinds, when : Schedules] \cup [enabled : BOOLEAN]
Idle == "idle"

ASSUME ClockAssumption == LastMinute \in Nat /\ LocalOf \in [Minutes -> Nat]
ASSUME SchedulesAssumption == \A s \in Schedules : s \subseteq Nat
ASSUME RowsAssumption == NotYet # Gone /\ {NotYet, Gone} \cap JobShape = {}

VARIABLES
  jobs,    \* the jobs table
  minute,  \* the clock
  tick,    \* the scheduler thread: the tick in hand and the rows it has yet to look at
  fired,   \* _fired: the local time each job last fired at
  runs,    \* the run_job threads
  edits,   \* the PUT requests between their read and their write
  acts,    \* bound
  seen,    \* history: jobs that a tick begun in this minute got past
  touched, \* history: jobs changed in this minute
  starts,  \* history: cron starts of each job in each minute
  boots    \* history: restarts in each minute

vars == <<jobs, minute, tick, fired, runs, edits, acts, seen, touched, starts, boots>>

NoTick == [on |-> FALSE, at |-> 0, todo |-> {}]
NoRun == [pc |-> Idle]
Never == 0 - 1

Live(j) == jobs[j] \in JobShape

(* The minute a local time stands for has come. *)
HasCome(at, m) == \E n \in 0 - LocalOf[0] .. m : StandsFor(LocalOf, at, n)

(* A schedule of several local times is no datetime. *)
DueOnceAt(job, m) == \E at \in job.when : job.when = {at} /\ HasCome(at, m)

(* Mutants: the guard against firing twice is missing; it never lets go. *)
DueAgain(j, job, m) ==
  IF job.kind = "once" THEN DueOnceAt(job, m) ELSE LocalOf[m] \in job.when

DueOnce(j, job, m) ==
  IF job.kind = "once" THEN DueOnceAt(job, m) ELSE LocalOf[m] \in job.when /\ fired[j] = Never

(* Whether a row read by a tick begun in minute m is due. *)
Due(j, job, m) ==
  IF job.kind = "once" THEN DueOnceAt(job, m) ELSE LocalOf[m] \in job.when /\ fired[j] # LocalOf[m]

Init ==
  /\ jobs = [j \in Jobs |-> NotYet]
  /\ minute = 0 /\ tick = NoTick
  /\ fired = [j \in Jobs |-> Never]
  /\ runs = [r \in RunIds |-> NoRun]
  /\ edits = [e \in Editors |-> NoEdit]
  /\ acts = 0 /\ seen = {} /\ touched = {}
  /\ starts = [j \in Jobs |-> [m \in Minutes |-> 0]]
  /\ boots = [m \in Minutes |-> 0]

(* The clock waits for nobody: ticks may fail or the service be down for   *)
(* the whole of a minute.                                                  *)
Advance ==
  /\ minute + 1 \in Minutes
  /\ minute' = minute + 1
  /\ seen' = {} /\ touched' = {}
  /\ UNCHANGED <<jobs, tick, fired, runs, edits, acts, starts, boots>>
-----------------------------------------------------------------------------
(* list_enabled: the tick works on the rows as they are now. *)
TickStart ==
  /\ ~tick.on
  /\ tick' = [on |-> TRUE, at |-> minute,
              todo |-> {[id |-> j, job |-> jobs[j]] : j \in {k \in Jobs : Live(k) /\ jobs[k].enabled}}]
  /\ UNCHANGED <<jobs, minute, fired, runs, edits, acts, seen, touched, starts, boots>>

Spawn(r, j) ==
  /\ runs[r].pc = Idle
  /\ runs' = [runs EXCEPT ![r] = [pc |-> "start", job |-> j]]

TickTakes(t) ==
  /\ t \in tick.todo
  /\ tick' = [tick EXCEPT !.todo = @ \ {t}]
  /\ IF ~Due(t.id, t.job, tick.at)
       THEN UNCHANGED <<fired, runs, starts>>
       ELSE /\ \E r \in RunIds : Spawn(r, t.id)
            /\ IF t.job.kind = "once"
                 THEN UNCHANGED <<fired, starts>>
                 ELSE /\ fired' = [fired EXCEPT ![t.id] = LocalOf[tick.at]]
                      /\ starts' = [starts EXCEPT ![t.id][tick.at] = @ + 1]
  /\ seen' = IF tick.at = minute THEN seen \cup {t.id} ELSE seen
  /\ UNCHANGED <<jobs, minute, edits, acts, touched, boots>>

TickEnds ==
  /\ tick.on /\ tick.todo = {}
  /\ tick' = NoTick
  /\ seen' = IF tick.at = minute THEN Jobs ELSE seen
  /\ UNCHANGED <<jobs, minute, fired, runs, edits, acts, touched, starts, boots>>

(* An exception ends the tick, not the loop; the next one is 30 s away. *)
TickFails ==
  /\ tick.on
  /\ tick' = NoTick
  /\ UNCHANGED <<jobs, minute, fired, runs, edits, acts, seen, touched, starts, boots>>
-----------------------------------------------------------------------------
runUnchanged == <<minute, tick, fired, edits, acts, seen, touched, starts, boots>>

(* run_job: the row it reads is the one it works with to the end. *)
RunReads(r) ==
  /\ runs[r].pc = "start"
  /\ LET j == runs[r].job
     IN  runs' = [runs EXCEPT ![r] =
                    IF Live(j) THEN [pc |-> "working", job |-> j, row |-> jobs[j]] ELSE NoRun]
  /\ UNCHANGED <<jobs, runUnchanged>>

(* The agent ends, or fails: either way there is a report to record. *)
RunWorks(r) ==
  /\ runs[r].pc = "working"
  /\ runs' = [runs EXCEPT ![r].pc = "report"]
  /\ UNCHANGED <<jobs, runUnchanged>>

(* Mutant: a one-off job is reported on and stays enabled. *)
RunReportsOnly(r) ==
  /\ runs[r].pc = "report"
  /\ runs' = [runs EXCEPT ![r] = NoRun]
  /\ UNCHANGED <<jobs, runUnchanged>>

(* The UPDATE writes columns the scheduler never reads (the report and the *)
(* next run, for display); a one-off job, by the row read at the start, is *)
(* switched off after it.                                                  *)
RunReports(r) ==
  /\ runs[r].pc = "report"
  /\ runs' = [runs EXCEPT ![r] = IF runs[r].row.kind = "once" THEN [@ EXCEPT !.pc = "disable"] ELSE NoRun]
  /\ UNCHANGED <<jobs, runUnchanged>>

RunDisables(r) ==
  /\ runs[r].pc = "disable"
  /\ LET j == runs[r].job
     IN  jobs' = [jobs EXCEPT ![j] = IF Live(j) THEN [@ EXCEPT !.enabled = FALSE] ELSE @]
  /\ runs' = [runs EXCEPT ![r] = NoRun]
  /\ UNCHANGED runUnchanged

RunStep(r) == RunReads(r) \/ RunWorks(r) \/ RunReports(r) \/ RunDisables(r)
-----------------------------------------------------------------------------
Acts == /\ acts < MaxActs
        /\ acts' = acts + 1

Touch(j) == touched' = touched \cup {j}

Create(j, kind, when, enabled) ==
  /\ Acts
  /\ jobs[j] = NotYet
  /\ jobs' = [jobs EXCEPT ![j] = [kind |-> kind, when |-> when, enabled |-> enabled]]
  /\ Touch(j)
  /\ UNCHANGED <<minute, tick, fired, runs, edits, seen, starts, boots>>

(* update(): read the row, then write every column. *)
EditReads(e, j) ==
  /\ Acts
  /\ edits[e] = NoEdit /\ Live(j)
  /\ edits' = [edits EXCEPT ![e] = [job |-> j, row |-> jobs[j]]]
  /\ UNCHANGED <<jobs, minute, tick, fired, runs, seen, touched, starts, boots>>

Merged(row, change) ==
  LET new == [f \in {"kind", "when", "enabled"} |->
                IF f \in DOMAIN change THEN change[f] ELSE row[f]]
  IN  [kind |-> new["kind"], when |-> new["when"], enabled |-> new["enabled"]]

(* Mutant: update() inserts the row it has lost. *)
EditUpserts(e, change) ==
  /\ edits[e] # NoEdit
  /\ LET j == edits[e].job
     IN  /\ jobs' = [jobs EXCEPT ![j] = Merged(edits[e].row, change)]
         /\ Touch(j)
  /\ edits' = [edits EXCEPT ![e] = NoEdit]
  /\ UNCHANGED <<minute, tick, fired, runs, acts, seen, starts, boots>>

EditWrites(e, change) ==
  /\ edits[e] # NoEdit
  /\ LET j == edits[e].job
     IN  /\ jobs' = [jobs EXCEPT ![j] = IF Live(j) THEN Merged(edits[e].row, change) ELSE @]
         /\ Touch(j)
  /\ edits' = [edits EXCEPT ![e] = NoEdit]
  /\ UNCHANGED <<minute, tick, fired, runs, acts, seen, starts, boots>>

Delete(j) ==
  /\ Acts
  /\ Live(j)
  /\ jobs' = [jobs EXCEPT ![j] = Gone]
  /\ Touch(j)
  /\ UNCHANGED <<minute, tick, fired, runs, edits, seen, starts, boots>>

RunNow(j) ==
  /\ Acts
  /\ Live(j)
  /\ \E r \in RunIds : Spawn(r, j)
  /\ UNCHANGED <<jobs, minute, tick, fired, edits, seen, touched, starts, boots>>

(* The service restarts: threads, requests and _fired are gone. *)
Restart ==
  /\ Acts
  /\ tick' = NoTick
  /\ fired' = [j \in Jobs |-> Never]
  /\ runs' = [r \in RunIds |-> NoRun]
  /\ edits' = [e \in Editors |-> NoEdit]
  /\ boots' = [boots EXCEPT ![minute] = @ + 1]
  /\ UNCHANGED <<jobs, minute, seen, touched, starts>>

Tick == TickStart \/ (\E t \in tick.todo : TickTakes(t)) \/ TickEnds

Write(e) == edits[e] # NoEdit /\ \E change \in Changes : EditWrites(e, change)

People ==
  \/ \E j \in Jobs, kind \in Kinds, when \in Schedules, on \in BOOLEAN : Create(j, kind, when, on)
  \/ \E e \in Editors, j \in Jobs : EditReads(e, j)
  \/ \E e \in Editors : Write(e)
  \/ \E j \in Jobs : Delete(j) \/ RunNow(j)

Next == Advance \/ Tick \/ TickFails \/ (\E r \in RunIds : RunStep(r)) \/ People \/ Restart

Spec == Init /\ [][Next]_vars

(* Threads run and requests end; a run ends because AgentRun does, and a   *)
(* job that ticks keep finding is not lost to a failing tick every time.   *)
FairSpec ==
  /\ Spec
  /\ WF_vars(TickStart) /\ WF_vars(TickEnds)
  /\ \A j \in Jobs : SF_vars(\E t \in tick.todo : t.id = j /\ TickTakes(t))
  /\ \A r \in RunIds : WF_vars(RunStep(r))
  /\ \A e \in Editors : WF_vars(Write(e))
-----------------------------------------------------------------------------
TickShape == [on : BOOLEAN, at : Minutes, todo : SUBSET [id : Jobs, job : JobShape]]
RunShape == {NoRun} \cup [pc : {"start"}, job : Jobs]
            \cup [pc : {"working", "report", "disable"}, job : Jobs, row : JobShape]

(* The rows, the scheduler and the threads hold what the code puts there. *)
TypeOK ==
  /\ jobs \in [Jobs -> Rows]
  /\ minute \in Minutes
  /\ tick \in TickShape /\ \A t, u \in tick.todo : t.id = u.id => t = u
  /\ fired \in [Jobs -> Nat \cup {Never}]
  /\ runs \in [RunIds -> RunShape]
  /\ edits \in [Editors -> [job : Jobs, row : JobShape] \cup {NoEdit}]
  /\ acts \in Nat /\ seen \subseteq Jobs /\ touched \subseteq Jobs
  /\ starts \in [Jobs -> [Minutes -> Nat]] /\ boots \in [Minutes -> Nat]

(* _fired, the double-fire guard: two ticks a minute, edits and deletions  *)
(* in between, and still a cron job starts at most once for a minute.  The *)
(* guard is in memory only: each restart within the minute allows one more *)
(* start, and a restart in another minute none.                            *)
FiresOncePerMinute == \A j \in Jobs, m \in Minutes : starts[j][m] <= 1 + boots[m]

(* And no minute is missed but by ticks that did not get there: when it is *)
(* over, every enabled cron job that matches it, was left alone and that   *)
(* some tick of the minute got past, however the tick went on, has been    *)
(* started in it, or in an earlier one the clocks showed as the same time. *)
NoMinuteIsMissed ==
  [][minute' # minute =>
       \A j \in seen \ touched :
         Live(j) /\ jobs[j].enabled /\ jobs[j].kind = "cron" /\ LocalOf[minute] \in jobs[j].when
         => \E m \in 0 .. minute : LocalOf[m] = LocalOf[minute] /\ starts[j][m] > 0]_vars

(* A run that outlives its job, or a late edit, does not bring it back. *)
DeletedForGood == [][\A j \in Jobs : jobs[j] = Gone => jobs'[j] = Gone]_vars

DueOneOff(j) ==
  Live(j) /\ jobs[j].kind = "once" /\ jobs[j].enabled /\ Due(j, jobs[j], minute)

(* A one-off job that is due is eventually run and switched off, and does  *)
(* not stay due for ever.                                                  *)
OneOffIsRetired == \A j \in Jobs : DueOneOff(j) ~> ~DueOneOff(j)
=============================================================================
