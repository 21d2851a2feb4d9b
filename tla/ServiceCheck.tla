---------------------------- MODULE ServiceCheck ----------------------------
(***************************************************************************)
(* Service checks (services.py): the poller, the Test button and the       *)
(* re-probe of an automatic repair all execute run_check on threads of     *)
(* their own, and each reads the check, probes the service for seconds and *)
(* only then writes what it computed from the row it read.                 *)
(*                                                                         *)
(* Times are abstracted to what is asked of them: whether the interval of  *)
(* a check is over (due), and for how many units its last repair has been  *)
(* started (age), which is compared with the cooldown a person set.        *)
(***************************************************************************)
EXTENDS Naturals, FiniteSets

CONSTANTS
  Checks,
  Gone,          \* a deleted check
  Configs,       \* settings a person may give each check
  Conditions,    \* verdicts its service gives rise to
  Poller,        \* the poller thread
  Testers,       \* requests of the Test button in progress
  Repairs,       \* bound: repair threads alive at once
  MaxCooldown,   \* the longest cooldown, and bound: where an age stops mattering
  MaxFails,      \* bound: where fail_count stops mattering
  MaxActs        \* bound: presses of the Test button, edits and deletions of checks

Verdicts == {"ok", "warn", "fail", "unknown"}
Statuses == {"ok", "warn", "down", "unknown"}

ConfigShape == [enabled : BOOLEAN, autoFix : BOOLEAN, pinned : BOOLEAN, threshold : 1 .. MaxFails,
                cooldown : 1 .. MaxCooldown]
StateShape == [status : Statuses, fails : 0 .. MaxFails, due : BOOLEAN, age : 0 .. MaxCooldown]
Rows == [config : ConfigShape, state : StateShape]

Probers == {Poller} \cup Testers \cup Repairs

ASSUME ChecksAssumption ==
  /\ MaxFails \in Nat \ {0} /\ MaxCooldown \in Nat \ {0} /\ MaxActs \in Nat
  /\ Configs \in [Checks -> SUBSET ConfigShape]
  /\ Conditions \in [Checks -> SUBSET Verdicts]
  /\ Gone \notin Rows
  /\ Poller \notin Testers \cup Repairs /\ Testers \cap Repairs = {}

VARIABLES
  checks,    \* the service_checks table
  services,  \* what a probe of each service would report
  work,      \* what each thread is doing
  dueChecks, \* the due checks the poller's cycle has yet to run
  acts       \* bound

checkVars == <<checks, services, work, dueChecks, acts>>

Live(c) == checks[c] # Gone
Idle == [pc |-> "idle"]

(* No repair yet is a repair long ago. *)
NewCheck(config) == [config |-> config,
                     state |-> [status |-> "unknown", fails |-> 0, due |-> TRUE, age |-> MaxCooldown]]

ChecksInit ==
  /\ \E configs \in [Checks -> UNION {Configs[c] : c \in Checks}] :
       /\ \A c \in Checks : configs[c] \in Configs[c]
       /\ checks = [c \in Checks |-> NewCheck(configs[c])]
  /\ services \in [Checks -> Verdicts] /\ \A c \in Checks : services[c] \in Conditions[c]
  /\ work = [p \in Probers |-> Idle]
  /\ dueChecks = {}
  /\ acts = 0

(* fold_result; the failure count saturates. *)
FoldStatus(verdict, fails, threshold) ==
  IF verdict # "fail" THEN verdict
  ELSE IF fails + 1 >= threshold THEN "down" ELSE "warn"

More(n) == IF n = MaxFails THEN n ELSE n + 1

(* Mutant: only an ok result touches the count. *)
FoldCountReset(verdict, fails) == IF verdict = "ok" THEN 0 ELSE fails

FoldCount(verdict, fails) ==
  CASE verdict = "ok"   -> 0
    [] verdict = "fail" -> More(fails)
    [] OTHER            -> fails
-----------------------------------------------------------------------------
(* Time and the services. *)
Changes(c, verdict) ==
  /\ services' = [services EXCEPT ![c] = verdict]
  /\ UNCHANGED <<checks, work, dueChecks, acts>>

BecomesDue(c) ==
  /\ Live(c) /\ ~checks[c].state.due
  /\ checks' = [checks EXCEPT ![c].state.due = TRUE]
  /\ UNCHANGED <<services, work, dueChecks, acts>>

(* The last repair of c grows older in the table and in the rows threads   *)
(* have read: a row holds the time of the start, never its age.            *)
Older(age) == IF age = MaxCooldown THEN age ELSE age + 1

Ages(c) ==
  /\ Live(c) /\ checks[c].state.age < MaxCooldown
  /\ checks' = [checks EXCEPT ![c].state.age = Older(@)]
  /\ work' = [p \in Probers |-> IF work[p].pc \in {"probe", "fold"} /\ work[p].check = c
                                  THEN [work[p] EXCEPT !.row.age = Older(@)] ELSE work[p]]
  /\ UNCHANGED <<services, dueChecks, acts>>
-----------------------------------------------------------------------------
(* run_check returns, or raises; a repair goes on to its audit row unless  *)
(* its re-probe raised.                                                    *)
Return(p, raised) ==
  [work EXCEPT ![p] = IF p \in Repairs /\ ~raised THEN [pc |-> "audit", check |-> @.check] ELSE Idle]

(* What run_check goes on to use of the row: only the poller's may start a  *)
(* repair (allow_auto_fix), and only that looks at the cooldown.            *)
Seen(p, row) ==
  LET fix == p = Poller /\ row.config.autoFix /\ row.config.pinned
  IN  [fails |-> row.state.fails, threshold |-> row.config.threshold, fix |-> fix,
       age |-> IF fix THEN row.state.age ELSE MaxCooldown,
       cooldown |-> IF fix THEN row.config.cooldown ELSE 1]

(* run_check begins on a thread: it reads the row, if there is one. *)
ReadsCheck(p, c) ==
  work' = IF Live(c) THEN [work EXCEPT ![p] = [pc |-> "probe", check |-> c, row |-> Seen(p, checks[c]),
                                               verdict |-> "unknown"]]
                     ELSE Return(p, FALSE)

(* The poller: a cycle runs the checks that were due when it began. *)
CheckCycleStarts ==
  /\ work[Poller] = Idle /\ dueChecks = {}
  /\ dueChecks' = {c \in Checks : Live(c) /\ checks[c].config.enabled /\ checks[c].state.due}
  /\ UNCHANGED <<checks, services, work, acts>>

PollerTakes(c) ==
  /\ work[Poller] = Idle /\ c \in dueChecks
  /\ dueChecks' = dueChecks \ {c}
  /\ ReadsCheck(Poller, c)
  /\ UNCHANGED <<checks, services, acts>>

TestPressed(t, c) ==
  /\ acts < MaxActs /\ acts' = acts + 1
  /\ work[t] = Idle /\ Live(c)
  /\ ReadsCheck(t, c)
  /\ UNCHANGED <<checks, services, dueChecks>>

ProbesService(p) ==
  /\ work[p].pc = "probe"
  /\ work' = [work EXCEPT ![p].pc = "fold", ![p].verdict = services[work[p].check]]
  /\ UNCHANGED <<checks, services, dueChecks, acts>>

(* Mutants: auto_fix_ready is not asked; only a check that goes down is repaired. *)
RepairsAtOnce(row, status) == status = "down" /\ row.fix

RepairsOnTransition(row, status) ==
  status = "down" /\ row.fix /\ row.age >= row.cooldown /\ row.fails + 1 = row.threshold

(* _maybe_auto_fix, from the row that was read before the probe. *)
WantsRepair(row, status) == status = "down" /\ row.fix /\ row.age >= row.cooldown

Begun(r, c) == [pc |-> "begin", check |-> c]

(* Mutant: what run_check raises ends its thread. *)
FoldsGoneDies(p) ==
  /\ work[p].pc = "fold" /\ ~Live(work[p].check)
  /\ work' = [work EXCEPT ![p] = [pc |-> "dead"]]
  /\ UNCHANGED <<checks, services, dueChecks, acts>>

(* The writes of run_check.  A check deleted meanwhile fails the foreign   *)
(* key of its result row, and run_check raises.                            *)
FoldsGone(p) ==
  /\ work[p].pc = "fold" /\ ~Live(work[p].check)
  /\ work' = Return(p, TRUE)
  /\ UNCHANGED <<checks, services, dueChecks, acts>>

Folds(p) ==
  /\ work[p].pc = "fold" /\ Live(work[p].check)
  /\ LET c == work[p].check
         row == work[p].row
         verdict == work[p].verdict
         status == FoldStatus(verdict, row.fails, row.threshold)
         repair == WantsRepair(row, status)
     IN  /\ checks' = [checks EXCEPT ![c].state =
                         [status |-> status, fails |-> FoldCount(verdict, row.fails),
                          due |-> FALSE, age |-> IF repair THEN 0 ELSE @.age]]
         /\ IF repair
              THEN \E r \in Repairs : /\ work[r] = Idle
                                      /\ work' = [Return(p, FALSE) EXCEPT ![r] = Begun(r, c)]
              ELSE work' = Return(p, FALSE)
  /\ UNCHANGED <<services, dueChecks, acts>>
-----------------------------------------------------------------------------
(* _run_auto_fix: nothing to do when the check or its host is gone. *)
RepairBegins(r) ==
  /\ work[r].pc = "begin"
  /\ work' \in {[work EXCEPT ![r] = Idle]}
               \cup (IF Live(work[r].check) THEN {[work EXCEPT ![r].pc = "agent"]} ELSE {})
  /\ UNCHANGED <<checks, services, dueChecks, acts>>

(* The unattended run is over: did it actually work? *)
AgentEnds(r) ==
  /\ work[r].pc = "agent"
  /\ ReadsCheck(r, work[r].check)
  /\ UNCHANGED <<checks, services, dueChecks, acts>>

RepairAudits(r) ==
  /\ work[r].pc = "audit"
  /\ work' = [work EXCEPT ![r] = Idle]
  /\ UNCHANGED <<checks, services, dueChecks, acts>>

(* A PUT changes the settings only; update()'s read and write are one step *)
(* here because no run_check writes a setting.                             *)
Edit(c, config) ==
  /\ acts < MaxActs /\ acts' = acts + 1
  /\ Live(c) /\ checks[c].config # config
  /\ checks' = [checks EXCEPT ![c].config = config]
  /\ UNCHANGED <<services, work, dueChecks>>

Delete(c) ==
  /\ acts < MaxActs /\ acts' = acts + 1
  /\ Live(c)
  /\ checks' = [checks EXCEPT ![c] = Gone]
  /\ UNCHANGED <<services, work, dueChecks>>

RunCheck(p) == ProbesService(p) \/ FoldsGone(p) \/ Folds(p)
PollChecks == CheckCycleStarts \/ (\E c \in Checks : PollerTakes(c)) \/ RunCheck(Poller)
Repair(r) == RepairBegins(r) \/ AgentEnds(r) \/ RunCheck(r) \/ RepairAudits(r)

ChecksNext ==
  \/ \E c \in Checks : \/ \E v \in Conditions[c] : Changes(c, v)
                       \/ BecomesDue(c) \/ Ages(c)
                       \/ \E t \in Testers : TestPressed(t, c)
                       \/ \E config \in Configs[c] : Edit(c, config)
                       \/ Delete(c)
  \/ PollChecks
  \/ \E t \in Testers : RunCheck(t)
  \/ \E r \in Repairs : Repair(r)

ChecksSpec == ChecksInit /\ [][ChecksNext]_checkVars

(* Probes and runs have timeouts, so threads keep moving; time passes.     *)
ChecksFairness ==
  /\ WF_checkVars(PollChecks)
  /\ \A t \in Testers : WF_checkVars(RunCheck(t))
  /\ \A r \in Repairs : WF_checkVars(Repair(r))
  /\ \A c \in Checks : WF_checkVars(BecomesDue(c)) /\ WF_checkVars(Ages(c))

ChecksFairSpec == ChecksSpec /\ ChecksFairness
-----------------------------------------------------------------------------
SeenShape == [fails : 0 .. MaxFails, threshold : 1 .. MaxFails, fix : BOOLEAN,
              age : 0 .. MaxCooldown, cooldown : 1 .. MaxCooldown]
WorkShape ==
  {Idle} \cup [pc : {"begin", "agent", "audit"}, check : Checks]
         \cup [pc : {"probe", "fold"}, check : Checks, row : SeenShape, verdict : Verdicts]

(* Rows and threads hold what the code puts there. *)
ChecksTypeOK ==
  /\ checks \in [Checks -> Rows \cup {Gone}]
  /\ services \in [Checks -> Verdicts]
  /\ work \in [Probers -> WorkShape]
  /\ dueChecks \subseteq Checks
  /\ acts \in Nat

(* auto_fix_ready's cooldown, against every interleaving of the poller,    *)
(* tests, re-probes, other repairs and edits: a repair starts only when    *)
(* the last one is older than the cooldown that was in force when the      *)
(* poller read the check, a probe earlier.                                 *)
NoRepairInCooldown ==
  [][\A c \in Checks, r \in Repairs :
       work[r] = Idle /\ work'[r] = Begun(r, c) =>
         /\ work[Poller].pc = "fold" /\ work[Poller].check = c
         /\ checks[c].state.age >= work[Poller].row.cooldown]_checkVars

Watched(c) == Live(c) /\ checks[c].config.enabled
Wants(c) == /\ Watched(c) /\ checks[c].config.autoFix /\ checks[c].config.pinned
            /\ checks[c].state.status = "down"
Cooling(c) == checks[c].state.age < checks[c].config.cooldown

(* "a sustained failure always commits" (README): a service that stays     *)
(* broken is eventually down, whatever else writes to the check.           *)
SustainedFailureCommits ==
  \A c \in Checks : services[c] = "fail" ~> \/ services[c] # "fail" \/ ~Watched(c)
                                         \/ checks[c].state.status = "down"

(* "If it is still down, the check is retried once the cooldown elapses"   *)
(* (README): a check that stays down gets another repair.                  *)
StillDownIsRetried ==
  \A c \in Checks : Wants(c) /\ ~Cooling(c) ~> ~Wants(c) \/ Cooling(c)

(* "one bad check never stops the rest" (_cycle): whatever is deleted      *)
(* under the poller's feet and however a probe ends, its cycle ends, and   *)
(* an enabled check that is due gets its turn.                             *)
CyclesEnd == []<>(work[Poller] = Idle /\ dueChecks = {})
EveryCheckGetsItsTurn ==
  /\ CyclesEnd
  /\ \A c \in Checks : Watched(c) /\ checks[c].state.due
                       ~> ~Watched(c) \/ ~checks[c].state.due

-----------------------------------------------------------------------------
(***************************************************************************)
(* What the documents say and the code does not do.                        *)
(***************************************************************************)
(* "never start a second repair run while one may still be working"        *)
(* (auto_fix_ready).                                                       *)
OneRepairAtATime ==
  \A r, s \in Repairs : work[r] # Idle /\ work[s] # Idle /\ work[r].check = work[s].check => r = s
=============================================================================
