---------------------------- MODULE HostMonitor ----------------------------
(***************************************************************************)
(* Host health (monitor.py): a cycle polls every SSH host in turn, and an  *)
(* operator may poll one at the same time.  A poll runs a probe, keeps its *)
(* result as the host's snapshot and alerts about the issues that the      *)
(* previous result did not have, through the webhook of the settings.      *)
(*                                                                         *)
(* A reading is what a probe brings back, reduced to the thresholds it     *)
(* passes.  Snapshots and remembered issues live in memory only.           *)
(***************************************************************************)
EXTENDS Naturals, Settings

CONSTANTS
  Hosts,
  Readings,        \* what the hosts of an instance can be like
  FirstReadings,   \* bound: and what they are like to begin with
  Cycle,           \* the monitor's thread
  Pollers,         \* bound: poll requests in flight
  MaxMishaps       \* bound: changes of a host, deletions, settings requests, restarts

Threads == {Cycle} \cup Pollers
Measures == [reachable : BOOLEAN, disk : {"fine", "filling", "full"}, mem : BOOLEAN, load : BOOLEAN]
IssueKeys == {"unreachable", "disk", "mem", "load", "error"}

ASSUME MonitorAssumption ==
  /\ Readings \subseteq Measures /\ FirstReadings \subseteq Readings
  /\ Cycle \notin Pollers
  /\ MaxMishaps \in Nat

VARIABLES
  hosts,       \* the inventory
  world,       \* what each host is like
  snap,        \* _snap
  prev,        \* _prev_issues
  todo,        \* hosts the cycle has still to poll
  at,          \* the polls
  mishaps,     \* bound
  told,        \* history: for each host, the issues sent to the webhook since the start
  unhooked     \* history: somebody asked for no webhook, or there was none

monitorVars == <<hosts, world, snap, prev, todo, at>>
vars == <<settingsVars, monitorVars, mishaps, told, unhooked>>

NoSnap == [status |-> "unknown", issues |-> {}]
NoPoll == [pc |-> "idle"]
Mishap == mishaps < MaxMishaps /\ mishaps' = mishaps + 1
-----------------------------------------------------------------------------
(* compute_status.  Nothing else is known of a host that is unreachable.   *)
Issues(r) ==
  IF ~r.reachable THEN {"unreachable"}
  ELSE {k \in {"disk", "mem", "load"} : \/ k = "disk" /\ r.disk # "fine"
                                        \/ k = "mem" /\ r.mem
                                        \/ k = "load" /\ r.load}

Status(r) ==
  IF ~r.reachable \/ r.disk = "full" THEN "bad"
  ELSE IF Issues(r) # {} THEN "warn" ELSE "ok"

Snapshot(r) == [status |-> Status(r), issues |-> Issues(r)]
ProbeFailed == [status |-> "bad", issues |-> {"error"}]

Init ==
  /\ SettingsInit
  /\ hosts = Hosts
  /\ world \in [Hosts -> FirstReadings]
  /\ snap = [h \in Hosts |-> NoSnap]
  /\ prev = [h \in Hosts |-> {}]
  /\ todo = {}
  /\ at = [t \in Threads |-> NoPoll]
  /\ mishaps = 0
  /\ told = [h \in Hosts |-> {}]
  /\ unhooked = (Hook = Blank)
-----------------------------------------------------------------------------
(* _cycle and the poll request. *)
CycleStarts ==
  /\ todo = {} /\ at[Cycle] = NoPoll
  /\ todo' = hosts
  /\ UNCHANGED <<settingsVars, hosts, world, snap, prev, at, mishaps, told, unhooked>>

Probing(h) == [pc |-> "probe", host |-> h]

(* The cycle has read all rows at its start: the host may be gone. *)
CycleTakes(h) ==
  /\ at[Cycle] = NoPoll /\ h \in todo
  /\ todo' = todo \ {h}
  /\ at' = [at EXCEPT ![Cycle] = Probing(h)]
  /\ UNCHANGED <<settingsVars, hosts, world, snap, prev, mishaps, told, unhooked>>

PollAsked(p, h) ==
  /\ at[p] = NoPoll /\ h \in hosts
  /\ at' = [at EXCEPT ![p] = Probing(h)]
  /\ UNCHANGED <<settingsVars, hosts, world, snap, prev, todo, mishaps, told, unhooked>>
-----------------------------------------------------------------------------
(* poll_host.  The rows of host_metrics and last_seen are read by nobody   *)
(* here.                                                                   *)
Probes(t) ==
  /\ at[t].pc = "probe"
  /\ at' = [at EXCEPT ![t] = [pc |-> "store", host |-> @.host, reading |-> world[@.host]]]
  /\ UNCHANGED <<settingsVars, hosts, world, snap, prev, todo, mishaps, told, unhooked>>

Stores(t) ==
  /\ at[t].pc = "store"
  /\ snap' = [snap EXCEPT ![at[t].host] = Snapshot(at[t].reading)]
  /\ at' = [at EXCEPT ![t].pc = "compare"]
  /\ UNCHANGED <<settingsVars, hosts, world, prev, todo, mishaps, told, unhooked>>

(* Mutant: "one bad host" does stop the cycle. *)
FailsTheCycle(t) ==
  /\ at[t].pc \in {"probe", "store"}
  /\ snap' = IF t = Cycle THEN [snap EXCEPT ![at[t].host] = ProbeFailed] ELSE snap
  /\ todo' = IF t = Cycle THEN {} ELSE todo
  /\ at' = [at EXCEPT ![t] = NoPoll]
  /\ UNCHANGED <<settingsVars, hosts, world, prev, mishaps, told, unhooked>>

(* An exception: the cycle notes it and goes on, a request ends with it,   *)
(* its snapshot stored or not.                                             *)
Fails(t) ==
  /\ at[t].pc \in {"probe", "store"}
  /\ \/ t = Cycle /\ snap' = [snap EXCEPT ![at[t].host] = ProbeFailed]
     \/ t # Cycle /\ at[t].pc = "store" /\ snap' = [snap EXCEPT ![at[t].host] = Snapshot(at[t].reading)]
     \/ t # Cycle /\ at[t].pc = "probe" /\ UNCHANGED snap
  /\ at' = [at EXCEPT ![t] = NoPoll]
  /\ UNCHANGED <<settingsVars, hosts, world, prev, todo, mishaps, told, unhooked>>

(* _check_alerts: prev is read, then set, then the alert is sent. *)
Compares(t) ==
  /\ at[t].pc = "compare"
  /\ at' = [at EXCEPT ![t] = [pc |-> "remember", host |-> @.host, keys |-> Issues(@.reading),
                              before |-> prev[@.host]]]
  /\ UNCHANGED <<settingsVars, hosts, world, snap, prev, todo, mishaps, told, unhooked>>

New(t) == at[t].keys \ at[t].before

Remembers(t) ==
  /\ at[t].pc = "remember"
  /\ prev' = [prev EXCEPT ![at[t].host] = at[t].keys]
  /\ at' = [at EXCEPT ![t] = IF New(t) # {} THEN [pc |-> "notify", host |-> @.host, new |-> New(t)]
                                            ELSE NoPoll]
  /\ UNCHANGED <<settingsVars, hosts, world, snap, todo, mishaps, told, unhooked>>

(* notify posts to the webhook there is now.  A post that fails is logged  *)
(* and counts as sent.                                                     *)
Notifies(t) ==
  /\ at[t].pc = "notify"
  /\ told' = IF Hook = Blank THEN told ELSE [told EXCEPT ![at[t].host] = @ \cup at[t].new]
  /\ at' = [at EXCEPT ![t] = NoPoll]
  /\ UNCHANGED <<settingsVars, hosts, world, snap, prev, todo, mishaps, unhooked>>

Poll(t) == Probes(t) \/ Stores(t) \/ Fails(t) \/ Compares(t) \/ Remembers(t) \/ Notifies(t)
-----------------------------------------------------------------------------
WorldChanges(h, r) ==
  /\ Mishap
  /\ world' = [world EXCEPT ![h] = r]
  /\ UNCHANGED <<settingsVars, hosts, snap, prev, todo, at, told, unhooked>>

(* Its snapshot and its remembered issues stay. *)
DeletesHost(h) ==
  /\ Mishap
  /\ h \in hosts /\ hosts' = hosts \ {h}
  /\ UNCHANGED <<settingsVars, world, snap, prev, todo, at, told, unhooked>>

SettingsAsked(s, section, form) ==
  /\ Mishap
  /\ Loads(s, section, form)
  /\ unhooked' = (unhooked \/ (section = Notify /\ form.rest = Blank))
  /\ UNCHANGED <<monitorVars, told>>

SettingsAnswered(s) ==
  /\ Saves(s) \/ Rejects(s)
  /\ UNCHANGED <<monitorVars, mishaps, told, unhooked>>

Restart ==
  /\ Mishap
  /\ snap' = [h \in Hosts |-> NoSnap]
  /\ prev' = [h \in Hosts |-> {}]
  /\ todo' = {}
  /\ at' = [t \in Threads |-> NoPoll]
  /\ saving' = [s \in Savers |-> NotSaving]
  /\ told' = [h \in Hosts |-> {}]
  /\ UNCHANGED <<doc, hosts, world, unhooked>>

Next ==
  \/ CycleStarts
  \/ \E h \in Hosts : CycleTakes(h)
  \/ \E p \in Pollers, h \in Hosts : PollAsked(p, h)
  \/ \E t \in Threads : Poll(t)
  \/ \E h \in Hosts : DeletesHost(h) \/ \E r \in Readings : WorldChanges(h, r)
  \/ \E s \in Savers : \/ \E x \in Sections, f \in Forms : SettingsAsked(s, x, f)
                       \/ SettingsAnswered(s)
  \/ Restart

Spec == Init /\ [][Next]_vars

(* Probes and posts have timeouts, so the cycle and the polls keep moving. *)
FairSpec ==
  /\ Spec
  /\ WF_vars(CycleStarts \/ \E h \in Hosts : CycleTakes(h))
  /\ \A t \in Threads : WF_vars(Poll(t))
-----------------------------------------------------------------------------
PollShape ==
  {NoPoll}
  \cup [pc : {"probe"}, host : Hosts]
  \cup [pc : {"store", "compare"}, host : Hosts, reading : Readings]
  \cup [pc : {"remember"}, host : Hosts, keys : SUBSET IssueKeys, before : SUBSET IssueKeys]
  \cup [pc : {"notify"}, host : Hosts, new : SUBSET IssueKeys]

(* Settings, snapshots, remembered issues and polls hold what the code     *)
(* puts there.                                                             *)
TypeOK ==
  /\ SettingsTypeOK
  /\ hosts \subseteq Hosts /\ todo \subseteq Hosts
  /\ world \in [Hosts -> Readings]
  /\ snap \in [Hosts -> [status : {"unknown", "ok", "warn", "bad"}, issues : SUBSET IssueKeys]]
  /\ prev \in [Hosts -> SUBSET IssueKeys]
  /\ at \in [Threads -> PollShape]
  /\ mishaps \in Nat
  /\ told \in [Hosts -> SUBSET IssueKeys]
  /\ unhooked \in BOOLEAN

AboutToTell(h, k) == \E t \in Threads : at[t].pc = "notify" /\ at[t].host = h /\ k \in at[t].new

(* An issue is held back as known only if it was sent to the webhook, or   *)
(* some poll is just sending it, unless somebody asked for no webhook:     *)
(* neither polls that race nor edits of other settings that write back an  *)
(* old document swallow the first alert about an issue (_check_alerts).    *)
SuppressedWasTold ==
  \A h \in Hosts : \A k \in prev[h] : k \in told[h] \/ AboutToTell(h, k) \/ unhooked

(* An issue that lasts is sent to the webhook, across restarts and racing  *)
(* polls, unless the host is deleted, its probe keeps failing, or somebody *)
(* asked for no webhook.                                                   *)
LastingIssueIsTold ==
  \A h \in Hosts, k \in UNION {Issues(r) : r \in Readings} :
    []<>(\/ k \notin Issues(world[h]) \/ h \notin hosts \/ unhooked
         \/ snap[h] = ProbeFailed \/ k \in told[h])
=============================================================================
