---------------------------- MODULE RunRegistry ----------------------------
(***************************************************************************)
(* The runs and their conversations: RUNS, the registry of agent/core.py,  *)
(* the requests of app.py that send a message, stream the events of a run  *)
(* and delete conversations, and the Telegram threads that do the same.    *)
(*                                                                         *)
(* What a run does between its start and its end is AgentRun; here it      *)
(* emits events into its queue, saves messages to its conversation, and    *)
(* finishes.                                                               *)
(***************************************************************************)
EXTENDS Naturals, Sequences

CONSTANTS
  Convos,    \* conversation ids
  Runs,      \* bound: runs in a behaviour
  Senders,   \* bound: threads starting a run at once
  Removers,  \* bound: delete and clear requests in progress
  Streams,   \* bound: event streams connected at once
  MaxParts   \* bound: events of a run before its last

ASSUME PartsAssumption == MaxParts \in Nat

(* Who started a run: a person at the web page, a Telegram chat, a job. *)
Vias == {"web", "bot", "job"}
Events == {"part", "done"}

VARIABLES
  convos,   \* the conversations table
  senders, removers, streams,  \* the requests in progress
  runs,     \* the runs and their threads
  listed,   \* RUNS
  queue,    \* run.q
  bots      \* runs a Telegram thread is listening to

vars == <<convos, senders, removers, streams, runs, listed, queue, bots>>

Idle == [pc |-> "idle"]
NotStarted == [pc |-> "off"]

Live(c) == convos[c] = "live"
Finished(r) == runs[r].pc \in {"finished", "over"}
Running(r) == runs[r].pc = "running"

Init ==
  /\ convos = [c \in Convos |-> "none"]
  /\ senders = [s \in Senders |-> Idle]
  /\ removers = [d \in Removers |-> Idle]
  /\ streams = [t \in Streams |-> Idle]
  /\ runs = [r \in Runs |-> NotStarted]
  /\ listed = {} /\ bots = {}
  /\ queue = [r \in Runs |-> <<>>]

(* POST /api/conversations. *)
Create(c) ==
  /\ convos[c] = "none"
  /\ convos' = [convos EXCEPT ![c] = "live"]
  /\ UNCHANGED <<senders, removers, streams, runs, listed, queue, bots>>
-----------------------------------------------------------------------------
(* Starting a run: POST /api/agent/send finds the conversation it is for,  *)
(* a chat or a job makes one of its own.                                   *)
Sends(s, c) ==
  /\ senders[s] = Idle /\ Live(c)
  /\ senders' = [senders EXCEPT ![s] = [pc |-> "insert", convo |-> c, via |-> "web"]]
  /\ UNCHANGED <<convos, removers, streams, runs, listed, queue, bots>>

OpensOwn(s, c, via) ==
  /\ senders[s] = Idle /\ convos[c] = "none" /\ via # "web"
  /\ convos' = [convos EXCEPT ![c] = "live"]
  /\ senders' = [senders EXCEPT ![s] = [pc |-> "insert", convo |-> c, via |-> via]]
  /\ UNCHANGED <<removers, streams, runs, listed, queue, bots>>

(* The user's message; without its conversation it fails the foreign key. *)
InsertsMessage(s) ==
  /\ senders[s].pc = "insert"
  /\ senders' = [senders EXCEPT ![s] = IF Live(@.convo) THEN [@ EXCEPT !.pc = "start"] ELSE Idle]
  /\ UNCHANGED <<convos, removers, streams, runs, listed, queue, bots>>

(* core.start registers the run; run_unattended does not. *)
Starts(s, r) ==
  /\ senders[s].pc = "start" /\ runs[r] = NotStarted
  /\ LET via == senders[s].via
     IN  /\ runs' = [runs EXCEPT ![r] = [pc |-> "running", convo |-> senders[s].convo,
                                         via |-> via, parts |-> 0]]
         /\ listed' = IF via = "job" THEN listed ELSE listed \cup {r}
         /\ bots' = IF via = "bot" THEN bots \cup {r} ELSE bots
  /\ senders' = [senders EXCEPT ![s] = Idle]
  /\ UNCHANGED <<convos, removers, streams, queue>>
-----------------------------------------------------------------------------
(* The thread of a run. *)
Emit(r, event) == queue' = [queue EXCEPT ![r] = Append(@, event)]

Emits(r) ==
  /\ Running(r) /\ runs[r].parts < MaxParts
  /\ runs' = [runs EXCEPT ![r].parts = @ + 1]
  /\ Emit(r, "part")
  /\ UNCHANGED <<convos, senders, removers, streams, listed, bots>>

Finishes(r) ==
  /\ Running(r)
  /\ runs' = [runs EXCEPT ![r].pc = "finished"]
  /\ UNCHANGED <<convos, senders, removers, streams, listed, queue, bots>>

(* A message for a deleted conversation cannot be saved: an error event,   *)
(* and the run is finished.                                                *)
FailsToSave(r) ==
  /\ Running(r) /\ ~Live(runs[r].convo)
  /\ runs' = [runs EXCEPT ![r].pc = "finished"]
  /\ Emit(r, "part")
  /\ UNCHANGED <<convos, senders, removers, streams, listed, bots>>

EmitsDone(r) ==
  /\ runs[r].pc = "finished"
  /\ runs' = [runs EXCEPT ![r].pc = "over"]
  /\ Emit(r, "done")
  /\ UNCHANGED <<convos, senders, removers, streams, listed, bots>>

(* Mutant: finished runs are reaped when the next one starts. *)
ReapsAtNextStart(r) ==
  /\ r \in listed /\ Finished(r)
  /\ \E s \in Senders : senders[s].pc = "start"
  /\ listed' = listed \ {r}
  /\ UNCHANGED <<convos, senders, removers, streams, runs, queue, bots>>

(* _reap, some time (ttl) after the end: on the reaper's timer, and before  *)
(* another run starts.                                                     *)
Reaps(r) ==
  /\ r \in listed /\ Finished(r)
  /\ listed' = listed \ {r}
  /\ UNCHANGED <<convos, senders, removers, streams, runs, queue, bots>>
-----------------------------------------------------------------------------
(* GET /api/agent/stream/<run_id>; a client may open it again. *)
Connects(t, r) ==
  /\ streams[t] = Idle
  /\ r \in listed /\ runs[r].via = "web"
  /\ streams' = [streams EXCEPT ![t] = [pc |-> "get", run |-> r, event |-> "part"]]
  /\ UNCHANGED <<convos, senders, removers, runs, listed, queue, bots>>

TakesEvent(t) ==
  /\ streams[t].pc = "get" /\ queue[streams[t].run] # <<>>
  /\ streams' = [streams EXCEPT ![t].pc = "send", ![t].event = Head(queue[streams[t].run])]
  /\ queue' = [queue EXCEPT ![streams[t].run] = Tail(@)]
  /\ UNCHANGED <<convos, senders, removers, runs, listed, bots>>

SendsEvent(t) ==
  /\ streams[t].pc = "send"
  /\ streams' = [streams EXCEPT ![t].pc = IF streams[t].event = "done" THEN "cleanup" ELSE "get"]
  /\ UNCHANGED <<convos, senders, removers, runs, listed, queue, bots>>

(* 15 s without an event: a keepalive, and then a look at run.finished. *)
WaitsInVain(t) ==
  /\ streams[t].pc = "get" /\ queue[streams[t].run] = <<>>
  /\ streams' = [streams EXCEPT ![t].pc = "alive"]
  /\ UNCHANGED <<convos, senders, removers, runs, listed, queue, bots>>

(* Mutant: the keepalive does not look at run.finished. *)
KeepsAliveForEver(t) ==
  /\ streams[t].pc = "alive"
  /\ streams' = [streams EXCEPT ![t].pc = "get"]
  /\ UNCHANGED <<convos, senders, removers, runs, listed, queue, bots>>

KeepsAlive(t) ==
  /\ streams[t].pc = "alive"
  /\ streams' = [streams EXCEPT ![t].pc = IF Finished(streams[t].run) THEN "cleanup" ELSE "get"]
  /\ UNCHANGED <<convos, senders, removers, runs, listed, queue, bots>>

(* Mutant: the cleanup is in a finally, and runs on a lost connection too. *)
DisconnectCleansUp(t) ==
  /\ streams[t].pc \in {"send", "alive"}
  /\ listed' = listed \ {streams[t].run}
  /\ streams' = [streams EXCEPT ![t] = Idle]
  /\ UNCHANGED <<convos, senders, removers, runs, queue, bots>>

(* The client is gone when something is sent to it: the generator is       *)
(* closed where it stands.                                                 *)
Disconnects(t) ==
  /\ streams[t].pc \in {"send", "alive"}
  /\ streams' = [streams EXCEPT ![t] = Idle]
  /\ UNCHANGED <<convos, senders, removers, runs, listed, queue, bots>>

CleansUp(t) ==
  /\ streams[t].pc = "cleanup"
  /\ listed' = listed \ {streams[t].run}
  /\ streams' = [streams EXCEPT ![t] = Idle]
  /\ UNCHANGED <<convos, senders, removers, runs, queue, bots>>

(* _run_agent: a chat listens until the end, or until 20 minutes bring no  *)
(* event, and takes the run off the registry.                              *)
BotTakes(r) ==
  /\ r \in bots /\ queue[r] # <<>>
  /\ queue' = [queue EXCEPT ![r] = Tail(@)]
  /\ IF Head(queue[r]) = "done"
       THEN bots' = bots \ {r} /\ listed' = listed \ {r}
       ELSE UNCHANGED <<bots, listed>>
  /\ UNCHANGED <<convos, senders, removers, streams, runs>>

BotGivesUp(r) ==
  /\ r \in bots /\ queue[r] = <<>>
  /\ bots' = bots \ {r} /\ listed' = listed \ {r}
  /\ UNCHANGED <<convos, senders, removers, streams, runs, queue>>
-----------------------------------------------------------------------------
(* DELETE /api/conversations/<cid> and POST /api/conversations/clear.      *)
Asked(todo, all) == [pc |-> "active", todo |-> todo, all |-> all, active |-> {}, known |-> {}]

DeletePressed(d, c) ==
  /\ removers[d] = Idle /\ Live(c)
  /\ removers' = [removers EXCEPT ![d] = Asked({c}, FALSE)]
  /\ UNCHANGED <<convos, senders, streams, runs, listed, queue, bots>>

ClearPressed(d) ==
  /\ removers[d] = Idle
  /\ removers' = [removers EXCEPT ![d] = Asked({}, TRUE)]
  /\ UNCHANGED <<convos, senders, streams, runs, listed, queue, bots>>

(* Mutant: the conversations whose runs are over. *)
OverConversations == {runs[r].convo : r \in {x \in listed : Finished(x)}}

ActiveConversations == {runs[r].convo : r \in {x \in listed : ~Finished(x)}}

(* known: history, the runs that had been registered by then. *)
SeesActive(d) ==
  /\ removers[d].pc = "active"
  /\ removers' = [removers EXCEPT ![d].pc = "select", ![d].active = ActiveConversations,
                                  ![d].known = {r \in Runs : runs[r] # NotStarted}]
  /\ UNCHANGED <<convos, senders, streams, runs, listed, queue, bots>>

Selects(d) ==
  /\ removers[d].pc = "select"
  /\ removers' = [removers EXCEPT ![d].pc = "delete",
                    ![d].todo = (IF removers[d].all THEN {c \in Convos : Live(c)} ELSE @)
                                \ removers[d].active]
  /\ UNCHANGED <<convos, senders, streams, runs, listed, queue, bots>>

Deletes(d, c) ==
  /\ removers[d].pc = "delete" /\ c \in removers[d].todo
  /\ convos' = [convos EXCEPT ![c] = "gone"]
  /\ removers' = [removers EXCEPT ![d].todo = @ \ {c}]
  /\ UNCHANGED <<senders, streams, runs, listed, queue, bots>>

RemovalEnds(d) ==
  /\ removers[d].pc = "delete" /\ removers[d].todo = {}
  /\ removers' = [removers EXCEPT ![d] = Idle]
  /\ UNCHANGED <<convos, senders, streams, runs, listed, queue, bots>>
-----------------------------------------------------------------------------
RunThread(r) == Finishes(r) \/ FailsToSave(r) \/ EmitsDone(r)
Stream(t) == TakesEvent(t) \/ SendsEvent(t) \/ WaitsInVain(t) \/ KeepsAlive(t) \/ CleansUp(t)

Next ==
  \/ \E c \in Convos : Create(c)
  \/ \E s \in Senders : \/ \E c \in Convos : \/ Sends(s, c)
                                             \/ \E via \in Vias : OpensOwn(s, c, via)
                        \/ InsertsMessage(s)
                        \/ \E r \in Runs : Starts(s, r)
  \/ \E r \in Runs : Emits(r) \/ RunThread(r) \/ Reaps(r) \/ BotTakes(r) \/ BotGivesUp(r)
  \/ \E t \in Streams : (\E r \in Runs : Connects(t, r)) \/ Stream(t) \/ Disconnects(t)
  \/ \E d \in Removers : \/ \E c \in Convos : DeletePressed(d, c) \/ Deletes(d, c)
                         \/ ClearPressed(d) \/ SeesActive(d) \/ Selects(d) \/ RemovalEnds(d)

Spec == Init /\ [][Next]_vars

(* Runs end (AgentRun, EveryRunEnds); the reaper and the streams keep going. *)
FairSpec ==
  /\ Spec
  /\ \A r \in Runs : WF_vars(RunThread(r)) /\ WF_vars(Reaps(r)) /\ WF_vars(BotTakes(r))
  /\ \A t \in Streams : WF_vars(Stream(t))
-----------------------------------------------------------------------------
SenderShape == [pc : {"insert", "start"}, convo : Convos, via : Vias]
RemoverShape == [pc : {"active", "select", "delete"}, todo : SUBSET Convos, all : BOOLEAN,
                 active : SUBSET Convos, known : SUBSET Runs]
StreamShape == [pc : {"get", "send", "alive", "cleanup"}, run : Runs, event : Events]
RunShape == [pc : {"running", "finished", "over"}, convo : Convos, via : Vias,
             parts : 0 .. MaxParts]

(* The table, the registry and the threads hold what the code puts there. *)
TypeOK ==
  /\ convos \in [Convos -> {"none", "live", "gone"}]
  /\ senders \in [Senders -> {Idle} \cup SenderShape]
  /\ removers \in [Removers -> {Idle} \cup RemoverShape]
  /\ streams \in [Streams -> {Idle} \cup StreamShape]
  /\ runs \in [Runs -> {NotStarted} \cup RunShape]
  /\ listed \cup bots \subseteq {r \in Runs : runs[r].pc # "off"}
  /\ queue \in [Runs -> Seq(Events)]

(* Whatever its streams do, drop, reconnect, or share it, a run somebody   *)
(* started from the page stays in RUNS until it has finished: confirm()    *)
(* and stop() find it.                                                     *)
RunningIsReachable == \A r \in Runs : Running(r) /\ runs[r].via = "web" => r \in listed

(* The web layer refuses to delete a conversation with a run in progress   *)
(* (active_conversation_ids): one deleted under a run that is registered   *)
(* can only have got that run since the request looked.                    *)
RefusesWhileActive ==
  [][\A d \in Removers, c \in Convos : Deletes(d, c) =>
       \A r \in listed : Running(r) /\ runs[r].convo = c => r \notin removers[d].known]_vars

(* Every stream ends after its run, also when another stream got the last  *)
(* event.                                                                  *)
StreamsEnd == \A t \in Streams : \A r \in Runs :
  streams[t].pc # "idle" /\ Finished(r) /\ (streams[t].run = r) ~> streams[t].pc = "idle"

(* Finished runs do not pile up in RUNS (_ensure_reaper). *)
FinishedAreForgotten == \A r \in Runs : Finished(r) ~> r \notin listed
=============================================================================
