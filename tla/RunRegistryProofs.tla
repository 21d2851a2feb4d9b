------------------------- MODULE RunRegistryProofs -------------------------
(***************************************************************************)
(* A run started from the page stays in RUNS until it has finished.        *)
(*                                                                         *)
(* Only a cleanup takes a run off the registry before the reaper does, so  *)
(* it is enough that a stream cleans up only after a run that finished.    *)
(* That holds because "done" is the last thing a run emits: whoever holds  *)
(* it in a queue or in hand can rely on the run being over.                *)
(*                                                                         *)
(* The second half is about DeferredInbox, whose names differ from those   *)
(* of RunRegistry: what unattended runs leave for people to decide.        *)
(***************************************************************************)
EXTENDS RunRegistry, DeferredInbox, TLAPS

(* "done" in a queue: the run has finished. *)
DoneQueued ==
  \A r \in Runs : \A i \in 1 .. Len(queue[r]) : queue[r][i] = "done" => Finished(r)

(* A stream that has "done" in hand, or is about to clean up. *)
DoneInHand ==
  \A t \in Streams :
    (streams[t].pc = "send" /\ streams[t].event = "done") \/ streams[t].pc = "cleanup"
    => Finished(streams[t].run)

(* A chat listens only to runs a chat started. *)
BotsOwnTheirs == \A r \in bots : runs[r].via = "bot"

RegistryInv == TypeOK /\ DoneQueued /\ DoneInHand /\ BotsOwnTheirs /\ RunningIsReachable

(* What a thread that is doing something looks like. *)
LEMMA Shapes ==
  ASSUME TypeOK
  PROVE  /\ \A s \in Senders : senders[s].pc # "idle" => senders[s] \in SenderShape
         /\ \A d \in Removers : removers[d].pc # "idle" => removers[d] \in RemoverShape
         /\ \A t \in Streams : streams[t].pc # "idle" => streams[t] \in StreamShape
         /\ \A r \in Runs : runs[r].pc # "off" => runs[r] \in RunShape
  BY DEF TypeOK, Idle, NotStarted

(* A thread that only moves on keeps its shape. *)
LEMMA Moves ==
  /\ \A x \in SenderShape, pc \in {"insert", "start"} : [x EXCEPT !.pc = pc] \in SenderShape
  /\ \A x \in StreamShape, pc \in {"get", "send", "alive", "cleanup"} :
       [x EXCEPT !.pc = pc] \in StreamShape
  /\ \A x \in RunShape, pc \in {"running", "finished", "over"} : [x EXCEPT !.pc = pc] \in RunShape
  BY DEF SenderShape, StreamShape, RunShape

(* The initial state is well typed. *)
LEMMA TypeInit == Init => TypeOK
  BY DEF Init, TypeOK, Idle, NotStarted, Events

(* A step keeps the state well typed. *)
LEMMA TypeStep == TypeOK /\ [Next]_vars => TypeOK'
<1> SUFFICES ASSUME TypeOK, [Next]_vars PROVE TypeOK'
  OBVIOUS
<1> USE DEF TypeOK
<1>1. ASSUME NEW c \in Convos, Create(c) PROVE TypeOK'
  BY <1>1 DEF Create
<1>2. ASSUME NEW s \in Senders, NEW c \in Convos, Sends(s, c) PROVE TypeOK'
  BY <1>2 DEF Sends, SenderShape, Vias
<1>3. ASSUME NEW s \in Senders, NEW c \in Convos, NEW via \in Vias, OpensOwn(s, c, via) PROVE TypeOK'
  BY <1>3 DEF OpensOwn, SenderShape, Vias
<1>4. ASSUME NEW s \in Senders, InsertsMessage(s) PROVE TypeOK'
  <2>1. senders[s] \in SenderShape  BY <1>4, Shapes DEF InsertsMessage
  <2>2. QED  BY <1>4, <2>1, Moves DEF InsertsMessage, SenderShape
<1>5. ASSUME NEW s \in Senders, NEW r \in Runs, Starts(s, r) PROVE TypeOK'
  <2>1. senders[s] \in SenderShape  BY <1>5, Shapes DEF Starts
  <2>2. [pc |-> "running", convo |-> senders[s].convo, via |-> senders[s].via, parts |-> 0] \in RunShape
    BY <2>1, PartsAssumption DEF SenderShape, RunShape
  <2>3. QED  BY <1>5, <2>2 DEF Starts
<1>6. ASSUME NEW r \in Runs, Emits(r) PROVE TypeOK'
  <2>1. runs[r] \in RunShape  BY <1>6, Shapes DEF Emits, Running
  <2>2. [runs[r] EXCEPT !.parts = @ + 1] \in RunShape
    <3>1. runs[r].parts \in 0 .. MaxParts /\ runs[r].parts < MaxParts
      BY <1>6, <2>1 DEF Emits, RunShape
    <3>2. runs[r].parts + 1 \in 0 .. MaxParts  BY <3>1, PartsAssumption
    <3>3. QED  BY <2>1, <3>2 DEF RunShape
  <2>3. Append(queue[r], "part") \in Seq(Events)  BY DEF Events
  <2>4. QED  BY <1>6, <2>2, <2>3 DEF Emits, Emit
<1>7. ASSUME NEW r \in Runs, Finishes(r) PROVE TypeOK'
  <2>1. runs[r] \in RunShape  BY <1>7, Shapes DEF Finishes, Running
  <2>2. QED  BY <1>7, <2>1, Moves DEF Finishes, Running, RunShape
<1>8. ASSUME NEW r \in Runs, FailsToSave(r) PROVE TypeOK'
  <2>1. runs[r] \in RunShape  BY <1>8, Shapes DEF FailsToSave, Running
  <2>2. Append(queue[r], "part") \in Seq(Events)  BY DEF Events
  <2>3. [runs[r] EXCEPT !.pc = "finished"] \in RunShape  BY <2>1, Moves
  <2>4. QED  BY <1>8, <2>2, <2>3 DEF FailsToSave, Emit
<1>9. ASSUME NEW r \in Runs, EmitsDone(r) PROVE TypeOK'
  <2>1. runs[r] \in RunShape  BY <1>9, Shapes DEF EmitsDone
  <2>2. Append(queue[r], "done") \in Seq(Events)  BY DEF Events
  <2>3. [runs[r] EXCEPT !.pc = "over"] \in RunShape  BY <2>1, Moves
  <2>4. QED  BY <1>9, <2>2, <2>3 DEF EmitsDone, Emit
<1>10. ASSUME NEW r \in Runs, Reaps(r) PROVE TypeOK'
  BY <1>10 DEF Reaps
<1>11. ASSUME NEW t \in Streams, NEW r \in Runs, Connects(t, r) PROVE TypeOK'
  BY <1>11 DEF Connects, StreamShape, Events
<1>12. ASSUME NEW t \in Streams, TakesEvent(t) PROVE TypeOK'
  <2> DEFINE r == streams[t].run
  <2>1. streams[t] \in StreamShape  BY <1>12, Shapes DEF TakesEvent
  <2>2. r \in Runs /\ queue[r] \in Seq(Events) /\ queue[r] # <<>>
    BY <1>12, <2>1 DEF TakesEvent, StreamShape
  <2>3. Head(queue[r]) \in Events /\ Tail(queue[r]) \in Seq(Events)  BY <2>2
  <2>4. [streams[t] EXCEPT !.pc = "send", !.event = Head(queue[r])] \in StreamShape
    BY <2>1, <2>3 DEF StreamShape
  <2>5. QED  BY <1>12, <2>2, <2>3, <2>4 DEF TakesEvent
<1>13. ASSUME NEW t \in Streams, SendsEvent(t) PROVE TypeOK'
  <2>1. streams[t] \in StreamShape  BY <1>13, Shapes DEF SendsEvent
  <2>2. QED  BY <1>13, <2>1, Moves DEF SendsEvent, StreamShape
<1>14. ASSUME NEW t \in Streams, WaitsInVain(t) PROVE TypeOK'
  <2>1. streams[t] \in StreamShape  BY <1>14, Shapes DEF WaitsInVain
  <2>2. QED  BY <1>14, <2>1, Moves DEF WaitsInVain, StreamShape
<1>15. ASSUME NEW t \in Streams, KeepsAlive(t) PROVE TypeOK'
  <2>1. streams[t] \in StreamShape  BY <1>15, Shapes DEF KeepsAlive
  <2>2. QED  BY <1>15, <2>1, Moves DEF KeepsAlive, StreamShape
<1>16. ASSUME NEW t \in Streams, Disconnects(t) PROVE TypeOK'
  BY <1>16 DEF Disconnects
<1>17. ASSUME NEW t \in Streams, CleansUp(t) PROVE TypeOK'
  BY <1>17 DEF CleansUp
<1>18. ASSUME NEW r \in Runs, BotTakes(r) PROVE TypeOK'
  <2>1. Tail(queue[r]) \in Seq(Events)  BY <1>18 DEF BotTakes
  <2>2. QED  BY <1>18, <2>1 DEF BotTakes
<1>19. ASSUME NEW r \in Runs, BotGivesUp(r) PROVE TypeOK'
  BY <1>19 DEF BotGivesUp
<1>20. ASSUME NEW d \in Removers, NEW c \in Convos, DeletePressed(d, c) PROVE TypeOK'
  BY <1>20 DEF DeletePressed, Asked, RemoverShape
<1>21. ASSUME NEW d \in Removers, ClearPressed(d) PROVE TypeOK'
  BY <1>21 DEF ClearPressed, Asked, RemoverShape
<1>22. ASSUME NEW d \in Removers, SeesActive(d) PROVE TypeOK'
  <2>1. removers[d] \in RemoverShape  BY <1>22, Shapes DEF SeesActive
  <2>2. \A r \in listed : runs[r] \in RunShape  BY Shapes
  <2>3. ActiveConversations \in SUBSET Convos  BY <2>2 DEF ActiveConversations, RunShape
  <2>4. QED  BY <1>22, <2>1, <2>3 DEF SeesActive, RemoverShape
<1>23. ASSUME NEW d \in Removers, Selects(d) PROVE TypeOK'
  <2>1. removers[d] \in RemoverShape  BY <1>23, Shapes DEF Selects
  <2>2. QED  BY <1>23, <2>1 DEF Selects, RemoverShape
<1>24. ASSUME NEW d \in Removers, NEW c \in Convos, Deletes(d, c) PROVE TypeOK'
  <2>1. removers[d] \in RemoverShape  BY <1>24, Shapes DEF Deletes
  <2>2. QED  BY <1>24, <2>1 DEF Deletes, RemoverShape
<1>25. ASSUME NEW d \in Removers, RemovalEnds(d) PROVE TypeOK'
  BY <1>25 DEF RemovalEnds
<1>26. CASE UNCHANGED vars
  BY <1>26 DEF vars
<1>27. QED
  BY <1>1, <1>2, <1>3, <1>4, <1>5, <1>6, <1>7, <1>8, <1>9, <1>10, <1>11, <1>12, <1>13, <1>14,
     <1>15, <1>16, <1>17, <1>18, <1>19, <1>20, <1>21, <1>22, <1>23, <1>24, <1>25, <1>26
     DEF Next, RunThread, Stream
-----------------------------------------------------------------------------
(* Initially there is nothing to lose. *)
LEMMA RegistryInit == Init => RegistryInv
<1> SUFFICES ASSUME Init PROVE RegistryInv
  OBVIOUS
<1>1. TypeOK  BY TypeInit
<1>2. DoneQueued /\ DoneInHand  BY DEF Init, DoneQueued, DoneInHand, Idle
<1>3. BotsOwnTheirs /\ RunningIsReachable
  BY DEF Init, BotsOwnTheirs, RunningIsReachable, Running, NotStarted
<1>4. QED  BY <1>1, <1>2, <1>3 DEF RegistryInv

(* Adding a last event to a queue. *)
LEMMA Appended ==
  ASSUME NEW s \in Seq(Events), NEW e \in Events, NEW i \in 1 .. Len(Append(s, e)),
         Append(s, e)[i] = "done"
  PROVE  e = "done" \/ \E j \in 1 .. Len(s) : s[j] = "done"
  OBVIOUS

(* Taking the first event off a queue. *)
LEMMA Taken ==
  ASSUME NEW s \in Seq(Events), s # <<>>
  PROVE  /\ Head(s) = s[1] /\ 1 \in 1 .. Len(s)
         /\ \A i \in 1 .. Len(Tail(s)) : i + 1 \in 1 .. Len(s) /\ Tail(s)[i] = s[i + 1]
  OBVIOUS

(* Whatever a step does, "done" stays the last word of a run, and a run    *)
(* that has not finished stays in RUNS.                                    *)
LEMMA RegistryStep == RegistryInv /\ [Next]_vars => RegistryInv'
<1> SUFFICES ASSUME RegistryInv, [Next]_vars
             PROVE (DoneQueued /\ DoneInHand /\ BotsOwnTheirs /\ RunningIsReachable)'
  BY TypeStep DEF RegistryInv
<1> DEFINE Goal == (DoneQueued /\ DoneInHand /\ BotsOwnTheirs /\ RunningIsReachable)'
<1>0. TypeOK /\ DoneQueued /\ DoneInHand /\ BotsOwnTheirs /\ RunningIsReachable
  BY DEF RegistryInv
<1>1. CASE UNCHANGED <<streams, runs, listed, queue, bots>>
  BY <1>0, <1>1 DEF DoneQueued, DoneInHand, BotsOwnTheirs, RunningIsReachable, Finished, Running
<1>2. ASSUME NEW s \in Senders, NEW r \in Runs, Starts(s, r) PROVE Goal
  <2>1. /\ runs' = [runs EXCEPT ![r] = [pc |-> "running", convo |-> senders[s].convo,
                                        via |-> senders[s].via, parts |-> 0]]
        /\ UNCHANGED <<streams, queue>>
        /\ r \in listed' \/ senders[s].via = "job"
        /\ listed \subseteq listed'
        /\ bots' \subseteq bots \cup (IF senders[s].via = "bot" THEN {r} ELSE {})
    BY <1>2 DEF Starts
  <2>2. \A x \in Runs : Finished(x) => Finished(x)'
    BY <1>0, <1>2, <2>1 DEF Starts, Finished, TypeOK, NotStarted
  <2>3. \A t \in Streams : streams[t].pc # "idle" => streams[t].run \in Runs
    BY <1>0, Shapes DEF StreamShape
  <2>4. DoneQueued'  BY <1>0, <2>1, <2>2 DEF DoneQueued
  <2>5. DoneInHand'  BY <1>0, <2>1, <2>2, <2>3 DEF DoneInHand
  <2>6. BotsOwnTheirs'
    <3>1. r \notin bots /\ \A x \in bots : x \in Runs
      BY <1>0, <1>2 DEF Starts, TypeOK, NotStarted
    <3>2. runs'[r].via = senders[s].via /\ \A x \in Runs : x # r => runs'[x] = runs[x]
      BY <1>0, <2>1 DEF TypeOK
    <3>3. QED  BY <1>0, <2>1, <3>1, <3>2 DEF BotsOwnTheirs
  <2>7. RunningIsReachable'
    BY <1>0, <1>2, <2>1 DEF Starts, RunningIsReachable, Running, TypeOK
  <2>8. QED  BY <2>4, <2>5, <2>6, <2>7
<1>3. ASSUME NEW r \in Runs, Emits(r) \/ Finishes(r) \/ FailsToSave(r) \/ EmitsDone(r) PROVE Goal
  <2>1. /\ UNCHANGED <<streams, listed, bots>>
        /\ runs[r].pc \in {"running", "finished"}
    BY <1>3 DEF Emits, Finishes, FailsToSave, EmitsDone, Running
  <2>2. runs[r] \in RunShape  BY <1>0, <2>1, Shapes
  <2>3. /\ \A x \in Runs : runs'[x].via = runs[x].via
        /\ \A x \in Runs : Finished(x) => Finished(x)'
        /\ \A x \in Runs : Running(x)' => Running(x)
    <3>1. \/ runs' = [runs EXCEPT ![r].parts = @ + 1]
          \/ runs' = [runs EXCEPT ![r].pc = "finished"]
          \/ runs' = [runs EXCEPT ![r].pc = "over"] /\ ~Running(r)
      BY <1>3 DEF Emits, Finishes, FailsToSave, EmitsDone, Running
    <3>2. /\ runs'[r].via = runs[r].via
          /\ runs'[r].pc \in {runs[r].pc, "finished", "over"}
      BY <1>0, <2>2, <3>1 DEF TypeOK, RunShape
    <3>3. \A x \in Runs : x # r => runs'[x] = runs[x]
      BY <1>0, <3>1 DEF TypeOK
    <3>4. Finished(r) => Finished(r)'  BY <2>2, <3>1, <1>0 DEF Finished, TypeOK, RunShape
    <3>5. QED  BY <3>2, <3>3, <3>4 DEF Finished, Running
  <2>4. \/ queue' = queue
        \/ queue' = [queue EXCEPT ![r] = Append(@, "part")]
        \/ queue' = [queue EXCEPT ![r] = Append(@, "done")] /\ Finished(r)
    BY <1>3 DEF Emits, Finishes, FailsToSave, EmitsDone, Emit, Finished
  <2>5. DoneQueued'
    <3> SUFFICES ASSUME NEW x \in Runs, NEW i \in 1 .. Len(queue'[x]), queue'[x][i] = "done"
                 PROVE Finished(x)
      BY <2>3 DEF DoneQueued
    <3>1. queue[x] \in Seq(Events)  BY <1>0 DEF TypeOK
    <3>2. CASE queue'[x] = queue[x]  BY <1>0, <3>2 DEF DoneQueued
    <3>3. CASE queue'[x] = Append(queue[x], "part")
      BY <1>0, <3>1, <3>3, Appended DEF DoneQueued, Events
    <3>4. CASE Finished(x)  BY <3>4
    <3>5. QED  BY <1>0, <2>4, <3>2, <3>3, <3>4 DEF TypeOK
  <2>6. DoneInHand'
    <3>1. \A t \in Streams : streams[t].pc # "idle" => streams[t].run \in Runs
      BY <1>0, Shapes DEF StreamShape
    <3>2. QED  BY <1>0, <2>1, <2>3, <3>1 DEF DoneInHand
  <2>7. BotsOwnTheirs'  BY <1>0, <2>1, <2>3 DEF BotsOwnTheirs, TypeOK
  <2>8. RunningIsReachable'  BY <1>0, <2>1, <2>3 DEF RunningIsReachable
  <2>9. QED  BY <2>5, <2>6, <2>7, <2>8
<1>4. ASSUME NEW r \in Runs, Reaps(r) PROVE Goal
  <2>1. UNCHANGED <<streams, runs, queue, bots>> /\ listed' = listed \ {r} /\ Finished(r)
    BY <1>4 DEF Reaps
  <2>2. QED
    BY <1>0, <2>1 DEF DoneQueued, DoneInHand, BotsOwnTheirs, RunningIsReachable, Finished, Running
<1>5. ASSUME NEW t \in Streams, TakesEvent(t) PROVE Goal
  <2> DEFINE r == streams[t].run
  <2>1. streams[t] \in StreamShape /\ queue[r] # <<>> /\ UNCHANGED <<runs, listed, bots>>
    BY <1>0, <1>5, Shapes DEF TakesEvent
  <2>2. r \in Runs /\ queue[r] \in Seq(Events)  BY <1>0, <2>1 DEF TypeOK, StreamShape
  <2>3. queue' = [queue EXCEPT ![r] = Tail(@)]  BY <1>5 DEF TakesEvent
  <2>4. DoneQueued'
    <3> SUFFICES ASSUME NEW x \in Runs, NEW i \in 1 .. Len(queue'[x]), queue'[x][i] = "done"
                 PROVE Finished(x)
      BY <2>1 DEF DoneQueued, Finished
    <3>1. CASE x = r  BY <1>0, <2>1, <2>2, <2>3, <3>1, Taken DEF DoneQueued, TypeOK
    <3>2. CASE x # r  BY <1>0, <2>3, <3>2 DEF DoneQueued, TypeOK
    <3>3. QED  BY <3>1, <3>2
  <2>5. Head(queue[r]) = "done" => Finished(r)
    BY <1>0, <2>1, <2>2, Taken DEF DoneQueued
  <2>6. /\ streams'[t].pc = "send" /\ streams'[t].event = Head(queue[r]) /\ streams'[t].run = r
        /\ \A u \in Streams : u # t => streams'[u] = streams[u]
    BY <1>0, <1>5, <2>1 DEF TakesEvent, TypeOK, StreamShape
  <2>7. DoneInHand'  BY <1>0, <2>1, <2>5, <2>6 DEF DoneInHand, Finished
  <2>8. QED  BY <1>0, <2>1, <2>4, <2>7 DEF BotsOwnTheirs, RunningIsReachable, Running
<1>6. ASSUME NEW t \in Streams, SendsEvent(t) \/ WaitsInVain(t) \/ KeepsAlive(t) PROVE Goal
  <2>1. streams[t] \in StreamShape /\ UNCHANGED <<runs, listed, queue, bots>>
    BY <1>0, <1>6, Shapes DEF SendsEvent, WaitsInVain, KeepsAlive
  <2>2. /\ streams'[t].pc \in {"get", "alive", "cleanup"} /\ streams'[t].run = streams[t].run
        /\ streams'[t].pc = "cleanup" =>
             \/ Finished(streams[t].run)
             \/ streams[t].pc = "send" /\ streams[t].event = "done"
        /\ \A u \in Streams : u # t => streams'[u] = streams[u]
    BY <1>0, <1>6, <2>1 DEF SendsEvent, WaitsInVain, KeepsAlive, TypeOK, StreamShape
  <2>3. DoneInHand'  BY <1>0, <2>1, <2>2 DEF DoneInHand, Finished
  <2>4. QED
    BY <1>0, <2>1, <2>3 DEF DoneQueued, BotsOwnTheirs, RunningIsReachable, Running, Finished
<1>7. ASSUME NEW t \in Streams, NEW r \in Runs, Connects(t, r) PROVE Goal
  <2>1. DoneInHand'  BY <1>0, <1>7 DEF Connects, DoneInHand, Finished, TypeOK
  <2>2. QED
    BY <1>0, <1>7, <2>1
       DEF Connects, DoneQueued, BotsOwnTheirs, RunningIsReachable, Running, Finished
<1>8. ASSUME NEW t \in Streams, Disconnects(t) \/ CleansUp(t) PROVE Goal
  <2>1. /\ streams' = [streams EXCEPT ![t] = Idle] /\ UNCHANGED <<runs, queue, bots>>
        /\ \/ listed' = listed
           \/ listed' = listed \ {streams[t].run} /\ Finished(streams[t].run)
    BY <1>0, <1>8 DEF Disconnects, CleansUp, DoneInHand
  <2>2. DoneInHand'  BY <1>0, <2>1 DEF DoneInHand, Finished, TypeOK, Idle
  <2>3. RunningIsReachable'  BY <1>0, <2>1 DEF RunningIsReachable, Running, Finished
  <2>4. QED  BY <1>0, <2>1, <2>2, <2>3 DEF DoneQueued, BotsOwnTheirs, Finished
<1>9. ASSUME NEW r \in Runs, BotTakes(r) \/ BotGivesUp(r) PROVE Goal
  <2>1. /\ r \in bots /\ UNCHANGED <<streams, runs>>
        /\ listed \ {r} \subseteq listed' /\ bots' \subseteq bots
        /\ \/ queue' = queue
           \/ queue[r] # <<>> /\ queue' = [queue EXCEPT ![r] = Tail(@)]
    <3>1. CASE BotTakes(r)  BY <3>1 DEF BotTakes
    <3>2. CASE BotGivesUp(r)  BY <3>2 DEF BotGivesUp
    <3>3. QED  BY <1>9, <3>1, <3>2
  <2>2. runs[r].via = "bot"  BY <1>0, <2>1 DEF BotsOwnTheirs
  <2>3. DoneQueued'
    <3> SUFFICES ASSUME NEW x \in Runs, NEW i \in 1 .. Len(queue'[x]), queue'[x][i] = "done"
                 PROVE Finished(x)
      BY <2>1 DEF DoneQueued, Finished
    <3>1. queue[x] \in Seq(Events)  BY <1>0 DEF TypeOK
    <3>2. CASE queue'[x] = queue[x]  BY <1>0, <3>2 DEF DoneQueued
    <3>3. CASE queue[x] # <<>> /\ queue'[x] = Tail(queue[x])
      BY <1>0, <3>1, <3>3, Taken DEF DoneQueued
    <3>4. QED  BY <1>0, <2>1, <3>2, <3>3 DEF TypeOK
  <2>4. QED
    BY <1>0, <2>1, <2>2, <2>3 DEF DoneInHand, BotsOwnTheirs, RunningIsReachable, Running, Finished
<1>10. QED
  <2>1. CASE UNCHANGED vars  BY <1>1, <2>1 DEF vars
  <2>2. CASE Next
    BY <1>1, <1>2, <1>3, <1>4, <1>5, <1>6, <1>7, <1>8, <1>9, <2>2
       DEF Next, RunThread, Stream, Create, Sends, OpensOwn, InsertsMessage, DeletePressed,
           ClearPressed, SeesActive, Selects, Deletes, RemovalEnds
  <2>3. QED  BY <2>1, <2>2
-----------------------------------------------------------------------------
(* Every behaviour keeps the registry, its queues and its threads typed.   *)
THEOREM RegistryTyped == Spec => []TypeOK
<1>1. TypeOK /\ [Next]_vars => TypeOK'  BY TypeStep
<1>2. QED  BY <1>1, TypeInit, PTL DEF Spec

(* confirm() and stop() find every unfinished run started from the page,   *)
(* whatever its streams do (core.get, core.cleanup, api_agent_stream).     *)
THEOREM Reachable == Spec => []RunningIsReachable
<1>1. RegistryInv => RunningIsReachable  BY DEF RegistryInv
<1>2. QED  BY <1>1, RegistryInit, RegistryStep, PTL DEF Spec
-----------------------------------------------------------------------------
(* What a removal request knows when it has looked: the runs there were,   *)
(* and the conversation of each that is still running in RUNS.             *)
KnownAreActive ==
  \A d \in Removers : removers[d].pc \in {"select", "delete"} =>
    \A r \in removers[d].known :
      /\ runs[r] # NotStarted
      /\ r \in listed /\ Running(r) => runs[r].convo \in removers[d].active

(* And what it has left to delete.                                         *)
SparesTheActive ==
  \A d \in Removers : removers[d].pc = "delete" => removers[d].todo \cap removers[d].active = {}

RemovalInv == TypeOK /\ KnownAreActive /\ SparesTheActive

(* What a request knows stays true while it does nothing: no run starts    *)
(* again, joins RUNS later or moves to another conversation.               *)
LEMMA KnowledgeLasts ==
  ASSUME TypeOK, KnownAreActive, SparesTheActive, UNCHANGED removers,
         \A r \in Runs : runs[r] # NotStarted =>
           /\ runs'[r] # NotStarted /\ runs'[r].convo = runs[r].convo
           /\ runs'[r].pc = "running" => runs[r].pc = "running"
           /\ r \in listed' => r \in listed
  PROVE  KnownAreActive' /\ SparesTheActive'
<1>1. \A d \in Removers : removers[d].pc \in {"select", "delete"} => removers[d].known \subseteq Runs
  BY Shapes DEF RemoverShape
<1>2. QED  BY <1>1 DEF KnownAreActive, SparesTheActive, Running

(* A step keeps what requests know true. *)
LEMMA RemovalStep == RemovalInv /\ [Next]_vars => RemovalInv'
<1> SUFFICES ASSUME RemovalInv, [Next]_vars PROVE (KnownAreActive /\ SparesTheActive)'
  BY TypeStep DEF RemovalInv
<1> DEFINE Goal == (KnownAreActive /\ SparesTheActive)'
<1>0. TypeOK /\ KnownAreActive /\ SparesTheActive  BY DEF RemovalInv
<1>1. CASE UNCHANGED <<removers, runs>> /\ listed' \subseteq listed
  BY <1>0, <1>1, KnowledgeLasts
<1>2. ASSUME NEW s \in Senders, NEW r \in Runs, Starts(s, r) PROVE Goal
  <2>1. \A x \in Runs : runs[x] # NotStarted => runs'[x] = runs[x] /\ (x \in listed' => x \in listed)
    BY <1>0, <1>2 DEF Starts, TypeOK
  <2>2. UNCHANGED removers  BY <1>2 DEF Starts
  <2>3. QED  BY <1>0, <2>1, <2>2, KnowledgeLasts
<1>3. ASSUME NEW r \in Runs, Emits(r) \/ RunThread(r) PROVE Goal
  <2>1. UNCHANGED <<removers, listed>>
    BY <1>3 DEF Emits, RunThread, Finishes, FailsToSave, EmitsDone
  <2>2. runs[r].pc \in {"running", "finished"}
    BY <1>3 DEF Emits, RunThread, Finishes, FailsToSave, EmitsDone, Running
  <2>3. runs[r] \in RunShape  BY <1>0, <2>2, Shapes
  <2>4. \/ runs' = [runs EXCEPT ![r].parts = @ + 1]
        \/ runs' = [runs EXCEPT ![r].pc = "finished"]
        \/ runs' = [runs EXCEPT ![r].pc = "over"]
    BY <1>3 DEF Emits, RunThread, Finishes, FailsToSave, EmitsDone
  <2>5. /\ runs'[r].convo = runs[r].convo
        /\ runs'[r].pc \in {runs[r].pc, "finished", "over"}
    BY <1>0, <2>3, <2>4 DEF TypeOK, RunShape
  <2>6. runs'[r] # NotStarted  BY <2>2, <2>5 DEF NotStarted
  <2>7. \A x \in Runs : x # r => runs'[x] = runs[x]  BY <1>0, <2>4 DEF TypeOK
  <2>8. QED  BY <1>0, <2>1, <2>5, <2>6, <2>7, KnowledgeLasts
<1>4. ASSUME NEW d \in Removers,
             (\E c \in Convos : DeletePressed(d, c)) \/ ClearPressed(d) \/ RemovalEnds(d)
      PROVE Goal
  <2>1. /\ UNCHANGED <<runs, listed>>
        /\ removers'[d].pc \in {"active", "idle"}
        /\ \A x \in Removers : x # d => removers'[x] = removers[x]
    BY <1>0, <1>4 DEF DeletePressed, ClearPressed, RemovalEnds, Asked, Idle, TypeOK
  <2>2. QED  BY <1>0, <2>1 DEF KnownAreActive, SparesTheActive, Running
<1>5. ASSUME NEW d \in Removers, SeesActive(d) PROVE Goal
  <2>1. removers[d] \in RemoverShape  BY <1>0, <1>5, Shapes DEF SeesActive
  <2>2. /\ UNCHANGED <<runs, listed>>
        /\ removers'[d].pc = "select" /\ removers'[d].active = ActiveConversations
        /\ removers'[d].known = {r \in Runs : runs[r] # NotStarted}
        /\ \A x \in Removers : x # d => removers'[x] = removers[x]
    BY <1>0, <1>5, <2>1 DEF SeesActive, TypeOK, RemoverShape
  <2>3. \A r \in listed : Running(r) => runs[r].convo \in ActiveConversations
    BY DEF ActiveConversations, Running, Finished
  <2>4. QED  BY <1>0, <2>2, <2>3 DEF KnownAreActive, SparesTheActive, Running
<1>6. ASSUME NEW d \in Removers, Selects(d) \/ \E c \in Convos : Deletes(d, c) PROVE Goal
  <2>1. removers[d] \in RemoverShape  BY <1>0, <1>6, Shapes DEF Selects, Deletes
  <2>2. /\ UNCHANGED <<runs, listed>>
        /\ removers[d].pc \in {"select", "delete"} /\ removers'[d].pc = "delete"
        /\ removers'[d].active = removers[d].active /\ removers'[d].known = removers[d].known
        /\ \A x \in Removers : x # d => removers'[x] = removers[x]
    BY <1>0, <1>6, <2>1 DEF Selects, Deletes, TypeOK, RemoverShape
  <2>3. removers'[d].todo \cap removers'[d].active = {}
    <3>1. CASE Selects(d)
      BY <1>0, <2>1, <2>2, <3>1 DEF Selects, TypeOK, RemoverShape
    <3>2. ASSUME NEW c \in Convos, Deletes(d, c) PROVE removers'[d].todo \cap removers'[d].active = {}
      <4>1. removers'[d].todo = removers[d].todo \ {c} /\ removers[d].pc = "delete"
        BY <1>0, <2>1, <3>2 DEF Deletes, TypeOK, RemoverShape
      <4>2. QED  BY <1>0, <2>2, <4>1 DEF SparesTheActive
    <3>3. QED  BY <1>6, <3>1, <3>2
  <2>4. QED  BY <1>0, <2>2, <2>3 DEF KnownAreActive, SparesTheActive, Running
<1>7. QED
  <2>1. CASE UNCHANGED vars  BY <1>1, <2>1 DEF vars
  <2>2. CASE Next
    BY <1>1, <1>2, <1>3, <1>4, <1>5, <1>6, <2>2
       DEF Next, Stream, Create, Sends, OpensOwn, InsertsMessage, Reaps, BotTakes, BotGivesUp,
           Connects, TakesEvent, SendsEvent, WaitsInVain, KeepsAlive, CleansUp, Disconnects
  <2>3. QED  BY <2>1, <2>2

(* Deleting or clearing conversations leaves those whose runs the request  *)
(* has seen running (active_conversation_ids), for any number of requests. *)
THEOREM ActiveIsSpared == Spec => RefusesWhileActive
<1>1. Init => RemovalInv
  BY TypeInit DEF Init, RemovalInv, KnownAreActive, SparesTheActive, Idle
<1>2. RemovalInv /\ [Next]_vars
      => [\A d \in Removers, c \in Convos : Deletes(d, c) =>
            \A r \in listed : Running(r) /\ runs[r].convo = c => r \notin removers[d].known]_vars
  BY DEF RemovalInv, KnownAreActive, SparesTheActive, Deletes
<1>3. QED  BY <1>1, <1>2, RemovalStep, PTL DEF Spec, RefusesWhileActive
-----------------------------------------------------------------------------
(***************************************************************************)
(* The inbox of schedule.py, which has state of its own: the jobs with     *)
(* what approvals know of them, the deferred actions, and the threads that *)
(* decide on them.                                                         *)
(***************************************************************************)
(* What a deciding thread carries at each of its steps. *)
ThreadsKnow ==
  \A a \in Actors :
    /\ at[a].pc \in {"run", "mark", "allow", "merge", "write"} =>
         at[a].row \in Rows /\ at[a].verb = "approve"
    /\ at[a].pc = "deny" => at[a].verb = "deny"
    /\ at[a].pc = "write" => at[a].job \in JobRows

InboxInv == InboxTypeOK /\ ThreadsKnow /\ ResolutionsAreAudited

LEMMA InboxBegins == InboxAssumption /\ InboxInit => InboxInv
<1> SUFFICES ASSUME InboxAssumption, InboxInit PROVE InboxInv
  OBVIOUS
<1>1. InboxTypeOK
  BY DEF InboxInit, InboxTypeOK, Free
<1>2. ThreadsKnow  BY DEF InboxInit, Free, ThreadsKnow
<1>3. ResolutionsAreAudited
  BY DEF InboxInit, ResolutionsAreAudited, HasStatus, InboxAssumption
<1>4. QED  BY <1>1, <1>2, <1>3 DEF InboxInv

(* A thread that has begun to decide. *)
LEMMA ThreadShape ==
  ASSUME InboxTypeOK, NEW a \in Actors, at[a].pc # "idle"
  PROVE  /\ at[a] \in RequestShape
         /\ at[a].did \in Dids /\ at[a].verb \in Verbs /\ at[a].allow \subseteq Commands
  BY DEF InboxTypeOK, RequestShape, Free

(* What the audits owe is a matter of the rows, the counts and the threads. *)
Owed(d, verb) == \E a \in Actors :
  /\ at[a].pc \in {"mark", "allow", "merge", "write", "audit"} /\ at[a].did = d /\ at[a].verb = verb

AuditsFollow(d) ==
  /\ ran[d] > 0 => audits[d]["approve"] > 0 \/ Owed(d, "approve")
  /\ HasStatus(d, "approved") => audits[d]["approve"] > 0 \/ Owed(d, "approve")
  /\ HasStatus(d, "denied") => audits[d]["deny"] > 0 \/ Owed(d, "deny")

LEMMA AuditsMeaning ==
  /\ ResolutionsAreAudited <=> \A d \in Dids \ lost : AuditsFollow(d)
  /\ ResolutionsAreAudited' <=> \A d \in Dids \ lost' : AuditsFollow(d)'
<1>1. \A d, v : Owed(d, v) <=> Owing(d, v) # {}
  BY DEF Owed, Owing
<1>2. \A d, v : Owed(d, v)' <=> Owing(d, v)' # {}
  BY DEF Owed, Owing
<1>3. QED  BY <1>1, <1>2 DEF ResolutionsAreAudited, AuditsFollow

(* What does not move a deciding thread leaves what it owes. *)
LEMMA InboxElsewhere ==
  ASSUME InboxInv, UNCHANGED <<at, ran, audits, lost>>, InboxTypeOK',
         \A d \in Dids, status \in {"approved", "denied"} :
           HasStatus(d, status)' => HasStatus(d, status)
  PROVE  InboxInv'
<1>1. ThreadsKnow'  BY DEF InboxInv, ThreadsKnow
<1>2. \A d \in Dids \ lost : AuditsFollow(d)  BY AuditsMeaning DEF InboxInv
<1>3. \A d \in Dids \ lost' : AuditsFollow(d)'
  BY <1>2 DEF AuditsFollow, Owed
<1>4. ResolutionsAreAudited'  BY <1>3, AuditsMeaning
<1>5. QED  BY <1>1, <1>4 DEF InboxInv

(* Rows, buttons and people. *)
LEMMA InboxPeople ==
  ASSUME InboxAssumption, InboxInv,
         \/ \E d \in Dids, j \in Jobs \cup {NoJob}, cmd \in Commands, k \in Tokens :
              Defers(d, j, cmd, k)
         \/ \E c \in Chats : \/ \E k \in Tokens : ListsApprovals(c, k)
                             \/ \E b \in tokens[c] : TokenExpires(c, b)
         \/ \E e \in Editors : \/ \E j \in Jobs : EditReads(e, j)
                               \/ \E change \in Changes : EditWrites(e, change)
         \/ \E j \in Jobs : Delete(j)
  PROVE  InboxInv'
<1> USE DEF InboxInv, InboxTypeOK
<1>1. ASSUME NEW d \in Dids, NEW j \in Jobs \cup {NoJob}, NEW cmd \in Commands, NEW k \in Tokens,
             Defers(d, j, cmd, k)
      PROVE InboxInv'
  <2> DEFINE row == [job |-> j, command |-> cmd, status |-> "pending"]
  <2>1. row \in Rows  BY DEF Rows, Statuses
  <2>2. rows' = [rows EXCEPT ![d] = row] /\ UNCHANGED <<jobs, at, edits, restarts, ran, audits, lost>>
    BY <1>1 DEF Defers
  <2>3. tokens' \in [Chats -> SUBSET [did : Dids, token : Tokens]]  BY <1>1 DEF Defers
  <2>4. row.status = "pending"  OBVIOUS
  <2> HIDE DEF row
  <2>5. InboxTypeOK'  BY <2>1, <2>2, <2>3
  <2>6. \A e \in Dids, status \in {"approved", "denied"} :
           HasStatus(e, status)' => HasStatus(e, status)
    BY <2>2, <2>4 DEF HasStatus
  <2>7. QED  BY <2>2, <2>5, <2>6, InboxElsewhere
<1>2. ASSUME NEW c \in Chats, NEW k \in Tokens, ListsApprovals(c, k) PROVE InboxInv'
  <2>1. InboxTypeOK' /\ UNCHANGED <<rows, at, ran, audits, lost>>  BY <1>2 DEF ListsApprovals
  <2>2. QED  BY <2>1, InboxElsewhere DEF HasStatus
<1>3. ASSUME NEW c \in Chats, NEW b \in tokens[c], TokenExpires(c, b) PROVE InboxInv'
  <2>1. InboxTypeOK' /\ UNCHANGED <<rows, at, ran, audits, lost>>  BY <1>3 DEF TokenExpires
  <2>2. QED  BY <2>1, InboxElsewhere DEF HasStatus
<1>4. ASSUME NEW e \in Editors, NEW j \in Jobs, EditReads(e, j) PROVE InboxInv'
  <2>1. jobs[j] \in JobRows  BY <1>4 DEF EditReads, JobExists
  <2>2. InboxTypeOK' /\ UNCHANGED <<rows, at, ran, audits, lost>>  BY <1>4, <2>1 DEF EditReads
  <2>3. QED  BY <2>2, InboxElsewhere DEF HasStatus
<1>5. ASSUME NEW e \in Editors, NEW change \in Changes, EditWrites(e, change)
      PROVE InboxInv'
  <2>1. edits[e] \in [job : Jobs, row : JobRows]  BY <1>5 DEF EditWrites
  <2> DEFINE row == [f \in {"ceiling", "allow"} |->
                       IF f \in DOMAIN change THEN change[f] ELSE edits[e].row[f]]
  <2>2. [ceiling |-> row["ceiling"], allow |-> row["allow"]] \in JobRows
    BY <2>1 DEF JobRows, Changes
  <2>3. /\ Stored(edits[e].job, [ceiling |-> row["ceiling"], allow |-> row["allow"]])
        /\ edits' = [edits EXCEPT ![e] = NoEdit]
        /\ UNCHANGED <<rows, tokens, at, restarts, ran, audits, lost>>
    BY <1>5 DEF EditWrites
  <2> HIDE DEF row
  <2>4. jobs' \in [Jobs -> JobRows \cup {Gone}]  BY <2>2, <2>3 DEF Stored
  <2>5. InboxTypeOK'  BY <2>3, <2>4
  <2>6. QED  BY <2>3, <2>5, InboxElsewhere DEF HasStatus
<1>6. ASSUME NEW j \in Jobs, Delete(j) PROVE InboxInv'
  <2>1. InboxTypeOK' /\ UNCHANGED <<at, ran, audits, lost>>  BY <1>6 DEF Delete
  <2>2. \A d \in Dids : rows'[d] \in {Gone, rows[d]}  BY <1>6 DEF Delete
  <2>3. \A d \in Dids, status \in {"approved", "denied"} :
           HasStatus(d, status)' => HasStatus(d, status)
    BY <2>2 DEF HasStatus, InboxAssumption
  <2>4. QED  BY <2>1, <2>3, InboxElsewhere
<1>7. QED  BY <1>1, <1>2, <1>3, <1>4, <1>5, <1>6

(* A decision begins, from the page or a button. *)
LEMMA InboxRequests ==
  ASSUME InboxAssumption, InboxInv, NEW a \in Actors,
         \/ \E d \in Dids, v \in Verbs, add \in BOOLEAN : WebDecides(a, d, v, add)
         \/ \E c \in Chats, v \in Verbs : \E b \in tokens[c] : Press(a, c, b, v)
  PROVE  InboxInv'
<1> USE DEF InboxInv, InboxTypeOK
<1>1. PICK r \in RequestShape :
        /\ r.pc \in {"look", "token"} /\ at[a].pc = "idle" /\ at' = [at EXCEPT ![a] = r]
        /\ UNCHANGED <<jobs, rows, tokens, edits, restarts, ran, audits, lost>>
  <2>1. ASSUME NEW d \in Dids, NEW v \in Verbs, NEW add \in BOOLEAN, NEW c \in Chats \cup {NoChat},
               NEW k \in Tokens \cup {NoToken}
        PROVE  /\ Request(d, v, add, c, k) \in RequestShape
               /\ Request(d, v, add, c, k).pc \in {"look", "token"}
    BY DEF Request, RequestShape, Pcs
  <2>2. ASSUME NEW d \in Dids, NEW v \in Verbs, NEW add \in BOOLEAN, WebDecides(a, d, v, add)
        PROVE  /\ at[a].pc = "idle" /\ at' = [at EXCEPT ![a] = Request(d, v, add, NoChat, NoToken)]
               /\ UNCHANGED <<jobs, rows, tokens, edits, restarts, ran, audits, lost>>
    BY <2>2 DEF WebDecides
  <2>3. ASSUME NEW c \in Chats, NEW v \in Verbs, NEW b \in tokens[c], Press(a, c, b, v)
        PROVE  /\ at[a].pc = "idle" /\ at' = [at EXCEPT ![a] = Request(b.did, v, FALSE, c, b.token)]
               /\ UNCHANGED <<jobs, rows, tokens, edits, restarts, ran, audits, lost>>
               /\ b.did \in Dids /\ b.token \in Tokens
    BY <2>3 DEF Press
  <2> DEFINE Shown(r) == /\ r.pc \in {"look", "token"} /\ at[a].pc = "idle" /\ at' = [at EXCEPT ![a] = r]
                         /\ UNCHANGED <<jobs, rows, tokens, edits, restarts, ran, audits, lost>>
  <2>4. ASSUME NEW d \in Dids, NEW v \in Verbs, NEW add \in BOOLEAN, WebDecides(a, d, v, add)
        PROVE  \E r \in RequestShape : Shown(r)
    <3>1. Shown(Request(d, v, add, NoChat, NoToken))  BY <2>1, <2>2, <2>4
    <3> HIDE DEF Shown
    <3>2. QED  BY <2>1, <3>1
  <2>5. ASSUME NEW c \in Chats, NEW v \in Verbs, NEW b \in tokens[c], Press(a, c, b, v)
        PROVE  \E r \in RequestShape : Shown(r)
    <3>1. b.did \in Dids /\ b.token \in Tokens  BY <2>3, <2>5
    <3>2. Shown(Request(b.did, v, FALSE, c, b.token))  BY <2>1, <2>3, <2>5, <3>1
    <3> HIDE DEF Shown
    <3>3. QED  BY <2>1, <3>1, <3>2
  <2>6. QED  BY <2>4, <2>5
<1>2. InboxTypeOK'  BY <1>1
<1>3. ThreadsKnow'  BY <1>1 DEF ThreadsKnow
<1>4. \A d \in Dids \ lost : AuditsFollow(d)'
  <2>1. \A d, v : Owed(d, v) => Owed(d, v)'
    BY <1>1 DEF Owed
  <2>2. \A d \in Dids \ lost : AuditsFollow(d)  BY AuditsMeaning
  <2>3. QED  BY <1>1, <2>1, <2>2 DEF AuditsFollow, HasStatus, Verbs
<1>5. QED  BY <1>1, <1>2, <1>3, <1>4, AuditsMeaning

(* An UPDATE of a row's status. *)
LEMMA StatusSet ==
  ASSUME InboxTypeOK, InboxAssumption, NEW d \in Dids, NEW status \in Statuses,
         SetStatus(d, status)
  PROVE  /\ rows' \in [Dids -> Rows \cup {Unused, Gone}]
         /\ \A e \in Dids : e # d => rows'[e] = rows[e]
         /\ rows'[d] \in Rows => rows'[d].status = status
<1> DEFINE new == [rows[d] EXCEPT !.status = status]
<1>1. rows[d] \in Rows => new \in Rows /\ new.status = status
  BY DEF Rows
<1>2. /\ rows \in [Dids -> Rows \cup {Unused, Gone}]
      /\ rows' = [rows EXCEPT ![d] = IF rows[d] \in Rows THEN new ELSE rows[d]]
  BY DEF InboxTypeOK, SetStatus
<1> HIDE DEF new
<1>3. QED  BY <1>1, <1>2

(* A decision goes on. *)
LEMMA InboxDecides ==
  ASSUME InboxAssumption, InboxInv, NEW a \in Actors, Decide(a)
  PROVE  InboxInv'
<1> USE DEF InboxInv, InboxTypeOK
<1> DEFINE Late == {"mark", "allow", "merge", "write", "audit"}
<1>1. /\ at[a].pc # "idle" /\ at[a] \in RequestShape
      /\ at[a].did \in Dids /\ at[a].verb \in Verbs /\ at[a].allow \subseteq Commands
  <2>1. at[a].pc # "idle"
    BY DEF Decide, PopsToken, Looks, RunsTool, Marks, Denies,
           ReadsAllow, ReadsJob, WritesJob, Audits
  <2>2. QED  BY <2>1, ThreadShape
<1>2. PICK did \in Dids : did = at[a].did  BY <1>1
<1>3. \A d \in Dids \ lost : AuditsFollow(d)  BY AuditsMeaning
(* A step that keeps the thread on its way keeps what it owes. *)
<1>4. ASSUME NEW r \in RequestShape, at' = [at EXCEPT ![a] = r],
             r.did = at[a].did, r.verb = at[a].verb, at[a].pc \in Late => r.pc \in Late
      PROVE  \A d, v : Owed(d, v) => Owed(d, v)'
  BY <1>4 DEF Owed
<1>5. ASSUME NEW r \in RequestShape, at' = [at EXCEPT ![a] = r],
             r.did = at[a].did, r.verb = at[a].verb, r.pc \in Late
      PROVE  /\ at[a].verb = "approve" => Owed(did, "approve")'
             /\ at[a].verb = "deny" => Owed(did, "deny")'
  BY <1>2, <1>5 DEF Owed
<1>6. \A pc \in Pcs : /\ [at[a] EXCEPT !.pc = pc] \in RequestShape
                            /\ [at[a] EXCEPT !.pc = pc].did = at[a].did
                            /\ [at[a] EXCEPT !.pc = pc].verb = at[a].verb
                            /\ [at[a] EXCEPT !.pc = pc].pc = pc
  BY <1>1 DEF RequestShape
<1> DEFINE Knows(r) == /\ r.pc \in {"run", "mark", "allow", "merge", "write"} =>
                            r.row \in Rows /\ r.verb = "approve"
                       /\ r.pc = "deny" => r.verb = "deny"
                       /\ r.pc = "write" => r.job \in JobRows
<1>7. Knows(at[a])  BY DEF ThreadsKnow
(* A step of the thread alone. *)
<1>8. ASSUME NEW r \in RequestShape, at' = [at EXCEPT ![a] = r], Knows(r),
             r.did = at[a].did, r.verb = at[a].verb, at[a].pc \in Late => r.pc \in Late,
             UNCHANGED <<rows, edits, restarts, ran, audits, lost>>,
             jobs' \in [Jobs -> JobRows \cup {Gone}],
             tokens' \in [Chats -> SUBSET [did : Dids, token : Tokens]]
      PROVE  InboxInv'
  <2>1. InboxTypeOK'  BY <1>8
  <2>2. ThreadsKnow'  BY <1>8 DEF ThreadsKnow
  <2>3. \A d, v : Owed(d, v) => Owed(d, v)'  BY <1>4, <1>8
  <2>4. \A d \in Dids \ lost : AuditsFollow(d)'
    BY <1>3, <1>8, <2>3 DEF AuditsFollow, HasStatus
  <2>5. QED  BY <1>8, <2>1, <2>2, <2>4, AuditsMeaning
<1> HIDE DEF Late
<1>9. CASE PopsToken(a)
  <2> DEFINE r == [at[a] EXCEPT !.pc = "look"]
  <2>1. r \in RequestShape /\ r.did = at[a].did /\ r.verb = at[a].verb /\ r.pc = "look"
    BY <1>6 DEF Pcs
  <2>2. /\ at[a].pc = "token" /\ at' = [at EXCEPT ![a] = r]
        /\ UNCHANGED <<jobs, rows, edits, restarts, ran, audits, lost>>
        /\ tokens' \in [Chats -> SUBSET [did : Dids, token : Tokens]]
    BY <1>9 DEF PopsToken, Goto
  <2> HIDE DEF r
  <2>3. QED  BY <1>8, <2>1, <2>2 DEF Late
<1>10. CASE Looks(a)
  <2> DEFINE row == rows[at[a].did]
             then == IF at[a].verb = "deny" THEN "deny" ELSE "run"
             r == [at[a] EXCEPT !.row = row, !.pc = then]
  <2>1. at[a].pc = "look" /\ UNCHANGED <<jobs, rows, tokens, edits, restarts, ran, audits, lost>>
    BY <1>10 DEF Looks
  <2>2. CASE row \in Rows /\ at' = [at EXCEPT ![a] = r]
    <3>1. /\ r \in RequestShape /\ r.did = at[a].did /\ r.verb = at[a].verb
          /\ r.pc = then /\ r.row = row
      BY <1>1, <2>2 DEF RequestShape, Pcs
    <3> HIDE DEF r, row
    <3>2. Knows(r)  BY <1>1, <2>2, <3>1 DEF Verbs
    <3>3. QED  BY <1>8, <2>1, <2>2, <3>1, <3>2 DEF Late
  <2>3. CASE at' = [at EXCEPT ![a] = Free]
    <3>1. InboxTypeOK'  BY <2>1, <2>3
    <3>2. ThreadsKnow'  BY <2>3 DEF ThreadsKnow, Free
    <3>3. \A d, v : Owed(d, v) => Owed(d, v)'  BY <2>1, <2>3 DEF Owed
    <3>4. \A d \in Dids \ lost : AuditsFollow(d)'
      BY <1>3, <2>1, <3>3 DEF AuditsFollow, HasStatus
    <3>5. QED  BY <2>1, <3>1, <3>2, <3>4, AuditsMeaning
  <2>4. QED  BY <1>10, <2>2, <2>3 DEF Looks
<1>11. CASE RunsTool(a)
  <2> DEFINE r == [at[a] EXCEPT !.pc = "mark"]
  <2>1. /\ r \in RequestShape /\ r.did = at[a].did /\ r.verb = at[a].verb
        /\ r.pc = "mark" /\ r.row = at[a].row
    BY <1>1, <1>6 DEF Pcs
  <2>2. /\ at[a].pc = "run" /\ at' = [at EXCEPT ![a] = r]
        /\ UNCHANGED <<jobs, rows, tokens, edits, restarts, audits, lost>>
        /\ ran' \in {ran, [ran EXCEPT ![at[a].did] = @ + 1]}
    BY <1>11 DEF RunsTool, Goto
  <2> HIDE DEF r
  <2>3. at[a].verb = "approve" /\ at[a].row \in Rows  BY <1>7, <2>2
  <2>4. InboxTypeOK'  BY <1>1, <2>1, <2>2
  <2>5. ThreadsKnow'  BY <2>1, <2>2, <2>3 DEF ThreadsKnow
  <2>6. Owed(did, "approve")'  BY <1>5, <2>1, <2>2, <2>3 DEF Late
  <2>7. \A d, v : Owed(d, v) => Owed(d, v)'
    BY <1>4, <2>1, <2>2 DEF Late
  <2>8. \A d \in Dids : d # did => ran'[d] = ran[d]  BY <1>2, <2>2
  <2>9. ASSUME NEW d \in Dids \ lost PROVE AuditsFollow(d)'
    <3>1. AuditsFollow(d) /\ \A v : Owed(d, v) => Owed(d, v)'  BY <1>3, <2>7
    <3>2. CASE d = did
      BY <2>2, <2>6, <3>1, <3>2 DEF AuditsFollow, HasStatus
    <3>3. CASE d # did
      BY <2>2, <2>8, <3>1, <3>3 DEF AuditsFollow, HasStatus
    <3>4. QED  BY <3>2, <3>3
  <2>10. QED  BY <2>2, <2>4, <2>5, <2>9, AuditsMeaning
<1>12. CASE Marks(a)
  <2> DEFINE pc == IF at[a].add /\ at[a].row.job # NoJob THEN "allow" ELSE "audit"
             r == [at[a] EXCEPT !.pc = pc]
  <2>1. r \in RequestShape /\ r.did = at[a].did /\ r.verb = at[a].verb /\ r.pc = pc /\ r.row = at[a].row
    <3>1. pc \in Pcs  BY DEF Pcs
    <3>2. r.row = at[a].row  BY <1>1 DEF RequestShape
    <3> HIDE DEF pc
    <3>3. QED  BY <1>6, <3>1, <3>2
  <2>2. /\ at[a].pc = "mark" /\ at' = [at EXCEPT ![a] = r] /\ SetStatus(at[a].did, "approved")
        /\ UNCHANGED <<jobs, tokens, edits, restarts, ran, audits, lost>>
    BY <1>12 DEF Marks, Goto, Row
  <2> HIDE DEF r
  <2>3. at[a].verb = "approve" /\ at[a].row \in Rows /\ pc \in {"allow", "audit"}  BY <1>7, <2>2
  <2> HIDE DEF pc
  <2>4. /\ rows' \in [Dids -> Rows \cup {Unused, Gone}]
        /\ \A d \in Dids : d # did => rows'[d] = rows[d]
        /\ ~HasStatus(did, "denied")'
    <3>1. "approved" \in Statuses  BY DEF Statuses
    <3>2. QED  BY <1>2, <2>2, <3>1, StatusSet DEF HasStatus
  <2>5. InboxTypeOK'  BY <1>1, <2>1, <2>2, <2>4
  <2>6. ThreadsKnow'  BY <2>1, <2>2, <2>3 DEF ThreadsKnow
  <2>7. Owed(did, "approve")'  BY <1>5, <2>1, <2>2, <2>3 DEF Late
  <2>8. \A d, v : Owed(d, v) => Owed(d, v)'
    BY <1>4, <2>1, <2>2, <2>3 DEF Late
  <2>9. ASSUME NEW d \in Dids \ lost PROVE AuditsFollow(d)'
    <3>1. AuditsFollow(d) /\ \A v : Owed(d, v) => Owed(d, v)'  BY <1>3, <2>8
    <3>2. CASE d = did
      BY <2>2, <2>4, <2>7, <3>1, <3>2 DEF AuditsFollow
    <3>3. CASE d # did
      BY <2>2, <2>4, <3>1, <3>3 DEF AuditsFollow, HasStatus
    <3>4. QED  BY <3>2, <3>3
  <2>10. QED  BY <2>2, <2>5, <2>6, <2>9, AuditsMeaning
<1>13. CASE Denies(a)
  <2> DEFINE r == [at[a] EXCEPT !.pc = "audit"]
  <2>1. r \in RequestShape /\ r.did = at[a].did /\ r.verb = at[a].verb /\ r.pc = "audit"
    BY <1>1, <1>6 DEF Pcs
  <2>2. /\ at[a].pc = "deny" /\ at' = [at EXCEPT ![a] = r]
        /\ UNCHANGED <<jobs, tokens, edits, restarts, ran, audits, lost>>
        /\ UNCHANGED rows \/ SetStatus(at[a].did, "denied")
    BY <1>13 DEF Denies, Goto
  <2> HIDE DEF r
  <2>3. at[a].verb = "deny"  BY <1>7, <2>2
  <2>4. /\ rows' \in [Dids -> Rows \cup {Unused, Gone}]
        /\ \A d \in Dids : d # did => rows'[d] = rows[d]
        /\ HasStatus(did, "approved")' => HasStatus(did, "approved")
    <3>1. "denied" \in Statuses  BY DEF Statuses
    <3>2. CASE SetStatus(at[a].did, "denied")  BY <1>2, <3>1, <3>2, StatusSet DEF HasStatus
    <3>3. CASE UNCHANGED rows  BY <3>3 DEF HasStatus
    <3>4. QED  BY <2>2, <3>2, <3>3
  <2>5. InboxTypeOK'  BY <1>1, <2>1, <2>2, <2>4
  <2>6. ThreadsKnow'  BY <2>1, <2>2 DEF ThreadsKnow
  <2>7. Owed(did, "deny")'  BY <1>5, <2>1, <2>2, <2>3 DEF Late
  <2>8. \A d, v : Owed(d, v) => Owed(d, v)'
    BY <1>4, <2>1, <2>2 DEF Late
  <2>9. ASSUME NEW d \in Dids \ lost PROVE AuditsFollow(d)'
    <3>1. AuditsFollow(d) /\ \A v : Owed(d, v) => Owed(d, v)'  BY <1>3, <2>8
    <3>2. CASE d = did
      BY <2>2, <2>4, <2>7, <3>1, <3>2 DEF AuditsFollow
    <3>3. CASE d # did
      BY <2>2, <2>4, <3>1, <3>3 DEF AuditsFollow, HasStatus
    <3>4. QED  BY <3>2, <3>3
  <2>10. QED  BY <2>2, <2>5, <2>6, <2>9, AuditsMeaning
<1>14. CASE ReadsAllow(a) \/ ReadsJob(a)
  <2>1. /\ at[a].pc \in {"allow", "merge"}
        /\ UNCHANGED <<jobs, rows, tokens, edits, restarts, ran, audits, lost>>
    BY <1>14 DEF ReadsAllow, ReadsJob
  <2>2. at[a].row \in Rows /\ at[a].row.command \in Commands /\ at[a].verb = "approve"
    BY <1>7, <2>1 DEF Rows
  <2>3. PICK r \in RequestShape :
          /\ at' = [at EXCEPT ![a] = r] /\ r.did = at[a].did /\ r.verb = at[a].verb /\ r.row = at[a].row
          /\ r.pc \in {"audit", "merge", "write"}
          /\ r.pc = "write" => r.job \in JobRows
    <3> DEFINE j == at[a].row.job
               ends == [at[a] EXCEPT !.pc = "audit"]
               joins == [at[a] EXCEPT !.pc = "merge", !.allow = jobs[j].allow \cup {at[a].row.command}]
               reads == [at[a] EXCEPT !.pc = "write", !.job = jobs[j]]
    <3>1. at' \in {[at EXCEPT ![a] = ends], [at EXCEPT ![a] = joins], [at EXCEPT ![a] = reads]}
      BY <1>14 DEF ReadsAllow, ReadsJob, Row
    <3>2. ends \in RequestShape /\ ends.did = at[a].did /\ ends.verb = at[a].verb
          /\ ends.row = at[a].row /\ ends.pc = "audit"
      BY <1>1 DEF RequestShape, Pcs
    <3>3. CASE JobExists(j)
      <4>1. jobs[j] \in JobRows /\ jobs[j].allow \subseteq Commands
        BY <3>3 DEF JobExists, JobRows
      <4>2. joins \in RequestShape /\ joins.did = at[a].did /\ joins.verb = at[a].verb
            /\ joins.row = at[a].row /\ joins.pc = "merge"
        BY <1>1, <2>2, <4>1 DEF RequestShape, Pcs
      <4>3. reads \in RequestShape /\ reads.did = at[a].did /\ reads.verb = at[a].verb
            /\ reads.row = at[a].row /\ reads.pc = "write" /\ reads.job \in JobRows
        BY <1>1, <4>1 DEF RequestShape, Pcs
      <4> HIDE DEF ends, joins, reads
      <4>4. QED  BY <3>1, <3>2, <4>2, <4>3
    <3>4. CASE ~JobExists(j)
      <4>1. at' = [at EXCEPT ![a] = ends]
        BY <1>14, <3>4 DEF ReadsAllow, ReadsJob, Row
      <4> HIDE DEF ends
      <4>2. QED  BY <3>2, <4>1
    <3>5. QED  BY <3>3, <3>4
  <2>4. Knows(r)  BY <2>2, <2>3
  <2>5. QED  BY <1>8, <2>1, <2>3, <2>4 DEF Late
<1>15. CASE WritesJob(a)
  <2> DEFINE r == [at[a] EXCEPT !.pc = "audit"]
  <2>1. r \in RequestShape /\ r.did = at[a].did /\ r.verb = at[a].verb /\ r.pc = "audit"
    BY <1>1, <1>6 DEF Pcs
  <2>2. /\ at[a].pc = "write" /\ at' = [at EXCEPT ![a] = r]
        /\ UNCHANGED <<rows, tokens, edits, restarts, ran, audits, lost>>
        /\ Stored(at[a].row.job, [at[a].job EXCEPT !.allow = at[a].allow])
    BY <1>15 DEF WritesJob, Goto, Row
  <2> HIDE DEF r
  <2>3. [at[a].job EXCEPT !.allow = at[a].allow] \in JobRows
    BY <1>1, <1>7, <2>2 DEF JobRows
  <2>4. jobs' \in [Jobs -> JobRows \cup {Gone}]
    BY <2>2, <2>3 DEF Stored
  <2>5. QED  BY <1>8, <2>1, <2>2, <2>4 DEF Late
<1>16. CASE Audits(a)
  <2>1. /\ at[a].pc = "audit" /\ at' = [at EXCEPT ![a] = Free]
        /\ audits' = [audits EXCEPT ![at[a].did][at[a].verb] = @ + 1]
        /\ UNCHANGED <<jobs, rows, tokens, edits, restarts, ran, lost>>
    BY <1>16 DEF Audits
  <2>2. /\ audits' \in [Dids -> [Verbs -> Nat]]
        /\ \A d \in Dids, v \in Verbs :
             (audits[d][v] > 0 \/ (d = did /\ v = at[a].verb)) => audits'[d][v] > 0
    BY <1>2, <1>1, <2>1
  <2>3. InboxTypeOK'  BY <2>1, <2>2
  <2>4. ThreadsKnow'  BY <2>1 DEF ThreadsKnow, Free
  <2>5. \A d, v : Owed(d, v) => Owed(d, v)' \/ (d = did /\ v = at[a].verb)
    BY <1>2, <2>1 DEF Owed
  <2>6. "approve" \in Verbs /\ "deny" \in Verbs  BY DEF Verbs
  <2>7. \A d \in Dids \ lost : AuditsFollow(d)'
    BY <1>3, <2>1, <2>2, <2>5, <2>6 DEF AuditsFollow, HasStatus
  <2>8. QED  BY <2>1, <2>3, <2>4, <2>7, AuditsMeaning
<1>17. QED
  BY <1>9, <1>10, <1>11, <1>12, <1>13, <1>14, <1>15, <1>16 DEF Decide

(* The service restarts: what was being decided is known to be lost. *)
LEMMA InboxRestarts ==
  ASSUME InboxAssumption, InboxInv, Restart
  PROVE  InboxInv'
<1> USE DEF InboxInv, InboxTypeOK
<1>1. /\ UNCHANGED <<jobs, rows, ran, audits>> /\ at' = [a \in Actors |-> Free]
      /\ edits' = [e \in Editors |-> NoEdit] /\ tokens' = [c \in Chats |-> {}]
      /\ restarts' = restarts + 1
      /\ lost' = lost \cup {at[a].did : a \in {b \in Actors : at[b].pc # "idle"}}
  BY DEF Restart
<1>2. lost' \subseteq Dids  BY <1>1, ThreadShape
<1>3. InboxTypeOK'  BY <1>1, <1>2
<1>4. ThreadsKnow'  BY <1>1 DEF ThreadsKnow, Free
<1>5. ASSUME NEW d \in Dids \ lost' PROVE AuditsFollow(d)'
  <2>1. ~Owed(d, "approve") /\ ~Owed(d, "deny")  BY <1>1 DEF Owed
  <2>2. AuditsFollow(d)  BY <1>1, AuditsMeaning
  <2>3. QED  BY <1>1, <2>1, <2>2 DEF AuditsFollow, HasStatus
<1>6. QED  BY <1>3, <1>4, <1>5, AuditsMeaning

LEMMA InboxStep == InboxAssumption /\ InboxInv /\ [InboxNext]_inboxVars => InboxInv'
<1> SUFFICES ASSUME InboxAssumption, InboxInv, [InboxNext]_inboxVars PROVE InboxInv'
  OBVIOUS
<1>1. CASE UNCHANGED inboxVars
  <2>1. InboxTypeOK'  BY <1>1 DEF inboxVars, InboxInv, InboxTypeOK
  <2>2. QED  BY <1>1, <2>1, InboxElsewhere DEF inboxVars, HasStatus
<1>2. CASE InboxNext
  BY <1>2, InboxPeople, InboxRequests, InboxDecides, InboxRestarts DEF InboxNext
<1>3. QED  BY <1>1, <1>2

(* Jobs, rows, buttons, deciders and edits keep their shapes (schedule.py, *)
(* telegrambot.py).                                                        *)
THEOREM InboxTyped == InboxSpec => []InboxTypeOK
<1>1. InboxInit => InboxInv  BY InboxAssumption, InboxBegins
<1>2. InboxInv /\ [InboxNext]_inboxVars => InboxInv'  BY InboxAssumption, InboxStep
<1>3. InboxInv => InboxTypeOK  BY DEF InboxInv
<1>4. QED  BY <1>1, <1>2, <1>3, PTL DEF InboxSpec

(* Whoever decides, from the web page or a chat, alone or against others:  *)
(* what was executed or resolved is audited, or a thread is about to, or a *)
(* restart is to blame (schedule._audit_deferred).                         *)
THEOREM EveryResolutionAudited == InboxSpec => []ResolutionsAreAudited
<1>1. InboxInit => InboxInv  BY InboxAssumption, InboxBegins
<1>2. InboxInv /\ [InboxNext]_inboxVars => InboxInv'  BY InboxAssumption, InboxStep
<1>3. InboxInv => ResolutionsAreAudited  BY DEF InboxInv
<1>4. QED  BY <1>1, <1>2, <1>3, PTL DEF InboxSpec

(* No step turns an approved action into anything but a deleted one. *)
LEMMA ApprovedStep ==
  ASSUME InboxAssumption, InboxInv, [InboxNext]_inboxVars,
         NEW d \in Dids, HasStatus(d, "approved")
  PROVE  rows'[d] = rows[d] \/ rows'[d] = Gone
<1> USE DEF InboxInv, InboxTypeOK
<1>1. rows[d] \in Rows /\ rows[d].status = "approved" /\ rows[d] # Unused
  BY DEF HasStatus, InboxAssumption
<1>2. CASE UNCHANGED rows  BY <1>2
<1>3. ASSUME NEW e \in Dids, NEW j \in Jobs \cup {NoJob}, NEW cmd \in Commands, NEW k \in Tokens,
             Defers(e, j, cmd, k)
      PROVE rows'[d] = rows[d]
  BY <1>1, <1>3 DEF Defers
<1>4. ASSUME NEW a \in Actors, Marks(a) PROVE rows'[d] = rows[d]
  <2>1. /\ at[a].did \in Dids /\ SetStatus(at[a].did, "approved") /\ "approved" \in Statuses
    BY <1>4, ThreadShape DEF Marks, Statuses
  <2>2. CASE d = at[a].did
    <3>1. rows'[d] = [rows[d] EXCEPT !.status = "approved"]
      BY <1>1, <2>1, <2>2 DEF SetStatus
    <3>2. QED  BY <1>1, <3>1 DEF Rows
  <2>3. CASE d # at[a].did  BY <2>1, <2>3, StatusSet
  <2>4. QED  BY <2>2, <2>3
<1>5. ASSUME NEW a \in Actors, Denies(a) PROVE rows'[d] = rows[d]
  BY <1>1, <1>5 DEF Denies, HasStatus, SetStatus
<1>6. ASSUME NEW j \in Jobs, Delete(j) PROVE rows'[d] = rows[d] \/ rows'[d] = Gone
  BY <1>6 DEF Delete
<1>7. QED
  BY <1>2, <1>3, <1>4, <1>5, <1>6
     DEF InboxNext, inboxVars, ListsApprovals, TokenExpires, WebDecides, Press,
         Decide, PopsToken, Looks, RunsTool, ReadsAllow, ReadsJob,
         WritesJob, Audits, EditReads, EditWrites, Restart

(* A denial that comes after an approval records nothing                   *)
(* (schedule.deny_deferred).                                               *)
THEOREM LateDenialsChangeNothing == InboxSpec => ApprovedStaysApproved
<1>1. InboxInit => InboxInv  BY InboxAssumption, InboxBegins
<1>2. InboxInv /\ [InboxNext]_inboxVars => InboxInv'  BY InboxAssumption, InboxStep
<1>3. InboxInv /\ [InboxNext]_inboxVars =>
        [\A d \in Dids : HasStatus(d, "approved") => rows'[d] = rows[d] \/ rows'[d] = Gone]_inboxVars
  BY InboxAssumption, ApprovedStep
<1>4. QED  BY <1>1, <1>2, <1>3, PTL DEF InboxSpec, ApprovedStaysApproved
=============================================================================
