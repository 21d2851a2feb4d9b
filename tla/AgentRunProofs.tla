--------------------------- MODULE AgentRunProofs ---------------------------
(***************************************************************************)
(* Proofs about one agent run: its types, and that no tool runs without    *)
(* authority.                                                              *)
(***************************************************************************)
EXTENDS AgentRun, TLAPS

USE DEF Safe, Caution, Risky, Critical, Levels

LEMMA StaticRiskType ==
  ASSUME NEW tool, NEW args \in ArgShape, NEW hint \in Levels
  PROVE  StaticRisk(tool, args, hint) \in Levels
<1>1. ClassifyCommand(args.command) \in Levels
  BY DEF ClassifyCommand
<1>2. ClassifyPath(args.path, TRUE) \in Levels /\ ClassifyPath(args.path, FALSE) \in Levels
  BY DEF ClassifyPath
<1>3. CASE tool = "ssh_exec"
  BY <1>1, <1>3 DEF StaticRisk
<1>4. CASE tool = "write_remote_file"
  BY <1>2, <1>4 DEF StaticRisk
<1>5. CASE tool = "read_remote_file"
  BY <1>2, <1>5 DEF StaticRisk
<1>6. CASE tool = "http_request"
  BY <1>6 DEF StaticRisk
<1>7. CASE tool \notin {"ssh_exec", "write_remote_file", "read_remote_file", "http_request"}
  BY <1>7 DEF StaticRisk
<1>8. QED
  BY <1>3, <1>4, <1>5, <1>6, <1>7

LEMMA ClassifyType ==
  ASSUME NEW tool, NEW args \in ArgShape, NEW intent \in Levels, NEW hint \in Levels
  PROVE  Classify(tool, args, intent, hint) \in Levels
BY StaticRiskType DEF Classify

LEMMA ClampType ==
  ASSUME NEW c \in Levels
  PROVE  ClampCeiling(c) \in Levels /\ ClampCeiling(c) <= Risky
BY DEF ClampCeiling, MaxEnvelopeCeiling

(* Constants that name no host, plan or row are values of their types. *)
LEMMA Blanks ==
  /\ NoCommand \in CommandShape /\ NoPrompt \in PromptShape
  /\ NoRow \in RowShape /\ NoCard \in CardShape
<1>1. NoCommand \in CommandShape
  BY TextsAssumption DEF NoCommand, CommandShape
<1>2. QED
  BY <1>1 DEF NoPrompt, PromptShape, NoRow, RowShape, NoCard, CardShape

LEMMA TypeInit == Init => TypeOK
<1> SUFFICES ASSUME Init PROVE TypeOK
  OBVIOUS
<1> USE DEF Init
<1>1. pc \in AgentPcs
  BY DEF AgentPcs
<1>2. iter \in Nat /\ left \in Nat 
      /\ deferred \in Nat /\ audited \in Nat /\ recorded \in Nat
      /\ brought \in Nat /\ settled \in Nat
  OBVIOUS
<1>3. CallOK
  BY DEF CallOK, Busy
<1>4. pending \in [CallIds -> PromptShape]
  BY Blanks
<1>5. unattended \in BOOLEAN /\ bridged \in BOOLEAN /\ stopFlag \in BOOLEAN /\ autoApprove \in BOOLEAN
  OBVIOUS
<1>6. stopping \subseteq Users /\ answered \subseteq CallIds
  OBVIOUS
<1>7. envelope = NoPlan \/ envelope \in EnvelopeShape
  OBVIOUS
<1>8. row \in RowShape /\ card \in CardShape
  BY Blanks
<1>9. sessionBy \in Users \cup {NoUser}
  OBVIOUS
<1>10. QED
  BY <1>1, <1>2, <1>3, <1>4, <1>5, <1>6, <1>7, <1>8, <1>9 DEF TypeOK

LEMMA TypeStep == TypeOK /\ [Next]_vars => TypeOK'
<1> SUFFICES ASSUME TypeOK, [Next]_vars PROVE TypeOK'
  OBVIOUS
<1> USE DEF TypeOK, AgentPcs, CallOK, Busy, tally
<1>1. CASE LoopTop
  BY <1>1, Blanks DEF LoopTop, RunOver, sharedVars, IsPlan
<1>2. CASE LlmReply
  BY <1>2, Blanks DEF LlmReply, RunOver, sharedVars, IsPlan
<1>3. CASE ReplyDone
  BY <1>3 DEF ReplyDone, sharedVars, IsPlan
<1>4. ASSUME NEW r \in Requests, TakeCall(r) PROVE TypeOK'
  <2>1. CASE ~r.known \/ TargetFails(r)
    BY <1>4, <2>1, Blanks DEF TakeCall, CallOver, sharedVars, IsPlan
  <2>2. CASE ~(~r.known \/ TargetFails(r))
    <3>1. r \in RequestShape /\ (r.tool = "propose_plan" => r.plan \in PlanShape)
      BY RequestsAssumption
    <3>2. Classify(r.tool, r.args, r.intent, r.hint) \in Levels
      BY <3>1, ClassifyType DEF RequestShape
    <3>3. TargetOf(r) \in Hosts \cup {NoHost}
      BY <3>1, HostsAssumption DEF TargetOf, RequestShape
    <3>4. call' \in CallShape /\ (IsPlan' => (call.plan \in PlanShape)')
      BY <1>4, <2>2, <3>1, <3>2, <3>3 DEF TakeCall, CallShape, RequestShape, IsPlan
    <3>5. QED
      BY <1>4, <2>2, <3>4 DEF TakeCall, sharedVars
  <2>3. QED
    BY <2>1, <2>2
<1>5. CASE UnattendedGate
  <2>0. /\ deferred' \in Nat /\ audited' \in Nat /\ recorded' \in Nat
        /\ settled' \in Nat /\ brought' \in Nat
    <3>1. /\ deferred' \in {deferred, deferred + 1} /\ audited' \in {audited, audited + 1}
          /\ recorded' \in {recorded, recorded + 1} /\ settled' \in {settled, settled + 1}
          /\ brought' = brought
      <4> HIDE DEF TypeOK, CallOK, Busy, AgentPcs
      <4>1. QED
        BY <1>5 DEF UnattendedGate
    <3>2. QED
      BY <3>1
  <2>1. CASE CallOver
    <3>2. UNCHANGED <<iter, left, envelope, sharedVars>>
      BY <1>5 DEF UnattendedGate
    <3>3. CallOK'
      BY <2>1 DEF CallOver
    <3>4. QED
      BY <2>0, <2>1, <3>2, <3>3, Blanks DEF CallOver, sharedVars
  <2>2. CASE StartTool("auto", NoUser, FALSE) /\ UNCHANGED <<call, card>>
    <3>1. row' \in RowShape
      BY <2>2 DEF StartTool, RowShape
    <3>3. UNCHANGED <<iter, left, envelope, sharedVars>>
      BY <1>5 DEF UnattendedGate
    <3>4. QED
      BY <1>5, <2>0, <2>2, <3>1, <3>3 DEF UnattendedGate, StartTool, sharedVars, IsPlan
  <2>3. QED
    BY <1>5, <2>1, <2>2 DEF UnattendedGate
<1>6. CASE GatePasses
  <2>1. pc' = "running" /\ row' \in RowShape
    <3>1. CASE Gated(call.risk, call.host)
      <4>1. envelope \in EnvelopeShape
        BY <1>6, <3>1 DEF GatePasses, Covered
      <4>2. envelope.by \in Users \cup {NoUser}
        BY <4>1 DEF EnvelopeShape
      <4>3. pc' = "running" /\ row' = [decision |-> "envelope", by |-> envelope.by, stale |-> FALSE]
        BY <1>6, <3>1 DEF GatePasses, StartTool
      <4>4. QED
        BY <4>2, <4>3 DEF RowShape
    <3>2. CASE ~Gated(call.risk, call.host)
      <4>1. pc' = "running" /\ row' = [decision |-> "auto", by |-> NoUser, stale |-> FALSE]
        BY <1>6, <3>2 DEF GatePasses, StartTool
      <4>2. QED
        BY <4>1 DEF RowShape
    <3>3. QED
      BY <3>1, <3>2
  <2>2. CallOK'
    BY <1>6, <2>1 DEF GatePasses, IsPlan
  <2>3. QED
    BY <1>6, <2>1, <2>2 DEF GatePasses, sharedVars
<1>7. CASE GateAsks
  <2>1. call' \in CallShape /\ (IsPlan' => (call.plan \in PlanShape)')
    BY <1>7 DEF GateAsks, CallShape, IsPlan
  <2>2. card' \in CardShape
    BY <1>7 DEF GateAsks, CallShape, CardShape
  <2>3. call.id \in CallIds /\ call.args.command \in CommandShape
    BY <1>7 DEF GateAsks, CallShape, ArgShape
  <2>4. pending' \in [CallIds -> PromptShape]
    BY <1>7, <2>3, Blanks DEF GateAsks, PromptShape, NoPrompt
  <2>5. QED
    BY <1>7, <2>1, <2>2, <2>4 DEF GateAsks
<1>8. CASE Wake \/ Timeout
  BY <1>8 DEF Wake, Timeout, agentVars, sharedVars, IsPlan
<1>9. CASE TakeAnswer
  <2>1. PopPrompt
    BY <1>9 DEF TakeAnswer, TakeRefusal, TakePlanApproval, TakeApproval, TakeRiskierEdit
  <2>2. call \in CallShape /\ call.id \in CallIds /\ Answer \in PromptShape
    BY <2>1 DEF PopPrompt, CallShape, Answer
  <2>3. pending' \in [CallIds -> PromptShape] /\ answered' \subseteq CallIds
    BY <2>1, <2>2, Blanks DEF PopPrompt
  <2>4. EditedArgs \in ArgShape /\ EditedRisk \in Levels
    <3>1. EditedArgs \in ArgShape
      BY <2>2 DEF EditedArgs, ArgShape, PromptShape, CallShape
    <3>2. QED
      BY <2>2, <3>1, ClassifyType DEF EditedRisk, CallShape
  <2>5. CASE CallOver /\ UNCHANGED envelope
    BY <2>1, <2>3, <2>5, Blanks DEF CallOver, PopPrompt
  <2>6. CASE TakePlanApproval
    <3>1. call.plan \in PlanShape /\ call.plan.ceiling \in Levels
      BY <2>1, <2>6 DEF PopPrompt, TakePlanApproval, PlanShape
    <3>2. ClampCeiling(call.plan.ceiling) \in Levels
      BY <3>1, ClampType
    <3>3. envelope' \in EnvelopeShape
      BY <2>2, <2>6, <3>1, <3>2 DEF TakePlanApproval, EnvelopeShape, PlanShape, PromptShape
    <3>4. QED
      BY <2>1, <2>3, <2>6, <3>3, Blanks DEF TakePlanApproval, CallOver, PopPrompt
  <2>7. CASE call' = [call EXCEPT !.args = EditedArgs, !.risk = EditedRisk] /\ UNCHANGED <<envelope, card>>
             /\ ~IsPlan /\ pc' \in {"gate", "running"} /\ row' \in RowShape
    <3>1. call' \in CallShape /\ ~IsPlan'
      BY <2>2, <2>4, <2>7 DEF CallShape, IsPlan
    <3>2. QED
      BY <2>1, <2>3, <2>7, <3>1 DEF PopPrompt
  <2>8. CASE TakeApproval
    <3>1. row' \in RowShape
      BY <2>2, <2>8 DEF TakeApproval, StartTool, RowShape, PromptShape
    <3>2. QED
      BY <2>7, <2>8, <3>1 DEF TakeApproval, StartTool
  <2>9. QED
    BY <1>9, <2>5, <2>6, <2>7, <2>8 DEF TakeAnswer, TakeRefusal, TakeRiskierEdit
<1>10. CASE ToolReturns
  BY <1>10, Blanks DEF ToolReturns, CallOver, sharedVars, IsPlan
<1>11. CASE AgentFails
  <2>1. pending' \in [CallIds -> PromptShape]
    BY <1>11, Blanks DEF AgentFails
  <2>2. deferred' \in Nat
    BY <1>11 DEF AgentFails
  <2>3. CallOK'
    BY <1>11 DEF AgentFails, RunOver
  <2>4. QED
    BY <1>11, <2>1, <2>2, <2>3, Blanks DEF AgentFails, RunOver
<1>12. ASSUME NEW u \in Users \cup {NoUser}, NEW i \in CallIds, NEW d \in Decisions,
              NEW c \in Edits \cup {NoEdit}, NEW st \in BOOLEAN, Confirm(u, i, d, c, st)
       PROVE  TypeOK'
  <2>1. pending[i] \in PromptShape
    OBVIOUS
  <2>2. pending' \in [CallIds -> PromptShape]
    BY <1>12, <2>1, RequestsAssumption DEF Confirm, PromptShape
  <2>3. autoApprove' \in BOOLEAN /\ sessionBy' \in Users \cup {NoUser}
    BY <1>12 DEF Confirm
  <2>4. QED
    BY <1>12, <2>2, <2>3 DEF Confirm, agentVars, IsPlan
<1>13. ASSUME NEW u \in Users, StopSetsFlag(u) PROVE TypeOK'
  BY <1>13 DEF StopSetsFlag, agentVars, IsPlan
<1>14. ASSUME NEW u \in Users, StopWakes(u) PROVE TypeOK'
  <2>1. pending' \in [CallIds -> PromptShape]
    BY <1>14 DEF StopWakes, PromptShape
  <2>2. QED
    BY <1>14, <2>1 DEF StopWakes, agentVars, IsPlan
<1>15. CASE UNCHANGED vars
  BY <1>15 DEF vars, agentVars, sharedVars, IsPlan
<1> HIDE DEF TypeOK
<1>16. CASE Thread
  BY <1>1, <1>2, <1>3, <1>4, <1>5, <1>6, <1>7, <1>8, <1>9, <1>10, <1>16 DEF Thread
<1>17. CASE People
  BY <1>12, <1>13, <1>14, <1>17, Zenon DEF People
<1>18. QED
  BY <1>11, <1>15, <1>16, <1>17 DEF Next, Finished

(* Type correctness: whatever the model asks for and whoever answers, the  *)
(* run's state stays well formed.                                          *)
THEOREM TypeCorrect == Spec => []TypeOK
BY TypeInit, TypeStep, PTL DEF Spec
-----------------------------------------------------------------------------
(***************************************************************************)
(* The inductive invariant.  That a running tool has authority depends on  *)
(* how it got there: the risk at the gate is that of the arguments in      *)
(* hand, the card on show is the one for that risk, only people who may    *)
(* control the run have left an answer, and no prompt is open while a tool *)
(* runs, so nobody can change what it ran on.                              *)
(***************************************************************************)
RiskIsCurrent == Busy => call.risk = Classify(call.tool, call.args, call.intent, call.hint)

AnswersAreControlled ==
  /\ \A i \in CallIds : pending[i].decision # "none" => MayAnswer(pending[i].by)
  /\ autoApprove => MayAnswer(sessionBy)
  /\ envelope # NoPlan => MayAnswer(envelope.by)

CardIsCurrent ==
  Waiting /\ ~IsPlan => card = [risk |-> call.risk, host |-> call.host, open |-> TRUE]

GateInv ==
  /\ RiskIsCurrent /\ AnswersAreControlled /\ CardIsCurrent
  /\ OnlyTheAwaitedPrompt
  /\ unattended => ~Waiting
  /\ RunsOnlyWithAuthority
  /\ ApprovedAtItsOwnRisk

LEMMA GateInit == Init => GateInv
BY DEF Init, GateInv, RiskIsCurrent, AnswersAreControlled, CardIsCurrent, OnlyTheAwaitedPrompt,
       RunsOnlyWithAuthority, ApprovedAtItsOwnRisk, Busy, Waiting, Runs, NoPrompt

(* The steps of the thread that neither ask, answer nor start a tool, and  *)
(* leave no call in hand.                                                  *)
LEMMA GateIdle ==
  ASSUME GateInv, ~Busy', UNCHANGED <<bridged, autoApprove, sessionBy, envelope>>,
         pending' = [i \in CallIds |-> IF Waiting /\ i = call.id THEN NoPrompt ELSE pending[i]]
  PROVE  GateInv'
<1>1. (RiskIsCurrent /\ CardIsCurrent /\ RunsOnlyWithAuthority /\ ApprovedAtItsOwnRisk)'
      /\ (unattended => ~Waiting)'
  BY DEF Busy, Waiting, RiskIsCurrent, CardIsCurrent, RunsOnlyWithAuthority, ApprovedAtItsOwnRisk
<1>2. AnswersAreControlled'
  BY DEF GateInv, AnswersAreControlled, NoPrompt, MayAnswer, MayControl
<1>3. OnlyTheAwaitedPrompt'
  BY DEF GateInv, OnlyTheAwaitedPrompt, NoPrompt, Busy, Waiting
<1>4. QED
  BY <1>1, <1>2, <1>3 DEF GateInv

(* The gate, with nobody waiting. *)
LEMMA GateAtGate ==
  ASSUME GateInv, ~Waiting, pc' = "gate", RiskIsCurrent',
         UNCHANGED <<bridged, autoApprove, sessionBy, envelope, pending>>
  PROVE  GateInv'
BY DEF GateInv, AnswersAreControlled, CardIsCurrent, OnlyTheAwaitedPrompt, MayAnswer, MayControl,
       RunsOnlyWithAuthority, ApprovedAtItsOwnRisk, Waiting

(* A tool that starts from the gate with authority. *)
LEMMA GateAtTool ==
  ASSUME GateInv, ~Waiting, pc' = "running",
         (RiskIsCurrent /\ RunsOnlyWithAuthority /\ ApprovedAtItsOwnRisk)',
         UNCHANGED <<bridged, autoApprove, sessionBy, envelope, pending>>
  PROVE  GateInv'
BY DEF GateInv, AnswersAreControlled, CardIsCurrent, OnlyTheAwaitedPrompt, MayAnswer, MayControl, Waiting

(* A step that changes neither the call, its authority nor any answer. *)
LEMMA GateFrame ==
  ASSUME GateInv, UNCHANGED <<unattended, bridged, pc, call, envelope, row, card, autoApprove, sessionBy>>,
         \A i \in CallIds : /\ pending'[i].open = pending[i].open
                            /\ pending'[i].decision = pending[i].decision
                            /\ pending'[i].by = pending[i].by
  PROVE  GateInv'
<1>1. (AnswersAreControlled /\ OnlyTheAwaitedPrompt)'
  BY DEF GateInv, AnswersAreControlled, OnlyTheAwaitedPrompt, MayAnswer, MayControl, Waiting
<1>2. QED
  BY <1>1 DEF GateInv, RiskIsCurrent, CardIsCurrent, RunsOnlyWithAuthority, ApprovedAtItsOwnRisk,
              Busy, Waiting, IsPlan, Runs, Covered, Gated, MayAnswer, MayControl

LEMMA GateStep == TypeOK /\ TypeOK' /\ GateInv /\ [Next]_vars => GateInv'
<1> SUFFICES ASSUME TypeOK, TypeOK', GateInv, [Next]_vars PROVE GateInv'
  OBVIOUS
<1> DEFINE Untouched == pending = [i \in CallIds |-> pending[i]]
<1>0. Untouched
  BY DEF TypeOK
<1>1. CASE LoopTop \/ LlmReply \/ ReplyDone \/ ToolReturns
  <2>1. ~Waiting /\ ~Busy' /\ UNCHANGED sharedVars /\ UNCHANGED envelope
    BY <1>1 DEF LoopTop, LlmReply, ReplyDone, ToolReturns, RunOver, CallOver, Waiting, Busy
  <2>2. QED
    BY <1>0, <2>1, GateIdle DEF sharedVars
<1>2. CASE AgentFails
  <2>1. ~Busy' /\ UNCHANGED <<bridged, autoApprove, sessionBy, envelope>>
    BY <1>2 DEF AgentFails, RunOver, Busy
  <2>2. pending' = [i \in CallIds |-> IF Waiting /\ i = call.id THEN NoPrompt ELSE pending[i]]
    BY <1>0, <1>2 DEF AgentFails, Waiting, TypeOK
  <2>3. QED
    BY <2>1, <2>2, GateIdle
<1>3. ASSUME NEW r \in Requests, TakeCall(r) PROVE GateInv'
  <2>1. ~Waiting /\ UNCHANGED sharedVars /\ UNCHANGED envelope
    BY <1>3 DEF TakeCall, Waiting
  <2>2. CASE ~r.known \/ TargetFails(r)
    <3>1. ~Busy'
      BY <1>3, <2>2 DEF TakeCall, CallOver, Busy
    <3>2. QED
      BY <1>0, <2>1, <3>1, GateIdle DEF sharedVars
  <2>3. CASE ~(~r.known \/ TargetFails(r))
    <3>1. pc' = "gate" /\ RiskIsCurrent'
      BY <1>3, <2>3 DEF TakeCall, RiskIsCurrent
    <3>2. QED
      BY <2>1, <3>1, GateAtGate DEF sharedVars
  <2>4. QED
    BY <2>2, <2>3
<1>4. CASE UnattendedGate
  <2>1. ~Waiting /\ UNCHANGED sharedVars /\ UNCHANGED envelope /\ unattended
    BY <1>4 DEF UnattendedGate, Waiting
  <2>2. CASE pc' # "running"
    <3>1. ~Busy'
      BY <1>4, <2>2 DEF UnattendedGate, StartTool, CallOver, Busy
    <3>2. QED
      BY <1>0, <2>1, <3>1, GateIdle DEF sharedVars
  <2>3. CASE pc' = "running"
    <3>1. call' = call /\ row'.decision = "auto" /\ ~Defers /\ ~IsPlan /\ pc = "gate"
      BY <1>4, <2>3 DEF UnattendedGate, StartTool, CallOver
    <3>2. (RunsOnlyWithAuthority /\ ApprovedAtItsOwnRisk /\ RiskIsCurrent)'
      BY <2>1, <2>3, <3>1 DEF RunsOnlyWithAuthority, ApprovedAtItsOwnRisk, Runs, Defers,
                              GateInv, RiskIsCurrent, Busy, sharedVars
    <3>3. QED
      BY <2>1, <2>3, <3>2, GateAtTool DEF sharedVars
  <2>4. QED
    BY <2>2, <2>3
<1>5. CASE GatePasses
  <2>1. /\ pc = "gate" /\ pc' = "running" /\ ~unattended
        /\ UNCHANGED sharedVars /\ UNCHANGED <<call, envelope>>
    BY <1>5 DEF GatePasses, StartTool
  <2>2. (RiskIsCurrent /\ ApprovedAtItsOwnRisk)'
    <3>1. row'.decision # "approved"
      BY <1>5 DEF GatePasses, StartTool
    <3>2. QED
      BY <2>1, <3>1 DEF GateInv, RiskIsCurrent, ApprovedAtItsOwnRisk, Busy, Runs
  <2>3. RunsOnlyWithAuthority'
    <3>1. CASE Gated(call.risk, call.host)
      BY <1>5, <2>1, <3>1 DEF GatePasses, StartTool, RunsOnlyWithAuthority, Runs, Covered,
                              GateInv, AnswersAreControlled, MayAnswer, MayControl, sharedVars
    <3>2. CASE ~Gated(call.risk, call.host)
      BY <1>5, <2>1, <3>2 DEF GatePasses, StartTool, RunsOnlyWithAuthority, Runs, Gated,
                              GateInv, AnswersAreControlled, MayAnswer, MayControl, sharedVars
    <3>3. QED
      BY <3>1, <3>2
  <2>4. QED
    BY <2>1, <2>2, <2>3, GateAtTool DEF sharedVars, Waiting
<1>6. CASE GateAsks
  <2>1. /\ pc = "gate" /\ pc' = "waiting" /\ ~unattended /\ ~Waiting /\ Waiting'
        /\ UNCHANGED <<unattended, bridged, autoApprove, sessionBy, envelope>>
    BY <1>6 DEF GateAsks, Waiting
  <2>2. /\ call'.id = call.id /\ call'.tool = call.tool /\ call'.args = call.args
        /\ call'.intent = call.intent /\ call'.hint = call.hint
        /\ call'.risk = call.risk /\ call'.host = call.host
    BY <1>6 DEF GateAsks, TypeOK, CallOK, Busy, CallShape
  <2>3. (RiskIsCurrent /\ CardIsCurrent)'
    BY <1>6, <2>1, <2>2 DEF GateAsks, GateInv, RiskIsCurrent, CardIsCurrent, Busy
  <2>4. ASSUME NEW i \in CallIds
        PROVE  /\ pending'[i].open <=> (i = call.id)
               /\ pending'[i].decision # "none" => pending'[i] = pending[i]
    <3>1. CASE i = call.id
      BY <1>6, <3>1 DEF GateAsks, TypeOK, NoPrompt
    <3>2. CASE i # call.id
      <4>1. pending'[i] = pending[i] /\ ~pending[i].open
        BY <1>6, <2>1, <3>2 DEF GateAsks, TypeOK, GateInv, OnlyTheAwaitedPrompt
      <4>2. QED
        BY <3>2, <4>1
    <3>3. QED
      BY <3>1, <3>2
  <2>5. (AnswersAreControlled /\ OnlyTheAwaitedPrompt)'
    <3>1. AnswersAreControlled'
      BY <2>1, <2>4 DEF GateInv, AnswersAreControlled, MayAnswer, MayControl
    <3>2. OnlyTheAwaitedPrompt'
      BY <2>1, <2>2, <2>4 DEF OnlyTheAwaitedPrompt
    <3>3. QED
      BY <3>1, <3>2
  <2>6. QED
    BY <2>1, <2>3, <2>5 DEF GateInv, RunsOnlyWithAuthority, ApprovedAtItsOwnRisk
<1>7. CASE Wake \/ Timeout
  BY <1>7 DEF Wake, Timeout, agentVars, sharedVars, GateInv, RiskIsCurrent, AnswersAreControlled,
              CardIsCurrent, OnlyTheAwaitedPrompt, RunsOnlyWithAuthority, ApprovedAtItsOwnRisk,
              Busy, Waiting, IsPlan, Runs, MayAnswer, MayControl
<1>8. CASE TakeAnswer
  <2>1. /\ PopPrompt /\ Waiting /\ ~unattended
        /\ UNCHANGED <<unattended, bridged, autoApprove, sessionBy>>
    BY <1>8 DEF TakeAnswer, TakeRefusal, TakePlanApproval, TakeApproval, TakeRiskierEdit,
                PopPrompt, Waiting, GateInv
  <2>2. call \in CallShape /\ call.id \in CallIds
    BY <2>1 DEF TypeOK, CallOK, Busy, Waiting, CallShape
  <2>3. \A i \in CallIds : ~pending'[i].open /\ (pending'[i].decision # "none" => pending'[i] = pending[i])
    BY <2>1, <2>2 DEF PopPrompt, NoPrompt, TypeOK, GateInv, OnlyTheAwaitedPrompt
  <2>4. ~Waiting' => OnlyTheAwaitedPrompt'
    BY <2>3 DEF OnlyTheAwaitedPrompt
  <2>5. envelope' # NoPlan => MayAnswer(envelope'.by)
    <3>1. CASE TakePlanApproval
      BY <2>2, <3>1 DEF TakePlanApproval, Declined, Answer, GateInv, AnswersAreControlled
    <3>2. CASE UNCHANGED envelope
      BY <3>2 DEF GateInv, AnswersAreControlled
    <3>3. QED
      BY <1>8, <3>1, <3>2 DEF TakeAnswer, TakeRefusal, TakeApproval, TakeRiskierEdit
  <2>6. AnswersAreControlled'
    BY <2>1, <2>3, <2>5 DEF GateInv, AnswersAreControlled, MayAnswer, MayControl
  <2>7. CASE CallOver
    BY <2>1, <2>4, <2>6, <2>7 DEF CallOver, GateInv, RiskIsCurrent, CardIsCurrent, Busy, Waiting,
       RunsOnlyWithAuthority, ApprovedAtItsOwnRisk
  <2>8. CASE call' = [call EXCEPT !.args = EditedArgs, !.risk = EditedRisk]
    <3>1. /\ call'.args = EditedArgs /\ call'.risk = EditedRisk /\ call'.tool = call.tool
          /\ call'.host = call.host /\ call'.intent = call.intent /\ call'.hint = call.hint
      BY <2>2, <2>8 DEF CallShape
    <3>2. RiskIsCurrent'
      BY <3>1 DEF RiskIsCurrent, EditedRisk
    <3>3. CASE TakeApproval
      <4>1. pc' = "running" /\ row' = [decision |-> "approved", by |-> Answer.by, stale |-> Answer.stale]
        BY <3>3 DEF TakeApproval, StartTool
      <4>2. MayAnswer(Answer.by)
        BY <2>2, <3>3 DEF TakeApproval, Declined, Answer, GateInv, AnswersAreControlled
      <4>3. RunsOnlyWithAuthority'
        BY <2>1, <4>1, <4>2 DEF RunsOnlyWithAuthority, Runs, MayAnswer, MayControl
      <4>4. ~Gated(EditedRisk, call.host) \/ EditedRisk = call.risk
        BY <3>3 DEF TakeApproval, AsksAgain
      <4>5. ApprovedAtItsOwnRisk'
        <5>1. CASE ~Gated(EditedRisk, call.host)
          BY <2>1, <3>1, <3>2, <4>1, <5>1
             DEF ApprovedAtItsOwnRisk, RiskIsCurrent, Busy, Gated
        <5>2. CASE EditedRisk = call.risk
          <6>1. card' = [risk |-> call.risk, host |-> call.host, open |-> TRUE]
            BY <2>1, <3>3 DEF TakeApproval, GateInv, CardIsCurrent
          <6>2. QED
            BY <3>1, <3>2, <4>1, <5>2, <6>1 DEF ApprovedAtItsOwnRisk, RiskIsCurrent, Busy
        <5>3. QED
          BY <4>4, <5>1, <5>2
      <4>6. QED
        BY <2>1, <2>4, <2>6, <3>2, <4>1, <4>3, <4>5 DEF GateInv, CardIsCurrent, Waiting
    <3>4. CASE pc' = "gate"
      BY <2>1, <2>4, <2>6, <3>2, <3>4 DEF GateInv, CardIsCurrent, Waiting,
         RunsOnlyWithAuthority, ApprovedAtItsOwnRisk
    <3>5. QED
      BY <1>8, <2>7, <3>3, <3>4 DEF TakeAnswer, TakeRefusal, TakePlanApproval, TakeRiskierEdit
  <2>9. QED
    BY <1>8, <2>7, <2>8 DEF TakeAnswer, TakeRefusal, TakePlanApproval, TakeApproval, TakeRiskierEdit
<1>9. ASSUME NEW u \in Users \cup {NoUser}, NEW i \in CallIds, NEW d \in Decisions,
             NEW c \in Edits \cup {NoEdit}, NEW st \in BOOLEAN, Confirm(u, i, d, c, st)
      PROVE  GateInv'
  <2>1. Waiting /\ MayAnswer(u) /\ UNCHANGED <<unattended, bridged, pc, call, envelope, card>>
    BY <1>9 DEF Confirm, GateInv, OnlyTheAwaitedPrompt, agentVars
  <2>2. /\ autoApprove' => (autoApprove /\ sessionBy' = sessionBy) \/ sessionBy' = u
        /\ \A j \in CallIds : /\ pending'[j].open = pending[j].open
                              /\ pending'[j].by = u \/ pending'[j] = pending[j]
    BY <1>9 DEF Confirm, TypeOK
  <2>3. AnswersAreControlled'
    BY <2>1, <2>2 DEF GateInv, AnswersAreControlled, MayAnswer, MayControl
  <2>4. OnlyTheAwaitedPrompt'
    BY <2>1, <2>2 DEF GateInv, OnlyTheAwaitedPrompt, Waiting
  <2>5. QED
    BY <2>1, <2>3, <2>4 DEF GateInv, RiskIsCurrent, CardIsCurrent, RunsOnlyWithAuthority,
                            ApprovedAtItsOwnRisk, Busy, Waiting, IsPlan
<1>10. ASSUME NEW u \in Users, StopSetsFlag(u) PROVE GateInv'
  BY <1>10, GateFrame DEF StopSetsFlag, agentVars
<1>11. ASSUME NEW u \in Users, StopWakes(u) PROVE GateInv'
  <2>1. \A j \in CallIds : /\ pending'[j].open = pending[j].open
                           /\ pending'[j].decision = pending[j].decision
                           /\ pending'[j].by = pending[j].by
    BY <1>11 DEF StopWakes, TypeOK, PromptShape
  <2>2. QED
    BY <1>11, <2>1, GateFrame DEF StopWakes, agentVars
<1>12. CASE UNCHANGED vars
  BY <1>12, GateFrame DEF vars, agentVars, sharedVars
<1>13. CASE Thread
  BY <1>1, <1>3, <1>4, <1>5, <1>6, <1>7, <1>8, <1>13 DEF Thread
<1>14. CASE People
  BY <1>9, <1>10, <1>11, <1>14, Zenon DEF People
<1>15. QED
  BY <1>2, <1>12, <1>13, <1>14 DEF Next, Finished

(* The invariant above holds throughout every run. *)
THEOREM GateSafe == Spec => []GateInv
BY TypeCorrect, GateInit, GateStep, PTL DEF Spec

(* No tool of any run starts without policy, a waiver, a plan or an        *)
(* approval of the owner or an administrator (_run_tool's gate); a run of  *)
(* the Telegram bridge also heeds a sender of its chat while no account is *)
(* left for it to act as, and a run of the page or of a job never does.    *)
THEOREM Authority == Spec => []RunsOnlyWithAuthority
<1>1. GateInv => RunsOnlyWithAuthority
  BY DEF GateInv
<1>2. QED
  BY <1>1, GateSafe, PTL

(* An edited command never runs at a level its approver was not shown.     *)
THEOREM EditsAreShown == Spec => []ApprovedAtItsOwnRisk
<1>1. GateInv => ApprovedAtItsOwnRisk
  BY DEF GateInv
<1>2. QED
  BY <1>1, GateSafe, PTL

(* run.pending holds the awaited prompt and no other. *)
THEOREM OnePrompt == Spec => []OnlyTheAwaitedPrompt
<1>1. GateInv => OnlyTheAwaitedPrompt
  BY DEF GateInv
<1>2. QED
  BY <1>1, GateSafe, PTL

(* No plan reaches a critical action it does not list or a host it does    *)
(* not name: the ceiling is clamped on every use.                          *)
THEOREM PlanBounds == Spec => []PlanStaysInside
<1>1. TypeOK /\ GateInv => PlanStaysInside
  <2> SUFFICES ASSUME TypeOK, GateInv, Runs("envelope") PROVE
           /\ call.risk = Critical => call.args.command \in envelope.plan.allow
           /\ envelope.plan.hosts # {} => call.host \in envelope.plan.hosts
    BY DEF PlanStaysInside
  <2>1. Covered(call.risk, call.args.command, call.host)
    BY DEF GateInv, RunsOnlyWithAuthority, Runs
  <2>2. envelope.plan.ceiling \in Levels
    BY <2>1 DEF TypeOK, Covered, EnvelopeShape, PlanShape
  <2>3. ClampCeiling(envelope.plan.ceiling) <= Risky /\ ClampCeiling(envelope.plan.ceiling) \in Levels
    BY <2>2, ClampType
  <2>4. QED
    BY <2>1, <2>3 DEF Covered, EnvelopeCovers, UnattendedRuns
<1>2. QED
  BY <1>1, TypeCorrect, GateSafe, PTL
-----------------------------------------------------------------------------
(* Reading a denial, or finding no answer, starts no tool and no plan.     *)
THEOREM DenialHolds == Spec => DenialIsFinal
<1> DEFINE Refused == pc \in {"woken", "expired"} /\ Answer.decision \in {"none", "deny"}
           Kept == pc' \in {pc, "reply", "done"} /\ envelope' = envelope
<1>1. [Next]_vars => [Refused => Kept]_vars
  <2> SUFFICES ASSUME Next, Refused PROVE Kept
    OBVIOUS
  <2>1. CASE TakeAnswer
    BY <2>1 DEF TakeAnswer, TakeRefusal, TakePlanApproval, TakeApproval, TakeRiskierEdit,
                Declined, CallOver
  <2>2. CASE AgentFails
    BY <2>2 DEF AgentFails, RunOver
  <2>3. CASE People
    BY <2>3 DEF People, Confirm, StopSetsFlag, StopWakes, agentVars
  <2>4. QED
    BY <2>1, <2>2, <2>3 DEF Next, Thread, LoopTop, LlmReply, ReplyDone, TakeCall,
       UnattendedGate, GatePasses, GateAsks, Wake, Timeout, ToolReturns, Finished
<1>2. QED
  BY <1>1, PTL DEF Spec, DenialIsFinal

(* What a job's run has in hand, deferred, audited and recorded.           *)
Tallied ==
  /\ recorded <= audited
  /\ deferred - audited \in IF pc = "done" THEN {0, 1} ELSE {0}
  /\ brought - (settled + deferred) \in CASE pc = "gate" -> {1}
                                           [] pc = "done" -> {0, 1}
                                           [] OTHER       -> {0}

(* A step away from the gate that takes no call and defers none. *)
LEMMA TalliedElsewhere ==
  ASSUME Tallied, UNCHANGED tally, (pc = "gate") = (pc' = "gate"), pc # "done" \/ pc' = "done"
  PROVE  Tallied'
BY DEF Tallied, tally

(* Unless an exception at the gate ends the run, a job reports and audits  *)
(* whatever it skipped, though the record for the inbox may be lost.       *)
THEOREM JobsNeverWait == Spec => []JobNeverWaits
<1> DEFINE Counted == unattended => Tallied
<1>1. Init => Counted
  BY DEF Init, Tallied
<1>2. TypeOK /\ GateInv /\ Counted /\ [Next]_vars => Counted'
  <2> SUFFICES ASSUME TypeOK, GateInv, Counted, [Next]_vars, unattended' PROVE Tallied'
    OBVIOUS
  <2>1. unattended
    BY DEF Next, Thread, People, LoopTop, LlmReply, ReplyDone, TakeCall, UnattendedGate, GatePasses,
       GateAsks, Wake, Timeout, TakeAnswer, TakeRefusal, TakePlanApproval, TakeApproval,
       TakeRiskierEdit, PopPrompt, ToolReturns, AgentFails, Confirm, StopSetsFlag, StopWakes,
       Finished, vars, sharedVars
  <2>2. Tallied /\ ~Waiting
    BY <2>1 DEF GateInv
  <2>3. recorded \in Nat /\ deferred \in Nat /\ audited \in Nat /\ brought \in Nat /\ settled \in Nat
    BY DEF TypeOK
  <2>4. CASE UnattendedGate
    <3>1. pc = "gate" /\ pc' \notin {"gate", "done"} /\ UNCHANGED brought
      BY <2>4 DEF UnattendedGate, CallOver, StartTool
    <3>2. CASE settled' = settled + 1 /\ UNCHANGED <<deferred, audited, recorded>>
      BY <2>2, <2>3, <3>1, <3>2 DEF Tallied
    <3>3. CASE /\ deferred' = deferred + 1 /\ audited' = audited + 1
               /\ recorded' \in {recorded, recorded + 1} /\ UNCHANGED settled
      BY <2>2, <2>3, <3>1, <3>3 DEF Tallied
    <3>4. QED
      BY <2>4, <3>2, <3>3 DEF UnattendedGate
  <2>5. ASSUME NEW r \in Requests, TakeCall(r) PROVE Tallied'
    <3>1. pc = "reply" /\ UNCHANGED <<deferred, audited, recorded, settled>>
      BY <2>5 DEF TakeCall
    <3>2. CASE pc' = "reply" /\ UNCHANGED brought
      BY <2>2, <3>1, <3>2 DEF Tallied
    <3>3. CASE pc' = "gate" /\ brought' = brought + 1
      BY <2>2, <2>3, <3>1, <3>3 DEF Tallied
    <3>4. QED
      BY <2>1, <2>5, <3>2, <3>3 DEF TakeCall, CallOver
  <2>6. CASE LoopTop \/ LlmReply \/ ReplyDone \/ ToolReturns
    <3>1. /\ UNCHANGED tally /\ pc \in {"top", "chat", "reply", "running"}
          /\ pc' \in {"top", "chat", "reply", "done"}
      BY <2>6 DEF LoopTop, LlmReply, ReplyDone, ToolReturns, RunOver, CallOver
    <3>2. QED
      BY <2>2, <3>1, TalliedElsewhere
  <2>7. CASE AgentFails
    <3>1. /\ pc' = "done" /\ pc # "done"
          /\ UNCHANGED <<audited, recorded, brought, settled>>
          /\ deferred' = deferred \/ (pc = "gate" /\ deferred' = deferred + 1)
      BY <2>7 DEF AgentFails, RunOver
    <3>2. QED
      BY <2>2, <2>3, <3>1 DEF Tallied
  <2>8. CASE Finished \/ UNCHANGED vars
    BY <2>2, <2>8, TalliedElsewhere DEF Finished, vars, agentVars
  <2>9. CASE People
    <3>1. UNCHANGED <<pc, tally>>
      BY <2>1, <2>9 DEF People, Confirm, StopSetsFlag, StopWakes, agentVars
    <3>2. QED
      BY <2>2, <3>1, TalliedElsewhere
  <2>10. ~(GatePasses \/ GateAsks \/ Wake \/ Timeout \/ TakeAnswer)
    BY <2>1, <2>2 DEF GatePasses, GateAsks, Wake, Timeout, TakeAnswer, TakeRefusal, TakePlanApproval,
       TakeApproval, TakeRiskierEdit, PopPrompt, Waiting
  <2>11. QED
    BY <2>4, <2>5, <2>6, <2>7, <2>8, <2>9, <2>10 DEF Next, Thread
<1>3. GateInv /\ Counted => JobNeverWaits
  BY DEF GateInv, JobNeverWaits, Tallied
<1>4. QED
  BY <1>1, <1>2, <1>3, TypeCorrect, GateSafe, PTL DEF Spec

(* A run that is over stays over, with the authority it had. *)
THEOREM LateAnswersDoNothing == Spec => LateAnswersAreInert
<1> DEFINE Late == pc = "done" => UNCHANGED <<pc, autoApprove, envelope, pending>>
<1>1. TypeOK /\ GateInv /\ [Next]_vars => [Late]_vars
  <2> SUFFICES ASSUME TypeOK, GateInv, Next, pc = "done"
               PROVE  UNCHANGED <<pc, autoApprove, envelope, pending>>
    OBVIOUS
  <2>1. \A i \in CallIds : ~pending[i].open
    BY DEF GateInv, OnlyTheAwaitedPrompt, Waiting
  <2>2. People \/ UNCHANGED vars
    BY DEF Next, Thread, LoopTop, LlmReply, ReplyDone, TakeCall, UnattendedGate, GatePasses,
       GateAsks, Wake, Timeout, TakeAnswer, TakeRefusal, TakePlanApproval, TakeApproval,
       TakeRiskierEdit, PopPrompt, ToolReturns, AgentFails, Finished
  <2>3. ASSUME NEW u \in Users \cup {NoUser}, NEW i \in CallIds, NEW d \in Decisions,
               NEW c \in Edits \cup {NoEdit}, NEW st \in BOOLEAN, Confirm(u, i, d, c, st)
        PROVE  FALSE
    BY <2>1, <2>3 DEF Confirm
  <2>4. ASSUME NEW u \in Users, StopSetsFlag(u)
        PROVE  UNCHANGED <<pc, autoApprove, envelope, pending>>
    BY <2>4 DEF StopSetsFlag, agentVars
  <2>5. ASSUME NEW u \in Users, StopWakes(u)
        PROVE  UNCHANGED <<pc, autoApprove, envelope, pending>>
    <3>1. \A i \in CallIds : pending[i] \in PromptShape
      BY DEF TypeOK
    <3>2. \A i \in CallIds : [pending[i] EXCEPT !.woken = @ \/ pending[i].open] = pending[i]
      BY <2>1, <3>1 DEF PromptShape
    <3>3. pending' = pending
      BY <2>5, <3>2 DEF StopWakes, TypeOK
    <3>4. QED
      BY <2>5, <3>3 DEF StopWakes, agentVars
  <2>6. CASE UNCHANGED vars
    BY <2>6 DEF vars, agentVars, sharedVars
  <2>7. CASE People
    BY <2>3, <2>4, <2>5, <2>7, Zenon DEF People
  <2>8. QED
    BY <2>2, <2>6, <2>7
<1>2. QED
  BY <1>1, TypeCorrect, GateSafe, PTL DEF Spec, LateAnswersAreInert

(* Once stopped, the thread asks the model nothing and takes no call. *)
THEOREM StopIsHeeded == Spec => StopEndsTheLoop
<1> DEFINE Heeds == stopFlag => /\ pc' = "chat" => pc = "chat"
                                /\ call = NoCall => call' = NoCall
<1>1. TypeOK /\ [Next]_vars => [Heeds]_vars
  <2> SUFFICES ASSUME TypeOK, Next, stopFlag
               PROVE  /\ pc' = "chat" => pc = "chat"
                      /\ call = NoCall => call' = NoCall
    OBVIOUS
  <2>1. call = NoCall => pc \notin {"gate", "waiting", "woken", "expired", "running"}
    BY NoCallAssumption DEF TypeOK, CallOK, Busy
  <2>2. CASE Thread
    BY <2>1, <2>2 DEF Thread, LoopTop, LlmReply, ReplyDone, TakeCall, UnattendedGate, GatePasses,
       GateAsks, Wake, Timeout, TakeAnswer, TakeRefusal, TakePlanApproval, TakeApproval,
       TakeRiskierEdit, PopPrompt, ToolReturns, RunOver, CallOver, StartTool, agentVars
  <2>3. CASE AgentFails \/ Finished
    BY <2>3 DEF AgentFails, RunOver, Finished, vars, agentVars
  <2>4. CASE People
    BY <2>4 DEF People, Confirm, StopSetsFlag, StopWakes, agentVars
  <2>5. QED
    BY <2>2, <2>3, <2>4 DEF Next
<1>2. QED
  BY <1>1, TypeCorrect, PTL DEF Spec, StopEndsTheLoop
-----------------------------------------------------------------------------
(***************************************************************************)
(* The run implements the abstract gate: every step of the thread and of   *)
(* the people is one of its actions or changes nothing it shows.           *)
(***************************************************************************)
Shown == <<StageOf, IsSerious, VerdictOf, StandingOf>>

LEMMA ShownInit == Init => Gate!Init
BY DEF Init, Gate!Init, StageOf, IsSerious, VerdictOf, StandingOf, Busy, Waiting

(* No call in hand: nothing is judged, asked or carried out. *)
LEMMA ShownIdle ==
  ASSUME TypeOK, ~Busy
  PROVE  /\ StageOf = IF pc = "done" THEN "over" ELSE "idle"
         /\ IsSerious = FALSE /\ VerdictOf = "none"
BY DEF TypeOK, AgentPcs, Busy, StageOf, IsSerious, VerdictOf, Waiting

LEMMA ShownIdleNext ==
  ASSUME TypeOK', ~Busy'
  PROVE  /\ StageOf' = IF pc' = "done" THEN "over" ELSE "idle"
         /\ IsSerious' = FALSE /\ VerdictOf' = "none"
BY DEF TypeOK, AgentPcs, Busy, StageOf, IsSerious, VerdictOf, Waiting

(* A step that leaves the call drops it or ends the run. *)
LEMMA ShownLeaves ==
  ASSUME TypeOK, TypeOK', ~Busy', pc # "done" \/ pc' = "done",
         UNCHANGED <<autoApprove, envelope>>
  PROVE  [Gate!Next]_Shown
<1>1. UNCHANGED StandingOf
  BY DEF StandingOf
<1>2. CASE pc' = "done"
  <2>1. CASE pc = "done"
    BY <1>1, <1>2, <2>1, ShownIdle, ShownIdleNext DEF Shown, Busy
  <2>2. CASE pc # "done"
    <3>1. StageOf # "over"
      BY <2>2 DEF StageOf
    <3>2. Gate!End
      BY <1>1, <1>2, ShownIdleNext DEF Gate!End
    <3>3. QED
      BY <3>1, <3>2 DEF Gate!Next
  <2>3. QED
    BY <2>1, <2>2
<1>3. CASE pc' # "done"
  <2>1. CASE Busy
    <3>1. StageOf \in {"judging", "asking", "acting"}
      BY <2>1 DEF Busy, StageOf
    <3>2. Gate!Drop
      BY <1>1, <1>3, <3>1, ShownIdleNext DEF Gate!Drop
    <3>3. QED
      BY <3>2 DEF Gate!Next
  <2>2. CASE ~Busy
    BY <1>1, <1>3, <2>2, ShownIdle, ShownIdleNext DEF Shown
  <2>3. QED
    BY <2>1, <2>2
<1>4. QED
  BY <1>2, <1>3

(* A step that changes neither the call, the thread's place among asking,  *)
(* judging and acting, nor any decision, shows nothing.                    *)
LEMMA ShownSame ==
  ASSUME TypeOK, TypeOK', UNCHANGED <<unattended, call, autoApprove, envelope>>,
         pc' = pc \/ (Waiting /\ Waiting'),
         \A i \in CallIds : pending'[i].decision = pending[i].decision
  PROVE  UNCHANGED Shown
<1>1. UNCHANGED <<StageOf, StandingOf>> /\ Busy' = Busy /\ Waiting' = Waiting
  BY DEF StageOf, StandingOf, Busy, Waiting
<1>2. UNCHANGED IsSerious
  BY <1>1 DEF IsSerious, IsPlan, Defers
<1>3. Waiting => call.id \in CallIds
  BY DEF TypeOK, CallOK, Busy, Waiting, CallShape
<1>4. UNCHANGED VerdictOf
  BY <1>1, <1>3 DEF VerdictOf
<1>5. QED
  BY <1>1, <1>2, <1>4 DEF Shown

LEMMA ShownStep == TypeOK /\ TypeOK' /\ GateInv /\ GateInv' /\ [Next]_vars => [Gate!Next]_Shown
<1> SUFFICES ASSUME TypeOK, TypeOK', GateInv, GateInv', [Next]_vars PROVE [Gate!Next]_Shown
  OBVIOUS
<1>1. CASE LoopTop \/ LlmReply \/ ReplyDone \/ ToolReturns \/ AgentFails
  <2>1. ~Busy' /\ pc # "done" /\ UNCHANGED <<autoApprove, envelope>>
    BY <1>1 DEF LoopTop, LlmReply, ReplyDone, ToolReturns, AgentFails, RunOver, CallOver, Busy,
                sharedVars
  <2>2. QED
    BY <2>1, ShownLeaves
<1>2. ASSUME NEW r \in Requests, TakeCall(r) PROVE [Gate!Next]_Shown
  <2>1. pc = "reply" /\ ~Busy /\ UNCHANGED <<unattended, autoApprove, envelope>>
    BY <1>2 DEF TakeCall, Busy, sharedVars
  <2>2. CASE pc' = "gate"
    <3>1. StageOf = "idle" /\ VerdictOf = "none" /\ StageOf' = "judging" /\ VerdictOf' = "none"
      BY <2>1, <2>2 DEF StageOf, VerdictOf, Waiting
    <3>2. IsSerious' \in BOOLEAN /\ UNCHANGED StandingOf
      BY <2>1 DEF IsSerious, StandingOf
    <3>3. Gate!Consider
      BY <3>1, <3>2 DEF Gate!Consider
    <3>4. QED
      BY <3>3 DEF Gate!Next
  <2>3. CASE pc' # "gate"
    <3>1. ~Busy'
      BY <1>2, <2>3 DEF TakeCall, CallOver, Busy
    <3>2. QED
      BY <2>1, <3>1, ShownLeaves
  <2>4. QED
    BY <2>2, <2>3
<1>3. ASSUME pc = "gate", pc' = "running", ~IsSerious \/ StandingOf # {},
             UNCHANGED <<unattended, call, autoApprove, envelope>>
      PROVE  [Gate!Next]_Shown
  <2>1. /\ StageOf = "judging" /\ StageOf' = "acting"
        /\ VerdictOf = "none" /\ VerdictOf' = "none"
    BY <1>3 DEF StageOf, VerdictOf, Waiting
  <2>2. UNCHANGED <<IsSerious, StandingOf>>
    BY <1>3 DEF IsSerious, IsPlan, Defers, Busy, StandingOf
  <2>3. Gate!ActUnasked
    BY <1>3, <2>1, <2>2 DEF Gate!ActUnasked
  <2>4. QED
    BY <2>3 DEF Gate!Next
<1>4. CASE UnattendedGate
  <2>1. pc = "gate" /\ unattended /\ UNCHANGED <<unattended, autoApprove, envelope>>
    BY <1>4 DEF UnattendedGate, sharedVars
  <2>2. CASE pc' = "running"
    <3>1. UNCHANGED call /\ ~IsPlan /\ ~Defers
      BY <1>4, <2>2 DEF UnattendedGate, CallOver
    <3>2. ~IsSerious
      BY <2>1, <3>1 DEF IsSerious
    <3>3. QED
      BY <1>3, <2>1, <2>2, <3>1, <3>2
  <2>3. CASE pc' # "running"
    <3>1. ~Busy'
      BY <1>4, <2>3 DEF UnattendedGate, StartTool, CallOver, Busy
    <3>2. QED
      BY <2>1, <3>1, ShownLeaves
  <2>4. QED
    BY <2>2, <2>3
<1>5. CASE GatePasses
  <2>1. /\ pc = "gate" /\ pc' = "running" /\ ~unattended /\ ~IsPlan
        /\ UNCHANGED <<unattended, call, autoApprove, envelope>>
    BY <1>5 DEF GatePasses, StartTool, sharedVars
  <2>2. ~IsSerious \/ StandingOf # {}
    <3>1. CASE Gated(call.risk, call.host)
      BY <1>5, <3>1 DEF GatePasses, Covered, StandingOf
    <3>2. CASE ~Gated(call.risk, call.host)
      BY <2>1, <3>2 DEF Gated, IsSerious, StandingOf
    <3>3. QED
      BY <3>1, <3>2
  <2>3. QED
    BY <1>3, <2>1, <2>2
<1>6. CASE GateAsks
  <2>1. /\ pc = "gate" /\ pc' = "waiting" /\ ~unattended
        /\ UNCHANGED <<unattended, autoApprove, envelope>>
    BY <1>6 DEF GateAsks
  <2>2. /\ call'.id = call.id /\ call.id \in CallIds /\ call'.tool = call.tool
        /\ call'.risk = call.risk /\ call'.host = call.host
    BY <1>6 DEF GateAsks, TypeOK, CallOK, Busy, CallShape
  <2>3. pending'[call'.id].decision = "none"
    BY <1>6, <2>2 DEF GateAsks, TypeOK, NoPrompt
  <2>4. StageOf = "judging" /\ StageOf' = "asking" /\ VerdictOf = "none"
    BY <2>1 DEF StageOf, VerdictOf, Waiting
  <2>5. VerdictOf' = "none"
    BY <2>3 DEF VerdictOf
  <2>6. IsSerious = TRUE /\ IsSerious' = TRUE /\ UNCHANGED StandingOf
    <3>1. IsPlan \/ NeedsConfirmation(call.risk, AutonomyOf(call.host))
      BY <1>6 DEF GateAsks, Gated
    <3>2. IsPlan' \/ NeedsConfirmation(call'.risk, AutonomyOf(call'.host))
      BY <2>2, <3>1 DEF IsPlan
    <3>3. QED
      BY <2>1, <3>1, <3>2 DEF IsSerious, Busy, StandingOf, AutonomyOf
  <2>7. Gate!Ask
    BY <2>4, <2>5, <2>6 DEF Gate!Ask
  <2>8. QED
    BY <2>7 DEF Gate!Next
<1>7. CASE Wake \/ Timeout
  BY <1>7, ShownSame DEF Wake, Timeout, agentVars, sharedVars, Waiting
<1>8. CASE TakeAnswer
  <2>1. /\ PopPrompt /\ Waiting /\ Busy /\ ~unattended
        /\ UNCHANGED <<unattended, autoApprove>>
    BY <1>8 DEF TakeAnswer, TakeRefusal, TakePlanApproval, TakeApproval, TakeRiskierEdit,
                PopPrompt, Waiting, Busy, GateInv
  <2>2. call \in CallShape /\ call.id \in CallIds /\ Answer \in PromptShape
    BY <2>1 DEF TypeOK, CallOK, CallShape, Answer
  <2>3. StageOf = "asking"
    BY <2>1 DEF StageOf, Waiting
  <2>4. ~Declined => VerdictOf = "yes"
    BY <2>1 DEF VerdictOf, Declined, Answer
  <2>5. ~Waiting' => VerdictOf' = "none"
    BY DEF VerdictOf
  <2>6. CASE TakeRefusal
    BY <2>6, <2>1, ShownLeaves DEF TakeRefusal, CallOver, Busy
  <2>7. CASE TakePlanApproval
    <3>1. ~Busy' /\ pc' # "done" /\ ~Declined /\ envelope' # NoPlan
      <4>1. call.plan \in PlanShape /\ call.plan.ceiling \in Levels
        BY <2>1, <2>7 DEF TypeOK, CallOK, TakePlanApproval, PlanShape
      <4>2. ClampCeiling(call.plan.ceiling) \in Levels
        BY <4>1, ClampType
      <4> DEFINE named == IF call.plan.hosts = {} THEN {call.host} \cap Hosts ELSE call.plan.hosts
                 adopted == [call.plan EXCEPT !.ceiling = ClampCeiling(call.plan.ceiling),
                                              !.hosts = named]
      <4>3. envelope' \in EnvelopeShape
        <5>1. envelope' = [plan |-> adopted, by |-> Answer.by]
          BY <2>7, <4>1, Zenon DEF TakePlanApproval
        <5>2. named \in SUBSET Hosts
          BY <4>1 DEF PlanShape
        <5>3. adopted \in PlanShape
          <6> HIDE DEF named
          <6>1. QED
            BY <4>1, <4>2, <5>2 DEF PlanShape
        <5>4. QED
          BY <2>2, <5>1, <5>3 DEF EnvelopeShape, PromptShape
      <4>4. ~Busy' /\ pc' # "done" /\ ~Declined
        BY <2>7 DEF TakePlanApproval, CallOver, Busy
      <4>5. QED
        BY <4>3, <4>4, NoEnvelopeAssumption
    <3>2. StageOf' = "idle" /\ IsSerious' = FALSE /\ VerdictOf' = "none"
      BY <3>1, ShownIdleNext
    <3>3. StandingOf' = StandingOf \cup {"plan"}
      BY <2>1, <3>1 DEF StandingOf
    <3>4. Gate!AdoptPlan
      BY <2>3, <2>4, <3>1, <3>2, <3>3 DEF Gate!AdoptPlan
    <3>5. QED
      BY <3>4 DEF Gate!Next
  <2>8. CASE TakeApproval
    <3>1. pc' = "running" /\ ~Declined /\ UNCHANGED envelope
      BY <2>8 DEF TakeApproval, StartTool
    <3>2. /\ StageOf' = "acting" /\ VerdictOf' = "none" /\ UNCHANGED StandingOf
          /\ IsSerious' \in BOOLEAN
      BY <2>1, <2>5, <3>1 DEF StageOf, StandingOf, Waiting, IsSerious
    <3>3. Gate!ActApproved
      BY <2>3, <2>4, <3>1, <3>2 DEF Gate!ActApproved
    <3>4. QED
      BY <3>3 DEF Gate!Next
  <2>9. CASE TakeRiskierEdit
    <3>1. ~Declined /\ AsksAgain /\ UNCHANGED envelope
      BY <2>9 DEF TakeRiskierEdit
    <3>2. CASE call.prompts = MaxPrompts
      BY <2>1, <2>9, <3>1, <3>2, ShownLeaves DEF TakeRiskierEdit, CallOver, Busy
    <3>3. CASE call.prompts # MaxPrompts
      <4>1. /\ pc' = "gate" /\ call'.risk = EditedRisk /\ call'.host = call.host
        BY <2>2, <2>9, <3>3 DEF TakeRiskierEdit, CallShape
      <4>2. NeedsConfirmation(call'.risk, AutonomyOf(call'.host))
        BY <3>1, <4>1 DEF AsksAgain, Gated
      <4>3. IsSerious' = TRUE
        BY <2>1, <4>1, <4>2 DEF IsSerious, Busy, AutonomyOf
      <4>4. StageOf' = "judging" /\ VerdictOf' = "none" /\ UNCHANGED StandingOf
        BY <2>1, <2>5, <3>1, <4>1 DEF StageOf, StandingOf, Waiting
      <4>5. Gate!JudgeEdit
        BY <2>3, <2>4, <3>1, <4>3, <4>4 DEF Gate!JudgeEdit
      <4>6. QED
        BY <4>5 DEF Gate!Next
    <3>4. QED
      BY <3>2, <3>3
  <2>10. QED
    BY <1>8, <2>6, <2>7, <2>8, <2>9 DEF TakeAnswer
<1>9. ASSUME NEW u \in Users \cup {NoUser}, NEW i \in CallIds, NEW d \in Decisions,
             NEW c \in Edits \cup {NoEdit}, NEW st \in BOOLEAN, Confirm(u, i, d, c, st)
      PROVE  [Gate!Next]_Shown
  <2>1. /\ Waiting /\ i = call.id
        /\ UNCHANGED <<unattended, pc, call, envelope>>
    BY <1>9 DEF Confirm, GateInv, OnlyTheAwaitedPrompt, agentVars
  <2>2. pending'[call'.id].decision = d
    BY <1>9, <2>1 DEF Confirm, TypeOK
  <2>3. StageOf = "asking" /\ UNCHANGED <<StageOf, IsSerious>>
    BY <2>1 DEF StageOf, IsSerious, Waiting, Busy, IsPlan, Defers
  <2>4. VerdictOf' = IF d = "deny" THEN "no" ELSE "yes"
    BY <2>1, <2>2 DEF VerdictOf, Decisions, Waiting
  <2>5. /\ d = "approve_session" => StandingOf' = StandingOf \cup {"session"}
        /\ d # "approve_session" => UNCHANGED StandingOf
    BY <1>9, <2>1 DEF Confirm, StandingOf
  <2>6. Gate!HearVerdict
    BY <2>3, <2>4, <2>5 DEF Gate!HearVerdict
  <2>7. QED
    BY <2>6 DEF Gate!Next
<1>10. ASSUME NEW u \in Users, StopSetsFlag(u) PROVE [Gate!Next]_Shown
  BY <1>10, ShownSame DEF StopSetsFlag, agentVars
<1>11. ASSUME NEW u \in Users, StopWakes(u) PROVE [Gate!Next]_Shown
  <2>1. \A j \in CallIds : pending'[j].decision = pending[j].decision
    BY <1>11 DEF StopWakes, TypeOK, PromptShape
  <2>2. QED
    BY <1>11, <2>1, ShownSame DEF StopWakes, agentVars
<1>12. CASE UNCHANGED vars
  BY <1>12, ShownSame DEF vars, agentVars, sharedVars
<1>13. CASE Thread
  BY <1>1, <1>2, <1>4, <1>5, <1>6, <1>7, <1>8, <1>13 DEF Thread
<1>14. CASE People
  BY <1>9, <1>10, <1>11, <1>14, Zenon DEF People
<1>15. QED
  BY <1>1, <1>12, <1>13, <1>14 DEF Next, Finished

(* Refinement: one run, with its prompts, call ids, edits, timeouts and    *)
(* late answers, does only what the abstract approval gate allows.         *)
THEOREM GateIsImplemented == Spec => ImplementsGate
<1>1. UNCHANGED Shown => UNCHANGED Gate!vars
  BY DEF Shown, Gate!vars
<1>2. TypeOK /\ TypeOK' /\ GateInv /\ GateInv' /\ [Next]_vars => [Gate!Next]_Gate!vars
  BY <1>1, ShownStep
<1>3. QED
  BY <1>2, ShownInit, TypeCorrect, GateSafe, PTL DEF Spec, ImplementsGate, Gate!Spec
=============================================================================
