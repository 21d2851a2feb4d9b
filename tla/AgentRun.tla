------------------------------ MODULE AgentRun ------------------------------
(***************************************************************************)
(* One agent run (agent/core.py): the thread that executes _drive, the     *)
(* tool calls the language model asks for, the approval gate, and the HTTP *)
(* and Telegram requests that answer or stop the run from other threads.   *)
(*                                                                         *)
(* The thread is split where another thread can act: around the LLM        *)
(* request, at the gate, while it waits for a person, between the end of   *)
(* that wait and the removal of the prompt, and while a tool runs.         *)
(***************************************************************************)
EXTENDS FiniteSets, Policy

CONSTANTS
  Users,       \* people whose requests can reach the run
  Owner,       \* the user who started it
  Admins,      \* users with the admin role
  NoUser,
  Hosts,       \* managed hosts
  NoHost,      \* a call that names no host / a conversation without one
  ActiveHost,  \* the conversation's host
  InScope,     \* hosts the owner may act on
  Autonomy,    \* host -> autonomy level
  CallIds,     \* tool-call ids the provider hands out; they may repeat
  NoCall,
  Requests,    \* tool calls the model may ask for
  Edits,       \* commands a person may send with an answer
  NoEdit,      \* an answer that carries no command
  Plans,       \* plans the model may propose
  NoPlan,
  JobCeiling, JobAllow,  \* the job's pre-approved envelope
  MaxIters,    \* MAX_ITERS
  MaxCalls     \* bound: tool calls in one reply

HostTargetable == {"ssh_exec", "write_remote_file", "read_remote_file",
                   "host_health", "write_host_doc"}

PlanShape == [ceiling : Levels, hosts : SUBSET Hosts, allow : SUBSET CommandShape]

(* What the model sends: `known` is whether the toolkit has the tool, plan *)
(* the payload of propose_plan.                                            *)
RequestShape == [id : CallIds, tool : STRING, known : BOOLEAN, args : ArgShape,
                 host : Hosts \cup {NoHost}, intent : Levels, hint : Levels,
                 plan : PlanShape \cup {NoPlan}]

MaxPrompts == 3

ASSUME ActorsAssumption ==
  /\ Owner \in Users /\ Admins \subseteq Users /\ NoUser \notin Users
ASSUME HostsAssumption ==
  /\ InScope \subseteq Hosts /\ NoHost \notin Hosts
  /\ ActiveHost \in Hosts \cup {NoHost}
  /\ Autonomy \in [Hosts -> AutonomyLevels]
ASSUME RequestsAssumption ==
  /\ \A r \in Requests : r \in RequestShape
  /\ \A c \in Edits : c \in CommandShape
  /\ \A p \in Plans : p \in PlanShape
  /\ \A r \in Requests : r.tool = "propose_plan" => r.plan \in Plans
  /\ NoPlan \notin PlanShape /\ NoEdit \notin CommandShape
ASSUME JobAssumption ==
  /\ JobCeiling \in Levels
  /\ \A c \in JobAllow : c \in CommandShape
  /\ MaxIters \in Nat /\ MaxCalls \in Nat

VARIABLES
  pc,          \* where the agent thread is
  iter, left,  \* LLM rounds begun; calls of the last reply still to take
  call,        \* the call in hand
  pending,     \* run.pending: the open prompt of a call id, if any
  stopFlag,    \* run.stop_flag
  stopping,    \* users whose stop request has set the flag, not yet woken waiters
  autoApprove, \* run.auto_approve
  envelope,    \* run.envelope
  unattended,  \* run.unattended: a job's run, not a conversation's
  bridged,     \* a run the Telegram bridge started, whose buttons answer it
  row,         \* the audit row written for the call in hand
  deferred,    \* run.deferred_count
  audited,     \* deferrals with their audit row
  recorded,    \* deferrals the on_defer callback stored
  brought,     \* history: calls a job has brought to the gate
  settled,     \* history: those it has carried out or refused
  card,        \* history: the prompt last shown for the call in hand
  answered,    \* history: call ids some prompt was shown for earlier
  sessionBy    \* history: who asked not to be asked again

tally == <<deferred, audited, recorded, brought, settled>>
agentVars == <<iter, left, call, envelope, row, tally, card>>
sharedVars == <<unattended, bridged, pending, stopFlag, stopping, autoApprove, answered, sessionBy>>
vars == <<pc, agentVars, sharedVars>>

NoRow == [decision |-> "none", by |-> NoUser, stale |-> FALSE]
NoCard == [risk |-> Safe, host |-> NoHost, open |-> FALSE]
NoPrompt == [open |-> FALSE, decision |-> "none", woken |-> FALSE,
             command |-> NoCommand, by |-> NoUser, stale |-> FALSE]

Decisions == {"approve", "approve_session", "deny"}

MayControl(u) == u \in Admins \/ u = Owner

(* confirm() does not ask may_control of a caller who is None: the bridge, *)
(* when the account it acts as is gone and no administrator is left.       *)
MayAnswer(u) == MayControl(u) \/ (bridged /\ u = NoUser)

(* _resolve_target: the host a call acts on, and when naming one fails.    *)
NamesHost(r) == r.tool \in HostTargetable /\ r.host # NoHost
TargetFails(r) == NamesHost(r) /\ r.host # ActiveHost /\ r.host \notin InScope
TargetOf(r) == IF NamesHost(r) THEN r.host ELSE ActiveHost

AutonomyOf(h) == IF h \in Hosts THEN Autonomy[h] ELSE "default"

Gated(risk, host) == NeedsConfirmation(risk, AutonomyOf(host)) /\ ~autoApprove

Covered(risk, cmd, host) ==
  envelope # NoPlan /\ EnvelopeCovers(envelope.plan, risk, cmd, host)

Init ==
  /\ pc = "top" /\ iter = 0 /\ left = 0
  /\ call = NoCall
  /\ pending = [i \in CallIds |-> NoPrompt]
  /\ stopFlag = FALSE /\ stopping = {} /\ autoApprove = FALSE
  /\ envelope = NoPlan
  /\ unattended \in BOOLEAN /\ bridged \in BOOLEAN /\ ~(unattended /\ bridged)
  /\ row = NoRow /\ card = NoCard
  /\ deferred = 0 /\ audited = 0 /\ recorded = 0 /\ brought = 0 /\ settled = 0
  /\ answered = {} /\ sessionBy = NoUser
-----------------------------------------------------------------------------
(***************************************************************************)
(* The agent thread.                                                       *)
(***************************************************************************)
(* Leave the call in hand; its result goes back to the model. *)
CallOver ==
  /\ pc' = "reply"
  /\ call' = NoCall /\ row' = NoRow /\ card' = NoCard

RunOver ==
  /\ pc' = "done" /\ left' = 0
  /\ call' = NoCall /\ row' = NoRow /\ card' = NoCard

(* Head of the MAX_ITERS loop: the step limit, then the stop flag. *)
LoopTop ==
  /\ pc = "top"
  /\ \/ /\ iter = MaxIters \/ stopFlag
        /\ RunOver
        /\ UNCHANGED iter
     \/ /\ iter < MaxIters /\ ~stopFlag
        /\ pc' = "chat" /\ iter' = iter + 1
        /\ UNCHANGED <<left, call, row, card>>
  /\ UNCHANGED <<envelope, tally, sharedVars>>

(* The reply asks for n tools, or is the final answer or an LLMError. *)
LlmReply ==
  /\ pc = "chat"
  /\ \/ \E n \in 1 .. MaxCalls : /\ left' = n
                                 /\ pc' = "reply"
                                 /\ UNCHANGED <<call, row, card>>
     \/ RunOver
  /\ UNCHANGED <<iter, envelope, tally, sharedVars>>

ReplyDone ==
  /\ pc = "reply"
  /\ left = 0 \/ stopFlag
  /\ pc' = "top" /\ left' = 0
  /\ UNCHANGED <<iter, call, envelope, row, tally, card, sharedVars>>

(* Mutant: Stop is looked at before the LLM request only. *)
TakeCallAnyway(r) ==
  /\ pc = "reply" /\ left > 0
  /\ left' = left - 1
  /\ pc' = "gate"
  /\ call' = [id |-> r.id, tool |-> r.tool, args |-> r.args,
              host |-> TargetOf(r), intent |-> r.intent, hint |-> r.hint,
              plan |-> r.plan, prompts |-> 0,
              risk |-> Classify(r.tool, r.args, r.intent, r.hint)]
  /\ UNCHANGED <<row, card, iter, envelope, tally, sharedVars>>

(* A call of an unknown tool, or for a host out of scope, is an error      *)
(* result; any other is classified and goes to the gate.                   *)
TakeCall(r) ==
  /\ pc = "reply" /\ left > 0 /\ ~stopFlag
  /\ left' = left - 1
  /\ IF ~r.known \/ TargetFails(r)
       THEN CallOver /\ UNCHANGED brought
       ELSE /\ pc' = "gate"
            /\ call' = [id |-> r.id, tool |-> r.tool, args |-> r.args,
                        host |-> TargetOf(r), intent |-> r.intent, hint |-> r.hint,
                        plan |-> r.plan, prompts |-> 0,
                        risk |-> Classify(r.tool, r.args, r.intent, r.hint)]
            /\ brought' = IF unattended THEN brought + 1 ELSE brought
            /\ UNCHANGED <<row, card>>
  /\ UNCHANGED <<iter, envelope, deferred, audited, recorded, settled, sharedVars>>

StartTool(decision, by, stale) ==
  /\ pc' = "running"
  /\ row' = [decision |-> decision, by |-> by, stale |-> stale]

IsPlan == call.tool = "propose_plan"

Defers == /\ unattended /\ ~IsPlan
          /\ ~UnattendedRuns(call.risk, JobCeiling, JobAllow, call.args.command)

(* Mutant: a deferral is told to the sink and not counted. *)
DefersUncounted ==
  /\ pc = "gate" /\ unattended /\ Defers
  /\ audited' = audited + 1
  /\ recorded' \in {recorded, recorded + 1}
  /\ CallOver
  /\ UNCHANGED <<iter, left, envelope, deferred, brought, settled, sharedVars>>

(* A job's own envelope governs: run, or count the deferral, audit it and  *)
(* tell the on_defer sink, whose failure is swallowed.  A job cannot have  *)
(* a plan approved.                                                        *)
UnattendedGate ==
  /\ pc = "gate" /\ unattended
  /\ \/ /\ ~Defers
        /\ settled' = settled + 1
        /\ IF IsPlan THEN CallOver
                     ELSE StartTool("auto", NoUser, FALSE) /\ UNCHANGED <<call, card>>
        /\ UNCHANGED <<deferred, audited, recorded>>
     \/ /\ Defers
        /\ deferred' = deferred + 1 /\ audited' = audited + 1
        /\ recorded' \in {recorded, recorded + 1}
        /\ CallOver
        /\ UNCHANGED settled
  /\ UNCHANGED <<iter, left, envelope, brought, sharedVars>>

(* One pass of the confirmation loop that does not have to ask. *)
GatePasses ==
  /\ pc = "gate" /\ ~unattended /\ ~IsPlan
  /\ IF Gated(call.risk, call.host)
       THEN Covered(call.risk, call.args.command, call.host)
            /\ StartTool("envelope", envelope.by, FALSE)
       ELSE StartTool("auto", NoUser, FALSE)
  /\ UNCHANGED <<iter, left, call, envelope, tally, card, sharedVars>>

(* Register the prompt, then show it. *)
GateAsks ==
  /\ pc = "gate" /\ ~unattended
  /\ IsPlan \/ /\ Gated(call.risk, call.host)
               /\ ~Covered(call.risk, call.args.command, call.host)
  /\ pc' = "waiting"
  /\ pending' = [pending EXCEPT ![call.id] =
                   [NoPrompt EXCEPT !.open = TRUE,
                      !.command = IF IsPlan THEN NoCommand ELSE call.args.command]]
  /\ call' = [call EXCEPT !.prompts = @ + 1]
  /\ card' = [risk |-> call.risk, host |-> call.host, open |-> TRUE]
  /\ UNCHANGED <<iter, left, envelope, row, tally,
                 unattended, bridged, stopFlag, stopping, autoApprove, answered, sessionBy>>

(* ev.wait returns True, the event was set, or False after CONFIRM_TIMEOUT. *)
Wake ==
  /\ pc = "waiting" /\ pending[call.id].woken
  /\ pc' = "woken"
  /\ UNCHANGED <<agentVars, sharedVars>>

(* Mutant: CONFIRM_TIMEOUT is lost. *)
NoTimeout == FALSE /\ UNCHANGED vars

Timeout ==
  /\ pc = "waiting" /\ ~pending[call.id].woken
  /\ pc' = "expired"
  /\ UNCHANGED <<agentVars, sharedVars>>
-----------------------------------------------------------------------------
(* pending.pop: what is in the prompt now is the decision, if any. *)
PopPrompt ==
  /\ pc \in {"woken", "expired"}
  /\ pending' = [pending EXCEPT ![call.id] = NoPrompt]
  /\ answered' = answered \cup {call.id}
  /\ UNCHANGED <<unattended, bridged, iter, left, tally,
                 stopFlag, stopping, autoApprove, sessionBy>>

Answer == pending[call.id]

(* Mutant: only silence declines. *)
Unanswered == Answer.decision = "none"

Declined == Answer.decision \in {"none", "deny"}

(* Denied, unanswered or, for a plan, declined. *)
TakeRefusal ==
  /\ PopPrompt /\ Declined
  /\ CallOver
  /\ UNCHANGED <<envelope>>

TakePlanApproval ==
  /\ PopPrompt /\ ~Declined /\ IsPlan
  /\ envelope' = [plan |-> [call.plan EXCEPT !.ceiling = ClampCeiling(@),
                              !.hosts = IF @ = {} THEN {call.host} \cap Hosts ELSE @],
                  by |-> Answer.by]
  /\ CallOver

(* The command the approver typed, and the risk it has. *)
EditedArgs == [call.args EXCEPT !.command = Answer.command]
EditedRisk == Classify(call.tool, EditedArgs, call.intent, call.hint)

(* Mutant: an edited command is not classified again. *)
NeverAsksAgain == FALSE

(* An edit that changed the risk to one that still needs approval is asked *)
(* again, MaxPrompts times in all; every other approval runs the tool.     *)
AsksAgain == EditedRisk # call.risk /\ Gated(EditedRisk, call.host)

TakeApproval ==
  /\ PopPrompt /\ ~Declined /\ ~IsPlan /\ ~AsksAgain
  /\ call' = [call EXCEPT !.args = EditedArgs, !.risk = EditedRisk]
  /\ StartTool("approved", Answer.by, Answer.stale)
  /\ UNCHANGED <<envelope, card>>

TakeRiskierEdit ==
  /\ PopPrompt /\ ~Declined /\ ~IsPlan /\ AsksAgain
  /\ IF call.prompts = MaxPrompts
       THEN CallOver
       ELSE /\ pc' = "gate"
            /\ call' = [call EXCEPT !.args = EditedArgs, !.risk = EditedRisk]
            /\ UNCHANGED <<row, card>>
  /\ UNCHANGED <<envelope>>

TakeAnswer == TakeRefusal \/ TakePlanApproval \/ TakeApproval \/ TakeRiskierEdit

(* The tool returns (its own exceptions are results) and is journalled. *)
ToolReturns ==
  /\ pc = "running"
  /\ CallOver
  /\ UNCHANGED <<iter, left, envelope, tally, sharedVars>>

(* Any other exception, such as a failed write to the database, finishes   *)
(* the run: after the prompt is gone or the deferral counted, if it was    *)
(* the audit row that could not be written.                                *)
AgentFails ==
  /\ pc \in {"top", "chat", "reply", "gate", "woken", "expired", "running"}
  /\ RunOver
  /\ pending' = IF pc \in {"woken", "expired"}
                  THEN [pending EXCEPT ![call.id] = NoPrompt] ELSE pending
  /\ deferred' \in IF pc = "gate" /\ Defers THEN {deferred, deferred + 1} ELSE {deferred}
  /\ UNCHANGED <<unattended, bridged, iter, envelope, audited, recorded, brought, settled,
                 stopFlag, stopping, autoApprove, answered, sessionBy>>
-----------------------------------------------------------------------------
(* Mutant: whoever knows the run may answer (may_control is not asked). *)
ConfirmByAnyone(u, i, decision, cmd, stale) ==
  /\ ~unattended /\ ~stale /\ cmd = NoEdit
  /\ pending[i].open
  /\ pending' = [pending EXCEPT ![i] =
                   [@ EXCEPT !.decision = decision, !.woken = TRUE, !.by = u]]
  /\ UNCHANGED <<pc, agentVars, unattended, bridged, stopFlag, stopping, autoApprove, answered, sessionBy>>

(***************************************************************************)
(* Requests from other threads.  A job's run is not in RUNS, so no request *)
(* finds it.                                                               *)
(***************************************************************************)
(* POST /api/agent/confirm or a Telegram button: the decision is stored if *)
(* a prompt is open under that id, whichever prompt the answer was meant   *)
(* for.  stale: the person answered an earlier prompt with the same id.  A *)
(* button carries no command.                                              *)
Confirm(u, i, decision, cmd, stale) ==
  /\ ~unattended /\ MayAnswer(u)
  /\ u = NoUser => cmd = NoEdit
  /\ pending[i].open
  /\ stale => i \in answered
  /\ pending' = [pending EXCEPT ![i] =
                   [open |-> TRUE, decision |-> decision, woken |-> TRUE,
                    command |-> IF cmd = NoEdit THEN @.command ELSE cmd,
                    by |-> u, stale |-> stale]]
  /\ IF decision = "approve_session"
       THEN autoApprove' = TRUE /\ sessionBy' = u
       ELSE UNCHANGED <<autoApprove, sessionBy>>
  /\ UNCHANGED <<pc, agentVars, unattended, bridged, stopFlag, stopping, answered>>

StopSetsFlag(u) ==
  /\ ~unattended /\ MayControl(u) /\ u \notin stopping
  /\ stopFlag' = TRUE
  /\ stopping' = stopping \cup {u}
  /\ UNCHANGED <<pc, agentVars, unattended, bridged, pending, autoApprove, answered, sessionBy>>

(* setdefault('decision', 'deny') finds the key present: only the event is set. *)
StopWakes(u) ==
  /\ u \in stopping
  /\ stopping' = stopping \ {u}
  /\ pending' = [i \in CallIds |-> [pending[i] EXCEPT !.woken = @ \/ pending[i].open]]
  /\ UNCHANGED <<pc, agentVars, unattended, bridged, stopFlag, autoApprove, answered, sessionBy>>

Finished == pc = "done" /\ UNCHANGED vars

Thread ==
  \/ LoopTop \/ LlmReply \/ ReplyDone
  \/ \E r \in Requests : TakeCall(r)
  \/ UnattendedGate \/ GatePasses \/ GateAsks
  \/ Wake \/ Timeout \/ TakeAnswer
  \/ ToolReturns

People ==
  \/ \E u \in Users \cup {NoUser}, i \in CallIds, d \in Decisions,
        c \in Edits \cup {NoEdit}, s \in BOOLEAN : Confirm(u, i, d, c, s)
  \/ \E u \in Users : StopSetsFlag(u) \/ StopWakes(u)

Next == Thread \/ AgentFails \/ People \/ Finished

Spec == Init /\ [][Next]_vars

(* The LLM client, the tools and the wait for a person all have timeouts,  *)
(* so the thread keeps moving; nobody has to answer.                       *)
FairSpec == Spec /\ WF_vars(Thread)
-----------------------------------------------------------------------------
AgentPcs == {"top", "chat", "reply", "gate", "waiting", "woken", "expired", "running", "done"}

CallShape == [id : CallIds, tool : STRING, args : ArgShape, host : Hosts \cup {NoHost},
              intent : Levels, hint : Levels, plan : PlanShape \cup {NoPlan},
              prompts : Nat, risk : Levels]

ASSUME NoCallAssumption == NoCall \notin CallShape

PromptShape == [open : BOOLEAN, decision : Decisions \cup {"none"}, woken : BOOLEAN,
                command : CommandShape, by : Users \cup {NoUser}, stale : BOOLEAN]

EnvelopeShape == [plan : PlanShape, by : Users \cup {NoUser}]

ASSUME NoEnvelopeAssumption == NoPlan \notin EnvelopeShape

RowShape == [decision : {"none", "auto", "envelope", "approved"},
             by : Users \cup {NoUser}, stale : BOOLEAN]

CardShape == [risk : Levels, host : Hosts \cup {NoHost}, open : BOOLEAN]

Busy == pc \in {"gate", "waiting", "woken", "expired", "running"}

CallOK == IF Busy THEN /\ call \in CallShape
                       /\ IsPlan => call.plan \in PlanShape
                  ELSE call = NoCall

(* Every variable of the run holds a value the code can put there. *)
TypeOK ==
  /\ pc \in AgentPcs
  /\ iter \in Nat /\ left \in Nat
  /\ deferred \in Nat /\ audited \in Nat /\ recorded \in Nat
  /\ brought \in Nat /\ settled \in Nat
  /\ CallOK
  /\ pending \in [CallIds -> PromptShape]
  /\ unattended \in BOOLEAN /\ bridged \in BOOLEAN /\ stopFlag \in BOOLEAN /\ autoApprove \in BOOLEAN
  /\ stopping \subseteq Users /\ answered \subseteq CallIds
  /\ envelope = NoPlan \/ envelope \in EnvelopeShape
  /\ row \in RowShape /\ card \in CardShape
  /\ sessionBy \in Users \cup {NoUser}

Waiting == pc \in {"waiting", "woken", "expired"}
Runs(decision) == pc = "running" /\ row.decision = decision

(***************************************************************************)
(* Safety.                                                                 *)
(***************************************************************************)
(* The gate (_run_tool): while a tool runs, either policy let it through,  *)
(* or somebody who may control this run waived the questions, approved a   *)
(* plan that covers this action on this host, or approved this call; in a  *)
(* job, the pre-approved envelope covers it.  Somebody is the owner or an  *)
(* administrator, in a run of the Telegram bridge also a whitelisted sender*)
(* while the bridge has no account to act as.                              *)
RunsOnlyWithAuthority ==
  pc = "running" =>
    IF unattended
      THEN Runs("auto") /\ UnattendedRuns(call.risk, JobCeiling, JobAllow, call.args.command)
      ELSE \/ /\ Runs("auto")
              /\ \/ ~NeedsConfirmation(call.risk, AutonomyOf(call.host))
                 \/ autoApprove /\ MayAnswer(sessionBy)
           \/ /\ Runs("envelope")
              /\ Covered(call.risk, call.args.command, call.host)
              /\ MayAnswer(envelope.by)
           \/ Runs("approved") /\ MayAnswer(row.by)

(* Editing a card cannot smuggle a command past its risk: whatever runs    *)
(* carries the level its final arguments have, and if that level needs     *)
(* approval, the approval answered a card that showed this level and host. *)
ApprovedAtItsOwnRisk ==
  pc = "running" =>
    /\ call.risk = Classify(call.tool, call.args, call.intent, call.hint)
    /\ \/ ~Runs("approved")
       \/ ~Gated(call.risk, call.host)
       \/ card = [risk |-> call.risk, host |-> call.host, open |-> TRUE]

(* A plan never authorises a critical action it does not list, nor any     *)
(* action on a host it does not name, whatever ceiling the model asked for.*)
PlanStaysInside ==
  Runs("envelope") =>
    /\ call.risk = Critical => call.args.command \in envelope.plan.allow
    /\ envelope.plan.hosts # {} => call.host \in envelope.plan.hosts

(* run.pending holds the prompt the thread waits on and nothing else, so   *)
(* no answer finds a prompt whose waiter is gone.                          *)
OnlyTheAwaitedPrompt ==
  \A i \in CallIds : pending[i].open <=> (Waiting /\ i = call.id)

(* A job never waits for a person, and no action it skipped goes unsaid,   *)
(* even when the record for the inbox is lost (core._run_tool, "the defer  *)
(* is already recorded"): every call it brought to the gate was carried    *)
(* out, refused as a plan, or counted in its report, and each counted one  *)
(* has its audit row; only an exception at the gate, which ends the run as *)
(* failed, loses the call in hand or its row.                              *)
JobNeverWaits ==
  unattended =>
    /\ ~Waiting
    /\ recorded <= audited
    /\ deferred - audited \in IF pc = "done" THEN {0, 1} ELSE {0}
    /\ brought - (settled + deferred) \in CASE pc = "gate" -> {1}
                                             [] pc = "done" -> {0, 1}
                                             [] OTHER       -> {0}

(***************************************************************************)
(* What a step may never do.                                               *)
(***************************************************************************)
(* After Stop the thread finishes the call in hand at most: it takes no    *)
(* further call and does not ask the model again.                          *)
StopEndsTheLoop ==
  [][stopFlag => /\ pc' = "chat" => pc = "chat"
                 /\ call = NoCall => call' = NoCall]_vars

(* Once the run is over no answer, however late, changes its authority.    *)
LateAnswersAreInert ==
  [][pc = "done" => UNCHANGED <<pc, autoApprove, envelope, pending>>]_vars

(* A refusal is final for the call: the step that reads a denial, or no    *)
(* answer, neither runs the tool nor installs the plan.                    *)
DenialIsFinal ==
  [][/\ pc \in {"woken", "expired"} /\ Answer.decision \in {"none", "deny"}
     => /\ pc' \in {pc, "reply", "done"} /\ envelope' = envelope]_vars

(***************************************************************************)
(* The run implements the abstract gate.                                   *)
(***************************************************************************)
StageOf ==
  CASE pc = "gate"                             -> "judging"
    [] pc \in {"waiting", "woken", "expired"} -> "asking"
    [] pc = "running"                          -> "acting"
    [] pc = "done"                             -> "over"
    [] OTHER                                   -> "idle"

(* Whether the action in hand needs a person's word: in a job, when its    *)
(* own envelope does not cover it; a plan always does.                     *)
IsSerious ==
  Busy /\ IF unattended THEN IsPlan \/ Defers
          ELSE IsPlan \/ NeedsConfirmation(call.risk, AutonomyOf(call.host))

VerdictOf ==
  IF ~Waiting THEN "none"
  ELSE CASE pending[call.id].decision = "none" -> "none"
         [] pending[call.id].decision = "deny" -> "no"
         [] OTHER                              -> "yes"

StandingOf == (IF autoApprove THEN {"session"} ELSE {})
              \cup (IF envelope = NoPlan THEN {} ELSE {"plan"})

Gate == INSTANCE ApprovalGate WITH
          stage <- StageOf, serious <- IsSerious,
          verdict <- VerdictOf, standing <- StandingOf

(* Whatever the order in which prompts, answers, edits, Stop and the       *)
(* timeout meet, every step of the run is one the abstract gate allows:    *)
(* nothing that needs a person's word is carried out without it, a word    *)
(* counts only while the run asks for it, and after the end none does.     *)
ImplementsGate == Gate!Spec

(***************************************************************************)
(* Liveness.                                                               *)
(***************************************************************************)
(* Every run finishes, answered or not. *)
EveryRunEnds == <>(pc = "done")

(***************************************************************************)
(* What the documents say and the code does not do.                        *)
(***************************************************************************)
(* The confirmation card shows the action that its answer lets run         *)
(* (README, core._run_tool "approve the real thing").                      *)
AnswerIsForThisCard == Runs("approved") => ~row.stale
=============================================================================
