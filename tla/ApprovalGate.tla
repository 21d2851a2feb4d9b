---------------------------- MODULE ApprovalGate ----------------------------
(***************************************************************************)
(* What the approval gate promises, whatever threads, prompts, call ids    *)
(* and timeouts it is made of (agent/core.py, README "Safety model"):      *)
(* an action that needs a person's word is carried out only after one, a   *)
(* word is heard only while it is asked for, and the end is the end.       *)
(* AgentRun implements it.                                                 *)
(***************************************************************************)

VARIABLES
  stage,     \* what becomes of the action in hand
  serious,   \* it needs a person's word
  verdict,   \* the word on it
  standing   \* words given for the rest of the run: a session, a plan

vars == <<stage, serious, verdict, standing>>

Init ==
  /\ stage = "idle" /\ serious = FALSE
  /\ verdict = "none" /\ standing = {}

(* The model asks for an action. *)
Consider ==
  /\ stage = "idle"
  /\ stage' = "judging" /\ serious' \in BOOLEAN
  /\ UNCHANGED <<verdict, standing>>

ActUnasked ==
  /\ stage = "judging"
  /\ ~serious \/ standing # {}
  /\ stage' = "acting"
  /\ UNCHANGED <<serious, verdict, standing>>

Ask ==
  /\ stage = "judging" /\ serious
  /\ stage' = "asking"
  /\ UNCHANGED <<serious, verdict, standing>>

(* Somebody whose answer the run takes gives it, perhaps more than once,   *)
(* and perhaps for the rest of the session.                                *)
HearVerdict ==
  /\ stage = "asking"
  /\ verdict' \in {"yes", "no"}
  /\ standing' \in {standing, standing \cup {"session"}}
  /\ standing' # standing => verdict' = "yes"
  /\ UNCHANGED <<stage, serious>>

(* The action, possibly edited by whoever approved it, is carried out. *)
ActApproved ==
  /\ stage = "asking" /\ verdict = "yes"
  /\ stage' = "acting" /\ serious' \in BOOLEAN
  /\ verdict' = "none"
  /\ UNCHANGED standing

(* What was approved is a plan. *)
AdoptPlan ==
  /\ stage = "asking" /\ verdict = "yes"
  /\ stage' = "idle" /\ serious' = FALSE /\ verdict' = "none"
  /\ standing' = standing \cup {"plan"}

(* The edit made another action of it, which is judged on its own. *)
JudgeEdit ==
  /\ stage = "asking" /\ verdict = "yes"
  /\ stage' = "judging" /\ serious' = TRUE /\ verdict' = "none"
  /\ UNCHANGED standing

(* Refused, unanswered, deferred, or carried out. *)
Drop ==
  /\ stage \in {"judging", "asking", "acting"}
  /\ stage' = "idle" /\ serious' = FALSE /\ verdict' = "none"
  /\ UNCHANGED standing

End ==
  /\ stage' = "over" /\ serious' = FALSE /\ verdict' = "none"
  /\ UNCHANGED standing

Next ==
  \/ Consider \/ ActUnasked \/ Ask \/ HearVerdict \/ ActApproved
  \/ AdoptPlan \/ JudgeEdit \/ Drop
  \/ stage # "over" /\ End

Spec == Init /\ [][Next]_vars
=============================================================================
