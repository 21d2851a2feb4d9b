----------------------------- MODULE Playbooks -----------------------------
(***************************************************************************)
(* Playbooks (skills.py, agent/tools/skilltool.py, app.py): the agent      *)
(* saves them with calls that come from LlmClient, people create, edit,    *)
(* approve and delete them.  A save looks a name up and then inserts or    *)
(* updates; an edit reads the row and writes it back.                      *)
(***************************************************************************)
EXTENDS LlmClient

CONSTANTS
  Names, Bodies,
  People,     \* bound: requests of people in flight
  Agent,      \* the agent's thread
  MaxSkills,  \* bound: rows
  NoSkill, Gone

SkillShape == [name : Names, body : Bodies \cup {Half}, approved : BOOLEAN]

ASSUME PlaybookAssumption ==
  /\ Arguments = [name : Names, body : Bodies]
  /\ Agent \notin People /\ Half \notin Bodies
  /\ MaxSkills \in Nat /\ NoSkill # Gone
  /\ NoSkill \notin SkillShape /\ Gone \notin SkillShape

SkillIds == 1 .. MaxSkills

VARIABLES
  skills,     \* table skills
  work,       \* saves and edits under way
  blessed,    \* history: rows a person has approved
  unread      \* history: some reply had an unreadable piece

skillVars == <<skills, work, blessed, unread>>
playbookVars == <<llmVars, skillVars>>

NoWork == [op |-> "none"]
Actors == People \cup {Agent}

PlaybooksInit ==
  /\ LlmInit
  /\ skills = [s \in SkillIds |-> NoSkill]
  /\ work = [a \in Actors |-> NoWork]
  /\ blessed = {} /\ unread = FALSE

Present == {s \in SkillIds : skills[s] \notin {NoSkill, Gone}}
Unused == {s \in SkillIds : skills[s] = NoSkill}
Named(name) == {s \in Present : skills[s].name = name}
First(set) == {s \in set : \A t \in set : s <= t}

Does(a, w) == work' = [work EXCEPT ![a] = w]
Rests(a) == Does(a, NoWork)
-----------------------------------------------------------------------------
(***************************************************************************)
(* skills.save, of the agent and of POST /api/skills: the first row of the *)
(* name, or none.  A save that says nothing of approval keeps what it read *)
(***************************************************************************)
(* Mutant: what the agent saves counts as approved. *)
ApprovesUnasked(say, s) == say # "no"

Approves(say, s) == IF say = "keep" THEN s # 0 /\ skills[s].approved ELSE say = "yes"

Looks(a, args, say) ==
  \E s \in IF Named(args.name) = {} THEN {0} ELSE First(Named(args.name)) :
    Does(a, [op |-> "save", row |-> s, args |-> args, say |-> say, approved |-> Approves(say, s)])

(* The agent's thread runs the calls of the reply one by one; one without  *)
(* a name is refused.                                                      *)
RunsCall ==
  /\ calls # <<>> /\ work[Agent] = NoWork
  /\ IF Head(calls) = NoArgs
       THEN UNCHANGED work
       ELSE \E args \in IF Head(calls) = Half THEN [name : Names, body : {Half}] ELSE {Head(calls)} :
              Looks(Agent, args, "keep")
  /\ calls' = Tail(calls)
  /\ UNCHANGED <<stream, garbled, budget, skills, blessed, unread>>

Posts(a, args, say) ==
  /\ work[a] = NoWork /\ Spends
  /\ Looks(a, args, say)
  /\ UNCHANGED <<stream, calls, garbled, skills, blessed, unread>>

Blesses(s, say) == blessed' = IF say = "yes" THEN blessed \cup {s} ELSE blessed

(* Ids are not used again, and an UPDATE of a row that has gone does       *)
(* nothing.                                                                *)
Saves(a) ==
  LET w == work[a] IN
  /\ w.op = "save"
  /\ \E s \in IF w.row = 0 THEN First(Unused) ELSE {w.row} :
       /\ skills' = [skills EXCEPT ![s] =
                        IF @ = Gone THEN @
                        ELSE [name |-> IF w.row = 0 THEN w.args.name ELSE @.name,
                              body |-> w.args.body, approved |-> w.approved]]
       /\ Blesses(s, w.say)
  /\ Rests(a)
  /\ UNCHANGED <<llmVars, unread>>
-----------------------------------------------------------------------------
(***************************************************************************)
(* PUT and DELETE of /api/skills/<sid>.                                    *)
(***************************************************************************)
RequestKeeps == <<stream, calls, garbled, unread>>

(* set_approved if the request says so; then update, which writes back     *)
(* what it read and the request does not name.                             *)
Puts(a, s, say, change) ==
  /\ work[a] = NoWork /\ Spends /\ s \in Present
  /\ skills' = IF say = "keep" THEN skills ELSE [skills EXCEPT ![s].approved = say = "yes"]
  /\ Blesses(s, say)
  /\ Does(a, [op |-> "edit", row |-> s, change |-> change])
  /\ UNCHANGED RequestKeeps

EditReads(a) ==
  /\ work[a].op = "edit"
  /\ LET w == work[a] IN
       IF skills[w.row] = Gone THEN Rests(a)
       ELSE Does(a, [op |-> "put", row |-> w.row,
                     args |-> IF w.change # NoArgs THEN w.change
                              ELSE [name |-> skills[w.row].name, body |-> skills[w.row].body]])
  /\ UNCHANGED <<llmVars, skills, blessed, unread>>

EditWrites(a) ==
  /\ work[a].op = "put"
  /\ skills' = [skills EXCEPT ![work[a].row] =
                  IF @ = Gone THEN @ ELSE [@ EXCEPT !.name = work[a].args.name, !.body = work[a].args.body]]
  /\ Rests(a)
  /\ UNCHANGED <<llmVars, blessed, unread>>

Deletes(s) ==
  /\ Spends /\ s \in Present
  /\ skills' = [skills EXCEPT ![s] = Gone]
  /\ UNCHANGED <<RequestKeeps, work, blessed>>

PlaybooksNext ==
  \/ /\ \/ work[Agent] = NoWork /\ \E q \in Providers, meant \in Replies : Asks(q, meant)
        \/ Receives
     /\ unread' = (unread \/ garbled')
     /\ UNCHANGED <<skills, work, blessed>>
  \/ RunsCall
  \/ \E a \in Actors : Saves(a) \/ EditReads(a) \/ EditWrites(a)
  \/ \E a \in People, args \in Arguments, say \in {"yes", "no"} : Posts(a, args, say)
  \/ \E a \in People, s \in SkillIds, say \in {"yes", "no", "keep"}, change \in Arguments \cup {NoArgs} :
       Puts(a, s, say, change)
  \/ \E s \in SkillIds : Deletes(s)

PlaybooksSpec == PlaybooksInit /\ [][PlaybooksNext]_playbookVars
-----------------------------------------------------------------------------
GivenShape == [name : Names, body : Bodies \cup {Half}]

WorkShape ==
  {NoWork}
  \cup [op : {"save"}, row : {0} \cup SkillIds, args : GivenShape, say : {"yes", "no", "keep"},
        approved : BOOLEAN]
  \cup [op : {"edit"}, row : SkillIds, change : Arguments \cup {NoArgs}]
  \cup [op : {"put"}, row : SkillIds, args : GivenShape]

(* Rows, saves and the reply keep their shapes. *)
PlaybooksTypeOK ==
  /\ LlmTypeOK
  /\ skills \in [SkillIds -> SkillShape \cup {NoSkill, Gone}]
  /\ work \in [Actors -> WorkShape]
  /\ blessed \subseteq SkillIds /\ unread \in BOOLEAN

(* A body is stored as somebody wrote it, the model or a person: a reply   *)
(* cut off or a row edited by several at once leaves no half of one.       *)
BodiesAreWhole == ~unread => \A s \in Present : skills[s].body # Half

(* Whatever the agent saves, over whichever row and beside whichever       *)
(* request, a playbook is approved only if a person approved that row.     *)
ApprovedByAPerson == \A s \in Present : skills[s].approved => s \in blessed
=============================================================================
