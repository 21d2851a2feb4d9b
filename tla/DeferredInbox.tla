--------------------------- MODULE DeferredInbox ---------------------------
(***************************************************************************)
(* The deferred-approvals inbox of schedule.py: what unattended runs put   *)
(* in it, and the web requests and Telegram callbacks that approve or deny *)
(* its rows.  Each decision runs on a thread of its own and takes several  *)
(* statements of the database; an approval can also add the command to the *)
(* allow-list of the job, whose row people edit at the same time.          *)
(***************************************************************************)
EXTENDS Naturals

CONSTANTS
  Jobs, NoJob,   \* scheduled jobs; a service-check repair defers for no job
  Commands,
  Ceilings,      \* ceilings a job may have
  Dids,          \* bound: ids of deferred_actions rows
  Unused, Gone,  \* no row yet; deleted with its job (ON DELETE CASCADE)
  Actors,        \* bound: threads deciding at the same time
  Editors, NoEdit, \* PUT requests in flight at the same time
  Chats,         \* whitelisted Telegram chats
  NoChat,
  Tokens, NoToken, \* bound: tokens for one row
  MaxRestarts    \* bound

Statuses == {"pending", "approved", "denied"}
Rows == [job : Jobs \cup {NoJob}, command : Commands, status : Statuses]
JobRows == [ceiling : Ceilings, allow : SUBSET Commands]
Changes == [ceiling : Ceilings] \cup [allow : SUBSET Commands]
Verbs == {"approve", "deny"}

ASSUME InboxAssumption ==
  /\ NoToken \notin Tokens /\ Ceilings \subseteq Nat /\ NoJob \notin Jobs /\ NoChat \notin Chats
  /\ {Unused, Gone} \cap (Rows \cup JobRows) = {} /\ Unused # Gone
  /\ NoEdit \notin [job : Jobs, row : JobRows]

VARIABLES
  jobs,     \* the jobs table
  rows,     \* the deferred_actions table
  tokens,   \* _pending: the buttons, a row and a token, that still work in each chat
  at,       \* the deciding threads
  edits,    \* the PUT requests between update()'s read and its write
  restarts, \* bound
  ran,      \* history: executions of each deferred action
  audits,   \* history: audit rows of each decision on it
  lost      \* history: actions whose decision a restart cut short

inboxVars == <<jobs, rows, tokens, at, edits, restarts, ran, audits, lost>>

Free == [pc |-> "idle"]

HasStatus(d, status) == rows[d] \in Rows /\ rows[d].status = status
JobExists(j) == j \in Jobs /\ jobs[j] # Gone
Row(a) == at[a].row
Goto(a, pc) == at' = [at EXCEPT ![a].pc = pc]

InboxInit ==
  /\ jobs \in [Jobs -> JobRows]
  /\ rows = [d \in Dids |-> Unused]
  /\ tokens = [c \in Chats |-> {}]
  /\ at = [a \in Actors |-> Free]
  /\ edits = [e \in Editors |-> NoEdit]
  /\ restarts = 0
  /\ ran = [d \in Dids |-> 0]
  /\ audits = [d \in Dids |-> [v \in Verbs |-> 0]]
  /\ lost = {}

(* A new token, bound to its chat: none is used twice. *)
Fresh(c, k) == /\ \A b \in tokens[c] : b.token # k
               /\ \A a \in Actors : at[a].pc = "token" => at[a].token # k

(* record_deferred: the row, and a button in every chat.  A job deleted    *)
(* while it runs fails the foreign key, and nothing is recorded.           *)
Defers(d, j, cmd, k) ==
  /\ rows[d] = Unused
  /\ j = NoJob \/ JobExists(j)
  /\ \A c \in Chats : Fresh(c, k)
  /\ rows' = [rows EXCEPT ![d] = [job |-> j, command |-> cmd, status |-> "pending"]]
  /\ tokens' = [c \in Chats |-> tokens[c] \cup {[did |-> d, token |-> k]}]
  /\ UNCHANGED <<jobs, at, edits, restarts, ran, audits, lost>>

(* /approvals: another button for each pending row. *)
ListsApprovals(c, k) ==
  /\ Fresh(c, k)
  /\ tokens' = [tokens EXCEPT ![c] = @ \cup
                  {[did |-> d, token |-> k] : d \in {e \in Dids : HasStatus(e, "pending")}}]
  /\ UNCHANGED <<jobs, rows, at, edits, restarts, ran, audits, lost>>

(* TOKEN_TTL, or MAX_PENDING buttons since. *)
TokenExpires(c, b) ==
  /\ b \in tokens[c]
  /\ tokens' = [tokens EXCEPT ![c] = @ \ {b}]
  /\ UNCHANGED <<jobs, rows, at, edits, restarts, ran, audits, lost>>
-----------------------------------------------------------------------------
Request(d, verb, add, chat, token) ==
  [pc |-> IF chat = NoChat THEN "look" ELSE "token", did |-> d, verb |-> verb, add |-> add,
   chat |-> chat, token |-> token,
   row |-> Unused, allow |-> {}, job |-> Gone]

WebDecides(a, d, verb, add) ==
  /\ at[a].pc = "idle" /\ rows[d] # Unused
  /\ add => verb = "approve"
  /\ at' = [at EXCEPT ![a] = Request(d, verb, add, NoChat, NoToken)]
  /\ UNCHANGED <<jobs, rows, tokens, edits, restarts, ran, audits, lost>>

(* _take_token finds the token, and pops it in a step of its own. *)
Press(a, c, b, verb) ==
  /\ at[a].pc = "idle" /\ b \in tokens[c]
  /\ at' = [at EXCEPT ![a] = Request(b.did, verb, FALSE, c, b.token)]
  /\ UNCHANGED <<jobs, rows, tokens, edits, restarts, ran, audits, lost>>

PopsToken(a) ==
  /\ at[a].pc = "token"
  /\ tokens' = [tokens EXCEPT ![at[a].chat] = @ \ {[did |-> at[a].did, token |-> at[a].token]}]
  /\ Goto(a, "look")
  /\ UNCHANGED <<jobs, rows, edits, restarts, ran, audits, lost>>

(* The row is read once; the decision works on what it said. *)
Looks(a) ==
  /\ at[a].pc = "look"
  /\ LET row == rows[at[a].did]
         then == IF at[a].verb = "deny" THEN "deny" ELSE "run"
     IN  at' = [at EXCEPT ![a] = IF row \in Rows /\ row.status = "pending"
                                   THEN [@ EXCEPT !.row = row, !.pc = then] ELSE Free]
  /\ UNCHANGED <<jobs, rows, tokens, edits, restarts, ran, audits, lost>>

(* The tool runs, well or not; it is skipped when it or its host is gone. *)
RunsTool(a) ==
  /\ at[a].pc = "run"
  /\ ran' \in {ran, [ran EXCEPT ![at[a].did] = @ + 1]}
  /\ Goto(a, "mark")
  /\ UNCHANGED <<jobs, rows, tokens, edits, restarts, audits, lost>>

SetStatus(d, status) ==
  rows' = [rows EXCEPT ![d] = IF @ \in Rows THEN [@ EXCEPT !.status = status] ELSE @]

(* Whatever the row says by now, it becomes approved. *)
Marks(a) ==
  /\ at[a].pc = "mark"
  /\ SetStatus(at[a].did, "approved")
  /\ Goto(a, IF at[a].add /\ Row(a).job # NoJob THEN "allow" ELSE "audit")
  /\ UNCHANGED <<jobs, tokens, edits, restarts, ran, audits, lost>>

(* Mutant: the UPDATE of a denial does not ask for a pending row. *)
DeniesWhatever(a) ==
  /\ at[a].pc = "deny"
  /\ SetStatus(at[a].did, "denied")
  /\ Goto(a, "audit")
  /\ UNCHANGED <<jobs, tokens, edits, restarts, ran, audits, lost>>

Denies(a) ==
  /\ at[a].pc = "deny"
  /\ IF HasStatus(at[a].did, "pending")
       THEN SetStatus(at[a].did, "denied") ELSE UNCHANGED rows
  /\ Goto(a, "audit")
  /\ UNCHANGED <<jobs, tokens, edits, restarts, ran, audits, lost>>

(* get(job): the list the command is to join. *)
ReadsAllow(a) ==
  /\ at[a].pc = "allow"
  /\ LET j == Row(a).job
     IN  at' = [at EXCEPT ![a] =
                  IF JobExists(j) /\ Row(a).command \notin jobs[j].allow
                    THEN [@ EXCEPT !.pc = "merge", !.allow = jobs[j].allow \cup {Row(a).command}]
                    ELSE [@ EXCEPT !.pc = "audit"]]
  /\ UNCHANGED <<jobs, rows, tokens, edits, restarts, ran, audits, lost>>

(* update(): read the row, then write every column of it. *)
ReadsJob(a) ==
  /\ at[a].pc = "merge"
  /\ LET j == Row(a).job
     IN  at' = [at EXCEPT ![a] = IF JobExists(j) THEN [@ EXCEPT !.pc = "write", !.job = jobs[j]]
                                            ELSE [@ EXCEPT !.pc = "audit"]]
  /\ UNCHANGED <<jobs, rows, tokens, edits, restarts, ran, audits, lost>>

Stored(j, row) == jobs' = [jobs EXCEPT ![j] = IF JobExists(j) THEN row ELSE @]

WritesJob(a) ==
  /\ at[a].pc = "write"
  /\ LET j == Row(a).job
     IN  Stored(j, [at[a].job EXCEPT !.allow = at[a].allow])
  /\ Goto(a, "audit")
  /\ UNCHANGED <<rows, tokens, edits, restarts, ran, audits, lost>>

(* Mutant: only the web page audits what it decides. *)
AuditsWebOnly(a) ==
  /\ at[a].pc = "audit"
  /\ audits' = IF at[a].chat = NoChat
                 THEN [audits EXCEPT ![at[a].did][at[a].verb] = @ + 1] ELSE audits
  /\ at' = [at EXCEPT ![a] = Free]
  /\ UNCHANGED <<jobs, rows, tokens, edits, restarts, ran, lost>>

Audits(a) ==
  /\ at[a].pc = "audit"
  /\ audits' = [audits EXCEPT ![at[a].did][at[a].verb] = @ + 1]
  /\ at' = [at EXCEPT ![a] = Free]
  /\ UNCHANGED <<jobs, rows, tokens, edits, restarts, ran, lost>>

Decide(a) ==
  \/ PopsToken(a) \/ Looks(a) \/ RunsTool(a) \/ Marks(a) \/ Denies(a)
  \/ ReadsAllow(a) \/ ReadsJob(a) \/ WritesJob(a) \/ Audits(a)
-----------------------------------------------------------------------------
(* PUT /api/jobs/<id>. *)
EditReads(e, j) ==
  /\ edits[e] = NoEdit /\ JobExists(j)
  /\ edits' = [edits EXCEPT ![e] = [job |-> j, row |-> jobs[j]]]
  /\ UNCHANGED <<jobs, rows, tokens, at, restarts, ran, audits, lost>>

EditWrites(e, change) ==
  /\ edits[e] # NoEdit
  /\ LET row == [f \in {"ceiling", "allow"} |->
                   IF f \in DOMAIN change THEN change[f] ELSE edits[e].row[f]]
     IN  Stored(edits[e].job, [ceiling |-> row["ceiling"], allow |-> row["allow"]])
  /\ edits' = [edits EXCEPT ![e] = NoEdit]
  /\ UNCHANGED <<rows, tokens, at, restarts, ran, audits, lost>>

Delete(j) ==
  /\ JobExists(j)
  /\ jobs' = [jobs EXCEPT ![j] = Gone]
  /\ rows' = [d \in Dids |-> IF rows[d] \in Rows /\ rows[d].job = j THEN Gone ELSE rows[d]]
  /\ UNCHANGED <<tokens, at, edits, restarts, ran, audits, lost>>

(* Threads, requests and buttons live in memory. *)
Restart ==
  /\ restarts < MaxRestarts
  /\ restarts' = restarts + 1
  /\ at' = [a \in Actors |-> Free]
  /\ edits' = [e \in Editors |-> NoEdit]
  /\ tokens' = [c \in Chats |-> {}]
  /\ lost' = lost \cup {at[a].did : a \in {b \in Actors : at[b].pc # "idle"}}
  /\ UNCHANGED <<jobs, rows, ran, audits>>

InboxNext ==
  \/ \E d \in Dids, j \in Jobs \cup {NoJob}, cmd \in Commands, k \in Tokens : Defers(d, j, cmd, k)
  \/ \E c \in Chats : \/ \E k \in Tokens : ListsApprovals(c, k)
                      \/ \E b \in tokens[c] : TokenExpires(c, b)
  \/ \E a \in Actors :
       \/ \E d \in Dids, v \in Verbs, add \in BOOLEAN : WebDecides(a, d, v, add)
       \/ \E c \in Chats, v \in Verbs : \E b \in tokens[c] : Press(a, c, b, v)
       \/ Decide(a)
  \/ \E e \in Editors :
       \/ \E j \in Jobs : EditReads(e, j)
       \/ \E change \in Changes : EditWrites(e, change)
  \/ \E j \in Jobs : Delete(j)
  \/ Restart

InboxSpec == InboxInit /\ [][InboxNext]_inboxVars

(* A thread that decides gets to its end: tools have timeouts. *)
InboxFairSpec == InboxSpec /\ \A a \in Actors : WF_inboxVars(Decide(a))
-----------------------------------------------------------------------------
Pcs == {"token", "look", "run", "mark", "deny", "allow", "merge", "write", "audit"}

RequestShape == [pc : Pcs, did : Dids, verb : Verbs, add : BOOLEAN, chat : Chats \cup {NoChat},
                 token : Tokens \cup {NoToken},
                 row : Rows \cup {Unused}, allow : SUBSET Commands, job : JobRows \cup {Gone}]

(* The tables, buttons and threads hold what the code puts there. *)
InboxTypeOK ==
  /\ jobs \in [Jobs -> JobRows \cup {Gone}]
  /\ rows \in [Dids -> Rows \cup {Unused, Gone}]
  /\ tokens \in [Chats -> SUBSET [did : Dids, token : Tokens]]
  /\ at \in [Actors -> RequestShape \cup {Free}]
  /\ edits \in [Editors -> [job : Jobs, row : JobRows] \cup {NoEdit}]
  /\ restarts \in Nat
  /\ ran \in [Dids -> Nat] /\ audits \in [Dids -> [Verbs -> Nat]]
  /\ lost \subseteq Dids

(* Threads that still owe the audit row of their decision on d. *)
Owing(d, verb) == {a \in Actors : /\ at[a].pc \in {"mark", "allow", "merge", "write", "audit"}
                                  /\ at[a].did = d /\ at[a].verb = verb}

(* "Every resolution of a deferred action is audited, whoever approved it" *)
(* (_audit_deferred): a restart apart, an action that was executed, or a   *)
(* row that is resolved, has its audit row or a thread about to write it,  *)
(* even when the row is deleted, or two threads decide at once.            *)
ResolutionsAreAudited ==
  \A d \in Dids \ lost :
    /\ ran[d] > 0 => audits[d]["approve"] > 0 \/ Owing(d, "approve") # {}
    /\ HasStatus(d, "approved") => audits[d]["approve"] > 0 \/ Owing(d, "approve") # {}
    /\ HasStatus(d, "denied") => audits[d]["deny"] > 0 \/ Owing(d, "deny") # {}

(* A denial that comes too late changes nothing: an approved action, which *)
(* was executed, is never recorded as denied (the status test in           *)
(* deny_deferred's UPDATE).                                                *)
ApprovedStaysApproved ==
  [][\A d \in Dids : HasStatus(d, "approved") => rows'[d] = rows[d] \/ rows'[d] = Gone]_inboxVars

(* "Approve once" (the inbox's button): an approved action is executed     *)
(* once.                                                                   *)
ExecutedOnce == \A d \in Dids : ran[d] <= 1
=============================================================================
