--------------------------- MODULE TelegramBridge ---------------------------
(***************************************************************************)
(* The Telegram bridge (telegrambot.py): the loop that polls Telegram for  *)
(* updates, the thread that handles each of them, the host a chat selects  *)
(* with /use and the runs its instructions start.  Telegram keeps an       *)
(* update until a later request asks for what follows it; the program      *)
(* remembers what it asked for, and the selections, in memory only.        *)
(*                                                                         *)
(* The buttons of approvals are in DeferredInbox and AgentRun; commands    *)
(* that only list something are left out.                                  *)
(***************************************************************************)
EXTENDS Accounts, Sequences

CONSTANTS
  Chats,       \* chats of people who may be on the whitelist
  Hosts, NoHost,
  BotName,     \* settings: act_as
  Messages,    \* what people may send
  Unsure,      \* a chat cannot tell which host it works on
  MaxUpdates   \* bound: updates sent

MessageShape == [chat : Chats, kind : {"use", "ask"}, host : Hosts \cup {NoHost}]

ASSUME BridgeAssumption ==
  /\ \A m \in Messages : m \in MessageShape
  /\ NoHost \notin Hosts /\ Unsure \notin Hosts \cup {NoHost}
  /\ MaxUpdates \in Nat

UpdateIds == 1 .. MaxUpdates

VARIABLES
  sent,        \* Telegram: the updates, their ids are their places
  confirmed,   \* Telegram: updates below are forgotten
  offset,      \* _offset
  batch,       \* ids the poll loop has fetched and not yet handed to threads
  handling,    \* the thread of each update
  selected,    \* _chat_host
  hosts,       \* table hosts
  enabled, whitelist, \* settings
  taken,       \* history: times an update was handed out in this life of the process
  everTaken,   \* history: updates handed to a thread at some time
  tangled,     \* history: the /use that overlapped another of their chat
  belief,      \* history: the host a chat was last told it works on
  expects      \* history: the belief an instruction was sent with

bridgeVars == <<sent, confirmed, offset, batch, handling, selected, hosts, enabled, whitelist,
                taken, everTaken, tangled, belief, expects>>
vars == <<accountVars, bridgeVars>>

Idle == [pc |-> "idle"]
Done == [pc |-> "done"]

Init ==
  /\ AccountsInit
  /\ sent = <<>> /\ confirmed = 1 /\ offset = 0 /\ batch = <<>>
  /\ handling = [i \in UpdateIds |-> Idle]
  /\ selected = [c \in Chats |-> NoHost]
  /\ hosts = Hosts /\ enabled = TRUE /\ whitelist = Chats
  /\ taken = [i \in UpdateIds |-> 0] /\ everTaken = {} /\ tangled = {}
  /\ belief = [c \in Chats |-> NoHost]
  /\ expects = [i \in UpdateIds |-> Unsure]

Sent == 1 .. Len(sent)
ChatOf(i) == sent[i].chat
Kind(kind, c) == {i \in Sent : sent[i].kind = kind /\ ChatOf(i) = c}

(* Updates that a thread has not finished with. *)
Open(i) == i \in Sent /\ handling[i] # Done
OpenUses(c) == {i \in Kind("use", c) : Open(i)}

(* The account the bot acts as: the one configured, else an administrator. *)
BotUsers == LET named == {u \in Uids : Exists(u) /\ users[u].name = BotName}
            IN  IF named # {} THEN named ELSE Admins
-----------------------------------------------------------------------------
(***************************************************************************)
(* People and Telegram.                                                    *)
(***************************************************************************)
(* A chat that sends /use cannot tell where its next instructions will go  *)
(* until it has the reply.                                                 *)
Wonders(cs) == belief' = [c \in Chats |-> IF c \in cs THEN Unsure ELSE belief[c]]

Sends(m) ==
  /\ Len(sent) < MaxUpdates /\ Spends
  /\ sent' = Append(sent, m)
  /\ IF m.kind = "use"
       THEN /\ Wonders({m.chat})
            /\ tangled' = IF OpenUses(m.chat) = {} THEN tangled
                          ELSE tangled \cup OpenUses(m.chat) \cup {Len(sent) + 1}
            /\ UNCHANGED expects
       ELSE /\ expects' = [expects EXCEPT ![Len(sent) + 1] = belief[m.chat]]
            /\ UNCHANGED <<belief, tangled>>
  /\ UNCHANGED <<users, form, confirmed, offset, batch, handling, selected, hosts, enabled,
                 whitelist, taken, everTaken>>

(* Settings and the inventory change. *)
Turn ==
  /\ Spends
  /\ \/ enabled' = ~enabled /\ UNCHANGED <<whitelist, hosts>>
     \/ /\ \E c \in Chats : whitelist' \in {whitelist \cup {c}, whitelist \ {c}}
        /\ whitelist' # whitelist
        /\ UNCHANGED <<enabled, hosts>>
     \/ \E h \in hosts : hosts' = hosts \ {h} /\ UNCHANGED <<enabled, whitelist>>
  /\ UNCHANGED <<users, form, sent, confirmed, offset, batch, handling, selected,
                 taken, everTaken, tangled, belief, expects>>
-----------------------------------------------------------------------------
(***************************************************************************)
(* The poll loop.                                                          *)
(***************************************************************************)
PollState == <<accountVars, sent, selected, hosts, enabled, whitelist, tangled, belief,
               expects>>

Later(a, b) == IF a > b THEN a ELSE b

(* getUpdates(offset): Telegram forgets what is below the offset and       *)
(* answers with all the rest.                                              *)
Polls ==
  /\ enabled /\ batch = <<>>
  /\ confirmed' = Later(confirmed, offset)
  /\ batch' = [k \in 1 .. (Len(sent) - confirmed' + 1) |-> confirmed' + k - 1]
  /\ UNCHANGED <<PollState, offset, handling, taken, everTaken>>

(* The answer is lost on its way. *)
PollFails ==
  /\ enabled /\ batch = <<>>
  /\ confirmed' = Later(confirmed, offset)
  /\ UNCHANGED <<PollState, offset, batch, handling, taken, everTaken>>

(* Mutant: the offset is that of the update itself. *)
OffsetByOne(i) == i

(* Mutant: the whole batch is acknowledged with its first update. *)
OffsetOfBatch(i) == Len(sent) + 1

OffsetAfter(i) == i + 1

(* Each update moves the offset and gets a thread of its own. *)
HandsOut ==
  /\ batch # <<>>
  /\ LET i == Head(batch) IN
       /\ offset' = OffsetAfter(i)
       /\ handling' = [handling EXCEPT ![i] = [pc |-> "new"]]
       /\ taken' = [taken EXCEPT ![i] = @ + 1]
       /\ everTaken' = everTaken \cup {i}
  /\ batch' = Tail(batch)
  /\ UNCHANGED <<PollState, confirmed>>

(* The process dies with its threads.  What Telegram still keeps will be   *)
(* handled, perhaps again.                                                 *)
Restart ==
  /\ Spends
  /\ offset' = 0 /\ batch' = <<>>
  /\ selected' = [c \in Chats |-> NoHost]
  /\ handling' = [i \in UpdateIds |-> IF i \in Sent /\ i < confirmed THEN Done ELSE Idle]
  /\ taken' = [i \in UpdateIds |-> 0]
  /\ LET Again(c) == {i \in Kind("use", c) : i >= confirmed}
     IN  /\ Wonders({c \in Chats : Again(c) # {}})
         /\ tangled' = tangled \cup UNION {Again(c) : c \in {d \in Chats : Cardinality(Again(d)) > 1}}
  /\ form' = [f \in Forms |-> NoForm]
  /\ UNCHANGED <<users, sent, confirmed, hosts, enabled, whitelist, everTaken, expects>>
-----------------------------------------------------------------------------
(***************************************************************************)
(* The thread that handles one update.                                     *)
(***************************************************************************)
ThreadState == <<accountVars, sent, confirmed, offset, batch, hosts, enabled, whitelist,
                 taken, everTaken, tangled, expects>>

Becomes(i, state) == handling' = [handling EXCEPT ![i] = state]

(* _handle: people who are not on the whitelist are told so. *)
Refuses(i) ==
  /\ handling[i].pc = "new" /\ ChatOf(i) \notin whitelist
  /\ Becomes(i, Done)
  /\ UNCHANGED <<ThreadState, selected, belief>>

Admits(i) ==
  /\ handling[i].pc = "new" /\ ChatOf(i) \in whitelist
  /\ Becomes(i, [pc |-> sent[i].kind])
  /\ UNCHANGED <<ThreadState, selected, belief>>

(* /use: the host is looked up for the account the bot acts as. *)
Finds(i) ==
  /\ handling[i].pc = "use" /\ sent[i].host \in hosts \cup {NoHost}
  /\ Becomes(i, [pc |-> "found"])
  /\ UNCHANGED <<ThreadState, selected, belief>>

FindsNone(i) ==
  /\ handling[i].pc = "use" /\ sent[i].host \notin hosts \cup {NoHost}
  /\ Becomes(i, Done)
  /\ UNCHANGED <<ThreadState, selected, belief>>

(* Mutant: one selection for all chats. *)
SelectsForAll(i) ==
  /\ handling[i].pc = "found"
  /\ selected' = [c \in Chats |-> sent[i].host]
  /\ Becomes(i, [pc |-> "told"])
  /\ UNCHANGED <<ThreadState, belief>>

Selects(i) ==
  /\ handling[i].pc = "found"
  /\ selected' = [selected EXCEPT ![ChatOf(i)] = sent[i].host]
  /\ Becomes(i, [pc |-> "told"])
  /\ UNCHANGED <<ThreadState, belief>>

(* "Now working on ...": the chat knows where it is unless it has sent     *)
(* another /use meanwhile.                                                 *)
Tells(i) ==
  /\ handling[i].pc = "told"
  /\ belief' = [belief EXCEPT ![ChatOf(i)] = IF i \in tangled THEN @ ELSE sent[i].host]
  /\ Becomes(i, Done)
  /\ UNCHANGED <<ThreadState, selected>>

(* _run_agent: the account and the chat's host, which may be gone. *)
Prepares(i) ==
  /\ handling[i].pc = "ask"
  /\ \/ BotUsers = {} /\ Becomes(i, Done)
     \/ \E u \in BotUsers :
          Becomes(i, [pc |-> "ready", user |-> u, named |-> selected[ChatOf(i)],
                      host |-> IF selected[ChatOf(i)] \in hosts THEN selected[ChatOf(i)] ELSE NoHost])
  /\ UNCHANGED <<ThreadState, selected, belief>>

(* The conversation's row refers to the host selected, found or not, and   *)
(* to the account: if one is gone the INSERT fails and nobody is told.     *)
Storable(r) == r.named \in hosts \cup {NoHost} /\ Exists(r.user)

Starts(i) ==
  /\ handling[i].pc = "ready" /\ Storable(handling[i])
  /\ Becomes(i, Done)
  /\ UNCHANGED <<ThreadState, selected, belief>>

StartFails(i) ==
  /\ handling[i].pc = "ready" /\ ~Storable(handling[i])
  /\ Becomes(i, Done)
  /\ UNCHANGED <<ThreadState, selected, belief>>

Handles(i) ==
  \/ Refuses(i) \/ Admits(i)
  \/ Finds(i) \/ FindsNone(i) \/ Selects(i) \/ Tells(i)
  \/ Prepares(i) \/ Starts(i) \/ StartFails(i)

Poller == Polls \/ HandsOut

Next ==
  \/ \E m \in Messages : Sends(m)
  \/ Turn \/ Restart
  \/ Poller \/ PollFails
  \/ \E i \in UpdateIds : Handles(i)
  \/ AccountsNext /\ UNCHANGED bridgeVars

Spec == Init /\ [][Next]_vars

(* The loop never ends and never waits for a handler. *)
FairSpec == Spec /\ WF_vars(Polls) /\ WF_vars(HandsOut)
-----------------------------------------------------------------------------
HandlerShape ==
  [pc : {"idle", "done", "new", "use", "ask", "found", "told"}]
  \cup [pc : {"ready"}, user : Uids, named : Hosts \cup {NoHost}, host : Hosts \cup {NoHost}]

(* Every variable of the bridge and of the accounts keeps its shape. *)
TypeOK ==
  /\ AccountsTypeOK
  /\ sent \in Seq(MessageShape) /\ Len(sent) <= MaxUpdates
  /\ confirmed \in 1 .. MaxUpdates + 1 /\ offset \in 0 .. MaxUpdates + 1
  /\ batch \in Seq(UpdateIds)
  /\ handling \in [UpdateIds -> HandlerShape]
  /\ selected \in [Chats -> Hosts \cup {NoHost}]
  /\ hosts \subseteq Hosts /\ enabled \in BOOLEAN /\ whitelist \subseteq Chats
  /\ taken \in [UpdateIds -> Nat] /\ everTaken \subseteq UpdateIds /\ tangled \subseteq UpdateIds
  /\ belief \in [Chats -> Hosts \cup {NoHost, Unsure}]
  /\ expects \in [UpdateIds -> Hosts \cup {NoHost, Unsure}]

(* As long as the process lives no update is handled twice, whatever       *)
(* answers of Telegram were lost: an instruction is not carried out again. *)
HandledOncePerLife == \A i \in UpdateIds : taken[i] <= 1

(* An instruction sent when the chat had been told it works on a host runs *)
(* on that host or, if the host or the selection was lost, on none; only a *)
(* /use sent after it, whose thread has overtaken the instruction's, can   *)
(* bring it to another.  No earlier /use does, nor one of another chat,    *)
(* however threads, lost answers and restarts interleave.                  *)
LaterUses(i) == {k \in Kind("use", ChatOf(i)) : k > i}

RunsWhereTold ==
  [][\A i \in UpdateIds : Starts(i) /\ expects[i] # Unsure
       => handling[i].host \in {expects[i], NoHost} \cup {sent[k].host : k \in LaterUses(i)}]_vars

(* Nothing that was sent is lost between Telegram and a thread: an update  *)
(* is handed out in the end, lost answers and restarts notwithstanding,    *)
(* once the bridge is left enabled.                                        *)
EveryUpdateIsTaken ==
  \A i \in UpdateIds : <>[]enabled => (i \in Sent ~> i \in everTaken)
=============================================================================
