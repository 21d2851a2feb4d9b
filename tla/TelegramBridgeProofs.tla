------------------------ MODULE TelegramBridgeProofs ------------------------
(***************************************************************************)
(* The accounts and the bridge keep their shapes, a name stays one         *)
(* account's, no update is handled twice while the process lives and an    *)
(* instruction runs where its chat was told unless a later /use overtakes  *)
(* it, for any number of accounts, requests, chats and updates.            *)
(***************************************************************************)
EXTENDS TelegramBridge, TLAPS, FiniteSetTheorems, SequenceTheorems

USE AccountsAssumption, BridgeAssumption

-----------------------------------------------------------------------------
(***************************************************************************)
(* Accounts.                                                               *)
(***************************************************************************)
AccountsInv == AccountsTypeOK /\ NamesAreUnique

LEMMA AccountsBegin == AccountsInit => AccountsInv
  BY DEF AccountsInit, AccountsInv, AccountsTypeOK, NamesAreUnique, FormShape, NoForm, Exists

LEMMA FormShapes ==
  ASSUME AccountsTypeOK, NEW f \in Forms
  PROVE  /\ form[f].op = "create" => form[f] \in [op : {"create"}, name : Names, role : Roles]
         /\ form[f].op = "role" => form[f] \in [op : {"role"}, uid : Uids, role : Roles]
         /\ form[f].op \in {"delete", "drop"} => form[f] \in [op : {"delete", "drop"}, uid : Uids]
<1>1. form[f] \in FormShape  BY DEF AccountsTypeOK
<1>2. QED  BY <1>1 DEF FormShape, NoForm

LEMMA AccountsStep ==
  ASSUME AccountsInv, AccountsNext
  PROVE  AccountsInv'
<1> USE DEF AccountsInv, AccountsTypeOK, NamesAreUnique
<1>1. PICK f \in Forms :
        \/ \E by \in Uids, name \in Names, role \in Roles : AsksToCreate(f, by, name, role)
        \/ \E by, u \in Uids, role \in Roles : AsksForRole(f, by, u, role)
        \/ \E by, u \in Uids : AsksToDelete(f, by, u)
        \/ Creates(f) \/ SetsRole(f) \/ Looks(f) \/ KeepsAccount(f) \/ Deletes(f)
  BY DEF AccountsNext
<1>2. ASSUME NEW r \in FormShape, NEW by, Arrives(f, by, r)
      PROVE AccountsInv'
  BY <1>2 DEF Arrives, Spends, Exists
<1>3. CASE \E by \in Uids, name \in Names, role \in Roles : AsksToCreate(f, by, name, role)
  <2>1. PICK by \in Uids, name \in Names, role \in Roles :
          Arrives(f, by, [op |-> "create", name |-> name, role |-> role])
    BY <1>3 DEF AsksToCreate
  <2>2. [op |-> "create", name |-> name, role |-> role] \in FormShape  BY DEF FormShape
  <2>3. QED  BY <1>2, <2>1, <2>2
<1>4. CASE \E by, u \in Uids, role \in Roles : AsksForRole(f, by, u, role)
  <2>1. PICK by \in Uids, u \in Uids, role \in Roles :
          Arrives(f, by, [op |-> "role", uid |-> u, role |-> role])
    BY <1>4 DEF AsksForRole
  <2>2. [op |-> "role", uid |-> u, role |-> role] \in FormShape  BY DEF FormShape
  <2>3. QED  BY <1>2, <2>1, <2>2
<1>5. CASE \E by, u \in Uids : AsksToDelete(f, by, u)
  <2>1. PICK by \in Uids, u \in Uids : Arrives(f, by, [op |-> "delete", uid |-> u])
    BY <1>5 DEF AsksToDelete
  <2>2. [op |-> "delete", uid |-> u] \in FormShape  BY DEF FormShape
  <2>3. QED  BY <1>2, <2>1, <2>2
<1>6. ASSUME FormEnds(f), users' \in [Uids -> AccountShape \cup {Unused, Gone}], NamesAreUnique'
      PROVE AccountsInv'
  BY <1>6 DEF FormEnds, NoForm, FormShape
<1>7. CASE Creates(f)
  <2>1. form[f].name \in Names /\ form[f].role \in Roles  BY <1>7, FormShapes DEF Creates
  <2>2. CASE Taken(form[f].name)
    <3>1. UNCHANGED users  BY <1>7, <2>2 DEF Creates
    <3>2. QED  BY <1>6, <1>7, <3>1 DEF Creates, Exists
  <2>3. CASE ~Taken(form[f].name)
    <3>1. PICK u \in Uids :
            /\ users[u] = Unused
            /\ users' = [users EXCEPT ![u] = [name |-> form[f].name, role |-> form[f].role]]
      BY <1>7, <2>3 DEF Creates
    <3>2. users' \in [Uids -> AccountShape \cup {Unused, Gone}]
      BY <2>1, <3>1 DEF AccountShape
    <3>3. \A v \in Uids : v # u /\ Exists(v)' => users[v].name # form[f].name
      BY <2>3, <3>1 DEF Taken, Exists
    <3>4. users'[u].name = form[f].name /\ \A v \in Uids : v # u => users'[v] = users[v]
      BY <3>1
    <3>5. NamesAreUnique'  BY <3>3, <3>4 DEF Exists
    <3>6. QED  BY <1>6, <1>7, <3>2, <3>5 DEF Creates
  <2>4. QED  BY <2>2, <2>3
<1>8. CASE SetsRole(f)
  <2>1. form[f].uid \in Uids /\ form[f].role \in Roles  BY <1>8, FormShapes DEF SetsRole
  <2>2. users[form[f].uid] \in AccountShape =>
          /\ [users[form[f].uid] EXCEPT !.role = form[f].role] \in AccountShape
          /\ [users[form[f].uid] EXCEPT !.role = form[f].role].name = users[form[f].uid].name
    BY <2>1 DEF AccountShape
  <2>3. users' = [users EXCEPT ![form[f].uid] =
                    IF Exists(form[f].uid) THEN [users[form[f].uid] EXCEPT !.role = form[f].role]
                                           ELSE users[form[f].uid]]
    BY <1>8, <2>1 DEF SetsRole
  <2>4. users' \in [Uids -> AccountShape \cup {Unused, Gone}]
    BY <2>1, <2>2, <2>3 DEF Exists
  <2>5. \A u \in Uids : Exists(u)' => Exists(u) /\ users'[u].name = users[u].name
    BY <2>1, <2>2, <2>3 DEF Exists
  <2>6. NamesAreUnique'  BY <2>5
  <2>7. QED  BY <1>6, <1>8, <2>4, <2>6 DEF SetsRole
<1>9. CASE Looks(f)
  <2>1. form[f].uid \in Uids  BY <1>9, FormShapes DEF Looks
  <2>2. [op |-> "drop", uid |-> form[f].uid] \in FormShape  BY <2>1 DEF FormShape
  <2>3. QED  BY <1>9, <2>2 DEF Looks, Exists
<1>10. CASE KeepsAccount(f)
  BY <1>6, <1>10 DEF KeepsAccount, Exists
<1>11. CASE Deletes(f)
  <2>1. /\ users' \in [Uids -> AccountShape \cup {Unused, Gone}]
        /\ \A u \in Uids : Exists(u)' => users'[u] = users[u]
    BY <1>11 DEF Deletes, Exists
  <2>2. NamesAreUnique'  BY <2>1 DEF Exists
  <2>3. QED  BY <1>6, <1>11, <2>1, <2>2 DEF Deletes
<1>12. QED
  BY <1>1, <1>3, <1>4, <1>5, <1>7, <1>8, <1>9, <1>10, <1>11

-----------------------------------------------------------------------------
(***************************************************************************)
(* The bridge.                                                             *)
(***************************************************************************)
USE DEF AccountsInv

(* Only updates that were sent are fetched and handled. *)
OnlySent ==
  /\ \A k \in DOMAIN batch : batch[k] \in Sent
  /\ \A i \in UpdateIds : handling[i] # Idle \/ taken[i] > 0 => i \in Sent

(* What was fetched is in order and not below the offset, what was handed  *)
(* out is below it.                                                        *)
InOrder ==
  /\ \A k \in DOMAIN batch : batch[k] >= offset
  /\ \A k, l \in DOMAIN batch : k < l => batch[k] < batch[l]
  /\ \A i \in UpdateIds : taken[i] > 0 => i < offset

BridgeInv == TypeOK /\ AccountsInv /\ OnlySent /\ InOrder /\ HandledOncePerLife

LEMMA BridgeBegins == Init => BridgeInv
<1> SUFFICES ASSUME Init PROVE BridgeInv
  OBVIOUS
<1>1. AccountsInv  BY AccountsBegin DEF Init
<1>2. TypeOK  BY <1>1 DEF Init, TypeOK, UpdateIds, HandlerShape, Idle
<1>3. OnlySent /\ InOrder /\ HandledOncePerLife
  BY DEF Init, OnlySent, InOrder, HandledOncePerLife, UpdateIds
<1>4. QED  BY <1>1, <1>2, <1>3 DEF BridgeInv

(* The accounts, when only an event is spent or nothing of them changes.   *)
LEMMA AccountsRest ==
  ASSUME AccountsInv,
         UNCHANGED <<users, form>>, Spends \/ UNCHANGED budget
  PROVE  AccountsInv'
  BY DEF AccountsTypeOK, AccountsInv, NamesAreUnique, Exists, Spends

LEMMA SendsStep ==
  ASSUME BridgeInv, NEW m \in Messages, Sends(m)
  PROVE  BridgeInv'
<1> USE DEF BridgeInv, TypeOK
<1>1. AccountsInv'  BY AccountsRest DEF Sends
<1>2. /\ sent' \in Seq(MessageShape) /\ Len(sent') = Len(sent) + 1 /\ Len(sent') <= MaxUpdates
      /\ \A i \in Sent : i \in Sent'
  BY DEF Sends, Sent
<1>3. Len(sent) + 1 \in UpdateIds  BY <1>2 DEF UpdateIds
<1>4. /\ belief' \in [Chats -> Hosts \cup {NoHost, Unsure}]
      /\ expects' \in [UpdateIds -> Hosts \cup {NoHost, Unsure}]
      /\ tangled' \subseteq UpdateIds
  <2>1. m.chat \in Chats  BY DEF MessageShape
  <2>2. OpenUses(m.chat) \subseteq UpdateIds  BY DEF OpenUses, Kind, Sent, UpdateIds
  <2>3. QED  BY <1>3, <2>1, <2>2 DEF Sends, Wonders
<1>5. TypeOK'  BY <1>1, <1>2, <1>4 DEF Sends
<1>6. (OnlySent /\ InOrder /\ HandledOncePerLife)'
  BY <1>2 DEF Sends, OnlySent, InOrder, HandledOncePerLife
<1>7. QED  BY <1>1, <1>5, <1>6

LEMMA TurnStep ==
  ASSUME BridgeInv, Turn
  PROVE  BridgeInv'
<1> USE DEF BridgeInv, TypeOK
<1>1. AccountsInv'  BY AccountsRest DEF Turn
<1>2. TypeOK'  BY <1>1 DEF Turn
<1>3. (OnlySent /\ InOrder /\ HandledOncePerLife)'
  BY DEF Turn, OnlySent, InOrder, HandledOncePerLife, Sent
<1>4. QED  BY <1>1, <1>2, <1>3

LEMMA RestartStep ==
  ASSUME BridgeInv, Restart
  PROVE  BridgeInv'
<1> USE DEF BridgeInv, TypeOK
<1>1. AccountsInv'
  BY DEF Restart, AccountsTypeOK, AccountsInv, NamesAreUnique, Exists, Spends, FormShape, NoForm
<1>2. handling' \in [UpdateIds -> HandlerShape]
  BY DEF Restart, HandlerShape, Idle, Done
<1>3. /\ belief' \in [Chats -> Hosts \cup {NoHost, Unsure}]
      /\ expects' \in [UpdateIds -> Hosts \cup {NoHost, Unsure}]
  BY DEF Restart, Wonders
<1>4. tangled' \subseteq UpdateIds
  <2>1. \A c \in Chats : Kind("use", c) \subseteq UpdateIds  BY DEF Kind, Sent, UpdateIds
  <2>2. QED  BY <2>1 DEF Restart
<1>5. TypeOK'
  <2>1. /\ UNCHANGED <<users, sent, confirmed, hosts, enabled, whitelist, everTaken>>
        /\ offset' = 0 /\ batch' = <<>> /\ selected' = [c \in Chats |-> NoHost]
        /\ taken' = [i \in UpdateIds |-> 0]
    BY DEF Restart
  <2>2. batch' \in Seq(UpdateIds) /\ offset' \in 0 .. MaxUpdates + 1  BY <2>1
  <2>3. QED  BY <1>1, <1>2, <1>3, <1>4, <2>1, <2>2
<1>6. (OnlySent /\ InOrder /\ HandledOncePerLife)'
  BY DEF Restart, OnlySent, InOrder, HandledOncePerLife, Sent, Idle, Done
<1>7. QED  BY <1>1, <1>5, <1>6

(* The updates Telegram has from one on. *)
LEMMA FetchedFrom ==
  ASSUME NEW len \in Nat, len <= MaxUpdates, NEW from \in Nat, from >= 1,
         NEW b, b = [k \in 1 .. len - from + 1 |-> from + k - 1]
  PROVE  b \in Seq(UpdateIds) /\ (\A k \in DOMAIN b : b[k] = from + k - 1 /\ b[k] \in 1 .. len)
<1>1. PICK n \in Int : n = len - from + 1
  OBVIOUS
<1>2. b = [k \in 1 .. n |-> from + k - 1] /\ DOMAIN b = 1 .. n
  BY <1>1
<1>3. \A k \in 1 .. n : b[k] = from + k - 1 /\ b[k] \in 1 .. len /\ b[k] \in UpdateIds
  BY <1>1, <1>2 DEF UpdateIds
<1>4. CASE n >= 0
  <2>1. n \in Nat  BY <1>4
  <2>2. \A k \in 1 .. n : from + k - 1 \in UpdateIds  BY <1>1 DEF UpdateIds
  <2>3. b \in [1 .. n -> UpdateIds]  BY <1>2, <2>2, Zenon
  <2>4. [1 .. n -> UpdateIds] \in {[1 .. m -> UpdateIds] : m \in Nat}  BY <2>1, Zenon
  <2>5. b \in Seq(UpdateIds)  BY <2>3, <2>4, SeqDef, Zenon
  <2>6. QED  BY <1>2, <1>3, <2>5
<1>5. CASE n < 0
  <2>1. 1 .. n = {}  BY <1>5
  <2>2. b \in [1 .. 0 -> UpdateIds]  BY <1>2, <2>1
  <2>3. QED  BY <1>2, <2>1, <2>2, SeqDef
<1>6. QED  BY <1>4, <1>5

(* What Telegram is asked for and answers. *)
LEMMA PollStep ==
  ASSUME BridgeInv, Polls \/ PollFails
  PROVE  BridgeInv'
<1> USE DEF BridgeInv, TypeOK
<1>1. confirmed' \in 1 .. MaxUpdates + 1 /\ confirmed' >= offset
  BY DEF Polls, PollFails, Later
<1>2. ASSUME Polls
      PROVE /\ batch' \in Seq(UpdateIds)
            /\ \A k \in DOMAIN batch' : batch'[k] = confirmed' + k - 1 /\ batch'[k] \in Sent
  <2>1. Len(sent) \in Nat /\ confirmed' \in Nat /\ confirmed' >= 1  BY <1>1, MaxUpdates \in Nat
  <2>2. batch' = [k \in 1 .. Len(sent) - confirmed' + 1 |-> confirmed' + k - 1]  BY <1>2 DEF Polls
  <2>3. QED  BY <2>1, <2>2, FetchedFrom DEF Sent
<1>3. UNCHANGED <<PollState, offset, handling, taken, everTaken>>
  BY DEF Polls, PollFails
<1>4. AccountsInv'
  BY <1>3, AccountsRest DEF PollState, accountVars
<1>5. batch' \in Seq(UpdateIds)  BY <1>2 DEF PollFails
<1>6. TypeOK'  BY <1>1, <1>3, <1>4, <1>5 DEF PollState
<1>7. Sent' = Sent  BY <1>3 DEF PollState, Sent
<1>8. OnlySent' /\ InOrder' /\ HandledOncePerLife'
  <2>1. CASE Polls
    <3>1. \A k \in DOMAIN batch' : k \in Nat /\ k >= 1
      BY <1>5
    <3>2. offset \in Nat /\ confirmed' \in Nat  BY <1>1
    <3>3. \A k \in DOMAIN batch' : batch'[k] = confirmed' + k - 1  BY <1>2, <2>1
    <3>4. InOrder'  BY <1>1, <1>3, <3>1, <3>2, <3>3 DEF InOrder
    <3>5. OnlySent'  BY <1>2, <1>3, <1>7, <2>1 DEF OnlySent
    <3>6. QED  BY <1>3, <3>4, <3>5 DEF HandledOncePerLife
  <2>2. CASE PollFails
    BY <1>3, <1>7, <2>2 DEF PollFails, OnlySent, InOrder, HandledOncePerLife
  <2>3. QED  BY <2>1, <2>2
<1>9. QED  BY <1>4, <1>6, <1>8

LEMMA HandsOutStep ==
  ASSUME BridgeInv, HandsOut
  PROVE  BridgeInv'
<1> USE DEF BridgeInv, TypeOK
<1>1. batch # <<>> /\ batch \in Seq(UpdateIds)  BY DEF HandsOut
<1> DEFINE i == batch[1]
<1>2. 1 \in DOMAIN batch /\ i = Head(batch) /\ i \in UpdateIds /\ i \in Sent /\ i >= offset
  BY <1>1 DEF OnlySent, InOrder
<1>3. /\ batch' \in Seq(UpdateIds)
      /\ \A k \in DOMAIN batch' : k + 1 \in DOMAIN batch /\ batch'[k] = batch[k + 1]
  BY <1>1 DEF HandsOut
<1>4. /\ offset' = i + 1 /\ handling' = [handling EXCEPT ![i] = [pc |-> "new"]]
      /\ taken' = [taken EXCEPT ![i] = @ + 1] /\ everTaken' = everTaken \cup {i}
      /\ UNCHANGED <<PollState, confirmed>>
  BY <1>2 DEF HandsOut, OffsetAfter
<1>5. AccountsInv'
  BY <1>4, AccountsRest DEF PollState, accountVars
<1>6. handling' \in [UpdateIds -> HandlerShape] /\ offset' \in 0 .. MaxUpdates + 1
  BY <1>2, <1>4 DEF HandlerShape, UpdateIds
<1> HIDE DEF i
<1>7. taken[i] = 0  BY <1>2 DEF InOrder, UpdateIds
<1>8. TypeOK'  BY <1>2, <1>3, <1>4, <1>5, <1>6 DEF PollState
<1>9. Sent' = Sent  BY <1>4 DEF PollState, Sent
<1>10. OnlySent'  BY <1>2, <1>3, <1>4, <1>9 DEF OnlySent
<1>11. InOrder'
  <2>1. \A k \in DOMAIN batch' : batch'[k] > i
    BY <1>1, <1>2, <1>3 DEF InOrder, i
  <2>2. \A k \in DOMAIN batch' : batch'[k] \in UpdateIds /\ k \in Nat  BY <1>3
  <2>3. \A k \in DOMAIN batch' : batch'[k] >= offset'
    BY <1>2, <1>4, <2>1, <2>2 DEF UpdateIds
  <2>4. \A k, l \in DOMAIN batch' : k < l => batch'[k] < batch'[l]
    BY <1>3, <2>2 DEF InOrder
  <2>5. \A j \in UpdateIds : taken'[j] > 0 => j < offset'
    BY <1>2, <1>4 DEF InOrder, UpdateIds
  <2>6. QED  BY <2>3, <2>4, <2>5 DEF InOrder
<1>12. HandledOncePerLife'  BY <1>2, <1>4, <1>7 DEF HandledOncePerLife
<1>13. QED  BY <1>5, <1>8, <1>10, <1>11, <1>12

(* The thread of an update. *)
LEMMA HandlesStep ==
  ASSUME BridgeInv, NEW i \in UpdateIds, Handles(i)
  PROVE  BridgeInv'
<1> USE DEF BridgeInv, TypeOK
<1>1. handling[i] \in HandlerShape
  OBVIOUS
<1>2. handling[i] # Idle
  BY <1>1 DEF Handles, Refuses, Admits, Finds, FindsNone, Selects, Tells, Prepares, Starts,
              StartFails, Idle
<1>3. i \in Sent /\ sent[i] \in MessageShape
  BY <1>2 DEF OnlySent, Sent
<1>4. /\ sent[i].kind \in {"use", "ask"} /\ ChatOf(i) \in Chats
      /\ sent[i].host \in Hosts \cup {NoHost}
  BY <1>3 DEF MessageShape, ChatOf
<1>5. UNCHANGED ThreadState
  BY DEF Handles, Refuses, Admits, Finds, FindsNone, Selects, Tells, Prepares, Starts, StartFails
<1>6. \E state \in HandlerShape \ {Idle} : Becomes(i, state)
  <2>1. \A pc \in {"done", "use", "ask", "found", "told"} : [pc |-> pc] \in HandlerShape \ {Idle}
    BY DEF HandlerShape, Idle
  <2>2. CASE Prepares(i)
    <3>1. CASE Becomes(i, Done)  BY <2>1, <3>1 DEF Done
    <3>2. ASSUME NEW u \in BotUsers,
                 Becomes(i, [pc |-> "ready", user |-> u, named |-> selected[ChatOf(i)],
                      host |-> IF selected[ChatOf(i)] \in hosts THEN selected[ChatOf(i)] ELSE NoHost])
          PROVE \E state \in HandlerShape \ {Idle} : Becomes(i, state)
      <4>1. u \in Uids /\ selected[ChatOf(i)] \in Hosts \cup {NoHost}
        BY <1>4 DEF BotUsers, Admins
      <4>2. QED  BY <3>2, <4>1 DEF HandlerShape, Idle
    <3>3. QED  BY <2>2, <3>1, <3>2 DEF Prepares
  <2>3. CASE Admits(i)
    BY <1>4, <2>1, <2>3 DEF Admits
  <2>4. CASE Refuses(i) \/ FindsNone(i) \/ Tells(i) \/ Starts(i) \/ StartFails(i)
    BY <2>1, <2>4 DEF Refuses, FindsNone, Tells, Starts, StartFails, Done
  <2>5. CASE Finds(i) \/ Selects(i)
    BY <2>1, <2>5 DEF Finds, Selects
  <2>6. QED  BY <2>2, <2>3, <2>4, <2>5 DEF Handles
<1>7. selected' \in [Chats -> Hosts \cup {NoHost}]
  BY <1>4 DEF Handles, Refuses, Admits, Finds, FindsNone, Selects, Tells, Prepares, Starts, StartFails
<1>8. belief' \in [Chats -> Hosts \cup {NoHost, Unsure}]
  BY <1>4 DEF Handles, Refuses, Admits, Finds, FindsNone, Selects, Tells, Prepares, Starts, StartFails
<1>9. AccountsInv'
  BY <1>5, AccountsRest DEF ThreadState, accountVars
<1>10. PICK state \in HandlerShape \ {Idle} : handling' = [handling EXCEPT ![i] = state]
  BY <1>6 DEF Becomes
<1>11. TypeOK'
  BY <1>5, <1>7, <1>8, <1>9, <1>10 DEF ThreadState
<1>12. (OnlySent /\ InOrder /\ HandledOncePerLife)'
  BY <1>3, <1>5, <1>10 DEF ThreadState, OnlySent, InOrder, HandledOncePerLife, Sent
<1>13. QED  BY <1>9, <1>11, <1>12

LEMMA OtherStep ==
  ASSUME BridgeInv, (AccountsNext /\ UNCHANGED bridgeVars) \/ UNCHANGED vars
  PROVE  BridgeInv'
<1>1. AccountsInv'
  BY AccountsStep, AccountsRest DEF BridgeInv, TypeOK, vars, accountVars
<1>2. UNCHANGED bridgeVars  BY DEF vars
<1>3. TypeOK'  BY <1>1, <1>2 DEF BridgeInv, TypeOK, bridgeVars
<1>4. (OnlySent /\ InOrder /\ HandledOncePerLife)'
  BY <1>2 DEF BridgeInv, bridgeVars, OnlySent, InOrder, HandledOncePerLife, Sent
<1>5. QED  BY <1>1, <1>3, <1>4 DEF BridgeInv

LEMMA BridgeStep == BridgeInv /\ [Next]_vars => BridgeInv'
<1> SUFFICES ASSUME BridgeInv, [Next]_vars PROVE BridgeInv'
  OBVIOUS
<1>1. CASE \E m \in Messages : Sends(m)  BY <1>1, SendsStep
<1>2. CASE Turn  BY <1>2, TurnStep
<1>3. CASE Restart  BY <1>3, RestartStep
<1>4. CASE Poller \/ PollFails  BY <1>4, PollStep, HandsOutStep DEF Poller
<1>5. CASE \E i \in UpdateIds : Handles(i)  BY <1>5, HandlesStep
<1>6. CASE AccountsNext /\ UNCHANGED bridgeVars  BY <1>6, OtherStep
<1>7. CASE UNCHANGED vars  BY <1>7, OtherStep
<1>8. QED  BY <1>1, <1>2, <1>3, <1>4, <1>5, <1>6, <1>7 DEF Next

(* The accounts, the updates and their threads keep their shapes. *)
THEOREM BridgeTyped == Spec => []TypeOK
<1>1. BridgeInv => TypeOK  BY DEF BridgeInv
<1>2. QED  BY <1>1, BridgeBegins, BridgeStep, PTL DEF Spec

(* While the process lives, no lost answer of Telegram and no order of     *)
(* polls and threads makes it handle an update twice.                      *)
THEOREM OncePerLife == Spec => []HandledOncePerLife
<1>1. BridgeInv => HandledOncePerLife  BY DEF BridgeInv
<1>2. QED  BY <1>1, BridgeBegins, BridgeStep, PTL DEF Spec

(* A name stays one account's, however the requests of administrators      *)
(* interleave (auth.create_user and the UNIQUE of users.username).         *)
THEOREM NamesStayUnique == Spec => []NamesAreUnique
<1>1. BridgeInv => NamesAreUnique  BY DEF BridgeInv
<1>2. QED  BY <1>1, BridgeBegins, BridgeStep, PTL DEF Spec
-----------------------------------------------------------------------------
(***************************************************************************)
(* What a chat was told and what its instructions do.                      *)
(***************************************************************************)
(* A thread that selects is that of a /use, and an update is not fetched   *)
(* once it is done with.                                                   *)
ThreadsFit ==
  /\ \A i \in UpdateIds : handling[i].pc \in {"use", "found", "told"} => sent[i].kind = "use"
  /\ \A i \in UpdateIds : handling[i] # Idle => taken[i] > 0 \/ i < confirmed
  /\ \A k \in DOMAIN batch : batch[k] >= confirmed

(* Two open /use of a chat are known to overlap.  A chat that knows where  *)
(* it is has none open, and its selection is the one it knows of or lost.  *)
SelectionsKnown ==
  /\ \A c \in Chats : \A i, j \in OpenUses(c) : i # j => i \in tangled
  /\ \A c \in Chats : belief[c] # Unsure => OpenUses(c) = {} /\ selected[c] \in {belief[c], NoHost}
  /\ \A i \in UpdateIds \ tangled : handling[i].pc = "told" => selected[ChatOf(i)] = sent[i].host

(* The /use a chat believes in is the only one of its chat that a restart  *)
(* can bring back: one that overlaps no other is the last, and Telegram    *)
(* was told of those before it when it was fetched.                        *)
Fetched(k) == taken[k] > 0 \/ \E x \in DOMAIN batch : batch[x] = k

UsesInOrder ==
  /\ \A c \in Chats : \A k \in OpenUses(c) \ tangled, j \in Kind("use", c) : j <= k
  /\ \A c \in Chats : \A k \in Kind("use", c) \ tangled :
       Fetched(k) => \A j \in Kind("use", c) : j < k => j < confirmed
  /\ \A c \in Chats : belief[c] # Unsure =>
       \A k \in Kind("use", c) : k >= confirmed => sent[k].host = belief[c]

(* Where an instruction may run: whatever its chat has selected and what   *)
(* any /use that is or may come to be open selects is among it.            *)
Reach(i) == {expects[i], NoHost} \cup {sent[k].host : k \in LaterUses(i)}

ExpectationsHold ==
  /\ \A i \in UpdateIds \ Sent : expects[i] = Unsure
  /\ \A i \in Sent : expects[i] # Unsure =>
       /\ selected[ChatOf(i)] \in Reach(i)
       /\ \A k \in Kind("use", ChatOf(i)) :
            Open(k) \/ k >= confirmed => sent[k].host \in Reach(i)
  /\ \A i \in UpdateIds : handling[i].pc = "ready" /\ expects[i] # Unsure
                            => handling[i].host \in Reach(i)

KnownInv == ThreadsFit /\ SelectionsKnown /\ UsesInOrder /\ ExpectationsHold
TrustInv == BridgeInv /\ KnownInv

(* What was sent is a message of a chat. *)
LEMMA SentShapes ==
  ASSUME TypeOK, NEW i \in Sent
  PROVE  /\ i \in UpdateIds /\ ChatOf(i) \in Chats /\ sent[i].host \in Hosts \cup {NoHost}
         /\ sent[i].kind \in {"use", "ask"}
<1>1. sent[i] \in MessageShape /\ i \in UpdateIds  BY DEF TypeOK, Sent, UpdateIds
<1>2. QED  BY <1>1 DEF ChatOf, MessageShape

(* A set with two members has more than one. *)
LEMMA TwoAreMany ==
  ASSUME NEW S, IsFiniteSet(S), NEW i \in S, NEW j \in S, i # j
  PROVE  Cardinality(S) > 1
<1> DEFINE both == {i} \cup {j}
<1>1. Cardinality({i}) = 1 /\ IsFiniteSet({i})  BY FS_Singleton
<1>2. Cardinality(both) = Cardinality({i}) + 1  BY <1>1, FS_AddElement
<1>3. both \subseteq S  OBVIOUS
<1> HIDE DEF both
<1>4. Cardinality(both) <= Cardinality(S) /\ Cardinality(S) \in Nat
  BY <1>3, FS_Subset, FS_CardinalityType
<1>5. QED  BY <1>1, <1>2, <1>4

LEMMA TrustBegins == Init => TrustInv
<1> SUFFICES ASSUME Init PROVE TrustInv
  OBVIOUS
<1>1. BridgeInv  BY BridgeBegins
<1>2. Sent = {} /\ \A kind, c : Kind(kind, c) = {}  BY DEF Init, Sent, Kind
<1>3. ThreadsFit /\ SelectionsKnown /\ UsesInOrder /\ ExpectationsHold
  BY <1>2 DEF Init, ThreadsFit, SelectionsKnown, UsesInOrder, ExpectationsHold, OpenUses, Idle
<1>4. QED  BY <1>1, <1>3 DEF TrustInv, KnownInv

(* When no message is sent the messages, and where the instructions may    *)
(* run, stay what they are.                                                *)
LEMMA NothingSent ==
  ASSUME UNCHANGED <<sent, expects>>
  PROVE  /\ Sent' = Sent
         /\ \A i : ChatOf(i)' = ChatOf(i) /\ LaterUses(i)' = LaterUses(i) /\ Reach(i)' = Reach(i)
         /\ \A kind, c : Kind(kind, c)' = Kind(kind, c)
<1>1. Sent' = Sent  BY DEF Sent
<1>2. \A i : ChatOf(i)' = ChatOf(i)  BY DEF ChatOf
<1>3. \A kind, c : Kind(kind, c)' = Kind(kind, c)  BY <1>1, <1>2 DEF Kind
<1>4. \A i : LaterUses(i)' = LaterUses(i)  BY <1>2, <1>3 DEF LaterUses
<1>5. \A i : Reach(i)' = Reach(i)  BY <1>4 DEF Reach
<1>6. QED  BY <1>1, <1>2, <1>3, <1>4, <1>5

(* Steps after which as much is open or may be opened again as before, or  *)
(* less, leave the expectations met, if what was selected stays.           *)
LEMMA ExpectationsRest ==
  ASSUME TrustInv, UNCHANGED <<sent, expects>>,
         \A c \in Chats : selected'[c] \in {selected[c], NoHost},
         \A i \in Sent : Open(i)' \/ i >= confirmed' => Open(i) \/ i >= confirmed,
         \A i \in UpdateIds : handling'[i].pc = "ready" => handling'[i] = handling[i]
  PROVE  ExpectationsHold'
<1>1. \A i \in Sent : ChatOf(i) \in Chats  BY SentShapes DEF TrustInv, BridgeInv
<1>2. \A i \in Sent : Kind("use", ChatOf(i)) \subseteq Sent  BY DEF Kind
<1>3. \A i : NoHost \in Reach(i)  BY DEF Reach
<1>4. QED
  BY <1>1, <1>2, <1>3, NothingSent DEF TrustInv, KnownInv, ExpectationsHold

(* A message arrives: it is open, and so far nobody works on it. *)
LEMMA SendsTrusts ==
  ASSUME TrustInv, NEW m \in Messages, Sends(m)
  PROVE  KnownInv'
<1>0. PICK n : n = Len(sent) + 1  OBVIOUS
<1> USE DEF TrustInv, KnownInv, BridgeInv, TypeOK
<1>1. /\ n \in UpdateIds /\ n \notin Sent /\ Sent' = Sent \cup {n} /\ Sent \subseteq UpdateIds
      /\ sent'[n] = m /\ \A i \in Sent : sent'[i] = sent[i] /\ i < n
      /\ m.chat \in Chats
  BY <1>0 DEF Sends, Sent, UpdateIds, MessageShape
<1>2. UNCHANGED <<confirmed, batch, handling, selected, taken>>  BY DEF Sends
<1>3. handling[n] = Idle  BY <1>1 DEF OnlySent
<1>4. \A i \in UpdateIds : handling[i].pc \in {"use", "found", "told", "ready"} => i \in Sent
  BY DEF OnlySent, Idle
<1>5. ~Fetched(n)' /\ \A k \in Sent : Fetched(k)' <=> Fetched(k)
  <2>1. taken[n] = 0
    <3>1. taken[n] \in Nat  BY <1>1
    <3>2. QED  BY <1>1, <3>1 DEF OnlySent
  <2>2. \A x \in DOMAIN batch : batch[x] # n  BY <1>1 DEF OnlySent
  <2>3. \A k : Fetched(k)' <=> Fetched(k)  BY <1>2 DEF Fetched
  <2>4. ~Fetched(n)  BY <2>1, <2>2 DEF Fetched
  <2>5. QED  BY <2>3, <2>4
<1>6. ThreadsFit'  BY <1>1, <1>2, <1>4 DEF ThreadsFit
<1>7. /\ \A i \in Sent : ChatOf(i)' = ChatOf(i)
      /\ ChatOf(n)' = m.chat
  BY <1>1 DEF ChatOf
<1>8. ASSUME NEW c \in Chats
      PROVE  Kind("use", c)' = IF m.kind = "use" /\ m.chat = c THEN Kind("use", c) \cup {n} ELSE Kind("use", c)
  BY <1>1, <1>7 DEF Kind
<1>9. ASSUME NEW c \in Chats
      PROVE  OpenUses(c)' = IF m.kind = "use" /\ m.chat = c THEN OpenUses(c) \cup {n} ELSE OpenUses(c)
  <2>1. \A i \in Sent : Open(i)' <=> Open(i)
    <3>1. \A i \in Sent : i \in Sent' /\ handling'[i] = handling[i]  BY <1>1, <1>2
    <3>2. QED  BY <3>1 DEF Open
  <2>2. Open(n)'
    <3>1. n \in Sent' /\ handling'[n] = Idle  BY <1>1, <1>2, <1>3
    <3>2. Idle # Done  BY DEF Idle, Done
    <3>3. QED  BY <3>1, <3>2 DEF Open
  <2>3. Kind("use", c) \subseteq Sent  BY DEF Kind
  <2>4. n \notin Kind("use", c)  BY <1>1, <2>3
  <2>5. QED  BY <1>8, <2>1, <2>2, <2>3, <2>4 DEF OpenUses
<1>10. \A i \in Sent : expects'[i] = expects[i] => Reach(i) \subseteq Reach(i)'
  <2>1. ASSUME NEW i \in Sent, NEW k \in LaterUses(i) PROVE k \in LaterUses(i)' /\ sent'[k].host = sent[k].host
    <3>1. k \in Sent /\ ChatOf(i) \in Chats  BY SentShapes DEF LaterUses, Kind
    <3>2. QED  BY <1>1, <1>7, <1>8, <3>1 DEF LaterUses
  <2>2. QED  BY <2>1 DEF Reach
<1>11. \A i \in UpdateIds \ tangled' : handling'[i].pc = "told" => selected'[ChatOf(i)'] = sent'[i].host
  <2>1. tangled \subseteq tangled'  BY DEF Sends
  <2>2. QED  BY <1>1, <1>2, <1>4, <1>7, <2>1 DEF SelectionsKnown
<1>12. CASE m.kind = "use"
  <2>1. /\ belief' = [c \in Chats |-> IF c = m.chat THEN Unsure ELSE belief[c]]
        /\ expects' = expects
        /\ tangled \subseteq tangled'
        /\ OpenUses(m.chat) # {} => OpenUses(m.chat) \cup {n} \subseteq tangled'
    BY <1>0, <1>12 DEF Sends, Wonders
  <2>2. ASSUME NEW c \in Chats, NEW i \in OpenUses(c)', NEW j \in OpenUses(c)', i # j
        PROVE  i \in tangled'
    <3>1. CASE c = m.chat
      <4>1. i \in OpenUses(c) \cup {n} /\ j \in OpenUses(c) \cup {n}  BY <1>9, <1>12, <2>2, <3>1
      <4>2. OpenUses(c) # {}  BY <2>2, <4>1
      <4>3. QED  BY <2>1, <3>1, <4>1, <4>2
    <3>2. CASE c # m.chat
      BY <1>9, <2>1, <2>2, <3>2 DEF SelectionsKnown
    <3>3. QED  BY <3>1, <3>2
  <2>3. \A c \in Chats : belief'[c] # Unsure => OpenUses(c)' = {} /\ selected'[c] \in {belief'[c], NoHost}
    BY <1>2, <1>9, <1>12, <2>1 DEF SelectionsKnown
  <2>4. SelectionsKnown'  BY <1>11, <2>2, <2>3 DEF SelectionsKnown
  <2>5. ASSUME NEW c \in Chats, NEW k \in OpenUses(c)' \ tangled', NEW j \in Kind("use", c)'
        PROVE  j <= k
    <3>1. CASE c = m.chat
      <4>1. k = n  BY <1>9, <1>12, <2>1, <2>5, <3>1
      <4>2. j \in Sent \cup {n}  BY <1>8, <2>5 DEF Kind
      <4>3. QED  BY <1>1, <4>1, <4>2 DEF Sent, UpdateIds
    <3>2. CASE c # m.chat
      BY <1>8, <1>9, <2>1, <2>5, <3>2 DEF UsesInOrder
    <3>3. QED  BY <3>1, <3>2
  <2>6. ASSUME NEW c \in Chats, NEW k \in Kind("use", c)' \ tangled', Fetched(k)',
               NEW j \in Kind("use", c)', j < k
        PROVE  j < confirmed'
    <3>1. k \in Sent \cup {n} /\ j \in Sent \cup {n}  BY <1>1 DEF Kind
    <3>2. k \in Sent /\ k < n /\ j # n /\ Fetched(k)
      <4>1. k # n  BY <1>5, <2>6
      <4>2. k \in Sent /\ k < n /\ k \in Nat /\ j \in Nat /\ n \in Nat
        BY <1>1, <3>1, <4>1 DEF UpdateIds
      <4>3. QED  BY <1>5, <2>6, <4>2
    <3>3. k \in Kind("use", c) /\ j \in Kind("use", c)  BY <1>1, <1>8, <2>6, <3>1, <3>2
    <3>4. QED  BY <1>2, <2>1, <2>6, <3>2, <3>3 DEF UsesInOrder
  <2>7. ASSUME NEW c \in Chats, belief'[c] # Unsure, NEW k \in Kind("use", c)', k >= confirmed'
        PROVE  sent'[k].host = belief'[c]
    <3>1. c # m.chat /\ k \in Kind("use", c) /\ k \in Sent  BY <1>8, <2>1, <2>7 DEF Kind
    <3>2. QED  BY <1>1, <1>2, <2>1, <2>7, <3>1 DEF UsesInOrder
  <2>8. UsesInOrder'  BY <2>5, <2>6, <2>7 DEF UsesInOrder
  <2>9. \A i \in UpdateIds \ Sent' : expects'[i] = Unsure
    BY <1>1, <2>1 DEF ExpectationsHold
  <2>10. ASSUME NEW i \in Sent', expects'[i] # Unsure
         PROVE  /\ selected'[ChatOf(i)'] \in Reach(i)'
                /\ \A k \in Kind("use", ChatOf(i))' : Open(k)' \/ k >= confirmed' => sent'[k].host \in Reach(i)'
    <3>1. i \in Sent  BY <1>1, <2>1, <2>10 DEF ExpectationsHold
    <3>2. Reach(i) \subseteq Reach(i)'  BY <1>10, <2>1, <3>1
    <3>3. ChatOf(i)' = ChatOf(i) /\ ChatOf(i) \in Chats  BY <1>7, <3>1, SentShapes
    <3>4. selected'[ChatOf(i)'] \in Reach(i)'
      BY <1>2, <2>1, <2>10, <3>1, <3>2, <3>3 DEF ExpectationsHold
    <3>5. ASSUME NEW k \in Kind("use", ChatOf(i))', Open(k)' \/ k >= confirmed'
          PROVE  sent'[k].host \in Reach(i)'
      <4>1. CASE k = n
        <5>1. k \in LaterUses(i)'  BY <1>1, <3>1, <3>5, <4>1 DEF LaterUses
        <5>2. QED  BY <5>1 DEF Reach
      <4>2. CASE k # n
        <5>1. k \in Kind("use", ChatOf(i)) /\ k \in Sent  BY <1>8, <3>3, <3>5, <4>2 DEF Kind
        <5>2. Open(k) \/ k >= confirmed  BY <1>2, <3>5, <5>1 DEF Open
        <5>3. sent[k].host \in Reach(i)  BY <2>1, <2>10, <3>1, <5>1, <5>2 DEF ExpectationsHold
        <5>4. QED  BY <1>1, <3>2, <5>1, <5>3
      <4>3. QED  BY <4>1, <4>2
    <3>6. QED  BY <3>4, <3>5
  <2>11. \A i \in UpdateIds : handling'[i].pc = "ready" /\ expects'[i] # Unsure
                                => handling'[i].host \in Reach(i)'
    BY <1>2, <1>4, <1>10, <2>1 DEF ExpectationsHold
  <2>12. ExpectationsHold'  BY <2>9, <2>10, <2>11 DEF ExpectationsHold
  <2>13. QED  BY <1>6, <2>4, <2>8, <2>12
<1>13. CASE m.kind # "use"
  <2>1. expects' = [expects EXCEPT ![n] = belief[m.chat]] /\ UNCHANGED <<belief, tangled>>
    BY <1>0, <1>13 DEF Sends
  <2>2. \A c \in Chats : OpenUses(c)' = OpenUses(c) /\ Kind("use", c)' = Kind("use", c)
    BY <1>8, <1>9, <1>13
  <2>3. SelectionsKnown'
    BY <1>2, <1>11, <2>1, <2>2 DEF SelectionsKnown
  <2>4. \A c \in Chats : Kind("use", c) \subseteq Sent  BY DEF Kind
  <2>5. UsesInOrder'
    <3>1. \A c \in Chats : \A k \in Kind("use", c) : (Fetched(k)' <=> Fetched(k)) /\ sent'[k] = sent[k]
      BY <1>1, <1>5, <2>4
    <3>2. QED  BY <1>2, <2>1, <2>2, <3>1 DEF UsesInOrder
  <2>6. \A i \in UpdateIds \ Sent' : expects'[i] = Unsure
    BY <1>1, <2>1 DEF ExpectationsHold
  <2>7. ASSUME NEW i \in Sent', expects'[i] # Unsure
        PROVE  /\ selected'[ChatOf(i)'] \in Reach(i)'
               /\ \A k \in Kind("use", ChatOf(i))' : Open(k)' \/ k >= confirmed' => sent'[k].host \in Reach(i)'
    <3>1. CASE i = n
      <4>1. ChatOf(i)' = m.chat /\ expects'[i] = belief[m.chat] /\ belief[m.chat] # Unsure
        <5>1. ChatOf(i)' = m.chat  BY <1>7, <3>1 DEF ChatOf
        <5>2. expects'[n] = belief[m.chat]  BY <1>1, <2>1
        <5>3. QED  BY <2>7, <3>1, <5>1, <5>2
      <4>2. expects'[i] \in Reach(i)' /\ NoHost \in Reach(i)'  BY DEF Reach
      <4>3. /\ OpenUses(m.chat) = {} /\ selected[m.chat] \in {belief[m.chat], NoHost}
            /\ \A k \in Kind("use", m.chat) : k >= confirmed => sent[k].host = belief[m.chat]
        BY <1>1, <4>1 DEF SelectionsKnown, UsesInOrder
      <4>4. \A k \in Kind("use", m.chat) : Open(k)' => k \in OpenUses(m.chat)
        BY <1>2, <2>4, <1>1 DEF Open, OpenUses
      <4>5. Kind("use", ChatOf(i))' = Kind("use", m.chat)
        <5>1. Kind("use", m.chat)' = Kind("use", m.chat)  BY <1>1, <2>2
        <5>2. QED  BY <4>1, <5>1 DEF Kind, ChatOf
      <4>6. \A k \in Kind("use", m.chat) : sent'[k] = sent[k]  BY <1>1, <2>4
      <4>7. QED  BY <1>2, <4>1, <4>2, <4>3, <4>4, <4>5, <4>6
    <3>2. CASE i # n
      <4>1. i \in Sent /\ expects'[i] = expects[i]  BY <1>1, <2>1, <2>7, <3>2
      <4>2. Reach(i) \subseteq Reach(i)'  BY <1>10, <4>1
      <4>3. ChatOf(i)' = ChatOf(i) /\ ChatOf(i) \in Chats  BY <1>7, <4>1, SentShapes
      <4>4. Kind("use", ChatOf(i))' = Kind("use", ChatOf(i))
        <5>1. \A c \in Chats : {k \in Sent' : sent'[k].kind = "use" /\ ChatOf(k)' = c} = Kind("use", c)
          BY <2>2 DEF Kind
        <5>2. QED  BY <4>3, <5>1 DEF Kind
      <4>5. \A k \in Kind("use", ChatOf(i)) : sent'[k] = sent[k] /\ (Open(k)' => Open(k))
        BY <1>1, <1>2, <2>4, <4>3 DEF Open
      <4>6. QED  BY <1>2, <2>7, <4>1, <4>2, <4>3, <4>4, <4>5 DEF ExpectationsHold
    <3>3. QED  BY <3>1, <3>2
  <2>8. \A i \in UpdateIds : handling'[i].pc = "ready" /\ expects'[i] # Unsure
                               => handling'[i].host \in Reach(i)'
    <3>1. \A i \in UpdateIds : handling[i].pc = "ready" => i \in Sent /\ i # n  BY <1>1, <1>4
    <3>2. QED  BY <1>1, <1>2, <1>10, <2>1, <3>1 DEF ExpectationsHold
  <2>9. ExpectationsHold'  BY <2>6, <2>7, <2>8 DEF ExpectationsHold
  <2>10. QED  BY <1>6, <2>3, <2>5, <2>9
<1>14. QED  BY <1>12, <1>13

(* The process starts again: nothing is selected, and a chat whose /use    *)
(* will be handled again knows nothing.                                    *)
LEMMA RestartTrusts ==
  ASSUME TrustInv, Restart
  PROVE  KnownInv'
<1> DEFINE Again(c) == {i \in Kind("use", c) : i >= confirmed}
<1> USE DEF TrustInv, KnownInv, BridgeInv, TypeOK
<1>1. /\ UNCHANGED <<sent, confirmed, hosts, expects>> /\ batch' = <<>>
      /\ selected' = [c \in Chats |-> NoHost]
      /\ handling' = [i \in UpdateIds |-> IF i \in Sent /\ i < confirmed THEN Done ELSE Idle]
      /\ belief' = [c \in Chats |-> IF Again(c) # {} THEN Unsure ELSE belief[c]]
      /\ tangled' = tangled \cup UNION {Again(c) : c \in {d \in Chats : Cardinality(Again(d)) > 1}}
      /\ taken' = [i \in UpdateIds |-> 0]
  BY DEF Restart, Wonders
<1>2. Sent \subseteq UpdateIds /\ Sent' = Sent /\ (\A i \in Sent : ChatOf(i) \in Chats)
      /\ \A c : Kind("use", c)' = Kind("use", c) /\ Kind("use", c) \subseteq Sent
  <2>1. \A i \in Sent : i \in UpdateIds /\ ChatOf(i) \in Chats  BY SentShapes
  <2>2. \A c : Kind("use", c) \subseteq Sent  BY DEF Kind
  <2>3. Sent' = Sent /\ \A kind, c : Kind(kind, c)' = Kind(kind, c)  BY <1>1, NothingSent
  <2>4. QED  BY <2>1, <2>2, <2>3
<1>3. \A i \in Sent : Open(i)' <=> i >= confirmed
  <2>1. TAKE i \in Sent
  <2>2. i \in Sent' /\ i \in UpdateIds  BY <1>2
  <2>3. i \in Int /\ confirmed \in Int
    BY <2>2 DEF TrustInv, BridgeInv, TypeOK, UpdateIds
  <2>4. handling'[i] = IF i < confirmed THEN Done ELSE Idle  BY <1>1, <2>2
  <2>5. Idle # Done  BY DEF Idle, Done
  <2>6. Open(i)' <=> handling'[i] # Done  BY <2>2 DEF Open, Done
  <2>7. QED  BY <2>3, <2>4, <2>5, <2>6
<1>4. \A c \in Chats : OpenUses(c)' = Again(c)
  BY <1>2, <1>3 DEF OpenUses
<1>5. ThreadsFit'
  BY <1>1 DEF ThreadsFit, Idle, Done
<1>6. ASSUME NEW c \in Chats, NEW i \in Again(c), NEW j \in Again(c), i # j PROVE i \in tangled'
  <2>1. IsFiniteSet(Again(c))
    <3>1. IsFiniteSet(Sent) /\ Again(c) \subseteq Sent  BY FS_Interval DEF Sent, Kind
    <3>2. QED  BY <3>1, FS_Subset
  <2>2. Cardinality(Again(c)) > 1  BY <1>6, <2>1, TwoAreMany
  <2>3. QED  BY <1>1, <1>6, <2>2
<1>7. \A c \in Chats : \A k \in Again(c), j \in Kind("use", c) : j > k => j \in Again(c) /\ j # k
  BY <1>2 DEF Sent
<1>8. \A c \in Chats : \A k \in Kind("use", c) : k >= confirmed => k \in Again(c)
  OBVIOUS
<1>9. \A c \in Chats : Again(c) \subseteq Kind("use", c)
  OBVIOUS
<1> HIDE DEF Again
<1>10. SelectionsKnown'
  BY <1>1, <1>4, <1>6 DEF SelectionsKnown, Idle, Done
<1>11. UsesInOrder'
  <2>1. ASSUME NEW c \in Chats, NEW k \in Again(c) \ tangled', NEW j \in Kind("use", c) PROVE j <= k
    <3>1. ~(j > k)  BY <1>6, <1>7, <2>1
    <3>2. j \in Nat /\ k \in Nat  BY <1>2, <1>9, <2>1 DEF Sent
    <3>3. QED  BY <3>1, <3>2
  <2>2. \A k \in UpdateIds : ~Fetched(k)'  BY <1>1 DEF Fetched
  <2>3. \A c \in Chats : belief'[c] # Unsure => \A k \in Kind("use", c) : ~(k >= confirmed)
    BY <1>1, <1>8
  <2>4. \A c \in Chats : \A k \in OpenUses(c)' \ tangled', j \in Kind("use", c)' : j <= k
    BY <1>2, <1>4, <2>1
  <2>5. \A c \in Chats : \A k \in Kind("use", c)' : ~Fetched(k)'
    BY <1>2, <2>2
  <2>6. \A c \in Chats : belief'[c] # Unsure => \A k \in Kind("use", c)' : ~(k >= confirmed')
    BY <1>1, <1>2, <2>3
  <2>7. QED  BY <2>4, <2>5, <2>6 DEF UsesInOrder
<1>12. ExpectationsHold'
  <2>1. \A i \in UpdateIds : handling'[i].pc # "ready"  BY <1>1 DEF Idle, Done
  <2>2. QED  BY <1>1, <1>3, <2>1, ExpectationsRest
<1>13. QED  BY <1>5, <1>10, <1>11, <1>12

(* Neither Telegram nor people who change settings touch what a chat is    *)
(* told, and what is handed out was not done with.                         *)
LEMMA PollerTrusts ==
  ASSUME TrustInv, Poller \/ PollFails \/ Turn
  PROVE  KnownInv'
<1> USE DEF TrustInv, KnownInv, BridgeInv, TypeOK
<1>1. /\ UNCHANGED <<sent, selected, tangled, belief, expects>> /\ Sent' = Sent
      /\ \A i : ChatOf(i)' = ChatOf(i)
      /\ \A c : Kind("use", c)' = Kind("use", c) /\ Kind("use", c) \subseteq Sent
      /\ Sent \subseteq UpdateIds
  <2>1. UNCHANGED <<sent, selected, tangled, belief, expects>>
    BY DEF Poller, Polls, PollFails, HandsOut, Turn, PollState
  <2>2. QED  BY <2>1, NothingSent DEF Sent, Kind, UpdateIds
<1>2. CASE Polls \/ PollFails \/ Turn
  <2>1. /\ UNCHANGED <<handling, taken>> /\ confirmed' \in Nat /\ confirmed <= confirmed'
        /\ \A k \in DOMAIN batch' : k \in Nat
    <3>1. CASE Turn  BY <3>1 DEF Turn
    <3>2. CASE Polls \/ PollFails
      <4>1. BridgeInv'  BY <3>2, PollStep
      <4>2. \A k \in DOMAIN batch' : k \in Nat  BY <4>1
      <4>3. QED  BY <3>2, <4>2 DEF Polls, PollFails, Later
    <3>3. QED  BY <1>2, <3>1, <3>2
  <2>2. \A k \in DOMAIN batch' : batch'[k] >= confirmed'
    <3>1. CASE Turn  BY <3>1 DEF Turn, ThreadsFit
    <3>2. CASE Polls
      <4>1. /\ DOMAIN batch' = 1 .. Len(sent) - confirmed' + 1
            /\ \A k \in DOMAIN batch' : batch'[k] = confirmed' + k - 1
        BY <3>2 DEF Polls
      <4>2. \A k \in DOMAIN batch' : k >= 1  BY <2>1, <4>1
      <4>3. QED  BY <2>1, <4>1, <4>2
    <3>3. CASE PollFails  BY <3>3 DEF PollFails
    <3>4. QED  BY <1>2, <3>1, <3>2, <3>3
  <2>3. ThreadsFit'  BY <1>1, <2>1, <2>2 DEF ThreadsFit, UpdateIds
  <2>4. \A i \in Sent : Open(i)' <=> Open(i)  BY <1>1, <2>1 DEF Open
  <2>5. \A c : OpenUses(c)' = OpenUses(c)  BY <1>1, <2>4 DEF OpenUses
  <2>6. SelectionsKnown'  BY <1>1, <2>1, <2>5 DEF SelectionsKnown
  <2>7. \A i \in Sent : i \in Nat /\ (i >= confirmed' => i >= confirmed)  BY <2>1 DEF Sent
  <2>8. ExpectationsHold'  BY <1>1, <2>1, <2>4, <2>7, ExpectationsRest
  <2>9. ASSUME NEW c \in Chats, NEW k \in Kind("use", c) \ tangled, Fetched(k)',
               NEW j \in Kind("use", c), j < k
        PROVE  j < confirmed'
    <3>1. j \in Sent /\ k \in Sent /\ j \in Nat /\ k \in Nat  BY <1>1 DEF Sent
    <3>2. CASE Fetched(k)
      <4>1. j < confirmed  BY <2>9, <3>2 DEF UsesInOrder
      <4>2. QED  BY <2>1, <3>1, <4>1
    <3>3. CASE ~Fetched(k)
      <4>1. Polls
        BY <1>2, <2>1, <2>9, <3>3 DEF Fetched, PollFails, Turn
      <4>2. PICK x \in DOMAIN batch' : batch'[x] = k  BY <2>1, <2>9, <3>3 DEF Fetched
      <4>3. k >= confirmed' /\ offset <= confirmed' /\ offset \in Nat
        BY <2>2, <4>1, <4>2 DEF Polls, Later
      <4>4. \A i \in Sent : handling[i] = Done => i < confirmed'
        <5>1. \A i \in UpdateIds : handling[i] # Idle => i < offset \/ i < confirmed
          BY DEF ThreadsFit, InOrder
        <5>2. \A i \in UpdateIds : handling[i] = Done => i < offset \/ i < confirmed
          BY <5>1 DEF Idle, Done
        <5>3. \A i \in Sent : i \in UpdateIds /\ i \in Nat  BY <1>1, <2>7
        <5>4. confirmed \in Nat  OBVIOUS
        <5>5. confirmed <= confirmed' /\ confirmed' \in Nat  BY <2>1
        <5> SUFFICES ASSUME NEW i \in Sent, handling[i] = Done PROVE i < confirmed'
          OBVIOUS
        <5>6. i \in Nat /\ (i < offset \/ i < confirmed)  BY <5>2, <5>3
        <5>7. QED  BY <4>3, <5>4, <5>5, <5>6
      <4>5. k \in OpenUses(c)
        <5>1. handling[k] # Done  BY <2>1, <3>1, <4>3, <4>4
        <5>2. QED  BY <2>9, <3>1, <5>1 DEF OpenUses, Open
      <4>6. j \notin OpenUses(c)  BY <2>9, <3>1, <4>5 DEF SelectionsKnown
      <4>7. handling[j] = Done  BY <2>9, <3>1, <4>6 DEF OpenUses, Open
      <4>8. QED  BY <3>1, <4>4, <4>7
    <3>4. QED  BY <3>2, <3>3
  <2>10. UsesInOrder'
    <3>1. \A c \in Chats : belief[c] # Unsure =>
             \A k \in Kind("use", c) : k >= confirmed' => sent[k].host = belief[c]
      BY <1>1, <2>7 DEF UsesInOrder
    <3>2. \A c \in Chats : \A k \in OpenUses(c) \ tangled, j \in Kind("use", c) : j <= k
      BY DEF UsesInOrder
    <3>3. QED  BY <1>1, <2>5, <2>9, <3>1, <3>2 DEF UsesInOrder
  <2>11. QED  BY <2>3, <2>6, <2>8, <2>10
<1>3. CASE HandsOut
  <2> DEFINE i == batch[1]
  <2>1. batch # <<>> /\ batch \in Seq(UpdateIds)  BY <1>3 DEF HandsOut
  <2>2. 1 \in DOMAIN batch /\ i = Head(batch) /\ i \in UpdateIds
    BY <2>1
  <2>3. i >= offset /\ i >= confirmed  BY <2>2 DEF InOrder, ThreadsFit
  <2>4. /\ \A k \in DOMAIN batch' : k + 1 \in DOMAIN batch /\ batch'[k] = batch[k + 1]
        /\ handling' = [handling EXCEPT ![i] = [pc |-> "new"]]
        /\ taken' = [taken EXCEPT ![i] = @ + 1] /\ confirmed' = confirmed
    BY <1>3, <2>1, <2>2 DEF HandsOut
  <2>5. \A k \in UpdateIds : Fetched(k)' => Fetched(k)
    BY <2>2, <2>4 DEF Fetched
  <2> HIDE DEF i
  <2>6. handling[i] # Done
    BY <2>2, <2>3 DEF ThreadsFit, InOrder, UpdateIds, Idle, Done
  <2>7. ThreadsFit'
    <3>1. \A k \in UpdateIds : k # i => handling'[k] = handling[k] /\ taken'[k] = taken[k]
      BY <2>2, <2>4
    <3>2. handling'[i] = [pc |-> "new"] /\ taken'[i] > 0 /\ i \in Sent
      BY <2>1, <2>2, <2>4 DEF OnlySent, i
    <3>3. QED  BY <1>1, <2>4, <3>1, <3>2 DEF ThreadsFit
  <2>8. \A k \in Sent : Open(k)' <=> Open(k)
    BY <1>1, <2>2, <2>4, <2>6 DEF Open, Done
  <2>9. \A c : OpenUses(c)' = OpenUses(c)  BY <1>1, <2>8 DEF OpenUses
  <2>10. SelectionsKnown'  BY <1>1, <2>2, <2>4, <2>9 DEF SelectionsKnown
  <2>11. UsesInOrder'  BY <1>1, <2>4, <2>5, <2>9 DEF UsesInOrder
  <2>12. \A k \in UpdateIds : handling'[k].pc = "ready" => handling'[k] = handling[k]
    BY <2>2, <2>4
  <2>13. ExpectationsHold'  BY <1>1, <2>4, <2>8, <2>12, ExpectationsRest
  <2>14. QED  BY <2>7, <2>10, <2>11, <2>13
<1>4. QED  BY <1>2, <1>3 DEF Poller

(* A thread selects a host and says so, or reads the selection. *)
LEMMA HandlesTrusts ==
  ASSUME TrustInv, NEW i \in UpdateIds, Handles(i)
  PROVE  KnownInv'
<1> USE DEF TrustInv, KnownInv, BridgeInv, TypeOK
<1>1. /\ UNCHANGED <<sent, confirmed, batch, taken, tangled, expects>> /\ Sent' = Sent
      /\ \A j : ChatOf(j)' = ChatOf(j) /\ Reach(j)' = Reach(j)
      /\ \A c : Kind("use", c)' = Kind("use", c) /\ Kind("use", c) \subseteq Sent
      /\ \A k : Fetched(k)' <=> Fetched(k)
  <2>1. UNCHANGED <<sent, confirmed, batch, taken, tangled, expects>>
    BY DEF Handles, Refuses, Admits, Finds, FindsNone, Selects, Tells, Prepares, Starts, StartFails,
           ThreadState
  <2>2. QED  BY <2>1, NothingSent DEF Kind, Fetched
<1>2. handling[i] # Idle /\ handling[i] # Done
  BY DEF Handles, Refuses, Admits, Finds, FindsNone, Selects, Tells, Prepares, Starts, StartFails,
         Idle, Done
<1>3. /\ i \in Sent /\ ChatOf(i) \in Chats /\ sent[i].host \in Hosts \cup {NoHost}
      /\ sent[i].kind \in {"use", "ask"}
  <2>1. i \in Sent  BY <1>2 DEF OnlySent
  <2>2. QED  BY <2>1, SentShapes
<1>4. \E state : Becomes(i, state)
  BY DEF Handles, Refuses, Admits, Finds, FindsNone, Selects, Tells, Prepares, Starts, StartFails
<1>5. /\ \A j \in UpdateIds : j # i => handling'[j] = handling[j]
      /\ \A j \in Sent : Open(j)' => Open(j)
      /\ \A c \in Chats : OpenUses(c)' \subseteq OpenUses(c)
  <2>1. \A j \in UpdateIds : j # i => handling'[j] = handling[j]  BY <1>4 DEF Becomes
  <2>2. \A j \in Sent : Open(j)' => Open(j)
    BY <1>1, <1>2, <1>3, <2>1 DEF Open, Sent, UpdateIds
  <2>3. QED  BY <1>1, <2>1, <2>2 DEF OpenUses
<1>6. taken[i] > 0 \/ i < confirmed  BY <1>2 DEF ThreadsFit
(* Nothing is opened: the order of the selections stays. *)
<1>7. /\ \A c \in Chats : \A k \in OpenUses(c)' \ tangled', j \in Kind("use", c)' : j <= k
      /\ \A c \in Chats : \A k \in Kind("use", c)' \ tangled' :
           Fetched(k)' => \A j \in Kind("use", c)' : j < k => j < confirmed'
  BY <1>1, <1>5 DEF UsesInOrder
<1>8. UNCHANGED belief => UsesInOrder'
  BY <1>1, <1>7 DEF UsesInOrder
<1>9. CASE Selects(i)
  <2>1. handling' = [handling EXCEPT ![i] = [pc |-> "told"]] /\ UNCHANGED belief
        /\ selected' = [selected EXCEPT ![ChatOf(i)] = sent[i].host] /\ handling[i].pc = "found"
    BY <1>9 DEF Selects, Becomes, ThreadState
  <2>2. i \in OpenUses(ChatOf(i))  BY <1>2, <1>3, <2>1 DEF ThreadsFit, OpenUses, Kind, Open
  <2>3. ThreadsFit'  BY <1>1, <1>6, <2>1 DEF ThreadsFit
  <2>4. ASSUME NEW c \in Chats, belief'[c] # Unsure
        PROVE  OpenUses(c)' = {} /\ selected'[c] \in {belief'[c], NoHost}
    BY <1>3, <1>5, <2>1, <2>2, <2>4 DEF SelectionsKnown
  <2>5. ASSUME NEW j \in UpdateIds \ tangled', handling'[j].pc = "told"
        PROVE  selected'[ChatOf(j)] = sent[j].host
    <3>1. CASE j = i  BY <1>3, <2>1, <3>1
    <3>2. CASE j # i
      <4>1. handling[j].pc = "told" /\ j \in Sent /\ sent[j].kind = "use" /\ ChatOf(j) \in Chats
            /\ handling[j] # Done
        BY <1>5, <2>5, <3>2, SentShapes DEF ThreadsFit, OnlySent, Idle, Done
      <4>2. ChatOf(j) # ChatOf(i)
        <5>1. j \in OpenUses(ChatOf(j))  BY <4>1 DEF OpenUses, Kind, Open
        <5>2. QED  BY <1>1, <2>2, <2>5, <3>2, <4>1, <5>1 DEF SelectionsKnown
      <4>3. QED  BY <1>1, <2>1, <4>1, <4>2, <2>5 DEF SelectionsKnown
    <3>3. QED  BY <3>1, <3>2
  <2>6. SelectionsKnown'  BY <1>1, <1>5, <2>4, <2>5 DEF SelectionsKnown
  <2>7. ASSUME NEW j \in Sent, expects[j] # Unsure
        PROVE  selected'[ChatOf(j)] \in Reach(j)
    <3>1. ChatOf(j) \in Chats  BY <2>7, SentShapes
    <3>2. CASE ChatOf(j) = ChatOf(i)
      <4>1. i \in Kind("use", ChatOf(j)) /\ Open(i)  BY <2>2, <3>2 DEF OpenUses
      <4>2. QED  BY <1>3, <2>1, <2>7, <3>2, <4>1 DEF ExpectationsHold
    <3>3. CASE ChatOf(j) # ChatOf(i)
      BY <1>3, <2>1, <2>7, <3>1, <3>3 DEF ExpectationsHold
    <3>4. QED  BY <3>2, <3>3
  <2>8. \A j \in UpdateIds : handling'[j].pc = "ready" => handling'[j] = handling[j]  BY <2>1
  <2>9. ExpectationsHold'
    <3>1. \A j \in UpdateIds : handling'[j].pc = "ready" /\ expects[j] # Unsure
                                 => handling'[j].host \in Reach(j)
      BY <2>8 DEF ExpectationsHold
    <3>2. QED  BY <1>1, <1>5, <2>7, <3>1 DEF ExpectationsHold
  <2>10. QED  BY <1>8, <2>1, <2>3, <2>6, <2>9
<1>10. CASE Tells(i)
  <2>1. /\ handling' = [handling EXCEPT ![i] = Done] /\ UNCHANGED selected /\ handling[i].pc = "told"
        /\ belief' = [belief EXCEPT ![ChatOf(i)] = IF i \in tangled THEN @ ELSE sent[i].host]
    BY <1>10 DEF Tells, Becomes, ThreadState
  <2>2. i \in OpenUses(ChatOf(i)) /\ belief[ChatOf(i)] = Unsure
    <3>1. i \in OpenUses(ChatOf(i))  BY <1>2, <1>3, <2>1 DEF ThreadsFit, OpenUses, Kind, Open
    <3>2. QED  BY <1>3, <3>1 DEF SelectionsKnown
  <2>3. ThreadsFit'  BY <1>1, <1>6, <2>1 DEF ThreadsFit, Done
  <2>4. ASSUME NEW c \in Chats, belief'[c] # Unsure
        PROVE  OpenUses(c)' = {} /\ selected'[c] \in {belief'[c], NoHost}
    <3>1. CASE c # ChatOf(i)
      BY <1>5, <2>1, <2>4, <3>1 DEF SelectionsKnown
    <3>2. CASE c = ChatOf(i)
      <4>1. i \notin tangled /\ belief'[c] = sent[i].host  BY <1>3, <2>1, <2>2, <2>4, <3>2
      <4>2. selected[c] = sent[i].host  BY <2>1, <3>2, <4>1 DEF SelectionsKnown
      <4>3. OpenUses(c) = {i}  BY <2>2, <3>2, <4>1 DEF SelectionsKnown
      <4>4. i \notin OpenUses(c)'  BY <2>1 DEF OpenUses, Open
      <4>5. QED  BY <1>5, <2>1, <4>1, <4>2, <4>3, <4>4
    <3>3. QED  BY <3>1, <3>2
  <2>5. ASSUME NEW j \in UpdateIds \ tangled', handling'[j].pc = "told"
        PROVE  selected'[ChatOf(j)] = sent[j].host
    BY <1>1, <1>5, <2>1, <2>5 DEF SelectionsKnown, Done
  <2>6. SelectionsKnown'  BY <1>1, <1>5, <2>4, <2>5 DEF SelectionsKnown
  <2>7. ASSUME NEW c \in Chats, belief'[c] # Unsure, NEW k \in Kind("use", c), k >= confirmed
        PROVE  sent[k].host = belief'[c]
    <3>1. CASE c # ChatOf(i)  BY <1>3, <2>1, <2>7, <3>1 DEF UsesInOrder
    <3>2. CASE c = ChatOf(i)
      <4>1. i \notin tangled /\ belief'[c] = sent[i].host  BY <1>3, <2>1, <2>2, <2>7, <3>2
      <4>2. i \in Kind("use", c) /\ k \in Nat /\ i \in Nat
        BY <1>1, <1>3, <2>2, <3>2 DEF OpenUses, Sent
      <4>3. k <= i  BY <2>2, <2>7, <3>2, <4>1 DEF UsesInOrder
      <4>4. Fetched(i)  BY <1>6, <2>7, <4>2, <4>3 DEF Fetched
      <4>5. ~(k < i)  BY <2>7, <4>1, <4>2, <4>4 DEF UsesInOrder
      <4>6. QED  BY <4>1, <4>2, <4>3, <4>5
    <3>3. QED  BY <3>1, <3>2
  <2>8. UsesInOrder'  BY <1>1, <1>7, <2>7 DEF UsesInOrder
  <2>9. \A j \in UpdateIds : handling'[j].pc = "ready" => handling'[j] = handling[j]
    BY <2>1 DEF Done
  <2>10. ExpectationsHold'  BY <1>1, <1>5, <2>1, <2>9, ExpectationsRest
  <2>11. QED  BY <2>3, <2>6, <2>8, <2>10
<1>11. CASE Prepares(i) /\ ~Becomes(i, Done)
  <2>1. PICK u \in BotUsers :
          handling' = [handling EXCEPT ![i] =
                         [pc |-> "ready", user |-> u, named |-> selected[ChatOf(i)],
                          host |-> IF selected[ChatOf(i)] \in hosts THEN selected[ChatOf(i)] ELSE NoHost]]
    BY <1>11 DEF Prepares, Becomes
  <2>2. UNCHANGED <<selected, belief>>  BY <1>11 DEF Prepares
  <2>3. handling'[i].pc = "ready" /\ handling'[i].host \in {selected[ChatOf(i)], NoHost}
    BY <2>1
  <2>4. ThreadsFit'  BY <1>1, <1>5, <1>6, <2>3 DEF ThreadsFit
  <2>5. SelectionsKnown'  BY <1>1, <1>5, <2>2, <2>3 DEF SelectionsKnown
  <2>6. expects[i] # Unsure => handling'[i].host \in Reach(i)
    <3>1. NoHost \in Reach(i)  BY DEF Reach
    <3>2. QED  BY <1>3, <2>3, <3>1 DEF ExpectationsHold
  <2>7. \A j \in UpdateIds : handling'[j].pc = "ready" /\ expects[j] # Unsure
                               => handling'[j].host \in Reach(j)
    BY <1>5, <2>6 DEF ExpectationsHold
  <2>8. ExpectationsHold'  BY <1>1, <1>5, <2>2, <2>7 DEF ExpectationsHold
  <2>9. QED  BY <1>8, <2>2, <2>4, <2>5, <2>8
<1>12. CASE /\ UNCHANGED <<selected, belief>>
            /\ \/ Becomes(i, Done) \/ Becomes(i, [pc |-> "ask"])
               \/ /\ sent[i].kind = "use"
                  /\ Becomes(i, [pc |-> "use"]) \/ Becomes(i, [pc |-> "found"])
  <2>1. /\ handling'[i].pc \in {"done", "ask", "use", "found"}
        /\ handling'[i].pc \in {"use", "found"} => sent[i].kind = "use"
    BY <1>12 DEF Becomes, Done
  <2>2. ThreadsFit'  BY <1>1, <1>5, <1>6, <2>1 DEF ThreadsFit
  <2>3. SelectionsKnown'  BY <1>1, <1>5, <1>12, <2>1 DEF SelectionsKnown
  <2>4. ExpectationsHold'  BY <1>1, <1>5, <1>12, <2>1, ExpectationsRest
  <2>5. QED  BY <1>8, <1>12, <2>2, <2>3, <2>4
<1>13. CASE Finds(i)
  BY <1>12, <1>13 DEF Finds, ThreadsFit
<1>14. CASE Admits(i)
  BY <1>3, <1>12, <1>14 DEF Admits
<1>15. CASE Refuses(i) \/ FindsNone(i) \/ Starts(i) \/ StartFails(i) \/ (Prepares(i) /\ Becomes(i, Done))
  BY <1>12, <1>15 DEF Refuses, FindsNone, Starts, StartFails, Prepares
<1>16. QED
  BY <1>9, <1>10, <1>11, <1>13, <1>14, <1>15 DEF Handles

LEMMA TrustStep == TrustInv /\ [Next]_vars => TrustInv'
<1> SUFFICES ASSUME TrustInv, [Next]_vars PROVE KnownInv'
  BY BridgeStep DEF TrustInv
<1>1. CASE \E m \in Messages : Sends(m)  BY <1>1, SendsTrusts
<1>2. CASE Restart  BY <1>2, RestartTrusts
<1>3. CASE Poller \/ PollFails \/ Turn  BY <1>3, PollerTrusts
<1>4. CASE \E i \in UpdateIds : Handles(i)  BY <1>4, HandlesTrusts
<1>5. CASE UNCHANGED bridgeVars
  <2>1. UNCHANGED <<sent, confirmed, batch, handling, selected, hosts, taken, tangled, belief, expects>>
    BY <1>5 DEF bridgeVars
  <2>2. QED
    BY <2>1, NothingSent DEF TrustInv, KnownInv, ThreadsFit, SelectionsKnown, UsesInOrder,
       ExpectationsHold, OpenUses, Open, Fetched
<1>6. QED  BY <1>1, <1>2, <1>3, <1>4, <1>5 DEF Next, vars

(* An instruction of a chat that had been told its host runs there, on     *)
(* none if the host or the selection was lost, or where a later /use of    *)
(* the chat takes it, for any number of chats and messages in flight       *)
(* (telegrambot._command, _run_agent).                                     *)
THEOREM RunsWhereToldHolds == Spec => RunsWhereTold
<1>1. TrustInv /\ [Next]_vars =>
        [\A i \in UpdateIds : Starts(i) /\ expects[i] # Unsure
           => handling[i].host \in {expects[i], NoHost} \cup {sent[k].host : k \in LaterUses(i)}]_vars
  BY DEF TrustInv, KnownInv, ExpectationsHold, Starts, Reach
<1>2. QED  BY <1>1, TrustBegins, TrustStep, PTL DEF Spec, RunsWhereTold
=============================================================================
