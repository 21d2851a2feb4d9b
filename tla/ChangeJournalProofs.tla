------------------------- MODULE ChangeJournalProofs -------------------------
(***************************************************************************)
(* What the agent leaves behind: the files it wrote (ChangeJournal) and,   *)
(* in the second half, the playbooks it saved (Playbooks).  The two have no*)
(* name in common and share no state.                                      *)
(*                                                                         *)
(* The journal: a successful revert puts back what the write replaced, and *)
(* no row says reverted before that.                                       *)
(*                                                                         *)
(* The argument follows a content through its hands: what a read brought   *)
(* back is what the row stores, the row a revert works on is the row that  *)
(* is still in the journal but for its mark, and a revert marks a row only *)
(* after its undo.                                                         *)
(***************************************************************************)
EXTENDS ChangeJournal, Playbooks, SequenceTheorems, FiniteSetTheorems, TLAPS

(* A writer that has read a file holds what the read made of it. *)
ReadsAreKept ==
  \A w \in Writers : at[w].pc \in {"push", "record"} /\ at[w].had
                     => at[w].seen \in Contents /\ at[w].before = Captured[at[w].seen]

(* So does the row it writes. *)
RowsAreTrue ==
  /\ Len(origins) = Len(journal)
  /\ \A i \in Ids : journal[i].reversible /\ journal[i].had
                    => origins[i].seen \in Contents /\ journal[i].before = Captured[origins[i].seen]

(* A revert works on a row of the journal, read before it was marked. *)
RevertsAreCurrent ==
  \A r \in Reverters : at[r].pc \in {"undo", "mark", "audit"} =>
    /\ at[r].id \in Ids
    /\ at[r].row = [journal[at[r].id] EXCEPT !.reverted = FALSE]
    /\ at[r].row.reversible
    /\ at[r].pc # "undo" => at[r].id \in undone

JournalInv == TypeOK /\ ReadsAreKept /\ RowsAreTrue /\ RevertsAreCurrent /\ RevertedWasUndone

WriterShape == [pc : {"push", "record"}, file : Files, content : Contents, before : Contents,
                had : BOOLEAN, seen : States, was : States]
RevertShape == [pc : {"undo", "mark", "audit"}, id : Nat \ {0}, row : Rows]

(* What a thread that is doing something looks like. *)
LEMMA Shapes ==
  ASSUME TypeOK, NEW t \in Threads
  PROVE  /\ at[t].pc = "read" => at[t] \in [pc : {"read"}, file : Files, content : Contents]
         /\ at[t].pc \in {"push", "record"} => at[t] \in WriterShape
         /\ at[t].pc \in {"undo", "mark", "audit"} => at[t] \in RevertShape
  BY DEF TypeOK, ThreadShape, Idle, WriterShape, RevertShape

(* A failed push leaves files. *)
LEMMA BotchedTyped ==
  ASSUME TypeOK, NEW f \in Files, NEW s \in States
  PROVE  Botched(f, s) \subseteq [Files -> States]
  BY JournalAssumption DEF TypeOK, Botched, States

(* A step keeps the state well typed. *)
LEMMA TypeStep == TypeOK /\ RevertsAreCurrent /\ [Next]_vars => TypeOK'
<1> SUFFICES ASSUME TypeOK, RevertsAreCurrent, [Next]_vars PROVE TypeOK'
  OBVIOUS
<1> USE DEF TypeOK, history
<1>1. ASSUME NEW w \in Writers, NEW f \in Files, NEW c \in Contents, StartsWrite(w, f, c)
      PROVE TypeOK'
  BY <1>1 DEF StartsWrite, ThreadShape
<1>2. ASSUME NEW w \in Writers, Reads(w) \/ ReadFails(w) PROVE TypeOK'
  <2>1. at[w] \in [pc : {"read"}, file : Files, content : Contents]
    BY <1>2, Shapes DEF Reads, ReadFails, Threads
  <2>2. \A b \in Contents, had \in BOOLEAN : Reading(w, b, had) \in WriterShape
    BY <2>1 DEF Reading, WriterShape, States
  <2>3. Empty \in Contents /\ (disk[at[w].file] \in Contents => Captured[disk[at[w].file]] \in Contents)
    BY JournalAssumption
  <2>4. WriterShape \subseteq ThreadShape  BY DEF WriterShape, ThreadShape
  <2>5. at' \in [Threads -> ThreadShape]  BY <1>2, <2>2, <2>3, <2>4 DEF Reads, ReadFails
  <2>6. QED  BY <1>2, <2>5 DEF Reads, ReadFails
<1>3. ASSUME NEW w \in Writers, Pushes(w) PROVE TypeOK'
  <2>1. at[w] \in WriterShape  BY <1>3, Shapes DEF Pushes, Threads
  <2>2. [at[w] EXCEPT !.pc = "record", !.was = disk[at[w].file]] \in WriterShape
    BY <2>1 DEF WriterShape
  <2>3. disk' \in [Files -> States]  BY <1>3, <2>1 DEF Pushes, WriterShape, States
  <2>4. WriterShape \subseteq ThreadShape  BY DEF WriterShape, ThreadShape
  <2>5. QED  BY <1>3, <2>2, <2>3, <2>4 DEF Pushes
<1>4. ASSUME NEW w \in Writers, PushFails(w) PROVE TypeOK'
  <2>1. at[w] \in WriterShape  BY <1>4, Shapes DEF PushFails, Threads
  <2>2. disk' \in [Files -> States]
    BY <1>4, <2>1, BotchedTyped DEF PushFails, WriterShape, States
  <2>3. QED  BY <1>4, <2>2 DEF PushFails, ThreadShape
<1>5. ASSUME NEW w \in Writers, Records(w) PROVE TypeOK'
  <2>1. at[w] \in WriterShape  BY <1>5, Shapes DEF Records, Threads
  <2>2. RowOf(w) \in Rows  BY <2>1 DEF RowOf, Rows, WriterShape
  <2>3. [seen |-> at[w].seen, was |-> at[w].was] \in [seen : States, was : States]
    BY <2>1 DEF WriterShape
  <2>4. journal' \in Seq(Rows)
    <3>1. \A row \in Rows : Append(journal, row) \in Seq(Rows)  OBVIOUS
    <3>2. QED  BY <1>5, <2>2, <3>1 DEF Records
  <2>5. origins' \in Seq([seen : States, was : States])
    <3>1. \A o \in [seen : States, was : States] :
            Append(origins, o) \in Seq([seen : States, was : States])
      OBVIOUS
    <3>2. QED  BY <1>5, <2>3, <3>1 DEF Records
  <2>6. QED  BY <1>5, <2>4, <2>5 DEF Records, ThreadShape
<1>6. ASSUME NEW w \in Writers, RecordFails(w) PROVE TypeOK'
  BY <1>6 DEF RecordFails, ThreadShape
<1>7. ASSUME NEW w \in Writers, NEW f \in Files, NEW s \in States, RunsCommand(w, f, s)
      PROVE TypeOK'
  <2>1. [file |-> f, before |-> Empty, had |-> FALSE, reversible |-> FALSE, reverted |-> FALSE] \in Rows
    BY JournalAssumption DEF Rows
  <2>2. [seen |-> disk[f], was |-> disk[f]] \in [seen : States, was : States]  OBVIOUS
  <2>3. QED  BY <1>7, <2>1, <2>2 DEF RunsCommand
<1>8. ASSUME NEW r \in Reverters, NEW i \in Ids, AsksRevert(r, i) PROVE TypeOK'
  <2>1. [pc |-> "undo", id |-> i, row |-> journal[i]] \in ThreadShape  BY DEF Ids, ThreadShape
  <2>2. QED  BY <1>8, <2>1 DEF AsksRevert
<1>9. ASSUME NEW r \in Reverters, Revert(r) PROVE TypeOK'
  <2>1. at[r] \in RevertShape  BY <1>9, Shapes DEF Revert, Undoes, UndoFails, Marks, Audits, Threads
  <2>2. \A pc \in {"mark", "audit"} : [at[r] EXCEPT !.pc = pc] \in ThreadShape
    BY <2>1 DEF RevertShape, ThreadShape
  <2>3. Restored(at[r].row) \in States /\ at[r].row.file \in Files
    BY <2>1 DEF Restored, States, RevertShape, Rows
  <2>4. Idle \in ThreadShape  BY DEF ThreadShape
  <2>5. CASE Undoes(r)  BY <2>1, <2>2, <2>3, <2>5 DEF Undoes, RevertShape
  <2>6. CASE UndoFails(r)
    <3>1. disk' \in [Files -> States]  BY <2>3, <2>6, BotchedTyped DEF UndoFails
    <3>2. QED  BY <2>4, <2>6, <3>1 DEF UndoFails
  <2>7. CASE Marks(r)
    <3>1. at[r].id \in 1 .. Len(journal)  BY <2>7 DEF Marks, RevertsAreCurrent, Ids
    <3>2. journal' \in Seq(Rows)
      <4>1. journal[at[r].id] \in Rows  BY <3>1, ElementOfSeq
      <4>2. [journal[at[r].id] EXCEPT !.reverted = TRUE] \in Rows  BY <4>1 DEF Rows
      <4>3. journal' = [journal EXCEPT ![at[r].id] = [journal[at[r].id] EXCEPT !.reverted = TRUE]]
        BY <2>7 DEF Marks
      <4>4. QED  BY <3>1, <4>2, <4>3, ExceptSeq
    <3>3. QED  BY <2>2, <2>7, <3>2 DEF Marks
  <2>8. CASE Audits(r)  BY <2>1, <2>4, <2>8 DEF Audits, RevertShape
  <2>9. QED  BY <1>9, <2>5, <2>6, <2>7, <2>8 DEF Revert
<1>10. CASE DeletesHost \/ Restart \/ \E f \in Files, s \in States : ChangesOutside(f, s)
  <2>1. Idle \in ThreadShape  BY DEF ThreadShape
  <2>2. mishaps' \in Nat  BY <1>10 DEF DeletesHost, Restart, ChangesOutside, Mishap
  <2>3. QED  BY <1>10, <2>1, <2>2 DEF DeletesHost, Restart, ChangesOutside
<1>11. CASE UNCHANGED vars
  BY <1>11 DEF vars
<1>12. QED
  BY <1>1, <1>2, <1>3, <1>4, <1>5, <1>6, <1>7, <1>8, <1>9, <1>10, <1>11 DEF Next, Write

(* Initially there is nothing to undo. *)
LEMMA JournalInit == Init => JournalInv
<1> SUFFICES ASSUME Init PROVE JournalInv
  OBVIOUS
<1>1. TypeOK
  <2>1. <<>> \in Seq(Rows) /\ <<>> \in Seq([seen : States, was : States])  OBVIOUS
  <2>2. Idle \in ThreadShape  BY DEF ThreadShape
  <2>3. QED  BY <2>1, <2>2 DEF Init, TypeOK
<1>2. ReadsAreKept /\ RevertsAreCurrent
  BY DEF Init, ReadsAreKept, RevertsAreCurrent, Idle, Threads
<1>3. RowsAreTrue /\ RevertedWasUndone  BY DEF Init, RowsAreTrue, RevertedWasUndone, Ids
<1>4. QED  BY <1>1, <1>2, <1>3 DEF JournalInv

(* Adding a row leaves the others where they are. *)
LEMMA Appended ==
  ASSUME NEW S, NEW s \in Seq(S), NEW e \in S
  PROVE  /\ Append(s, e) \in Seq(S) /\ Len(Append(s, e)) = Len(s) + 1
         /\ \A i \in 1 .. Len(s) : Append(s, e)[i] = s[i]
         /\ Append(s, e)[Len(s) + 1] = e
         /\ 1 .. Len(Append(s, e)) = (1 .. Len(s)) \cup {Len(s) + 1}
  OBVIOUS

(* A step keeps every content where the revert will find it. *)
LEMMA JournalStep == JournalInv /\ [Next]_vars => JournalInv'
<1> SUFFICES ASSUME JournalInv, [Next]_vars
             PROVE (ReadsAreKept /\ RowsAreTrue /\ RevertsAreCurrent /\ RevertedWasUndone)'
  BY TypeStep DEF JournalInv
<1> DEFINE Goal == (ReadsAreKept /\ RowsAreTrue /\ RevertsAreCurrent /\ RevertedWasUndone)'
<1>0. TypeOK /\ ReadsAreKept /\ RowsAreTrue /\ RevertsAreCurrent /\ RevertedWasUndone
  BY DEF JournalInv
<1>a. Writers \subseteq Threads /\ Reverters \subseteq Threads /\ \A w \in Writers : w \notin Reverters
  BY JournalAssumption DEF Threads
<1>b. \A t \in Threads : at' = [at EXCEPT ![t] = at'[t]]
                         => at'[t] = at'[t] /\ \A u \in Threads : u # t => at'[u] = at[u]
  BY <1>0 DEF TypeOK
<1>1. ASSUME UNCHANGED <<journal, origins, undone>>,
             \A t \in Threads : at'[t] = at[t] \/ at'[t].pc \in {"idle", "read"}
      PROVE Goal
  <2>1. ReadsAreKept'  BY <1>0, <1>1, <1>a DEF ReadsAreKept
  <2>2. RowsAreTrue' /\ RevertedWasUndone'  BY <1>0, <1>1 DEF RowsAreTrue, RevertedWasUndone, Ids
  <2>3. RevertsAreCurrent'  BY <1>0, <1>1, <1>a DEF RevertsAreCurrent, Ids
  <2>4. QED  BY <2>1, <2>2, <2>3
<1>2. ASSUME NEW w \in Writers, NEW f \in Files, NEW c \in Contents, StartsWrite(w, f, c)
      PROVE Goal
  BY <1>0, <1>1, <1>2 DEF StartsWrite, history, TypeOK
<1>3. ASSUME NEW w \in Writers, Reads(w) \/ ReadFails(w) PROVE Goal
  <2>1. UNCHANGED <<journal, origins, undone>> /\ \A t \in Threads : t # w => at'[t] = at[t]
    BY <1>0, <1>3 DEF Reads, ReadFails, history, TypeOK
  <2>2. /\ at'[w].pc = "push"
        /\ at'[w].had => at'[w].seen \in Contents /\ at'[w].before = Captured[at'[w].seen]
    BY <1>0, <1>3, <1>a DEF Reads, ReadFails, Reading, TypeOK
  <2>3. ReadsAreKept'  BY <1>0, <1>a, <2>1, <2>2 DEF ReadsAreKept
  <2>4. RowsAreTrue' /\ RevertedWasUndone'  BY <1>0, <2>1 DEF RowsAreTrue, RevertedWasUndone, Ids
  <2>5. RevertsAreCurrent'  BY <1>0, <1>a, <2>1 DEF RevertsAreCurrent, Ids
  <2>6. QED  BY <2>3, <2>4, <2>5
<1>4. ASSUME NEW w \in Writers, Pushes(w) PROVE Goal
  <2>1. UNCHANGED <<journal, origins, undone>> /\ \A t \in Threads : t # w => at'[t] = at[t]
    BY <1>0, <1>4 DEF Pushes, history, TypeOK
  <2>2. at[w] \in WriterShape  BY <1>0, <1>4, <1>a, Shapes DEF Pushes
  <2>3. at'[w] = [at[w] EXCEPT !.pc = "record", !.was = disk[at[w].file]]
    BY <1>0, <1>4, <1>a DEF Pushes, TypeOK
  <2>4. at'[w].had = at[w].had /\ at'[w].seen = at[w].seen /\ at'[w].before = at[w].before
    BY <2>2, <2>3 DEF WriterShape
  <2>5. ReadsAreKept'  BY <1>0, <1>4, <1>a, <2>1, <2>4 DEF ReadsAreKept, Pushes
  <2>6. RowsAreTrue' /\ RevertedWasUndone'  BY <1>0, <2>1 DEF RowsAreTrue, RevertedWasUndone, Ids
  <2>7. RevertsAreCurrent'  BY <1>0, <1>a, <2>1 DEF RevertsAreCurrent, Ids
  <2>8. QED  BY <2>5, <2>6, <2>7
<1>5. ASSUME NEW w \in Writers, PushFails(w) \/ RecordFails(w) PROVE Goal
  BY <1>0, <1>1, <1>5 DEF PushFails, RecordFails, history, TypeOK, Idle
<1>6. ASSUME NEW row \in Rows, NEW o \in [seen : States, was : States],
             journal' = Append(journal, row), origins' = Append(origins, o), undone' = undone,
             \A t \in Threads : at'[t] = at[t] \/ at'[t] = Idle,
             ~row.reverted,
             row.reversible /\ row.had => o.seen \in Contents /\ row.before = Captured[o.seen]
      PROVE Goal
  <2>1. /\ journal \in Seq(Rows) /\ origins \in Seq([seen : States, was : States])
        /\ Len(origins) = Len(journal)
    BY <1>0 DEF TypeOK, RowsAreTrue
  <2>2. /\ Len(journal') = Len(journal) + 1
        /\ \A i \in 1 .. Len(journal) : journal'[i] = journal[i]
        /\ journal'[Len(journal) + 1] = row
        /\ 1 .. Len(journal') = (1 .. Len(journal)) \cup {Len(journal) + 1}
    BY <1>6, <2>1, Appended
  <2>3. /\ Len(origins') = Len(journal')
        /\ \A i \in 1 .. Len(journal) : origins'[i] = origins[i]
        /\ origins'[Len(journal) + 1] = o
    BY <1>6, <2>1, <2>2, Appended
  <2>4. ReadsAreKept'  BY <1>0, <1>6, <1>a DEF ReadsAreKept, Idle
  <2>5. RowsAreTrue'  BY <1>0, <1>6, <2>2, <2>3 DEF RowsAreTrue, Ids
  <2>6. RevertedWasUndone'  BY <1>0, <1>6, <2>2 DEF RevertedWasUndone, Ids
  <2>7. RevertsAreCurrent'
    <3>1. \A r \in Reverters : at'[r] = at[r] \/ at'[r].pc = "idle"  BY <1>6, <1>a DEF Idle
    <3>2. Ids \subseteq Ids' /\ \A j \in Ids : journal'[j] = journal[j]  BY <2>2 DEF Ids
    <3>3. ASSUME NEW r \in Reverters, at'[r].pc \in {"undo", "mark", "audit"}
          PROVE /\ at'[r].id \in Ids' /\ at'[r].row.reversible
                /\ at'[r].row = [journal'[at'[r].id] EXCEPT !.reverted = FALSE]
                /\ at'[r].pc # "undo" => at'[r].id \in undone'
      <4>1. at'[r] = at[r]  BY <3>1, <3>3
      <4>2. /\ at[r].id \in Ids /\ at[r].row.reversible
            /\ at[r].row = [journal[at[r].id] EXCEPT !.reverted = FALSE]
            /\ at[r].pc # "undo" => at[r].id \in undone
        BY <1>0, <3>3, <4>1 DEF RevertsAreCurrent
      <4>3. journal'[at[r].id] = journal[at[r].id] /\ at[r].id \in Ids'  BY <3>2, <4>2
      <4>4. QED  BY <1>6, <4>1, <4>2, <4>3
    <3>4. QED  BY <3>3 DEF RevertsAreCurrent
  <2>8. QED  BY <2>4, <2>5, <2>6, <2>7
<1>7. ASSUME NEW w \in Writers, Records(w) PROVE Goal
  <2>1. at[w] \in WriterShape  BY <1>0, <1>7, <1>a, Shapes DEF Records
  <2>2. RowOf(w) \in Rows  BY <2>1 DEF RowOf, Rows, WriterShape
  <2>3. [seen |-> at[w].seen, was |-> at[w].was] \in [seen : States, was : States]
    BY <2>1 DEF WriterShape
  <2>4. \A t \in Threads : at'[t] = at[t] \/ at'[t] = Idle  BY <1>0, <1>7 DEF Records, TypeOK
  <2>5. RowOf(w).had => at[w].seen \in Contents /\ RowOf(w).before = Captured[at[w].seen]
    BY <1>0, <1>7 DEF Records, ReadsAreKept, RowOf
  <2>6. QED  BY <1>6, <1>7, <2>2, <2>3, <2>4, <2>5 DEF Records, RowOf
<1>8. ASSUME NEW w \in Writers, NEW f \in Files, NEW s \in States, RunsCommand(w, f, s) PROVE Goal
  <2>1. [file |-> f, before |-> Empty, had |-> FALSE, reversible |-> FALSE, reverted |-> FALSE] \in Rows
    BY JournalAssumption DEF Rows
  <2>2. [seen |-> disk[f], was |-> disk[f]] \in [seen : States, was : States]  BY <1>0 DEF TypeOK
  <2>3. QED  BY <1>6, <1>8, <2>1, <2>2 DEF RunsCommand
<1>9. ASSUME NEW r \in Reverters, NEW i \in Ids, AsksRevert(r, i) PROVE Goal
  <2>1. UNCHANGED <<journal, origins, undone>> /\ \A t \in Threads : t # r => at'[t] = at[t]
    BY <1>0, <1>9 DEF AsksRevert, history, TypeOK
  <2>2. at'[r] = [pc |-> "undo", id |-> i, row |-> journal[i]]
    BY <1>0, <1>9, <1>a DEF AsksRevert, TypeOK
  <2>3. journal[i] \in Rows  BY <1>0 DEF TypeOK, Ids
  <2>4. journal[i] = [journal[i] EXCEPT !.reverted = FALSE]  BY <1>9, <2>3 DEF AsksRevert, Rows
  <2>5. ReadsAreKept'  BY <1>0, <1>a, <2>1 DEF ReadsAreKept
  <2>6. RowsAreTrue' /\ RevertedWasUndone'  BY <1>0, <2>1 DEF RowsAreTrue, RevertedWasUndone, Ids
  <2>7. RevertsAreCurrent'
    <3>1. /\ at'[r].pc = "undo" /\ at'[r].id = i /\ at'[r].row = journal[i]
          /\ journal[i].reversible
      BY <1>9, <2>2 DEF AsksRevert
    <3>2. Ids' = Ids  BY <2>1 DEF Ids
    <3>3. ASSUME NEW q \in Reverters, q # r PROVE at'[q] = at[q]  BY <1>a, <2>1, <3>3
    <3>4. QED  BY <1>0, <2>1, <2>4, <3>1, <3>2, <3>3 DEF RevertsAreCurrent
  <2>8. QED  BY <2>5, <2>6, <2>7
<1>10. ASSUME NEW r \in Reverters, Undoes(r) PROVE Goal
  <2>1. UNCHANGED <<journal, origins>> /\ undone' = undone \cup {at[r].id}
    BY <1>10 DEF Undoes
  <2>2. \A t \in Threads : t # r => at'[t] = at[t]  BY <1>0, <1>10 DEF Undoes, TypeOK
  <2>3. at[r] \in RevertShape  BY <1>0, <1>10, <1>a, Shapes DEF Undoes
  <2>4. at'[r] = [at[r] EXCEPT !.pc = "mark"]  BY <1>0, <1>10, <1>a DEF Undoes, TypeOK
  <2>5. at'[r].id = at[r].id /\ at'[r].row = at[r].row  BY <2>3, <2>4 DEF RevertShape
  <2>6. ReadsAreKept'  BY <1>0, <1>a, <2>2 DEF ReadsAreKept
  <2>7. RowsAreTrue' /\ RevertedWasUndone'  BY <1>0, <2>1 DEF RowsAreTrue, RevertedWasUndone, Ids
  <2>8. RevertsAreCurrent'
    BY <1>0, <1>10, <1>a, <2>1, <2>2, <2>5 DEF RevertsAreCurrent, Ids, Undoes
  <2>9. QED  BY <2>6, <2>7, <2>8
<1>11. ASSUME NEW r \in Reverters, UndoFails(r) \/ Audits(r) PROVE Goal
  BY <1>0, <1>1, <1>11 DEF UndoFails, Audits, history, TypeOK, Idle
<1>12. ASSUME NEW r \in Reverters, Marks(r) PROVE Goal
  <2> DEFINE i == at[r].id
  <2>1. i \in Ids /\ i \in undone  BY <1>0, <1>12 DEF RevertsAreCurrent, Marks
  <2>2. UNCHANGED <<origins, undone>> /\ journal' = [journal EXCEPT ![i].reverted = TRUE]
    BY <1>12 DEF Marks, history
  <2>3. journal \in Seq(Rows) /\ journal[i] \in Rows  BY <1>0, <2>1 DEF TypeOK, Ids
  <2>4. /\ Len(journal') = Len(journal)
        /\ \A j \in Ids : j # i => journal'[j] = journal[j]
        /\ journal'[i] = [journal[i] EXCEPT !.reverted = TRUE]
    <3>1. [journal[i] EXCEPT !.reverted = TRUE] \in Rows  BY <2>3 DEF Rows
    <3>2. journal' = [journal EXCEPT ![i] = [journal[i] EXCEPT !.reverted = TRUE]]  BY <2>2
    <3>3. i \in 1 .. Len(journal)  BY <2>1 DEF Ids
    <3>4. /\ Len(journal') = Len(journal)
          /\ \A j \in 1 .. Len(journal) :
               journal'[j] = IF j = i THEN [journal[i] EXCEPT !.reverted = TRUE] ELSE journal[j]
      BY <2>3, <3>1, <3>2, <3>3, ExceptSeq
    <3>5. QED  BY <3>3, <3>4 DEF Ids
  <2>5. /\ journal'[i].reversible = journal[i].reversible /\ journal'[i].had = journal[i].had
        /\ journal'[i].before = journal[i].before
        /\ [journal'[i] EXCEPT !.reverted = FALSE] = [journal[i] EXCEPT !.reverted = FALSE]
    BY <2>3, <2>4 DEF Rows
  <2>6. \A t \in Threads : t # r => at'[t] = at[t]  BY <1>0, <1>12 DEF Marks, TypeOK
  <2>7. at[r] \in RevertShape  BY <1>0, <1>12, <1>a, Shapes DEF Marks
  <2>8. at'[r] = [at[r] EXCEPT !.pc = "audit"]  BY <1>0, <1>12, <1>a DEF Marks, TypeOK
  <2>9. at'[r].id = i /\ at'[r].row = at[r].row  BY <2>7, <2>8 DEF RevertShape
  <2>10. ReadsAreKept'  BY <1>0, <1>a, <2>6 DEF ReadsAreKept
  <2>11. RowsAreTrue'  BY <1>0, <2>2, <2>4, <2>5 DEF RowsAreTrue, Ids
  <2>12. RevertedWasUndone'  BY <1>0, <2>1, <2>2, <2>4 DEF RevertedWasUndone, Ids
  <2>13. \A j \in Ids : [journal'[j] EXCEPT !.reverted = FALSE] = [journal[j] EXCEPT !.reverted = FALSE]
    BY <2>4, <2>5
  <2>14. RevertsAreCurrent'
    <3>1. Ids' = Ids  BY <2>4 DEF Ids
    <3>2. ASSUME NEW q \in Reverters, q # r PROVE at'[q] = at[q]  BY <1>a, <2>6, <3>2
    <3>3. at[r].row.reversible /\ at[r].row = [journal[i] EXCEPT !.reverted = FALSE]
      BY <1>0, <1>12 DEF RevertsAreCurrent, Marks
    <3>4. ASSUME NEW q \in Reverters, at'[q].pc \in {"undo", "mark", "audit"}
          PROVE /\ at'[q].id \in Ids /\ at'[q].row.reversible
                /\ at'[q].row = [journal'[at'[q].id] EXCEPT !.reverted = FALSE]
                /\ at'[q].pc # "undo" => at'[q].id \in undone
      <4>1. CASE q = r  BY <2>1, <2>9, <2>13, <3>3, <4>1
      <4>2. CASE q # r
        <5>1. at'[q] = at[q]  BY <3>2, <4>2
        <5>2. /\ at[q].id \in Ids /\ at[q].row.reversible
              /\ at[q].row = [journal[at[q].id] EXCEPT !.reverted = FALSE]
              /\ at[q].pc # "undo" => at[q].id \in undone
          BY <1>0, <3>4, <5>1 DEF RevertsAreCurrent
        <5>3. QED  BY <2>13, <5>1, <5>2
      <4>3. QED  BY <4>1, <4>2
    <3>5. QED  BY <2>2, <3>1, <3>4 DEF RevertsAreCurrent
  <2>15. QED  BY <2>10, <2>11, <2>12, <2>14
<1>13. CASE DeletesHost \/ Restart \/ \E f \in Files, s \in States : ChangesOutside(f, s)
  BY <1>0, <1>1, <1>13 DEF DeletesHost, Restart, ChangesOutside, Idle, TypeOK
<1>14. CASE UNCHANGED vars
  BY <1>1, <1>14 DEF vars
<1>15. QED
  BY <1>2, <1>3, <1>4, <1>5, <1>7, <1>8, <1>9, <1>10, <1>11, <1>12, <1>13, <1>14
     DEF Next, Write, Revert
-----------------------------------------------------------------------------
(* Rows, threads and files keep their shape, for any number of files,      *)
(* contents, writers and reverts.                                          *)
THEOREM JournalTyped == Spec => []TypeOK
<1>1. Init => JournalInv  BY JournalInit
<1>2. JournalInv /\ [Next]_vars => JournalInv'  BY JournalStep
<1>3. JournalInv => TypeOK  BY DEF JournalInv
<1>4. QED  BY <1>1, <1>2, <1>3, PTL DEF Spec

(* A row says reverted only after its undo succeeded on the host. *)
THEOREM MarkedAfterUndo == Spec => []RevertedWasUndone
<1>1. Init => JournalInv  BY JournalInit
<1>2. JournalInv /\ [Next]_vars => JournalInv'  BY JournalStep
<1>3. JournalInv => RevertedWasUndone  BY DEF JournalInv
<1>4. QED  BY <1>1, <1>2, <1>3, PTL DEF Spec

(* What a successful undo writes, when the row is faithful. *)
LEMMA FaithfulRow ==
  ASSUME JournalInv, NEW r \in Reverters, at[r].pc = "undo", Faithful(at[r].id)
  PROVE  Restored(at[r].row) = origins[at[r].id].was
<1> DEFINE i == at[r].id
<1>1. i \in Ids /\ at[r].row = [journal[i] EXCEPT !.reverted = FALSE] /\ at[r].row.reversible
  BY DEF JournalInv, RevertsAreCurrent
<1>2. journal[i] \in Rows  BY <1>1 DEF JournalInv, TypeOK, Ids
<1>3. /\ at[r].row.had = journal[i].had /\ at[r].row.before = journal[i].before
      /\ journal[i].reversible
  BY <1>1, <1>2 DEF Rows
<1>4. origins[i].was \in States
  <2>1. origins \in Seq([seen : States, was : States]) /\ Len(origins) = Len(journal)
    BY DEF JournalInv, TypeOK, RowsAreTrue
  <2>2. origins[i] \in [seen : States, was : States]  BY <1>1, <2>1, ElementOfSeq DEF Ids
  <2>3. QED  BY <2>2
<1>5. CASE journal[i].had
  <2>1. origins[i].seen \in Contents /\ journal[i].before = Captured[origins[i].seen]
    BY <1>1, <1>3, <1>5 DEF JournalInv, RowsAreTrue
  <2>2. QED  BY <1>3, <1>5, <2>1 DEF Faithful, Restored
<1>6. CASE ~journal[i].had
  BY <1>3, <1>4, <1>6 DEF Faithful, Restored, States
<1>7. QED  BY <1>5, <1>6

(* A revert that succeeds leaves the file as it was when the agent         *)
(* overwrote it, if the read before had brought it back whole.             *)
THEOREM RevertRestores == Spec => UndoRestores
<1>1. Init => JournalInv  BY JournalInit
<1>2. JournalInv /\ [Next]_vars => JournalInv'  BY JournalStep
<1>3. JournalInv /\ [Next]_vars =>
        [\A r \in Reverters : Undoing(r) /\ Faithful(at[r].id)
                               => disk'[at[r].row.file] = origins[at[r].id].was]_vars
  <2> SUFFICES ASSUME JournalInv, [Next]_vars, NEW r \in Reverters, Undoing(r), Faithful(at[r].id)
               PROVE disk'[at[r].row.file] = origins[at[r].id].was
    OBVIOUS
  <2>1. TypeOK /\ r \in Threads /\ r \notin Writers
    BY JournalAssumption DEF JournalInv, Threads
  <2>2. at[r] \in RevertShape  BY <2>1, Shapes DEF Undoing
  <2>3. Undoes(r)
    <3>1. ASSUME NEW t \in Threads, NEW x, t # r, at' = [at EXCEPT ![t] = x] PROVE FALSE
      BY <2>1, <3>1 DEF Undoing, TypeOK
    <3>2. at'[r] # at[r] /\ at'[r] # Idle  BY DEF Undoing, Idle
    <3>3. ASSUME NEW w \in Writers, Write(w) \/ (\E f \in Files, c \in Contents : StartsWrite(w, f, c))
          PROVE FALSE
      <4>1. w # r /\ w \in Threads  BY <2>1 DEF Threads
      <4>2. \E x : at' = [at EXCEPT ![w] = x]
        BY <3>3 DEF Write, StartsWrite, Reads, ReadFails, Pushes, PushFails, Records, RecordFails
      <4>3. QED  BY <3>1, <4>1, <4>2
    <3>4. ASSUME NEW q \in Reverters, Revert(q) PROVE Undoes(r)
      <4>1. CASE q = r
        BY <2>1, <3>4, <4>1 DEF Revert, UndoFails, Marks, Audits, Undoing, Idle, TypeOK
      <4>2. CASE q # r
        <5>1. \E x : at' = [at EXCEPT ![q] = x]
          BY <3>4 DEF Revert, Undoes, UndoFails, Marks, Audits
        <5>2. QED  BY <3>1, <4>2, <5>1 DEF Threads
      <4>3. QED  BY <4>1, <4>2
    <3>5. ASSUME NEW q \in Reverters, NEW i \in Ids, AsksRevert(q, i) PROVE FALSE
      <4>1. CASE q = r  BY <3>5, <4>1 DEF AsksRevert, Undoing, Idle
      <4>2. CASE q # r  BY <3>1, <3>5, <4>2 DEF AsksRevert, Threads
      <4>3. QED  BY <4>1, <4>2
    <3>6. ASSUME \/ \E w \in Writers, f \in Files, s \in States : RunsCommand(w, f, s)
                 \/ \E f \in Files, s \in States : ChangesOutside(f, s)
                 \/ DeletesHost \/ Restart \/ UNCHANGED vars
          PROVE FALSE
      BY <2>1, <3>2, <3>6 DEF RunsCommand, ChangesOutside, DeletesHost, Restart, vars
    <3>7. QED  BY <3>3, <3>4, <3>5, <3>6 DEF Next
  <2>4. disk'[at[r].row.file] = Restored(at[r].row)
    BY <2>1, <2>2, <2>3 DEF Undoes, TypeOK, RevertShape, Rows
  <2>5. QED  BY <2>4, FaithfulRow DEF Undoing
<1>4. QED  BY <1>1, <1>2, <1>3, PTL DEF Spec, UndoRestores

-----------------------------------------------------------------------------
(***************************************************************************)
(* Playbooks: what the model's reply becomes, and who approves it.         *)
(*                                                                         *)
(* As long as every line could be read, what the client has put together   *)
(* is told by the place in the stream: the texts of the calls before it    *)
(* are whole, that of the call it is in has its first pieces, and the      *)
(* others are empty.  No half of a text is then stored, and no request     *)
(* that is about to save an approved playbook approved it without a person.*)
(***************************************************************************)
(* The pieces of a call that have come. *)
Come(i) ==
  IF i < stream.call THEN Pieces
  ELSE IF i > stream.call \/ stream.part = 0 THEN 0 ELSE stream.part - 1

HeardByOpenai ==
  /\ stream.named = 1 .. (IF stream.part = 0 THEN stream.call - 1 ELSE stream.call)
  /\ \A i \in DOMAIN stream.meant : stream.texts[i] = Pieced(i, Come(i))

HeardByAnthropic ==
  /\ stream.cur = IF stream.part = 0 THEN 0 ELSE stream.call
  /\ stream.part # 0 => stream.json = Pieced(stream.call, stream.part - 1)
  /\ Len(stream.out) = stream.call - 1
  /\ \A n \in 1 .. stream.call - 1 : stream.out[n] = stream.meant[n]

Heard ==
  stream.open =>
    /\ stream.call <= Len(stream.meant) \/ (stream.call = Len(stream.meant) + 1 /\ stream.part = 0)
    /\ ~garbled /\ stream.provider = "openai" => HeardByOpenai
    /\ ~garbled /\ stream.provider = "anthropic" => HeardByAnthropic

CallsAreWhole == ~garbled => \A n \in DOMAIN calls : calls[n] # Half

(* Nowhere is there a half of a text. *)
NoHalves ==
  ~unread =>
    /\ ~garbled
    /\ \A s \in Present : skills[s].body # Half
    /\ \A a \in Actors : work[a].op \in {"save", "put"} => work[a].args.body # Half

(* A save that approves comes from a person, or from an approved row. *)
SavesAsApproved ==
  \A a \in Actors : work[a].op = "save" /\ work[a].approved =>
    work[a].say = "yes" \/ (work[a].row # 0 /\ work[a].row \in blessed)

(* Whoever works on a row has found it: it may have gone since. *)
WorksOn(w, rows) ==
  w.op \in {"edit", "put"} \/ (w.op = "save" /\ w.row # 0) => rows[w.row] # NoSkill

RowsKnown == \A a \in Actors : WorksOn(work[a], skills)

PlaybooksInv ==
  PlaybooksTypeOK /\ RowsKnown /\ Heard /\ CallsAreWhole /\ NoHalves /\ SavesAsApproved /\ ApprovedByAPerson
-----------------------------------------------------------------------------
LEMMA Meant ==
  ASSUME NEW meant \in Replies
  PROVE  /\ meant \in Seq(Arguments) /\ Len(meant) \in Nat
         /\ DOMAIN meant = 1 .. Len(meant)
         /\ \A i \in DOMAIN meant : i \in Nat \ {0} /\ meant[i] \in Arguments
BY LlmAssumption

LEMMA PiecedGrows ==
  ASSUME NEW i \in Nat, NEW n \in Nat
  PROVE  /\ Pieced(i, n) \in Seq(Nat \X Nat)
         /\ Append(Pieced(i, n), <<i, n + 1>>) = Pieced(i, n + 1)
<1>1. Pieced(i, n) \in Seq(Nat \X Nat) /\ Len(Pieced(i, n)) = n
  BY DEF Pieced
<1>2. Append(Pieced(i, n), <<i, n + 1>>) = [k \in 1 .. n + 1 |-> IF k = n + 1 THEN <<i, n + 1>> ELSE Pieced(i, n)[k]]
  BY <1>1
<1>3. QED  BY <1>1, <1>2 DEF Pieced

(* A whole text gives what was meant, and a beginning of it nothing. *)
LEMMA WholeIsMeant ==
  ASSUME NEW i \in Nat
  PROVE  DOMAIN WholeText(i) = 1 .. Pieces /\ WholeText(i)[1][1] = i
BY LlmAssumption DEF WholeText, Pieced

LEMMA ParsedWhole ==
  ASSUME NEW meant \in Replies, NEW i \in DOMAIN meant
  PROVE  Parsed(WholeText(i), meant) = {meant[i]}
<1>1. WholeText(i)[1][1] = i  BY Meant, WholeIsMeant
<1>2. QED  BY <1>1 DEF Parsed

LEMMA ParsedBegun ==
  ASSUME NEW meant \in Replies, NEW i \in DOMAIN meant, NEW n \in 0 .. Pieces - 1
  PROVE  Parsed(Pieced(i, n), meant) = {NoArgs}
<1>1. ASSUME NEW j \in DOMAIN meant PROVE Pieced(i, n) # WholeText(j)
  <2>1. DOMAIN Pieced(i, n) = 1 .. n  BY DEF Pieced
  <2>2. DOMAIN WholeText(j) = 1 .. Pieces  BY Meant, WholeIsMeant
  <2>3. Pieces \in 1 .. Pieces /\ Pieces \notin 1 .. n  BY LlmAssumption
  <2>4. QED  BY <2>1, <2>2, <2>3
<1>2. Pieced(i, n) \in Beginnings(i)  BY DEF Beginnings
<1>3. QED  BY <1>1, <1>2 DEF Parsed

LEMMA ParsedTyped ==
  ASSUME NEW meant \in Replies, NEW text
  PROVE  Parsed(text, meant) \subseteq Arguments \cup {NoArgs, Half}
<1>1. CASE \E i \in DOMAIN meant : text = WholeText(i)
  <2>1. PICK i \in DOMAIN meant : text = WholeText(i)  BY <1>1
  <2>2. Parsed(text, meant) = {meant[i]}  BY <2>1, ParsedWhole
  <2>3. QED  BY <2>2, Meant
<1>2. CASE ~ \E i \in DOMAIN meant : text = WholeText(i)
  BY <1>2 DEF Parsed
<1>3. QED  BY <1>1, <1>2

(* One line on. *)
LEMMA AdvancedIs ==
  ASSUME stream \in StreamShape
  PROVE  /\ Advanced \in StreamShape
         /\ Advanced.open = stream.open /\ Advanced.provider = stream.provider
         /\ Advanced.meant = stream.meant /\ Advanced.texts = stream.texts
         /\ Advanced.named = stream.named /\ Advanced.cur = stream.cur
         /\ Advanced.json = stream.json /\ Advanced.out = stream.out
         /\ stream.part = Last => Advanced.call = stream.call + 1 /\ Advanced.part = 0
         /\ stream.part # Last => Advanced.call = stream.call /\ Advanced.part = stream.part + 1
<1>1. Last \in Nat  BY LlmAssumption DEF Last
<1>2. stream.call \in Nat \ {0} /\ stream.part \in 0 .. Last  BY DEF StreamShape
<1>3. CASE stream.part = Last
  <2>1. Advanced = [stream EXCEPT !.call = stream.call + 1, !.part = 0]  BY <1>3 DEF Advanced
  <2>2. stream.call + 1 \in Nat \ {0} /\ 0 \in 0 .. Last  BY <1>1, <1>2
  <2>3. Advanced \in StreamShape  BY <2>1, <2>2 DEF StreamShape
  <2>4. /\ Advanced.open = stream.open /\ Advanced.provider = stream.provider
        /\ Advanced.meant = stream.meant /\ Advanced.texts = stream.texts
        /\ Advanced.named = stream.named /\ Advanced.cur = stream.cur
        /\ Advanced.json = stream.json /\ Advanced.out = stream.out
        /\ Advanced.call = stream.call + 1 /\ Advanced.part = 0
    BY <2>1 DEF StreamShape
  <2>5. QED  BY <1>3, <2>3, <2>4
<1>4. CASE stream.part # Last
  <2>1. Advanced = [stream EXCEPT !.part = stream.part + 1]  BY <1>4 DEF Advanced
  <2>2. stream.part + 1 \in 0 .. Last  BY <1>1, <1>2, <1>4
  <2>3. Advanced \in StreamShape  BY <2>1, <2>2 DEF StreamShape
  <2>4. /\ Advanced.open = stream.open /\ Advanced.provider = stream.provider
        /\ Advanced.meant = stream.meant /\ Advanced.texts = stream.texts
        /\ Advanced.named = stream.named /\ Advanced.cur = stream.cur
        /\ Advanced.json = stream.json /\ Advanced.out = stream.out
        /\ Advanced.call = stream.call /\ Advanced.part = stream.part + 1
    BY <2>1 DEF StreamShape
  <2>5. QED  BY <1>4, <2>3, <2>4
<1>5. QED  BY <1>3, <1>4

(* What a line makes of the stream, by its fields. *)
LEMMA LineIs ==
  ASSUME LlmTypeOK, More
  PROVE  /\ stream \in StreamShape /\ stream.meant \in Replies
         /\ stream.call \in DOMAIN stream.meant /\ stream.call \in DOMAIN stream.texts
         /\ stream.part \in 0 .. Last /\ Piece \in Nat \X Nat
<1>1. stream \in StreamShape  BY DEF LlmTypeOK, More, NoStream
<1>2. stream.meant \in Replies /\ stream.call \in Nat \ {0}  BY <1>1 DEF StreamShape
<1>3. stream.call \in DOMAIN stream.meant  BY <1>2, Meant DEF More
<1>4. stream.open /\ stream.part \in 0 .. Last  BY <1>1 DEF StreamShape
<1>5. stream.part \in Nat  BY <1>4, LlmAssumption DEF Last
<1>6. QED  BY <1>1, <1>2, <1>3, <1>4, <1>5 DEF LlmTypeOK, Piece

Moved ==
  /\ stream' \in StreamShape
  /\ stream'.open = stream.open /\ stream'.provider = stream.provider /\ stream'.meant = stream.meant
  /\ DOMAIN stream'.texts = DOMAIN stream.texts
  /\ stream.part = Last => stream'.call = stream.call + 1 /\ stream'.part = 0
  /\ stream.part # Last => stream'.call = stream.call /\ stream'.part = stream.part + 1

LEMMA DeltaIs ==
  ASSUME LlmTypeOK, ReceivesDelta
  PROVE  /\ Moved /\ UNCHANGED <<calls, garbled, budget>>
         /\ \/ stream.part = 0 /\ stream'.named = stream.named \cup {stream.call} /\ stream'.texts = stream.texts
            \/ /\ stream.part \in 1 .. Pieces /\ stream'.named = stream.named
               /\ stream'.texts = [stream.texts EXCEPT ![stream.call] = Append(stream.texts[stream.call], Piece)]
            \/ stream.part = Last /\ stream'.named = stream.named /\ stream'.texts = stream.texts
<1>1. More /\ UNCHANGED <<calls, garbled, budget>>  BY DEF ReceivesDelta
<1>2. /\ stream \in StreamShape /\ stream.meant \in Replies
      /\ stream.call \in DOMAIN stream.meant /\ stream.call \in DOMAIN stream.texts
      /\ stream.part \in 0 .. Last /\ Piece \in Nat \X Nat
  BY <1>1, LineIs
<1> DEFINE A == Advanced
<1>3. /\ A \in StreamShape
      /\ A.open = stream.open /\ A.provider = stream.provider
      /\ A.meant = stream.meant /\ A.texts = stream.texts
      /\ A.named = stream.named /\ A.cur = stream.cur
      /\ A.json = stream.json /\ A.out = stream.out
      /\ stream.part = Last => A.call = stream.call + 1 /\ A.part = 0
      /\ stream.part # Last => A.call = stream.call /\ A.part = stream.part + 1
  BY <1>2, AdvancedIs
<1>4. \/ stream.part = 0 /\ stream' = [A EXCEPT !.named = A.named \cup {stream.call}]
      \/ /\ stream.part \in 1 .. Pieces
         /\ stream' = [A EXCEPT !.texts = [A.texts EXCEPT ![stream.call] = Append(A.texts[stream.call], Piece)]]
      \/ stream.part = Last /\ stream' = A
  BY DEF ReceivesDelta
<1> HIDE DEF A
<1>5. A.named \cup {stream.call} \in SUBSET Nat  BY <1>2, <1>3, Meant DEF StreamShape
<1> DEFINE T == [stream.texts EXCEPT ![stream.call] = Append(stream.texts[stream.call], Piece)]
<1>6. T \in Seq(Seq(Nat \X Nat)) /\ DOMAIN T = DOMAIN stream.texts
  <2>1. stream.texts \in Seq(Seq(Nat \X Nat))  BY <1>2 DEF StreamShape
  <2>2. stream.texts[stream.call] \in Seq(Nat \X Nat)  BY <1>2, <2>1, ElementOfSeq
  <2>3. Append(stream.texts[stream.call], Piece) \in Seq(Nat \X Nat)  BY <1>2, <2>2, AppendProperties
  <2>4. QED  BY <1>2, <2>1, <2>3, ExceptSeq
<1>7. CASE stream.part = 0 /\ stream' = [A EXCEPT !.named = A.named \cup {stream.call}]
  BY <1>1, <1>3, <1>5, <1>7 DEF Moved, StreamShape
<1>8. CASE /\ stream.part \in 1 .. Pieces
           /\ stream' = [A EXCEPT !.texts = [A.texts EXCEPT ![stream.call] = Append(A.texts[stream.call], Piece)]]
  <2>1. stream' = [A EXCEPT !.texts = T]  BY <1>3, <1>8
  <2> HIDE DEF T
  <2>2. /\ stream' \in StreamShape /\ stream'.texts = T /\ stream'.open = A.open
        /\ stream'.provider = A.provider /\ stream'.meant = A.meant /\ stream'.call = A.call
        /\ stream'.part = A.part /\ stream'.named = A.named
    BY <1>3, <1>6, <2>1 DEF StreamShape
  <2>3. QED  BY <1>1, <1>3, <1>6, <1>8, <2>2 DEF Moved, T
<1>9. CASE stream.part = Last /\ stream' = A
  BY <1>1, <1>3, <1>9 DEF Moved
<1>10. QED  BY <1>4, <1>7, <1>8, <1>9

LEMMA BlockIs ==
  ASSUME LlmTypeOK, ReceivesBlock
  PROVE  /\ Moved /\ UNCHANGED <<calls, garbled, budget>>
         /\ \/ stream.part = 0 /\ stream'.cur = stream.call /\ stream'.json = <<>> /\ stream'.out = stream.out
            \/ /\ stream.part \in 1 .. Pieces /\ stream'.cur = stream.cur
               /\ stream'.json = Append(stream.json, Piece) /\ stream'.out = stream.out
            \/ stream.part = Last /\ stream.cur = 0 /\ stream'.cur = stream.cur /\ stream'.out = stream.out
            \/ /\ stream.part = Last /\ stream.cur # 0 /\ stream'.cur = 0
               /\ \E args \in Parsed(stream.json, stream.meant) : stream'.out = Append(stream.out, args)
<1>1. More /\ UNCHANGED <<calls, garbled, budget>>  BY DEF ReceivesBlock
<1>2. /\ stream \in StreamShape /\ stream.meant \in Replies
      /\ stream.call \in DOMAIN stream.meant
      /\ stream.part \in 0 .. Last /\ Piece \in Nat \X Nat
  BY <1>1, LineIs
<1> DEFINE A == Advanced
<1>3. /\ A \in StreamShape
      /\ A.open = stream.open /\ A.provider = stream.provider
      /\ A.meant = stream.meant /\ A.texts = stream.texts
      /\ A.named = stream.named /\ A.cur = stream.cur
      /\ A.json = stream.json /\ A.out = stream.out
      /\ stream.part = Last => A.call = stream.call + 1 /\ A.part = 0
      /\ stream.part # Last => A.call = stream.call /\ A.part = stream.part + 1
  BY <1>2, AdvancedIs
<1>4. \/ stream.part = 0 /\ stream' = [A EXCEPT !.cur = stream.call, !.json = <<>>]
      \/ stream.part \in 1 .. Pieces /\ stream' = [A EXCEPT !.json = Append(A.json, Piece)]
      \/ stream.part = Last /\ stream.cur = 0 /\ stream' = A
      \/ /\ stream.part = Last /\ stream.cur # 0
         /\ \E args \in Parsed(stream.json, stream.meant) :
              stream' = [A EXCEPT !.cur = 0, !.out = Append(A.out, args)]
  BY DEF ReceivesBlock, Stops
<1> HIDE DEF A
<1>5. stream.call \in Nat /\ <<>> \in Seq(Nat \X Nat)  BY <1>2, Meant
<1>6. CASE stream.part = 0 /\ stream' = [A EXCEPT !.cur = stream.call, !.json = <<>>]
  BY <1>1, <1>3, <1>5, <1>6 DEF Moved, StreamShape
<1>7. CASE stream.part \in 1 .. Pieces /\ stream' = [A EXCEPT !.json = Append(A.json, Piece)]
  <2> DEFINE J == Append(A.json, Piece)
  <2>1. A.json \in Seq(Nat \X Nat)  BY <1>3 DEF StreamShape
  <2>2. J \in Seq(Nat \X Nat)  BY <1>2, <2>1, AppendProperties
  <2>3. stream' = [A EXCEPT !.json = J] /\ J = Append(stream.json, Piece)  BY <1>3, <1>7
  <2> HIDE DEF J
  <2>4. QED  BY <1>1, <1>3, <1>7, <2>2, <2>3 DEF Moved, StreamShape
<1>8. CASE stream.part = Last /\ stream.cur = 0 /\ stream' = A
  BY <1>1, <1>3, <1>8 DEF Moved
<1>9. CASE /\ stream.part = Last /\ stream.cur # 0
           /\ \E args \in Parsed(stream.json, stream.meant) :
                stream' = [A EXCEPT !.cur = 0, !.out = Append(A.out, args)]
  <2>1. PICK args \in Parsed(stream.json, stream.meant) :
               stream' = [A EXCEPT !.cur = 0, !.out = Append(A.out, args)]
    BY <1>9
  <2> DEFINE O == Append(A.out, args)
  <2>2. args \in Arguments \cup {NoArgs, Half}  BY <1>2, <2>1, ParsedTyped
  <2>3. A.out \in Seq(Arguments \cup {NoArgs, Half})  BY <1>3 DEF StreamShape
  <2>4. O \in Seq(Arguments \cup {NoArgs, Half})  BY <2>2, <2>3, AppendProperties
  <2>5. stream' = [A EXCEPT !.cur = 0, !.out = O] /\ O = Append(stream.out, args)  BY <1>3, <2>1
  <2> HIDE DEF O
  <2>6. /\ stream' \in StreamShape /\ stream'.cur = 0 /\ stream'.out = O /\ stream'.open = A.open
        /\ stream'.provider = A.provider /\ stream'.meant = A.meant /\ stream'.call = A.call
        /\ stream'.part = A.part /\ stream'.texts = A.texts
    BY <1>3, <2>4, <2>5 DEF StreamShape
  <2>7. QED  BY <1>1, <1>3, <1>9, <2>1, <2>5, <2>6 DEF Moved
<1>10. QED  BY <1>4, <1>6, <1>7, <1>8, <1>9

LEMMA SkipIs ==
  ASSUME LlmTypeOK, Skips
  PROVE  Moved /\ garbled' = TRUE /\ UNCHANGED calls /\ budget' \in Nat
<1>1. More /\ Spends /\ stream' = Advanced /\ garbled' = TRUE /\ UNCHANGED calls  BY DEF Skips
<1>2. stream \in StreamShape  BY <1>1, LineIs
<1>3. Moved  BY <1>1, <1>2, AdvancedIs DEF Moved
<1>4. budget' \in Nat  BY <1>1 DEF Spends, LlmTypeOK
<1>5. QED  BY <1>1, <1>3, <1>4

(* The calls in the order of their indices. *)
LEMMA OrderIs ==
  ASSUME NEW n \in Nat, NEW set \in SUBSET (1 .. n), NEW order \in InOrder(set)
  PROVE  /\ Cardinality(set) \in Nat /\ DOMAIN order = 1 .. Cardinality(set)
         /\ \A k \in DOMAIN order : order[k] \in set
<1>1. IsFiniteSet(set)
  <2>1. IsFiniteSet(1 .. n)  BY FS_Interval
  <2>2. QED  BY <2>1, FS_Subset
<1>2. Cardinality(set) \in Nat  BY <1>1, FS_CardinalityType
<1>3. QED  BY <1>2 DEF InOrder

LEMMA OrderOfAll ==
  ASSUME NEW n \in Nat, NEW order \in InOrder(1 .. n)
  PROVE  DOMAIN order = 1 .. n /\ \A k \in 1 .. n : order[k] = k
<1>1. Cardinality(1 .. n) = n  BY FS_Interval
<1>2. DOMAIN order = 1 .. n /\ \A k \in 1 .. n : order[k] \in 1 .. n
  BY <1>1 DEF InOrder
<1>3. ASSUME NEW k \in 1 .. n PROVE order[k] = k
  <2>1. order[k] \in 1 .. n  BY <1>2
  <2>2. {i \in 1 .. n : i < order[k]} = 1 .. order[k] - 1  BY <2>1
  <2>3. Cardinality(1 .. order[k] - 1) = order[k] - 1
    <3>1. order[k] - 1 \in Int /\ order[k] - 1 >= 0  BY <2>1
    <3>2. QED  BY <2>1, <3>1, FS_Interval
  <2>4. Cardinality({i \in 1 .. n : i < order[k]}) = k - 1  BY <1>2 DEF InOrder
  <2>5. order[k] - 1 = k - 1  BY <2>2, <2>3, <2>4
  <2>6. QED  BY <2>1, <2>5
<1>4. QED  BY <1>2, <1>3

LEMMA EndIs ==
  ASSUME LlmTypeOK, Ends
  PROVE  /\ stream \in StreamShape /\ stream' = NoStream /\ UNCHANGED <<garbled, budget>>
         /\ \/ stream.provider = "anthropic" /\ calls' = stream.out
            \/ /\ stream.provider = "openai"
               /\ \E order \in InOrder(Begun \cap stream.named) :
                    /\ DOMAIN calls' = DOMAIN order
                    /\ \A n \in DOMAIN order : /\ order[n] \in Begun \cap stream.named
                                               /\ calls'[n] \in Parsed(stream.texts[order[n]], stream.meant)
         /\ calls' \in Seq(Arguments \cup {NoArgs, Half})
<1>1. stream \in StreamShape /\ stream' = NoStream /\ UNCHANGED <<garbled, budget>>
  BY DEF LlmTypeOK, Ends, NoStream
<1>2. stream.provider \in {"openai", "anthropic"} /\ stream.meant \in Replies
      /\ stream.out \in Seq(Arguments \cup {NoArgs, Half})
  BY <1>1, LlmAssumption DEF StreamShape
<1>3. CASE stream.provider = "anthropic"
  <2>1. calls' = stream.out  BY <1>3 DEF Ends
  <2>2. QED  BY <1>1, <1>2, <1>3, <2>1
<1>4. CASE stream.provider = "openai"
  <2>1. PICK order \in InOrder(Begun \cap stream.named) :
               \E args \in [DOMAIN order -> Arguments \cup {NoArgs, Half}] :
                 /\ \A n \in DOMAIN order : args[n] \in Parsed(stream.texts[order[n]], stream.meant)
                 /\ calls' = args
    BY <1>4 DEF Ends
  <2>2. Begun \cap stream.named \in SUBSET (1 .. Len(stream.meant)) /\ Len(stream.meant) \in Nat
    BY <1>2, Meant DEF Begun
  <2>3. /\ Cardinality(Begun \cap stream.named) \in Nat
        /\ DOMAIN order = 1 .. Cardinality(Begun \cap stream.named)
        /\ \A n \in DOMAIN order : order[n] \in Begun \cap stream.named
    BY <2>2, OrderIs
  <2>4. DOMAIN calls' = DOMAIN order /\ calls' \in [DOMAIN order -> Arguments \cup {NoArgs, Half}]
    BY <2>1
  <2>5. calls' \in Seq(Arguments \cup {NoArgs, Half})
    <3> DEFINE c == Cardinality(Begun \cap stream.named)
    <3>1. c \in Nat /\ calls' \in [1 .. c -> Arguments \cup {NoArgs, Half}]  BY <2>3, <2>4
    <3> HIDE DEF c
    <3>2. calls' = [n \in 1 .. c |-> calls'[n]] /\ \A n \in 1 .. c : calls'[n] \in Arguments \cup {NoArgs, Half}
      BY <3>1
    <3>3. QED  BY <3>1, <3>2
  <2>6. QED  BY <1>1, <1>4, <2>1, <2>3, <2>4, <2>5
<1>5. QED  BY <1>2, <1>3, <1>4

LEMMA AskIs ==
  ASSUME LlmTypeOK, NEW provider \in Providers, NEW meant \in Replies, Asks(provider, meant)
  PROVE  /\ stream' \in StreamShape /\ stream'.provider = provider /\ stream'.meant = meant
         /\ stream'.call = 1 /\ stream'.part = 0 /\ stream'.named = {} /\ stream'.cur = 0
         /\ stream'.texts = [i \in DOMAIN meant |-> <<>>] /\ stream'.out = <<>>
         /\ garbled' = FALSE /\ calls' = <<>> /\ calls = <<>> /\ budget' \in Nat
<1> DEFINE T == [i \in DOMAIN meant |-> <<>>]
<1>1. T \in Seq(Seq(Nat \X Nat))
  <2>1. DOMAIN meant = 1 .. Len(meant) /\ Len(meant) \in Nat /\ <<>> \in Seq(Nat \X Nat)
    BY Meant
  <2>2. T \in [1 .. Len(meant) -> Seq(Nat \X Nat)]  BY <2>1
  <2>3. QED  BY <2>1, <2>2
<1> HIDE DEF T
<1>2. stream' = [open |-> TRUE, provider |-> provider, meant |-> meant, call |-> 1, part |-> 0,
                 texts |-> T, named |-> {}, cur |-> 0, json |-> <<>>, out |-> <<>>]
  BY DEF Asks, T
<1>3. 0 \in 0 .. Last  BY LlmAssumption DEF Last
<1>4. stream' \in StreamShape  BY <1>1, <1>2, <1>3 DEF StreamShape
<1>5. garbled' = FALSE /\ calls' = calls /\ calls = <<>> /\ budget' \in Nat
  BY DEF Asks, Spends, LlmTypeOK
<1>6. /\ stream'.provider = provider /\ stream'.meant = meant
      /\ stream'.call = 1 /\ stream'.part = 0 /\ stream'.named = {} /\ stream'.cur = 0
      /\ stream'.texts = T /\ stream'.out = <<>>
  BY <1>2
<1>7. T = [i \in DOMAIN meant |-> <<>>]  BY DEF T
<1>8. QED  BY <1>4, <1>5, <1>6, <1>7

LEMMA LlmTypeStep ==
  ASSUME LlmTypeOK, Receives \/ \E q \in Providers, meant \in Replies : Asks(q, meant)
  PROVE  LlmTypeOK'
<1>1. CASE Receives /\ Moved
  <2>1. stream.open /\ garbled' \in BOOLEAN /\ budget' \in Nat /\ calls' = calls
    <3>1. CASE ReceivesDelta \/ ReceivesBlock
      BY <3>1, DeltaIs, BlockIs DEF ReceivesDelta, ReceivesBlock, More, LlmTypeOK
    <3>2. CASE Skips  BY <3>2, SkipIs DEF Skips, More
    <3>3. CASE Ends \/ Breaks
      BY <1>1, <3>3 DEF Ends, Breaks, Moved, NoStream, StreamShape
    <3>4. QED  BY <1>1, <3>1, <3>2, <3>3 DEF Receives
  <2>2. QED  BY <1>1, <2>1 DEF Moved, LlmTypeOK
<1>2. CASE ReceivesDelta \/ ReceivesBlock \/ Skips
  BY <1>1, <1>2, DeltaIs, BlockIs, SkipIs DEF Receives
<1>3. CASE Ends
  <2>1. stream'.open = FALSE  BY <1>3, EndIs DEF NoStream
  <2>2. QED  BY <1>3, <2>1, EndIs DEF LlmTypeOK
<1>4. CASE Breaks
  BY <1>4 DEF Breaks, LlmTypeOK, NoStream
<1>5. ASSUME NEW q \in Providers, NEW meant \in Replies, Asks(q, meant) PROVE LlmTypeOK'
  <2>1. DOMAIN stream'.texts = DOMAIN stream'.meant  BY <1>5, AskIs
  <2>2. QED  BY <1>5, <2>1, AskIs DEF LlmTypeOK
<1>6. QED  BY <1>2, <1>3, <1>4, <1>5 DEF Receives

(* The lines that come. *)
LEMMA NoPieces == \A i : Pieced(i, 0) = <<>>
  BY DEF Pieced

LEMMA HeardBegins ==
  ASSUME LlmTypeOK, NEW provider \in Providers, NEW meant \in Replies, Asks(provider, meant)
  PROVE  Heard'
<1>1. /\ stream'.meant = meant /\ stream'.call = 1 /\ stream'.part = 0 /\ stream'.named = {}
      /\ stream'.cur = 0 /\ stream'.texts = [i \in DOMAIN meant |-> <<>>] /\ stream'.out = <<>>
  BY AskIs
<1>2. Len(meant) \in Nat /\ \A i \in DOMAIN meant : i \in Nat \ {0}  BY Meant
<1>3. HeardByOpenai'
  <2>1. \A i \in DOMAIN meant : Come(i)' = 0  BY <1>1, <1>2 DEF Come
  <2>2. \A i \in DOMAIN meant : stream'.texts[i] = Pieced(i, Come(i)')
    BY <1>1, <2>1, NoPieces
  <2>3. QED  BY <1>1, <2>2 DEF HeardByOpenai, Pieced
<1>4. HeardByAnthropic'  BY <1>1 DEF HeardByAnthropic
<1>5. stream'.call <= Len(stream'.meant) \/ (stream'.call = Len(stream'.meant) + 1 /\ stream'.part = 0)
  BY <1>1, <1>2
<1>6. QED  BY <1>3, <1>4, <1>5 DEF Heard

(* Whatever comes, the place stays within the reply. *)
LEMMA PlaceMoves ==
  ASSUME LlmTypeOK, More, Moved
  PROVE  stream'.call <= Len(stream'.meant) \/ (stream'.call = Len(stream'.meant) + 1 /\ stream'.part = 0)
<1>1. stream.call <= Len(stream.meant) /\ Len(stream.meant) \in Nat /\ stream.call \in Nat
  BY LineIs, Meant DEF More
<1>2. QED  BY <1>1 DEF Moved

LEMMA HeardDelta ==
  ASSUME LlmTypeOK, Heard, ReceivesDelta
  PROVE  Heard'
<1>1. More /\ Moved /\ stream.provider = "openai" /\ garbled' = garbled
  BY DeltaIs DEF ReceivesDelta
<1>2. /\ stream.call \in Nat \ {0} /\ stream.part \in 0 .. Last /\ stream.call \in DOMAIN stream.texts
      /\ Last = Pieces + 1 /\ Pieces \in Nat \ {0}
      /\ \A i \in DOMAIN stream.meant : i \in Nat \ {0}
      /\ DOMAIN stream.texts = DOMAIN stream.meant
  BY <1>1, LineIs, Meant, LlmAssumption DEF Last, LlmTypeOK, More
<1>3. /\ stream'.provider = "openai" /\ stream'.meant = stream.meant
      /\ stream.part = Last => stream'.call = stream.call + 1 /\ stream'.part = 0
      /\ stream.part # Last => stream'.call = stream.call /\ stream'.part = stream.part + 1
  BY <1>1 DEF Moved
<1>4. stream.open  BY <1>1 DEF More
<1>5. ASSUME HeardByOpenai PROVE HeardByOpenai'
  <2>1. /\ stream.named = 1 .. (IF stream.part = 0 THEN stream.call - 1 ELSE stream.call)
        /\ \A i \in DOMAIN stream.meant : stream.texts[i] = Pieced(i, Come(i))
    BY <1>5 DEF HeardByOpenai
  <2>2. CASE stream.part = 0 /\ stream'.named = stream.named \cup {stream.call} /\ stream'.texts = stream.texts
    <3>1. stream'.call = stream.call /\ stream'.part = 1  BY <1>2, <1>3, <2>2
    <3>2. \A i \in DOMAIN stream.meant : Come(i)' = Come(i)  BY <1>2, <2>2, <3>1 DEF Come
    <3>3. stream'.named = 1 .. stream.call  BY <1>2, <2>1, <2>2
    <3>4. \A i \in DOMAIN stream.meant : stream'.texts[i] = Pieced(i, Come(i)')
      BY <2>1, <2>2, <3>2
    <3>5. QED  BY <1>3, <3>1, <3>3, <3>4 DEF HeardByOpenai, Pieced
  <2>3. CASE /\ stream.part \in 1 .. Pieces /\ stream'.named = stream.named
             /\ stream'.texts = [stream.texts EXCEPT ![stream.call] = Append(stream.texts[stream.call], Piece)]
    <3>1. stream'.call = stream.call /\ stream'.part = stream.part + 1  BY <1>2, <1>3, <2>3
    <3>2. stream'.named = 1 .. stream.call  BY <1>2, <2>1, <2>3
    <3>3. ASSUME NEW i \in DOMAIN stream.meant PROVE stream'.texts[i] = Pieced(i, Come(i)')
      <4>1. CASE i = stream.call
        <5>1. Come(i) = stream.part - 1 /\ Come(i)' = stream.part - 1 + 1 /\ stream.part - 1 \in Nat
          BY <1>2, <2>3, <3>1, <4>1 DEF Come
        <5>2. stream'.texts[i] = Append(Pieced(i, stream.part - 1), <<i, stream.part - 1 + 1>>)
          BY <1>2, <2>1, <2>3, <4>1, <5>1 DEF Piece
        <5>3. QED  BY <1>2, <5>1, <5>2, PiecedGrows
      <4>2. CASE i # stream.call
        <5>1. Come(i)' = Come(i)  BY <1>2, <2>3, <3>1, <4>2 DEF Come
        <5>2. stream'.texts[i] = stream.texts[i]  BY <1>2, <2>3, <4>2
        <5>3. QED  BY <2>1, <5>1, <5>2
      <4>3. QED  BY <4>1, <4>2
    <3>4. stream'.part # 0  BY <2>3, <3>1
    <3>5. QED  BY <1>3, <3>1, <3>2, <3>3, <3>4 DEF HeardByOpenai, Pieced
  <2>4. CASE stream.part = Last /\ stream'.named = stream.named /\ stream'.texts = stream.texts
    <3>1. stream'.call = stream.call + 1 /\ stream'.part = 0 /\ stream.part # 0  BY <1>2, <1>3, <2>4
    <3>2. \A i \in DOMAIN stream.meant : Come(i)' = Come(i)  BY <1>2, <2>4, <3>1 DEF Come
    <3>3. stream'.named = 1 .. stream'.call - 1  BY <1>2, <2>1, <2>4, <3>1
    <3>4. \A i \in DOMAIN stream.meant : stream'.texts[i] = Pieced(i, Come(i)')
      BY <2>1, <2>4, <3>2
    <3>5. QED  BY <1>3, <3>1, <3>3, <3>4 DEF HeardByOpenai, Pieced
  <2>5. QED  BY <2>2, <2>3, <2>4, DeltaIs
<1>6. QED  BY <1>1, <1>3, <1>4, <1>5, PlaceMoves DEF Heard

LEMMA HeardBlock ==
  ASSUME LlmTypeOK, Heard, ReceivesBlock
  PROVE  Heard'
<1>1. More /\ Moved /\ stream.provider = "anthropic" /\ garbled' = garbled
  BY BlockIs DEF ReceivesBlock
<1>2. /\ stream.call \in Nat \ {0} /\ stream.part \in 0 .. Last /\ stream.call \in DOMAIN stream.meant
      /\ Last = Pieces + 1 /\ Pieces \in Nat \ {0} /\ stream.meant \in Replies
      /\ stream.out \in Seq(Arguments \cup {NoArgs, Half})
  BY <1>1, LineIs, Meant, LlmAssumption DEF Last, StreamShape
<1>3. /\ stream'.provider = "anthropic" /\ stream'.meant = stream.meant
      /\ stream.part = Last => stream'.call = stream.call + 1 /\ stream'.part = 0
      /\ stream.part # Last => stream'.call = stream.call /\ stream'.part = stream.part + 1
  BY <1>1 DEF Moved
<1>4. stream.open  BY <1>1 DEF More
<1>5. ASSUME HeardByAnthropic PROVE HeardByAnthropic'
  <2>1. /\ stream.cur = IF stream.part = 0 THEN 0 ELSE stream.call
        /\ stream.part # 0 => stream.json = Pieced(stream.call, stream.part - 1)
        /\ Len(stream.out) = stream.call - 1
        /\ \A n \in 1 .. stream.call - 1 : stream.out[n] = stream.meant[n]
    BY <1>5 DEF HeardByAnthropic
  <2>2. CASE stream.part = 0 /\ stream'.cur = stream.call /\ stream'.json = <<>> /\ stream'.out = stream.out
    <3>1. stream'.call = stream.call /\ stream'.part = 1 /\ 1 - 1 = 0  BY <1>2, <1>3, <2>2
    <3>2. stream'.json = Pieced(stream'.call, stream'.part - 1)  BY <2>2, <3>1, NoPieces
    <3>3. QED  BY <1>3, <2>1, <2>2, <3>1, <3>2 DEF HeardByAnthropic, Pieced
  <2>3. CASE /\ stream.part \in 1 .. Pieces /\ stream'.cur = stream.cur
             /\ stream'.json = Append(stream.json, Piece) /\ stream'.out = stream.out
    <3>1. stream'.call = stream.call /\ stream'.part = stream.part + 1 /\ stream.part # 0 /\ stream'.part # 0
      BY <1>2, <1>3, <2>3
    <3>2. stream.part - 1 \in Nat /\ stream.part - 1 + 1 = stream.part  BY <2>3
    <3>3. stream'.json = Append(Pieced(stream.call, stream.part - 1), <<stream.call, stream.part - 1 + 1>>)
      BY <2>1, <2>3, <3>1, <3>2 DEF Piece
    <3>4. stream'.json = Pieced(stream.call, stream.part)  BY <1>2, <3>2, <3>3, PiecedGrows
    <3>5. stream'.part - 1 = stream.part  BY <2>3, <3>1
    <3>6. stream'.json = Pieced(stream'.call, stream'.part - 1)  BY <3>1, <3>4, <3>5
    <3>7. QED  BY <1>3, <2>1, <2>3, <3>1, <3>6 DEF HeardByAnthropic, Pieced
  <2>4. ASSUME stream.part = Last, stream.cur # 0, stream'.cur = 0,
               \E args \in Parsed(stream.json, stream.meant) : stream'.out = Append(stream.out, args)
        PROVE  HeardByAnthropic'
    <3>1. stream'.call = stream.call + 1 /\ stream'.part = 0 /\ stream.part # 0  BY <1>2, <1>3, <2>4
    <3>2. stream.json = WholeText(stream.call)  BY <1>2, <2>1, <2>4 DEF WholeText
    <3>3. Parsed(stream.json, stream.meant) = {stream.meant[stream.call]}  BY <1>2, <3>2, ParsedWhole
    <3>4. stream'.out = Append(stream.out, stream.meant[stream.call])  BY <2>4, <3>3
    <3>5. Len(stream'.out) = stream'.call - 1  BY <1>2, <2>1, <3>1, <3>4
    <3>6. ASSUME NEW n \in 1 .. stream'.call - 1 PROVE stream'.out[n] = stream.meant[n]
      <4>1. n \in 1 .. stream.call - 1 \/ n = stream.call  BY <1>2, <3>1
      <4>2. QED  BY <1>2, <2>1, <3>4, <4>1
    <3>7. QED  BY <1>3, <2>4, <3>1, <3>5, <3>6 DEF HeardByAnthropic
  <2>5. stream.part = Last => stream.cur # 0  BY <1>2, <2>1
  <2>6. QED  BY <2>2, <2>3, <2>4, <2>5, BlockIs
<1>6. QED  BY <1>1, <1>3, <1>4, <1>5, PlaceMoves DEF Heard

LEMMA HeardStep ==
  ASSUME LlmTypeOK, Heard, Receives
  PROVE  Heard'
<1>1. CASE Skips
  <2>1. More /\ Moved /\ garbled'  BY <1>1, SkipIs DEF Skips
  <2>2. QED  BY <2>1, PlaceMoves DEF Heard
<1>2. CASE Ends \/ Breaks
  BY <1>2 DEF Ends, Breaks, Heard, NoStream
<1>3. QED  BY <1>1, <1>2, HeardDelta, HeardBlock DEF Receives

(* What the client hands over: the first calls, each as meant or empty. *)
HandsOver ==
  ~garbled => /\ Len(calls') <= Len(stream.meant)
              /\ \A n \in DOMAIN calls' : calls'[n] \in {stream.meant[n], NoArgs}
              /\ DOMAIN calls' \subseteq DOMAIN stream.meant

LEMMA EndsAsMeant ==
  ASSUME LlmTypeOK, Heard, Ends
  PROVE  HandsOver
<1> SUFFICES ASSUME ~garbled
             PROVE  /\ Len(calls') <= Len(stream.meant)
                    /\ \A n \in DOMAIN calls' : calls'[n] \in {stream.meant[n], NoArgs}
                    /\ DOMAIN calls' \subseteq DOMAIN stream.meant
  BY DEF HandsOver
<1>1. /\ stream.open /\ stream \in StreamShape /\ calls' \in Seq(Arguments \cup {NoArgs, Half})
      /\ stream.call <= Len(stream.meant) \/ (stream.call = Len(stream.meant) + 1 /\ stream.part = 0)
  BY EndIs DEF Ends, Heard
<1>2. /\ stream.meant \in Replies /\ stream.call \in Nat \ {0} /\ stream.part \in 0 .. Last
      /\ stream.out \in Seq(Arguments \cup {NoArgs, Half})
  BY <1>1 DEF StreamShape
<1>3. Len(stream.meant) \in Nat /\ DOMAIN stream.meant = 1 .. Len(stream.meant)  BY <1>2, Meant
<1>4. CASE stream.provider = "anthropic" /\ calls' = stream.out
  <2>1. /\ Len(stream.out) = stream.call - 1
        /\ \A n \in 1 .. stream.call - 1 : stream.out[n] = stream.meant[n]
    BY <1>1, <1>4 DEF Heard, HeardByAnthropic
  <2>2. DOMAIN calls' = 1 .. stream.call - 1 /\ Len(calls') <= Len(stream.meant)
    BY <1>1, <1>2, <1>3, <1>4, <2>1
  <2>3. 1 .. stream.call - 1 \subseteq DOMAIN stream.meant  BY <1>1, <1>2, <1>3
  <2>4. QED  BY <1>4, <2>1, <2>2, <2>3
<1>5. CASE /\ stream.provider = "openai"
           /\ \E order \in InOrder(Begun \cap stream.named) :
                /\ DOMAIN calls' = DOMAIN order
                /\ \A n \in DOMAIN order : /\ order[n] \in Begun \cap stream.named
                                           /\ calls'[n] \in Parsed(stream.texts[order[n]], stream.meant)
  <2> DEFINE m == IF stream.part = 0 THEN stream.call - 1 ELSE stream.call
  <2>1. m \in Nat /\ m <= Len(stream.meant)  BY <1>1, <1>2, <1>3
  <2>2. /\ stream.named = 1 .. m
        /\ \A i \in DOMAIN stream.meant : stream.texts[i] = Pieced(i, Come(i))
    BY <1>1, <1>5 DEF Heard, HeardByOpenai
  <2> HIDE DEF m
  <2>3. Begun \cap stream.named = 1 .. m  BY <1>3, <2>1, <2>2 DEF Begun
  <2>4. PICK order \in InOrder(1 .. m) :
               /\ DOMAIN calls' = DOMAIN order
               /\ \A n \in DOMAIN order : calls'[n] \in Parsed(stream.texts[order[n]], stream.meant)
    BY <1>5, <2>3
  <2>5. DOMAIN order = 1 .. m /\ \A k \in 1 .. m : order[k] = k  BY <2>1, <2>4, OrderOfAll
  <2>6. Len(calls') = m  BY <1>1, <2>1, <2>4, <2>5
  <2>7. ASSUME NEW n \in 1 .. m PROVE calls'[n] \in {stream.meant[n], NoArgs}
    <3>1. n \in DOMAIN stream.meant  BY <1>3, <2>1
    <3>2. calls'[n] \in Parsed(Pieced(n, Come(n)), stream.meant)  BY <2>2, <2>4, <2>5, <3>1
    <3>3. Come(n) \in 0 .. Pieces - 1 \/ Come(n) = Pieces
      BY <1>2, LlmAssumption DEF Come, Last
    <3>4. QED  BY <1>2, <3>1, <3>2, <3>3, ParsedWhole, ParsedBegun DEF WholeText
  <2>8. QED  BY <1>3, <2>1, <2>4, <2>5, <2>6, <2>7
<1>6. QED  BY <1>4, <1>5, EndIs

LEMMA WholeStep ==
  ASSUME LlmTypeOK, Heard, CallsAreWhole,
         Receives \/ \E q \in Providers, meant \in Replies : Asks(q, meant)
  PROVE  CallsAreWhole' /\ Heard'
<1>1. CASE ReceivesDelta \/ ReceivesBlock \/ Skips
  <2>1. garbled' \/ (calls' = calls /\ garbled' = garbled)  BY <1>1, DeltaIs, BlockIs, SkipIs
  <2>2. CallsAreWhole'  BY <2>1 DEF CallsAreWhole
  <2>3. QED  BY <1>1, <2>2, HeardStep DEF Receives
<1>2. CASE Ends
  <2>1. stream.meant \in Replies /\ garbled' = garbled  BY <1>2, EndIs DEF StreamShape
  <2>2. ASSUME ~garbled, NEW n \in DOMAIN calls' PROVE calls'[n] # Half
    <3>1. calls'[n] \in {stream.meant[n], NoArgs} /\ n \in DOMAIN stream.meant
      BY <1>2, <2>2, EndsAsMeant DEF HandsOver
    <3>2. stream.meant[n] \in Arguments  BY <2>1, <3>1, Meant
    <3>3. QED  BY <3>1, <3>2, LlmAssumption
  <2>3. CallsAreWhole'  BY <2>1, <2>2 DEF CallsAreWhole
  <2>4. QED  BY <1>2, <2>3, HeardStep DEF Receives
<1>3. CASE Breaks
  <2>1. CallsAreWhole'  BY <1>3 DEF Breaks, CallsAreWhole
  <2>2. QED  BY <1>3, <2>1, HeardStep DEF Receives
<1>4. ASSUME NEW q \in Providers, NEW meant \in Replies, Asks(q, meant) PROVE CallsAreWhole' /\ Heard'
  <2>1. calls' = <<>>  BY <1>4, AskIs
  <2>2. CallsAreWhole'  BY <2>1 DEF CallsAreWhole
  <2>3. QED  BY <1>4, <2>2, HeardBegins
<1>5. QED  BY <1>1, <1>2, <1>3, <1>4 DEF Receives
-----------------------------------------------------------------------------
(* What is left of the invariant: rows, requests and who approved them. *)
SkillsTypeOK ==
  /\ skills \in [SkillIds -> SkillShape \cup {NoSkill, Gone}]
  /\ work \in [Actors -> WorkShape]
  /\ blessed \subseteq SkillIds /\ unread \in BOOLEAN

RowsInv == SkillsTypeOK /\ RowsKnown /\ NoHalves /\ SavesAsApproved /\ ApprovedByAPerson

SaveShape == [op : {"save"}, row : {0} \cup SkillIds, args : GivenShape, say : {"yes", "no", "keep"},
              approved : BOOLEAN]
EditShape == [op : {"edit"}, row : SkillIds, change : Arguments \cup {NoArgs}]
PutShape == [op : {"put"}, row : SkillIds, args : GivenShape]

LEMMA WorkKinds ==
  ASSUME SkillsTypeOK, NEW a \in Actors
  PROVE  /\ work[a].op = "save" => work[a] \in SaveShape
         /\ work[a].op = "edit" => work[a] \in EditShape
         /\ work[a].op = "put" => work[a] \in PutShape
BY DEF SkillsTypeOK, WorkShape, NoWork, SaveShape, EditShape, PutShape

(* Rows and arguments are not the places of a row. *)
LEMMA GivenAre ==
  /\ Arguments \subseteq GivenShape
  /\ \A args \in Arguments : args.body # Half
BY PlaybookAssumption DEF GivenShape

(* Where only the work of one changes, to nothing or to something good. *)
LEMMA WorkChanges ==
  ASSUME RowsInv, NEW a \in Actors, NEW w \in WorkShape, Does(a, w),
         UNCHANGED <<skills, blessed, unread>>, ~unread => ~garbled',
         ~unread /\ w.op \in {"save", "put"} => w.args.body # Half,
         WorksOn(w, skills),
         w.op = "save" /\ w.approved => w.say = "yes" \/ (w.row # 0 /\ w.row \in blessed)
  PROVE  RowsInv'
<1>1. work' = [work EXCEPT ![a] = w] /\ work \in [Actors -> WorkShape]  BY DEF Does, RowsInv, SkillsTypeOK
<1>2. work'[a] = w /\ \A b \in Actors : b # a => work'[b] = work[b]  BY <1>1
<1>3. work' \in [Actors -> WorkShape]  BY <1>1
<1>4. SkillsTypeOK'  BY <1>3 DEF RowsInv, SkillsTypeOK
<1>5. Present' = Present  BY DEF Present
<1>6. NoHalves'  BY <1>2, <1>5 DEF RowsInv, NoHalves
<1>7. SavesAsApproved'  BY <1>2 DEF RowsInv, SavesAsApproved
<1>8. ApprovedByAPerson'  BY <1>5 DEF RowsInv, ApprovedByAPerson
<1>9. RowsKnown'  BY <1>2 DEF RowsInv, RowsKnown, WorksOn
<1>10. QED  BY <1>4, <1>6, <1>7, <1>8, <1>9 DEF RowsInv

(* A save that has looked. *)
LEMMA LooksWell ==
  ASSUME RowsInv, NEW a \in Actors, NEW args \in GivenShape, NEW say \in {"yes", "no", "keep"},
         Looks(a, args, say), UNCHANGED <<skills, blessed, unread>>, ~unread => ~garbled',
         ~unread => args.body # Half
  PROVE  RowsInv'
<1>1. PICK s \in IF Named(args.name) = {} THEN {0} ELSE First(Named(args.name)) :
             Does(a, [op |-> "save", row |-> s, args |-> args, say |-> say, approved |-> Approves(say, s)])
  BY DEF Looks
<1> DEFINE w == [op |-> "save", row |-> s, args |-> args, say |-> say, approved |-> Approves(say, s)]
<1>2. s = 0 \/ s \in Present  BY <1>1 DEF First, Named
<1>3. s \in {0} \cup SkillIds  BY <1>2 DEF Present
<1>4. ASSUME s \in Present PROVE skills[s].approved \in BOOLEAN
  BY <1>4 DEF Present, RowsInv, SkillsTypeOK, SkillShape
<1>5. 0 \notin SkillIds  BY DEF SkillIds
<1>6. Approves(say, s) \in BOOLEAN
  BY <1>2, <1>4 DEF Approves
<1>7. Approves(say, s) => say = "yes" \/ (s # 0 /\ s \in blessed)
  BY <1>2 DEF Approves, RowsInv, ApprovedByAPerson
<1>8. w \in WorkShape  BY <1>3, <1>6 DEF WorkShape
<1>9. w.op = "save" /\ w.args = args /\ w.row = s /\ w.say = say /\ w.approved = Approves(say, s)
  OBVIOUS
<1>10. Does(a, w)  BY <1>1
<1> HIDE DEF w
<1>11. WorksOn(w, skills)  BY <1>2, <1>9 DEF WorksOn, Present
<1>12. QED  BY <1>7, <1>8, <1>9, <1>10, <1>11, WorkChanges

LEMMA RestsWell ==
  ASSUME RowsInv, NEW a \in Actors, Rests(a), UNCHANGED <<skills, blessed, unread, garbled>>
  PROVE  RowsInv'
<1>1. NoWork \in WorkShape /\ NoWork.op = "none"  BY DEF WorkShape, NoWork
<1>2. ~unread => ~garbled'  BY DEF RowsInv, NoHalves
<1>3. WorksOn(NoWork, skills)  BY <1>1 DEF WorksOn
<1>4. QED  BY <1>1, <1>2, <1>3, WorkChanges DEF Rests

LEMMA CallRuns ==
  ASSUME LlmTypeOK, CallsAreWhole, RowsInv, RunsCall
  PROVE  LlmTypeOK' /\ CallsAreWhole' /\ RowsInv'
<1>1. /\ calls # <<>> /\ calls' = Tail(calls) /\ UNCHANGED <<stream, garbled, budget, skills, blessed, unread>>
      /\ calls \in Seq(Arguments \cup {NoArgs, Half})
  BY DEF RunsCall, LlmTypeOK
<1>2. /\ Head(calls) \in Arguments \cup {NoArgs, Half} /\ calls' \in Seq(Arguments \cup {NoArgs, Half})
      /\ Head(calls) = calls[1] /\ 1 \in DOMAIN calls
      /\ \A n \in DOMAIN calls' : n + 1 \in DOMAIN calls /\ calls'[n] = calls[n + 1]
  BY <1>1, HeadTailProperties
<1>3. LlmTypeOK'  BY <1>1, <1>2 DEF LlmTypeOK
<1>4. CallsAreWhole'  BY <1>1, <1>2 DEF CallsAreWhole
<1>5. ~unread => ~garbled' /\ Head(calls) # Half  BY <1>1, <1>2 DEF RowsInv, NoHalves, CallsAreWhole
<1>6. CASE UNCHANGED work
  <2>1. Present' = Present  BY <1>1 DEF Present
  <2>2. QED  BY <1>1, <1>3, <1>4, <1>6, <2>1 DEF RowsInv, SkillsTypeOK, RowsKnown, NoHalves, SavesAsApproved,
                                             ApprovedByAPerson
<1>7. ASSUME NEW args \in IF Head(calls) = Half THEN [name : Names, body : {Half}] ELSE {Head(calls)},
             Head(calls) # NoArgs, Looks(Agent, args, "keep")
      PROVE  RowsInv'
  <2>1. args \in GivenShape /\ (Head(calls) # Half => args.body # Half)
    BY <1>2, <1>7, GivenAre DEF GivenShape
  <2>2. Agent \in Actors  BY DEF Actors
  <2>3. QED  BY <1>1, <1>5, <1>7, <2>1, <2>2, LooksWell
<1>8. QED  BY <1>3, <1>4, <1>6, <1>7 DEF RunsCall

LEMMA PostsWell ==
  ASSUME LlmTypeOK, RowsInv, NEW a \in People, NEW args \in Arguments, NEW say \in {"yes", "no"}, Posts(a, args, say)
  PROVE  RowsInv'
<1>1. /\ Looks(a, args, say) /\ UNCHANGED <<skills, blessed, unread, garbled>>
      /\ a \in Actors /\ args \in GivenShape /\ args.body # Half
  BY GivenAre DEF Posts, Actors
<1>2. ~unread => ~garbled'  BY <1>1 DEF RowsInv, NoHalves
<1>3. QED  BY <1>1, <1>2, LooksWell

LEMMA EditReadsWell ==
  ASSUME RowsInv, NEW a \in Actors, EditReads(a)
  PROVE  RowsInv'
<1>1. UNCHANGED <<skills, blessed, unread, garbled>> /\ work[a].op = "edit"  BY DEF EditReads, llmVars
<1>2. work[a] \in EditShape  BY <1>1, WorkKinds DEF RowsInv
<1>3. CASE skills[work[a].row] = Gone
  <2>1. Rests(a)  BY <1>3 DEF EditReads
  <2>2. QED  BY <1>1, <2>1, RestsWell
<1>4. CASE skills[work[a].row] # Gone
  <2> DEFINE s == work[a].row
             args == IF work[a].change # NoArgs THEN work[a].change
                     ELSE [name |-> skills[s].name, body |-> skills[s].body]
             w == [op |-> "put", row |-> s, args |-> args]
  <2>1. Does(a, w)  BY <1>4 DEF EditReads
  <2>2. s \in SkillIds /\ work[a].change \in Arguments \cup {NoArgs}  BY <1>2 DEF EditShape
  <2>3. skills[s] # NoSkill  BY <1>1 DEF RowsInv, RowsKnown, WorksOn
  <2>4. s \in Present /\ skills[s] \in SkillShape
    BY <1>4, <2>2, <2>3 DEF Present, RowsInv, SkillsTypeOK
  <2>5. args \in GivenShape
    BY <2>2, <2>4, GivenAre DEF GivenShape, SkillShape
  <2>6. ~unread => args.body # Half
    BY <2>2, <2>4, GivenAre DEF RowsInv, NoHalves
  <2> HIDE DEF args
  <2>7. w \in WorkShape /\ w.op = "put" /\ w.row = s /\ w.args = args
    BY <2>2, <2>5 DEF WorkShape
  <2> HIDE DEF w
  <2>8. ~unread => ~garbled'  BY <1>1 DEF RowsInv, NoHalves
  <2>9. WorksOn(w, skills)  BY <2>3, <2>7 DEF WorksOn
  <2>10. QED  BY <1>1, <2>1, <2>6, <2>7, <2>8, <2>9, WorkChanges
<1>5. QED  BY <1>3, <1>4

(* A row is written: inserted, changed where it still is, or deleted. *)
LEMMA RowWritten ==
  ASSUME RowsInv, NEW s \in SkillIds, NEW row \in SkillShape \cup {Gone},
         skills' = [skills EXCEPT ![s] = row], UNCHANGED <<unread, garbled>>,
         blessed' \in {blessed, blessed \cup {s}}, work' \in [Actors -> WorkShape],
         \A a \in Actors : work'[a] = work[a] \/ work'[a] = NoWork
                           \/ (work'[a] \in EditShape /\ work'[a].row = s),
         ~unread /\ row # Gone => row.body # Half,
         row # Gone /\ row.approved => s \in blessed'
  PROVE  RowsInv'
<1>1. /\ skills \in [SkillIds -> SkillShape \cup {NoSkill, Gone}]
      /\ skills' \in [SkillIds -> SkillShape \cup {NoSkill, Gone}]
      /\ row # NoSkill /\ skills'[s] = row /\ \A t \in SkillIds : t # s => skills'[t] = skills[t]
  BY PlaybookAssumption DEF RowsInv, SkillsTypeOK
<1>2. SkillsTypeOK'  BY <1>1 DEF RowsInv, SkillsTypeOK
<1>3. \A t \in Present' : (t = s /\ row # Gone) \/ (t # s /\ t \in Present /\ skills'[t] = skills[t])
  BY <1>1 DEF Present
<1>4. \A a \in Actors : work'[a].op = "save" => work'[a] = work[a]
  BY DEF NoWork, EditShape
<1>5. \A a \in Actors : work'[a].op = "put" => work'[a] = work[a]
  BY DEF NoWork, EditShape
<1>6. NoHalves'
  <2>1. ASSUME ~unread, NEW t \in Present' PROVE skills'[t].body # Half
    BY <1>1, <1>3, <2>1 DEF RowsInv, NoHalves
  <2>2. ASSUME ~unread, NEW a \in Actors, work'[a].op \in {"save", "put"} PROVE work'[a].args.body # Half
    BY <1>4, <1>5, <2>2 DEF RowsInv, NoHalves
  <2>3. QED  BY <2>1, <2>2 DEF RowsInv, NoHalves
<1>7. SavesAsApproved'  BY <1>4 DEF RowsInv, SavesAsApproved
<1>8. ApprovedByAPerson'
  <2>1. ASSUME NEW t \in Present', skills'[t].approved PROVE t \in blessed'
    BY <1>1, <1>3, <2>1 DEF RowsInv, ApprovedByAPerson
  <2>2. QED  BY <2>1 DEF ApprovedByAPerson
<1>9. RowsKnown'
  <2>1. ASSUME NEW t \in SkillIds, skills[t] # NoSkill PROVE skills'[t] # NoSkill
    BY <1>1, <2>1
  <2>2. ASSUME NEW a \in Actors PROVE WorksOn(work[a], skills')
    <3>1. WorksOn(work[a], skills)  BY DEF RowsInv, RowsKnown
    <3>2. work[a].op \in {"edit", "put"} \/ (work[a].op = "save" /\ work[a].row # 0) => work[a].row \in SkillIds
      BY WorkKinds DEF RowsInv, SaveShape, EditShape, PutShape
    <3>3. QED  BY <2>1, <3>1, <3>2 DEF WorksOn
  <2>3. ASSUME NEW a \in Actors PROVE WorksOn(work'[a], skills')
    <3>1. CASE work'[a] = NoWork  BY <3>1 DEF WorksOn, NoWork
    <3>2. CASE work'[a] \in EditShape /\ work'[a].row = s  BY <1>1, <3>2 DEF WorksOn
    <3>3. QED  BY <2>2, <3>1, <3>2
  <2>4. QED  BY <2>3 DEF RowsKnown
<1>10. QED  BY <1>2, <1>6, <1>7, <1>8, <1>9 DEF RowsInv

LEMMA RestsIs ==
  ASSUME RowsInv, NEW a \in Actors, Rests(a)
  PROVE  /\ work' \in [Actors -> WorkShape]
         /\ \A b \in Actors : work'[b] = work[b] \/ work'[b] = NoWork
BY DEF RowsInv, SkillsTypeOK, Rests, Does, WorkShape

LEMMA SavesWell ==
  ASSUME RowsInv, NEW a \in Actors, Saves(a)
  PROVE  RowsInv'
<1> DEFINE w == work[a]
<1>1. w.op = "save" /\ Rests(a) /\ UNCHANGED <<unread, garbled>>  BY DEF Saves, llmVars
<1>2. w \in SaveShape  BY <1>1, WorkKinds DEF RowsInv
<1>3. PICK s \in IF w.row = 0 THEN First(Unused) ELSE {w.row} :
               /\ skills' = [skills EXCEPT ![s] =
                               IF @ = Gone THEN @
                               ELSE [name |-> IF w.row = 0 THEN w.args.name ELSE @.name,
                                     body |-> w.args.body, approved |-> w.approved]]
               /\ Blesses(s, w.say)
  BY DEF Saves
<1> DEFINE row == IF skills[s] = Gone THEN skills[s]
                  ELSE [name |-> IF w.row = 0 THEN w.args.name ELSE skills[s].name,
                        body |-> w.args.body, approved |-> w.approved]
<1>4. s \in SkillIds /\ (w.row = 0 => skills[s] = NoSkill)
  BY <1>2, <1>3 DEF SaveShape, First, Unused
<1>5. w.row # 0 => s = w.row /\ skills[s] # NoSkill
  BY <1>1, <1>3 DEF RowsInv, RowsKnown, WorksOn
<1>6. /\ w.args \in GivenShape /\ w.args.name \in Names /\ w.args.body \in Bodies \cup {Half}
      /\ w.approved \in BOOLEAN /\ w.say \in {"yes", "no", "keep"}
  BY <1>2 DEF SaveShape, GivenShape
<1>7. skills[s] \in SkillShape \cup {NoSkill, Gone}  BY <1>4 DEF RowsInv, SkillsTypeOK
<1>8. w.row # 0 /\ skills[s] # Gone => skills[s].name \in Names
  BY <1>5, <1>7 DEF SkillShape
<1>9. row \in SkillShape \cup {Gone}  BY <1>6, <1>8 DEF SkillShape
<1>10. skills' = [skills EXCEPT ![s] = row]  BY <1>3
<1>11. blessed' = IF w.say = "yes" THEN blessed \cup {s} ELSE blessed  BY <1>3 DEF Blesses
<1>12. row # Gone => row.body = w.args.body /\ row.approved = w.approved  OBVIOUS
<1>13. ~unread /\ row # Gone => row.body # Half
  BY <1>1, <1>12 DEF RowsInv, NoHalves
<1>14. w.approved => w.say = "yes" \/ (w.row # 0 /\ w.row \in blessed)
  BY <1>1 DEF RowsInv, SavesAsApproved
<1>15. row # Gone /\ row.approved => s \in blessed'
  BY <1>5, <1>11, <1>12, <1>14
<1>16. blessed' \in {blessed, blessed \cup {s}}  BY <1>11
<1> HIDE DEF row, w
<1>17. QED  BY <1>1, <1>4, <1>9, <1>10, <1>13, <1>15, <1>16, RestsIs, RowWritten

LEMMA EditWritesWell ==
  ASSUME RowsInv, NEW a \in Actors, EditWrites(a)
  PROVE  RowsInv'
<1> DEFINE w == work[a]
           s == w.row
<1>1. w.op = "put" /\ Rests(a) /\ UNCHANGED <<unread, garbled, blessed>>  BY DEF EditWrites, llmVars
<1>2. w \in PutShape  BY <1>1, WorkKinds DEF RowsInv
<1>3. s \in SkillIds /\ w.args.name \in Names /\ w.args.body \in Bodies \cup {Half}
  BY <1>2 DEF PutShape, GivenShape
<1>4. skills[s] \in SkillShape \cup {Gone}
  BY <1>1, <1>3 DEF RowsInv, RowsKnown, WorksOn, SkillsTypeOK
<1> DEFINE row == IF skills[s] = Gone THEN skills[s]
                  ELSE [skills[s] EXCEPT !.name = w.args.name, !.body = w.args.body]
<1>5. skills' = [skills EXCEPT ![s] = row]  BY DEF EditWrites
<1>6. row \in SkillShape \cup {Gone}  BY <1>3, <1>4 DEF SkillShape
<1>7. row # Gone => row.body = w.args.body /\ row.approved = skills[s].approved /\ skills[s] # Gone
  BY <1>4 DEF SkillShape
<1>8. ~unread /\ row # Gone => row.body # Half  BY <1>1, <1>7 DEF RowsInv, NoHalves
<1>9. skills[s] # Gone => s \in Present  BY <1>1, <1>3 DEF Present, RowsInv, RowsKnown, WorksOn
<1>10. row # Gone /\ row.approved => s \in blessed'
  BY <1>1, <1>7, <1>9 DEF RowsInv, ApprovedByAPerson
<1> HIDE DEF row, w, s
<1>11. QED  BY <1>1, <1>3, <1>5, <1>6, <1>8, <1>10, RestsIs, RowWritten

LEMMA PutsWell ==
  ASSUME RowsInv, NEW a \in People, NEW s \in SkillIds, NEW say \in {"yes", "no", "keep"},
         NEW change \in Arguments \cup {NoArgs}, Puts(a, s, say, change)
  PROVE  RowsInv'
<1> DEFINE w == [op |-> "edit", row |-> s, change |-> change]
           row == IF say = "keep" THEN skills[s] ELSE [skills[s] EXCEPT !.approved = (say = "yes")]
<1>1. /\ s \in Present /\ Does(a, w) /\ Blesses(s, say) /\ UNCHANGED <<unread, garbled>>
      /\ a \in Actors
  BY DEF Puts, RequestKeeps, Actors
<1>2. skills[s] \in SkillShape /\ skills \in [SkillIds -> SkillShape \cup {NoSkill, Gone}]
  BY <1>1 DEF Present, RowsInv, SkillsTypeOK
<1>3. w \in EditShape /\ w.row = s /\ w \in WorkShape  BY DEF EditShape, WorkShape
<1> HIDE DEF w
<1>4. /\ work' \in [Actors -> WorkShape]
      /\ \A b \in Actors : work'[b] = work[b] \/ (work'[b] \in EditShape /\ work'[b].row = s)
  BY <1>1, <1>3 DEF Does, RowsInv, SkillsTypeOK
<1>5. skills' = [skills EXCEPT ![s] = row]
  <2>1. CASE say = "keep"
    <3>1. skills' = skills  BY <2>1 DEF Puts
    <3>2. QED  BY <1>2, <2>1, <3>1
  <2>2. CASE say # "keep"  BY <2>2 DEF Puts
  <2>3. QED  BY <2>1, <2>2
<1>6. row \in SkillShape /\ row.body = skills[s].body
      /\ row.approved = IF say = "keep" THEN skills[s].approved ELSE say = "yes"
  BY <1>2 DEF SkillShape
<1> HIDE DEF row
<1>7. blessed' \in {blessed, blessed \cup {s}} /\ blessed' = IF say = "yes" THEN blessed \cup {s} ELSE blessed
  BY <1>1 DEF Blesses
<1>8. ~unread => row.body # Half  BY <1>1, <1>6 DEF RowsInv, NoHalves
<1>9. row.approved => s \in blessed'
  BY <1>1, <1>6, <1>7 DEF RowsInv, ApprovedByAPerson
<1>10. QED  BY <1>1, <1>4, <1>5, <1>6, <1>7, <1>8, <1>9, RowWritten

LEMMA DeletesWell ==
  ASSUME RowsInv, NEW s \in SkillIds, Deletes(s)
  PROVE  RowsInv'
<1>1. /\ skills' = [skills EXCEPT ![s] = Gone] /\ UNCHANGED <<unread, garbled, work, blessed>>
      /\ work \in [Actors -> WorkShape]
  BY DEF Deletes, RequestKeeps, RowsInv, SkillsTypeOK
<1>2. QED  BY <1>1, RowWritten

-----------------------------------------------------------------------------
LEMMA PlaybooksBegin == PlaybooksInit => PlaybooksInv
<1> SUFFICES ASSUME PlaybooksInit PROVE PlaybooksInv
  OBVIOUS
<1>1. /\ stream = NoStream /\ calls = <<>> /\ garbled = FALSE /\ budget = MaxEvents
      /\ skills = [s \in SkillIds |-> NoSkill] /\ work = [a \in Actors |-> NoWork]
      /\ blessed = {} /\ unread = FALSE
  BY DEF PlaybooksInit, LlmInit
<1>2. LlmTypeOK
  <2>1. stream.open = FALSE  BY <1>1 DEF NoStream
  <2>2. <<>> \in Seq(Arguments \cup {NoArgs, Half})  OBVIOUS
  <2>3. QED  BY <1>1, <2>1, <2>2, LlmAssumption DEF LlmTypeOK
<1>3. SkillsTypeOK  BY <1>1 DEF SkillsTypeOK, WorkShape
<1>4. Present = {}  BY <1>1 DEF Present
<1>5. \A a \in Actors : work[a] = NoWork /\ NoWork.op = "none"  BY <1>1 DEF NoWork
<1>6. RowsInv
  BY <1>1, <1>3, <1>4, <1>5 DEF RowsInv, RowsKnown, WorksOn, NoHalves, SavesAsApproved, ApprovedByAPerson
<1>7. Heard /\ CallsAreWhole  BY <1>1 DEF Heard, NoStream, CallsAreWhole
<1>8. QED  BY <1>2, <1>3, <1>6, <1>7 DEF PlaybooksInv, RowsInv, PlaybooksTypeOK, SkillsTypeOK

LEMMA PlaybooksStep == PlaybooksInv /\ [PlaybooksNext]_playbookVars => PlaybooksInv'
<1> SUFFICES ASSUME PlaybooksInv, [PlaybooksNext]_playbookVars PROVE PlaybooksInv'
  OBVIOUS
<1>1. LlmTypeOK /\ Heard /\ CallsAreWhole /\ RowsInv
  BY DEF PlaybooksInv, PlaybooksTypeOK, RowsInv, SkillsTypeOK
<1> SUFFICES LlmTypeOK' /\ Heard' /\ CallsAreWhole' /\ RowsInv'
  BY DEF PlaybooksInv, PlaybooksTypeOK, RowsInv, SkillsTypeOK
<1>h. UNCHANGED <<stream, garbled>> => Heard'
  BY <1>1 DEF Heard, HeardByOpenai, HeardByAnthropic, Come
<1>w. UNCHANGED <<calls, garbled>> => CallsAreWhole'  BY <1>1 DEF CallsAreWhole
<1>2. CASE /\ \/ work[Agent] = NoWork /\ \E q \in Providers, meant \in Replies : Asks(q, meant)
              \/ Receives
           /\ unread' = (unread \/ garbled')
           /\ UNCHANGED <<skills, work, blessed>>
  <2>1. LlmTypeOK' /\ Heard' /\ CallsAreWhole'  BY <1>1, <1>2, LlmTypeStep, WholeStep
  <2>2. Present' = Present  BY <1>2 DEF Present
  <2>3. garbled' \in BOOLEAN /\ unread \in BOOLEAN  BY <1>1, <2>1 DEF LlmTypeOK, RowsInv, SkillsTypeOK
  <2>4. SkillsTypeOK' /\ RowsKnown' /\ SavesAsApproved' /\ ApprovedByAPerson'
    BY <1>1, <1>2, <2>2, <2>3 DEF RowsInv, SkillsTypeOK, RowsKnown, WorksOn, SavesAsApproved, ApprovedByAPerson
  <2>5. NoHalves'  BY <1>1, <1>2, <2>2 DEF RowsInv, NoHalves
  <2>6. QED  BY <2>1, <2>4, <2>5 DEF RowsInv
<1>3. CASE RunsCall
  BY <1>1, <1>3, <1>h, CallRuns DEF RunsCall
<1>4. ASSUME NEW a \in Actors, Saves(a) \/ EditReads(a) \/ EditWrites(a)
      PROVE  LlmTypeOK' /\ Heard' /\ CallsAreWhole' /\ RowsInv'
  <2>1. UNCHANGED <<stream, calls, garbled, budget>>
    BY <1>4 DEF Saves, EditReads, EditWrites, llmVars
  <2>2. LlmTypeOK'  BY <1>1, <2>1 DEF LlmTypeOK
  <2>3. RowsInv'  BY <1>1, <1>4, SavesWell, EditReadsWell, EditWritesWell
  <2>4. QED  BY <1>h, <1>w, <2>1, <2>2, <2>3
<1>5. ASSUME Spends, UNCHANGED <<stream, calls, garbled>>
      PROVE  LlmTypeOK' /\ Heard' /\ CallsAreWhole'
  <2>1. LlmTypeOK'  BY <1>1, <1>5 DEF LlmTypeOK, Spends
  <2>2. QED  BY <1>h, <1>w, <1>5, <2>1
<1>6. ASSUME NEW a \in People, NEW args \in Arguments, NEW say \in {"yes", "no"}, Posts(a, args, say)
      PROVE  LlmTypeOK' /\ Heard' /\ CallsAreWhole' /\ RowsInv'
  BY <1>1, <1>5, <1>6, PostsWell DEF Posts
<1>7. ASSUME NEW a \in People, NEW s \in SkillIds, NEW say \in {"yes", "no", "keep"},
             NEW change \in Arguments \cup {NoArgs}, Puts(a, s, say, change)
      PROVE  LlmTypeOK' /\ Heard' /\ CallsAreWhole' /\ RowsInv'
  BY <1>1, <1>5, <1>7, PutsWell DEF Puts, RequestKeeps
<1>8. ASSUME NEW s \in SkillIds, Deletes(s)
      PROVE  LlmTypeOK' /\ Heard' /\ CallsAreWhole' /\ RowsInv'
  BY <1>1, <1>5, <1>8, DeletesWell DEF Deletes, RequestKeeps
<1>9. CASE UNCHANGED playbookVars
  <2>1. UNCHANGED <<stream, calls, garbled, budget, skills, work, blessed, unread>>
    BY <1>9 DEF playbookVars, llmVars, skillVars
  <2>2. LlmTypeOK' /\ Present' = Present  BY <1>1, <2>1 DEF LlmTypeOK, Present
  <2>3. RowsInv'
    BY <1>1, <2>1, <2>2 DEF RowsInv, SkillsTypeOK, RowsKnown, WorksOn, NoHalves, SavesAsApproved,
                            ApprovedByAPerson
  <2>4. QED  BY <1>h, <1>w, <2>1, <2>2, <2>3
<1>10. QED  BY <1>2, <1>3, <1>4, <1>6, <1>7, <1>8, <1>9 DEF PlaybooksNext

LEMMA PlaybooksInvHolds == PlaybooksSpec => []PlaybooksInv
  BY PlaybooksBegin, PlaybooksStep, PTL DEF PlaybooksSpec

(* Rows, requests and the reply on its way keep their shapes (agent/llm.py,*)
(* skills.py).                                                             *)
THEOREM PlaybooksTyped == PlaybooksSpec => []PlaybooksTypeOK
<1>1. PlaybooksInv => PlaybooksTypeOK  BY DEF PlaybooksInv
<1>2. QED  BY <1>1, PlaybooksInvHolds, PTL

(* No body is stored of which only a half came, unless a line could not be *)
(* read (agent/llm.py: _openai_stream, _anthropic_stream; skills.py: save, *)
(* update).                                                                *)
THEOREM BodiesStayWhole == PlaybooksSpec => []BodiesAreWhole
<1>1. PlaybooksInv => BodiesAreWhole  BY DEF PlaybooksInv, NoHalves, BodiesAreWhole
<1>2. QED  BY <1>1, PlaybooksInvHolds, PTL

(* A playbook is approved only if a person approved its row (skills.py:    *)
(* save, set_approved).                                                    *)
THEOREM PeopleApprove == PlaybooksSpec => []ApprovedByAPerson
<1>1. PlaybooksInv => ApprovedByAPerson  BY DEF PlaybooksInv
<1>2. QED  BY <1>1, PlaybooksInvHolds, PTL

(* The client hands over the first of the calls that were meant, in their  *)
(* order, each as meant or without arguments, wherever the stream was cut  *)
(* (agent/llm.py: _openai_stream, _anthropic_stream).                      *)
THEOREM CallsAreMeant == PlaybooksSpec => CallsAreThoseMeant
<1>1. PlaybooksInv => [Ends /\ ~garbled => /\ Len(calls') <= Len(stream.meant)
                                           /\ \A n \in DOMAIN calls' : calls'[n] \in {stream.meant[n], NoArgs}]_llmVars
  BY EndsAsMeant DEF PlaybooksInv, PlaybooksTypeOK, HandsOver
<1>2. QED  BY <1>1, PlaybooksInvHolds, PTL DEF CallsAreThoseMeant
=============================================================================
