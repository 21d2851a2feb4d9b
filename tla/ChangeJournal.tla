--------------------------- MODULE ChangeJournal ---------------------------
(***************************************************************************)
(* The change journal: write_remote_file (agent/tools/files.py) reads a    *)
(* file of a host, overwrites it and records both in change_journal        *)
(* (changes.py); the revert request (app.py) puts back what the row holds. *)
(* Each of these is an SSH session or a statement of its own, run by many  *)
(* threads at once, and the files change under them.                       *)
(*                                                                         *)
(* One host, which may be deleted from the inventory.  A file's content is *)
(* a value; Captured says what of it a read brings back: ssh.run strips    *)
(* terminal controls from any output and the journal stores its first      *)
(* 400,000 characters.                                                     *)
(***************************************************************************)
EXTENDS Naturals, Sequences

CONSTANTS
  Files,
  Contents,
  Captured,      \* [Contents -> Contents], what a read makes of a content
  Empty,         \* a content, the empty one
  Absent,        \* no such file
  Writers,       \* bound: agent threads running a tool at the same time
  Reverters,     \* bound: revert requests in flight
  MaxRows,       \* bound: rows of the journal
  MaxMishaps     \* bound: restarts, deletions of the host, changes nobody journals

ASSUME JournalAssumption ==
  /\ Captured \in [Contents -> Contents]
  /\ Empty \in Contents /\ Absent \notin Contents
  /\ Writers \cap Reverters = {}
  /\ MaxRows \in Nat /\ MaxMishaps \in Nat

States == Contents \cup {Absent}
Rows == [file : Files, before : Contents, had : BOOLEAN, reversible : BOOLEAN, reverted : BOOLEAN]

VARIABLES
  disk,       \* the files of the host
  journal,    \* the change_journal table; a row's id is its place
  known,      \* the host is in the inventory
  at,         \* the threads
  mishaps,    \* bound
  cut,        \* history: a restart has cut requests short
  origins,    \* history: for each row, the file when it was read and when it was overwritten
  undone,     \* history: rows some revert has undone on the host
  audited     \* history: rows with an audit row of their revert

vars == <<disk, journal, known, at, mishaps, cut, origins, undone, audited>>
history == <<mishaps, cut, origins, undone, audited>>

Mishap == mishaps < MaxMishaps /\ mishaps' = mishaps + 1

Threads == Writers \cup Reverters
Idle == [pc |-> "idle"]
Ids == 1 .. Len(journal)

Init ==
  /\ disk \in [Files -> States]
  /\ journal = <<>>
  /\ known = TRUE
  /\ at = [t \in Threads |-> Idle]
  /\ mishaps = 0 /\ cut = FALSE
  /\ origins = <<>> /\ undone = {} /\ audited = {}

(* What a failed push leaves: nothing done, or the file cut short by tee,  *)
(* or written and only the answer lost.                                    *)
Botched(f, content) ==
  {disk, [disk EXCEPT ![f] = Empty], [disk EXCEPT ![f] = content]}
-----------------------------------------------------------------------------
(* write_remote_file *)
StartsWrite(w, f, content) ==
  /\ at[w] = Idle /\ Len(journal) < MaxRows
  /\ at' = [at EXCEPT ![w] = [pc |-> "read", file |-> f, content |-> content]]
  /\ UNCHANGED <<disk, journal, known, history>>

(* read_file returned before and had; seen is what the file really was. *)
Reading(w, before, had) ==
  [pc |-> "push", file |-> at[w].file, content |-> at[w].content,
   before |-> before, had |-> had, seen |-> disk[at[w].file], was |-> Absent]

Reads(w) ==
  /\ at[w].pc = "read"
  /\ at' = [at EXCEPT ![w] = IF disk[@.file] \in Contents THEN Reading(w, Captured[disk[@.file]], TRUE)
                                                          ELSE Reading(w, Empty, FALSE)]
  /\ UNCHANGED <<disk, journal, known, history>>

(* The session, sudo or cat failed: the same answer as for no file. *)
ReadFails(w) ==
  /\ at[w].pc = "read"
  /\ at' = [at EXCEPT ![w] = Reading(w, Empty, FALSE)]
  /\ UNCHANGED <<disk, journal, known, history>>

Pushes(w) ==
  /\ at[w].pc = "push"
  /\ disk' = [disk EXCEPT ![at[w].file] = at[w].content]
  /\ at' = [at EXCEPT ![w].pc = "record", ![w].was = disk[at[w].file]]
  /\ UNCHANGED <<journal, known, history>>

(* Only a write that reports success is recorded. *)
PushFails(w) ==
  /\ at[w].pc = "push"
  /\ disk' \in Botched(at[w].file, at[w].content)
  /\ at' = [at EXCEPT ![w] = Idle]
  /\ UNCHANGED <<journal, known, history>>

RowOf(w) == [file |-> at[w].file, before |-> at[w].before, had |-> at[w].had,
             reversible |-> TRUE, reverted |-> FALSE]

(* record_file_change *)
Records(w) ==
  /\ at[w].pc = "record" /\ Len(journal) < MaxRows
  /\ journal' = Append(journal, RowOf(w))
  /\ origins' = Append(origins, [seen |-> at[w].seen, was |-> at[w].was])
  /\ at' = [at EXCEPT ![w] = Idle]
  /\ UNCHANGED <<disk, known, mishaps, cut, undone, audited>>

(* "journaling must never break the write": its exceptions are swallowed. *)
RecordFails(w) ==
  /\ at[w].pc = "record"
  /\ at' = [at EXCEPT ![w] = Idle]
  /\ UNCHANGED <<disk, journal, known, history>>

(* A risky command changes a file and leaves a note (record_command). *)
RunsCommand(w, f, state) ==
  /\ at[w] = Idle /\ Len(journal) < MaxRows
  /\ disk' = [disk EXCEPT ![f] = state]
  /\ journal' = Append(journal, [file |-> f, before |-> Empty, had |-> FALSE,
                                 reversible |-> FALSE, reverted |-> FALSE])
  /\ origins' = Append(origins, [seen |-> disk[f], was |-> disk[f]])
  /\ UNCHANGED <<known, at, mishaps, cut, undone, audited>>
-----------------------------------------------------------------------------
(* POST /api/changes/<cid>/revert.  The row is read once; the host is      *)
(* looked up right after it, and nothing depends on the order of the two.  *)
AsksRevert(r, i) ==
  /\ at[r] = Idle
  /\ journal[i].reversible /\ ~journal[i].reverted /\ known
  /\ at' = [at EXCEPT ![r] = [pc |-> "undo", id |-> i, row |-> journal[i]]]
  /\ UNCHANGED <<disk, journal, known, history>>

(* Mutant: a file that was not there is put back empty. *)
Refilled(row) == row.before

Restored(row) == IF row.had THEN row.before ELSE Absent

Undoes(r) ==
  /\ at[r].pc = "undo"
  /\ disk' = [disk EXCEPT ![at[r].row.file] = Restored(at[r].row)]
  /\ at' = [at EXCEPT ![r].pc = "mark"]
  /\ undone' = undone \cup {at[r].id}
  /\ UNCHANGED <<journal, known, mishaps, cut, origins, audited>>

(* Mutant: the answer of the host is not looked at. *)
UndoFailsUnseen(r) ==
  /\ at[r].pc = "undo"
  /\ disk' \in Botched(at[r].row.file, Restored(at[r].row))
  /\ at' = [at EXCEPT ![r].pc = "mark"]
  /\ UNCHANGED <<journal, known, history>>

(* "revert failed": the row stays revertible. *)
UndoFails(r) ==
  /\ at[r].pc = "undo"
  /\ disk' \in Botched(at[r].row.file, Restored(at[r].row))
  /\ at' = [at EXCEPT ![r] = Idle]
  /\ UNCHANGED <<journal, known, history>>

(* Mutant: the request ends with the mark. *)
MarksOnly(r) ==
  /\ at[r].pc = "mark"
  /\ journal' = [journal EXCEPT ![at[r].id].reverted = TRUE]
  /\ at' = [at EXCEPT ![r] = Idle]
  /\ UNCHANGED <<disk, known, history>>

(* mark_reverted *)
Marks(r) ==
  /\ at[r].pc = "mark"
  /\ journal' = [journal EXCEPT ![at[r].id].reverted = TRUE]
  /\ at' = [at EXCEPT ![r].pc = "audit"]
  /\ UNCHANGED <<disk, known, history>>

Audits(r) ==
  /\ at[r].pc = "audit"
  /\ audited' = audited \cup {at[r].id}
  /\ at' = [at EXCEPT ![r] = Idle]
  /\ UNCHANGED <<disk, journal, known, mishaps, cut, origins, undone>>
-----------------------------------------------------------------------------
(* Somebody else works on the host. *)
ChangesOutside(f, state) ==
  /\ Mishap
  /\ disk' = [disk EXCEPT ![f] = state]
  /\ UNCHANGED <<journal, known, at, cut, origins, undone, audited>>

(* The journal has no foreign key: its rows outlive the host. *)
DeletesHost ==
  /\ Mishap
  /\ known /\ known' = FALSE
  /\ UNCHANGED <<disk, journal, at, cut, origins, undone, audited>>

(* The process dies and its threads with it. *)
Restart ==
  /\ Mishap
  /\ at' = [t \in Threads |-> Idle]
  /\ cut' = TRUE
  /\ UNCHANGED <<disk, journal, known, origins, undone, audited>>

Write(w) == \/ Reads(w) \/ ReadFails(w) \/ Pushes(w) \/ PushFails(w)
            \/ Records(w) \/ RecordFails(w)
Revert(r) == Undoes(r) \/ UndoFails(r) \/ Marks(r) \/ Audits(r)

Next ==
  \/ \E w \in Writers : \/ \E f \in Files, c \in Contents : StartsWrite(w, f, c)
                        \/ \E f \in Files, s \in States : RunsCommand(w, f, s)
                        \/ Write(w)
  \/ \E r \in Reverters : (\E i \in Ids : AsksRevert(r, i)) \/ Revert(r)
  \/ \E f \in Files, s \in States : ChangesOutside(f, s)
  \/ DeletesHost
  \/ Restart

Spec == Init /\ [][Next]_vars

(* Sessions have timeouts, so a revert keeps moving. *)
FairSpec == Spec /\ \A r \in Reverters : WF_vars(Revert(r))
-----------------------------------------------------------------------------
ThreadShape ==
  {Idle}
  \cup [pc : {"read"}, file : Files, content : Contents]
  \cup [pc : {"push", "record"}, file : Files, content : Contents, before : Contents,
        had : BOOLEAN, seen : States, was : States]
  \cup [pc : {"undo", "mark", "audit"}, id : Nat \ {0}, row : Rows]

(* Rows, threads and files hold what the code puts there. *)
TypeOK ==
  /\ disk \in [Files -> States]
  /\ journal \in Seq(Rows)
  /\ known \in BOOLEAN
  /\ at \in [Threads -> ThreadShape]
  /\ mishaps \in Nat /\ cut \in BOOLEAN
  /\ origins \in Seq([seen : States, was : States])
  /\ undone \in SUBSET Nat /\ audited \in SUBSET Nat

(* The read brought back the whole file, and it was that file the write    *)
(* replaced.                                                               *)
Faithful(i) ==
  /\ origins[i].seen = origins[i].was
  /\ origins[i].was \in Contents => journal[i].had /\ Captured[origins[i].was] = origins[i].was

Undoing(r) == at[r].pc = "undo" /\ at'[r].pc = "mark"

(* "restore the old content, or delete the file if it didn't exist before" *)
(* (changes.py): whatever ran in between, a revert that succeeds leaves    *)
(* the file as it was when the agent overwrote it, provided that the read  *)
(* before the write had brought it back whole.                             *)
UndoRestores ==
  [][\A r \in Reverters : Undoing(r) /\ Faithful(at[r].id)
                          => disk'[at[r].row.file] = origins[at[r].id].was]_vars

(* A row says reverted only after its undo succeeded on the host: a failed *)
(* revert, a race of two or a restart never loses the offer to undo.       *)
RevertedWasUndone == \A i \in Ids : journal[i].reverted => i \in undone

(* Every revert is audited, whoever wins the race for the row, unless a    *)
(* restart cuts its request short.                                         *)
RevertsAreAudited ==
  \A i \in 1 .. MaxRows : i \in Ids /\ journal[i].reverted
                          ~> i \in audited \/ cut

-----------------------------------------------------------------------------
(***************************************************************************)
(* What the documents say and the code does not do.                        *)
(***************************************************************************)
(* A revert deletes a file only if it did not exist when the agent wrote   *)
(* it (changes.py; app.py: "file didn't exist before this change").        *)
DeletesOnlyWhatItCreated ==
  [][\A r \in Reverters : Undoing(r) /\ at[r].row.file \in {f \in Files : disk'[f] = Absent}
                          => origins[at[r].id].seen = Absent]_vars
=============================================================================
