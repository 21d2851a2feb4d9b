-------------------------- MODULE MCChangeJournal --------------------------
(* Small instances of ChangeJournal: one content survives a read, the other *)
(* loses its control characters.                                            *)
EXTENDS ChangeJournal

Read == [c \in Contents |-> IF c = "raw" THEN "plain" ELSE c]
=============================================================================
