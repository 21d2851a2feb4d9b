--------------------------- MODULE MCRunRegistry ---------------------------
(* Small instances of RunRegistry. *)
EXTENDS RunRegistry
=============================================================================
