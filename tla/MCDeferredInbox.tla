-------------------------- MODULE MCDeferredInbox --------------------------
(* Small instances of DeferredInbox; deciding threads, chats and tokens are *)
(* interchangeable.                                                         *)
EXTENDS DeferredInbox, TLC

McSymmetry == Permutations(Actors) \cup Permutations(Chats) \cup Permutations(Tokens)
=============================================================================
