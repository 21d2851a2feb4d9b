----------------------------- MODULE MCDataDir -----------------------------
(* Two migrations; an older backup from elsewhere, and one without its key. *)
EXTENDS DataDir

CONSTANTS k1, k2, k3

McScripts == << <<FALSE>>, <<TRUE, FALSE>> >>

McOlder == [done |-> {<<1, 1>>}, versions |-> {1}, sealed |-> {k3}, account |-> "here",
            mission |-> "here", mixed |-> FALSE]

McGiven == {[key |-> k3, db |-> McOlder, torn |-> FALSE],
            [key |-> NoKey, db |-> McOlder, torn |-> TRUE]}
=============================================================================
