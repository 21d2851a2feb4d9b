---------------------------- MODULE MCPlaybooks ----------------------------
(* Replies of one or two calls that save one playbook or two. *)
EXTENDS Playbooks, TLC

CONSTANTS n1, n2, b1, b2

PeopleAreAlike == Permutations(People)

McArguments == [name : {n1, n2}, body : {b1, b2}]
McFirst == [name |-> n1, body |-> b1]
McReplies == {<<McFirst>>, <<McFirst, [name |-> n1, body |-> b2]>>, <<McFirst, [name |-> n2, body |-> b2]>>}
=============================================================================
