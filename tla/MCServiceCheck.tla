--------------------------- MODULE MCServiceCheck ---------------------------
(* Small instances of ServiceCheck. *)
EXTENDS ServiceCheck, TLC

CONSTANTS c1, c2

Fixed(cooldown) == [enabled |-> TRUE, autoFix |-> TRUE, pinned |-> TRUE, threshold |-> 2,
                    cooldown |-> cooldown]
Watch == [enabled |-> TRUE, autoFix |-> FALSE, pinned |-> FALSE, threshold |-> 2, cooldown |-> 1]

ConfigsOf == (c1 :> {Fixed(1), Fixed(2)}) @@ [c \in Checks \ {c1} |-> {Watch}]
ConditionsOf == (c1 :> {"ok", "fail"}) @@ [c \in Checks \ {c1} |-> {"ok"}]

(* The cooldown of c1 begins short; an edit makes it long. *)
BeginsShort == ChecksInit /\ \A c \in Checks : checks[c].config.cooldown = 1

FromShort == BeginsShort /\ [][ChecksNext]_checkVars /\ ChecksFairness
=============================================================================
