--------------------------- MODULE MCJobScheduler ---------------------------
(***************************************************************************)
(* Small instances of JobScheduler: a minute to be created or edited in,   *)
(* one to fire in, and the same local time once more, the clocks having    *)
(* been put back.  The schedules are those of cron expressions.            *)
(***************************************************************************)
EXTENDS JobScheduler

One(n) == Listed({Between(n, n, 1)})
Cron(mins, hours, doms, mons, dows) ==
  [minute |-> mins, hour |-> hours, dom |-> doms, month |-> mons, dow |-> dows]

PutBack == [m \in 0 .. 2 |-> IF m < 2 THEN m ELSE m - 1]
LocalTimes == {PutBack[m] : m \in 0 .. 2}

(* "1 0 * * *" and "* 0 * * *" *)
TwoSchedules ==
  {{w \in LocalTimes : CronMatch(Cron(mins, One(0), Star, Star, Star), w)} : mins \in {One(1), Star}}
-----------------------------------------------------------------------------
(***************************************************************************)
(* The rules of CronRule against what they should mean, searched through   *)
(* for every expression and zone below.                                    *)
(***************************************************************************)
Expressions ==
  {Cron(mins, hours, doms, mons, dows) :
     mins \in {Star, One(1), One(7)}, hours \in {Star, Listed({Every(2)})},
     doms \in {Star, Listed({Between(1, 3, 2)})}, mons \in {Star, One(2)},
     dows \in {Star, One(7), Listed({Between(3, 7, 2)}), Listed({Between(2, 3, 0)})}}

(* A zone that is d minutes ahead before minute 6 and e after. *)
Zone(d, e) == [m \in 0 .. 60 |-> IF m < 6 THEN m + d ELSE m + e]
Zones == {Zone(0, 0), Zone(5, 5), Zone(2, 4), Zone(4, 2)}

Keeps(zone, from, to) == \A m \in from .. to : zone[m] - m = zone[from] - from

FirstMatch(expr, zone, now) ==
  LET hits == {m \in now + 1 .. now + Horizon : CronMatch(expr, zone[m])}
  IN  {m \in hits : \A n \in hits : m <= n}

(* The next run shown, which compute_next_run counts out on the wall       *)
(* clock, is the minute in which the tick will next find a match, unless   *)
(* the clocks are changed before it; and if there is none, none is shown.  *)
ASSUME NextRunIsTheTicks ==
  \A expr \in Expressions, zone \in Zones, now \in {3, 9}, m \in 0 .. 60 :
    m \in now + 1 .. now + Horizon /\ Keeps(zone, now, m) =>
      (IsNextRun(expr, zone, now, m) <=> m \in FirstMatch(expr, zone, now))

(* A field "a-b/s" is what can be counted to from a by s without passing b *)
(* (_parse_field), and Sunday is 0 and 7.                                  *)
ASSUME FieldsCount ==
  /\ \A a \in 0 .. 5, b \in 0 .. 5, s \in 1 .. 3 :
       ParseField(Listed({Between(a, b, s)}), 0, 5) = {a + k * s : k \in 0 .. 5} \cap 0 .. b
  /\ DaysOfWeek(One(7)) \cap 0 .. 6 = DaysOfWeek(One(0))
=============================================================================
