------------------------------ MODULE CronRule ------------------------------
(***************************************************************************)
(* Cron expressions and local time (schedule.py): what an expression       *)
(* matches, and the next run shown for it.  A local time is the number of  *)
(* its minute on the wall clock; a zone gives the local time of each       *)
(* minute, going back or forward where the clocks are changed.             *)
(*                                                                         *)
(* The calendar has the sizes it is given, so that a small one can be      *)
(* searched whole; only the week keeps its seven days.                     *)
(***************************************************************************)
EXTENDS Integers, FiniteSets

CONSTANTS
  MinutesInHour, HoursInDay, DaysInMonth, MonthsInYear,
  Horizon     \* minutes compute_next_run looks ahead (90 days)

ASSUME CalendarAssumption ==
  /\ {MinutesInHour, HoursInDay, DaysInMonth, MonthsInYear} \subseteq Nat \ {0}
  /\ Horizon \in Nat

(***************************************************************************)
(* A field is the text "*", or a list of parts: each a range or "*", with  *)
(* a step.  A part that is no number leaves no parts.                      *)
(***************************************************************************)
Star == [star |-> TRUE, parts |-> {}]
Listed(parts) == [star |-> FALSE, parts |-> parts]
Between(from, to, step) == [every |-> FALSE, from |-> from, to |-> to, step |-> step]
Every(step) == [every |-> TRUE, from |-> 0, to |-> 0, step |-> step]

(* range(a, end, step) *)
PyRange(a, end, step) ==
  IF step > 0 THEN {n \in a .. end - 1 : (n - a) % step = 0}
              ELSE {n \in end + 1 .. a : (a - n) % (0 - step) = 0}

ParseField(field, lo, hi) ==
  IF field.star THEN lo .. hi
  ELSE UNION {IF p.every THEN PyRange(lo, hi + 1, p.step)
                         ELSE PyRange(p.from, p.to + 1, p.step) : p \in field.parts}

IsValidCron(expr) ==
  \A f \in DOMAIN expr :
    expr[f].star \/ (expr[f].parts # {} /\ \A p \in expr[f].parts : p.step # 0)

DaysOfWeek(field) ==
  LET dows == ParseField(field, 0, 7) IN IF 7 \in dows THEN dows \cup {0} ELSE dows

Fields(w) ==
  LET hours == w \div MinutesInHour
      days == hours \div HoursInDay
  IN  [minute |-> w % MinutesInHour, hour |-> hours % HoursInDay, dow |-> days % 7,
       dom |-> (days % DaysInMonth) + 1,
       month |-> ((days \div DaysInMonth) % MonthsInYear) + 1]

(* When day and weekday are both restricted, either is enough. *)
CronMatch(expr, w) ==
  LET t == Fields(w)
      domOk == t.dom \in ParseField(expr.dom, 1, DaysInMonth)
      dowOk == t.dow \in DaysOfWeek(expr.dow)
  IN  /\ IsValidCron(expr)
      /\ t.minute \in ParseField(expr.minute, 0, MinutesInHour - 1)
      /\ t.hour \in ParseField(expr.hour, 0, HoursInDay - 1)
      /\ t.month \in ParseField(expr.month, 1, MonthsInYear)
      /\ IF expr.dom.star \/ expr.dow.star THEN domOk /\ dowOk ELSE domOk \/ dowOk
-----------------------------------------------------------------------------
(* The minute a local time stands for (astimezone, fold 0): the first of   *)
(* two, and a skipped one by the clock as it was before.                   *)
StandsFor(zone, w, m) ==
  \E n \in DOMAIN zone :
    /\ zone[n] >= w /\ \A k \in 0 .. n - 1 : zone[k] < w
    /\ m = IF n = 0 THEN n + w - zone[n] ELSE n - 1 + w - zone[n - 1]

(* compute_next_run counts on the wall clock, from the minute after now.   *)
NextLocal(expr, w) ==
  LET hits == {v \in w + 1 .. w + Horizon : CronMatch(expr, v)}
  IN  {v \in hits : \A u \in hits : v <= u}

IsNextRun(expr, zone, now, m) == \E v \in NextLocal(expr, zone[now]) : StandsFor(zone, v, m)
=============================================================================
