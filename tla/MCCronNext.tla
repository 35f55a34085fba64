----------------------------- MODULE MCCronNext -----------------------------
(* A calendar with hours of two minutes, days of four hours, weeks of three *)
(* days and years of two months; the first month has three days, the second *)
(* two, or three in every other year.                                       *)
EXTENDS CronNext

MCMonthStart(m) ==
  11 * (m \div 4) + CASE m % 4 = 0 -> 0 [] m % 4 = 1 -> 3
                      [] m % 4 = 2 -> 5 [] m % 4 = 3 -> 8

At(at, before, after_) == [at |-> at, before |-> before, after |-> after_]

\* No jump; an hour forward and an hour back, by day, east of Greenwich; an
\* hour forward by day west of it.  Day 4 of the calendar begins at 32.
MCRegular == {At(0, 0, 0), At(32, 2, 4), At(32, 4, 2), At(38, -4, -2)}

\* An hour back by day, west of Greenwich, as in New York.
MCFallBackWest == {At(36, -2, -4)}

Star == [star |-> TRUE, parts |-> {}]
Just(v) == [star |-> FALSE,
            parts |-> {[any |-> FALSE, lo |-> v, hi |-> v, step |-> 1]}]
Range(a, b) == [star |-> FALSE,
                parts |-> {[any |-> FALSE, lo |-> a, hi |-> b, step |-> 1]}]
Every(n) == [star |-> FALSE,
             parts |-> {[any |-> TRUE, lo |-> 0, hi |-> 0, step |-> n]}]

MCExprs ==
  [minute : {Star, Just(1)}, hour : {Just(0), Just(3), Range(1, 2)},
   dom : {Star, Just(1), Just(3), Every(2)}, month : {Star, Just(2)},
   dow : {Star, Just(2), Range(2, 3)}]

\* The shapes of the built-in tasks: daily, weekly, monthly.
MCBuiltin ==
  [minute : {Just(0)}, hour : {Just(3)},
   dom : {Star, Just(1)}, month : {Star}, dow : {Star, Just(0)}]

MCStarts == 22 .. 36
=============================================================================
