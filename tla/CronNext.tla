------------------------------ MODULE CronNext ------------------------------
(***************************************************************************)
(* Cron schedules (src/scheduler/cron.go): what the five fields of an      *)
(* expression select, and the search for the next activation, one          *)
(* iteration of its loop per step.                                         *)
(*                                                                         *)
(* Instants are minutes of UTC.  The calendar is a parameter, so that TLC  *)
(* can use a small one; a zone has one jump of its offset.                 *)
(***************************************************************************)
EXTENDS Integers

CONSTANTS
  MinutesPerHour, HoursPerDay, DaysPerWeek, MonthsPerYear,
  LongestMonth,   \* the range of the field day-of-month
  MonthStart(_),  \* the first day of each month, days and months from 0
  LastMonth,      \* bound: months after this one are not looked at
  SearchYears,    \* cronSearchYears
  Zones,          \* records [at, before, after]: the offset jumps at "at"
  RegularZones,   \* those whose jump keeps the search in order, see below
  Exprs,          \* the schedule expressions
  Starts,         \* the instants from which a search starts
  Epoch, Horizon  \* bounds: no search looks at an earlier or later instant

MinutesPerDay == MinutesPerHour * HoursPerDay
Instants == Epoch .. Horizon

\* A field of an expression: "*" alone, or a list of parts.
Part == [any : BOOLEAN, lo : Nat, hi : Nat, step : Nat]
Field == [star : BOOLEAN, parts : SUBSET Part]

ASSUME CalendarAssumption ==
  /\ {MinutesPerHour, HoursPerDay, DaysPerWeek, MonthsPerYear,
      LongestMonth, SearchYears} \subseteq Nat \ {0}
  /\ LastMonth \in Nat
  /\ Epoch \in Nat /\ Horizon \in Nat
  /\ Starts \subseteq Instants
  /\ \A z \in Zones : z.at \in Int /\ z.before \in Int /\ z.after \in Int

\* The months are in order; every day belongs to one, which has at most
\* LongestMonth days.
ASSUME MonthsAssumption ==
  /\ \A m \in 0 .. LastMonth :
       /\ MonthStart(m) \in Nat /\ MonthStart(m + 1) \in Nat
       /\ MonthStart(m + 1) <= MonthStart(m) + LongestMonth
  /\ \A m, n \in 0 .. LastMonth + 1 : m < n => MonthStart(m) < MonthStart(n)
  /\ \A d \in 0 .. MonthStart(LastMonth) - 1 :
       \E m \in 0 .. LastMonth : MonthStart(m) <= d /\ d < MonthStart(m + 1)

ASSUME ExprsAssumption ==
  \A e \in Exprs :
    {e.minute, e.hour, e.dom, e.month, e.dow} \subseteq Field

VARIABLES
  expr,   \* the expression, read by the properties only
  masks,  \* the cronSchedule it was parsed into
  zone,   \* t.Location()
  after,  \* the argument of Next
  t,      \* the candidate instant
  result, \* what Next returns; 0 is the zero time.Time
  done    \* has Next returned?

vars == <<expr, masks, zone, after, t, result, done>>

-----------------------------------------------------------------------------
(* The clock of a zone, as package time computes it.                        *)

Offset(z, u) == IF u < z.at THEN z.before ELSE z.after

\* The local time of an instant, in minutes of a clock without jumps.
Local(z, u) == u + Offset(z, u)

\* time.Date: the instant of a local time.  The offset is looked up as if the
\* local time were UTC, and again where it leads across the jump.
Date(z, local) ==
  LET guess == local - Offset(z, local)
  IN  IF Offset(z, guess) = Offset(z, local)
      THEN guess ELSE local - Offset(z, guess)

Day(local) == local \div MinutesPerDay

\* The month of each day.
MonthOfDay ==
  [d \in 0 .. MonthStart(LastMonth) - 1 |->
     CHOOSE m \in 0 .. LastMonth : MonthStart(m) <= d /\ d < MonthStart(m + 1)]

MonthOf(local) == MonthOfDay[Day(local)]

\* The calendar covers the instants that are looked at.
ASSUME CoverAssumption ==
  \A z \in Zones, u \in Instants :
    Day(Local(z, u)) \in 0 .. MonthStart(LastMonth) - 1

Minute(z, u)     == Local(z, u) % MinutesPerHour
Hour(z, u)       == (Local(z, u) % MinutesPerDay) \div MinutesPerHour
Weekday(z, u)    == Day(Local(z, u)) % DaysPerWeek
Month(z, u)      == (MonthOf(Local(z, u)) % MonthsPerYear) + 1
DayOfMonth(z, u) == Day(Local(z, u)) - MonthStart(MonthOf(Local(z, u))) + 1

\* Time.AddDate; a day past the end of the month runs into the next one.
AddDate(z, u, months, days) ==
  LET local == Local(z, u)
      month == MonthOf(local)
      day   == MonthStart(month + months) + (Day(local) - MonthStart(month)) + days
  IN  Date(z, day * MinutesPerDay + (local % MinutesPerDay))

-----------------------------------------------------------------------------
(* The fields of an expression: "*" alone, or a list of parts "a", "a-b" or *)
(* "*", each with a step.                                                   *)

\* The values that a list of parts selects between first and last: the loop
\* "for v := lo; v <= hi; v += step" for each part.
Selects(parts, first, last) ==
  {v \in first .. last :
     \E p \in parts, k \in 0 .. last - first :
       IF p.any THEN v = first + k * p.step
                ELSE v = p.lo + k * p.step /\ v <= p.hi}

\* parseField.
ParseField(field, first, last) ==
  IF field.star THEN first .. last ELSE Selects(field.parts, first, last)

\* The parts that parseField accepts.
Accepts(field, first, last) ==
  field.star \/ \A p \in field.parts :
    p.step >= 1 /\ (p.any \/ (first <= p.lo /\ p.lo <= p.hi /\ p.hi <= last))

\* The field of weekdays goes up to DaysPerWeek, which is folded onto 0.
FoldSunday(dow) ==
  IF DaysPerWeek \in dow THEN (dow \ {DaysPerWeek}) \cup {0} ELSE dow

\* parseCron: the bit masks, as sets.
ParseCron(e) ==
  [minute  |-> ParseField(e.minute, 0, MinutesPerHour - 1),
   hour    |-> ParseField(e.hour, 0, HoursPerDay - 1),
   dom     |-> ParseField(e.dom, 1, LongestMonth),
   month   |-> ParseField(e.month, 1, MonthsPerYear),
   dow     |-> FoldSunday(ParseField(e.dow, 0, DaysPerWeek)),
   domStar |-> e.dom.star,
   dowStar |-> e.dow.star]

ParseError(e) ==
  ~ /\ Accepts(e.minute, 0, MinutesPerHour - 1)
    /\ Accepts(e.hour, 0, HoursPerDay - 1)
    /\ Accepts(e.dom, 1, LongestMonth)
    /\ Accepts(e.month, 1, MonthsPerYear)
    /\ Accepts(e.dow, 0, DaysPerWeek)

\* Mutant: the two fields of the day are always combined with OR.
DayMatchesEither(c, z, u) == DayOfMonth(z, u) \in c.dom \/ Weekday(z, u) \in c.dow

\* dayMatches: OR if both fields of the day are restricted.
DayMatches(c, z, u) ==
  LET domMatch == DayOfMonth(z, u) \in c.dom
      dowMatch == Weekday(z, u) \in c.dow
  IN  \/ c.domStar /\ c.dowStar
      \/ c.domStar /\ ~c.dowStar /\ dowMatch
      \/ ~c.domStar /\ c.dowStar /\ domMatch
      \/ ~c.domStar /\ ~c.dowStar /\ (domMatch \/ dowMatch)

MonthMatches(c, z, u)  == Month(z, u) \in c.month
HourMatches(c, z, u)   == Hour(z, u) \in c.hour
MinuteMatches(c, z, u) == Minute(z, u) \in c.minute

-----------------------------------------------------------------------------
(* The search.                                                              *)

\* Where the loop goes when a field does not match.
NextMonth(z, u) ==
  AddDate(z, Date(z, MonthStart(MonthOf(Local(z, u))) * MinutesPerDay), 1, 0)

NextDay(z, u) ==
  AddDate(z, Date(z, Day(Local(z, u)) * MinutesPerDay), 0, 1)

NextHour(z, u) ==
  Date(z, Local(z, u) - (Local(z, u) % MinutesPerHour)) + MinutesPerHour

\* A zone is regular if every jump of the loop goes forward and stays, up to
\* its end, in the month, day or hour that did not match.
Regular(z) ==
  \A u \in Instants :
    /\ {NextMonth(z, u), NextDay(z, u), NextHour(z, u)} \subseteq Int
    /\ NextMonth(z, u) > u
    /\ \A w \in u .. NextMonth(z, u) - 1 : Month(z, w) = Month(z, u)
    /\ NextDay(z, u) > u
    /\ \A w \in u .. NextDay(z, u) - 1 :
         DayOfMonth(z, w) = DayOfMonth(z, u) /\ Weekday(z, w) = Weekday(z, u)
    /\ NextHour(z, u) > u
    /\ \A w \in u .. NextHour(z, u) - 1 : Hour(z, w) = Hour(z, u)

ASSUME RegularAssumption ==
  RegularZones \subseteq Zones /\ \A z \in RegularZones : Regular(z)

LimitOf(z, a) == AddDate(z, a + 1, SearchYears * MonthsPerYear, 0)
Limit == LimitOf(zone, after)

\* Every search ends within the horizon.
ASSUME HorizonAssumption ==
  \A z \in Zones, a \in Starts : LimitOf(z, a) \in Nat /\ LimitOf(z, a) <= Horizon

Init ==
  /\ expr \in {e \in Exprs : ~ParseError(e)}
  /\ masks = ParseCron(expr)
  /\ zone \in Zones
  /\ after \in Starts
  /\ t = after + 1
  /\ result = 0 /\ done = FALSE

MoveTo(u) ==
  /\ t' = u
  /\ UNCHANGED <<expr, masks, zone, after, result, done>>

Searching == ~done /\ t < Limit

SkipMonth ==
  /\ Searching /\ ~MonthMatches(masks, zone, t)
  /\ MoveTo(NextMonth(zone, t))

SkipDay ==
  /\ Searching /\ MonthMatches(masks, zone, t)
  /\ ~DayMatches(masks, zone, t)
  /\ MoveTo(NextDay(zone, t))

\* Mutant: the search goes back to the full hour and forgets to add one.
SkipHourTruncated ==
  /\ Searching /\ MonthMatches(masks, zone, t) /\ DayMatches(masks, zone, t)
  /\ ~HourMatches(masks, zone, t)
  /\ MoveTo(NextHour(zone, t) - MinutesPerHour)

SkipHour ==
  /\ Searching /\ MonthMatches(masks, zone, t) /\ DayMatches(masks, zone, t)
  /\ ~HourMatches(masks, zone, t)
  /\ MoveTo(NextHour(zone, t))

SkipMinute ==
  /\ Searching /\ MonthMatches(masks, zone, t) /\ DayMatches(masks, zone, t)
  /\ HourMatches(masks, zone, t) /\ ~MinuteMatches(masks, zone, t)
  /\ MoveTo(t + 1)

Return(u) ==
  /\ result' = u /\ done' = TRUE
  /\ UNCHANGED <<expr, masks, zone, after, t>>

Found ==
  /\ Searching /\ MonthMatches(masks, zone, t) /\ DayMatches(masks, zone, t)
  /\ HourMatches(masks, zone, t) /\ MinuteMatches(masks, zone, t)
  /\ Return(t)

GiveUp == ~done /\ t >= Limit /\ Return(0)

Next == SkipMonth \/ SkipDay \/ SkipHour \/ SkipMinute \/ Found \/ GiveUp

Spec == Init /\ [][Next]_vars

\* Next is a plain loop: it runs as long as it is not at its end.
FairSpec == Spec /\ WF_vars(Next)

-----------------------------------------------------------------------------
(* What an expression means, written independently of the masks.            *)

\* A value is selected by a field: by the star, or by a part.
Selected(field, v, first) ==
  field.star \/ \E p \in field.parts :
    IF p.any THEN (v - first) % p.step = 0
             ELSE v \in p.lo .. p.hi /\ (v - p.lo) % p.step = 0

\* Does the expression e fire at the instant u of zone z?
Fires(e, z, u) ==
  LET onDate == Selected(e.dom, DayOfMonth(z, u), 1)
      onDay  == \/ Selected(e.dow, Weekday(z, u), 0)
                \/ (Weekday(z, u) = 0 /\ Selected(e.dow, DaysPerWeek, 0))
  IN  /\ Selected(e.minute, Minute(z, u), 0)
      /\ Selected(e.hour, Hour(z, u), 0)
      /\ Selected(e.month, Month(z, u), 1)
      /\ IF e.dom.star \/ e.dow.star THEN onDate /\ onDay ELSE onDate \/ onDay

\* In a regular zone Next returns the first instant after its argument at which
\* the expression fires, or zero if it does not fire before the limit (Next,
\* dayMatches, parseField).
FirstFire ==
  done /\ zone \in RegularZones =>
    LET fires(u) == u < Limit /\ Fires(expr, zone, u)
    IN  IF result = 0
        THEN \A u \in after + 1 .. Limit - 1 : ~fires(u)
        ELSE /\ result > after /\ fires(result)
             /\ \A u \in after + 1 .. result - 1 : ~fires(u)

\* In a regular zone the search ends.
SearchEnds == zone \in RegularZones ~> done

-----------------------------------------------------------------------------
(* What the comment of Next promises in every zone.  Refuted by a run.      *)

\* "Next returns the first minute strictly after `after` that matches all
\* fields": it returns.
NextReturns == <>done

=============================================================================
