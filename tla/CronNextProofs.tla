--------------------------- MODULE CronNextProofs ---------------------------
(***************************************************************************)
(* Proofs about the search for the next activation, for every calendar,    *)
(* every set of expressions and every regular zone.                        *)
(***************************************************************************)
EXTENDS CronNext, TLAPS

\* All four fields match.
Matches(c, z, u) ==
  /\ MonthMatches(c, z, u) /\ DayMatches(c, z, u)
  /\ HourMatches(c, z, u) /\ MinuteMatches(c, z, u)

\* No instant between the argument and the candidate matches.
NoneSkipped ==
  t \in Int /\ after < t /\ \A u \in after + 1 .. t - 1 : ~Matches(masks, zone, u)

\* What the search has found so far.
Outcome ==
  \/ ~done /\ result = 0
  \/ done /\ result = 0 /\ t >= Limit
  \/ done /\ result = t /\ t < Limit /\ Matches(masks, zone, t)

Inv ==
  /\ zone \in Zones /\ after \in Starts /\ done \in BOOLEAN
  /\ zone \in RegularZones => NoneSkipped
  /\ Outcome

-----------------------------------------------------------------------------
\* The candidate of a search that goes on lies within the horizon.
LEMMA CandidateInHorizon ==
  ASSUME Inv, Searching, zone \in RegularZones
  PROVE  t \in Instants
<1>1. after \in Instants /\ after < t /\ t \in Int
  BY CalendarAssumption DEF Inv, NoneSkipped
<1>2. Limit \in Nat /\ Limit <= Horizon /\ t < Limit
  BY HorizonAssumption DEF Inv, Limit, Searching
<1> QED BY <1>1, <1>2, CalendarAssumption DEF Instants

\* A jump of the loop over instants that do not match keeps the invariant.
LEMMA JumpSkipsNothing ==
  ASSUME Inv, ~done, NEW v, MoveTo(v),
         zone \in RegularZones =>
           v \in Int /\ v > t /\ \A u \in t .. v - 1 : ~Matches(masks, zone, u)
  PROVE  Inv'
<1>1. UNCHANGED <<expr, masks, zone, after, result, done>> /\ t' = v
  BY DEF MoveTo
<1>2. ASSUME zone \in RegularZones PROVE NoneSkipped'
  <2>1. t \in Int /\ after < t /\ \A u \in after + 1 .. t - 1 : ~Matches(masks, zone, u)
    BY <1>2 DEF Inv, NoneSkipped
  <2>2. v \in Int /\ v > t /\ \A u \in t .. v - 1 : ~Matches(masks, zone, u)
    BY <1>2
  <2>3. after \in Int
    BY CalendarAssumption DEF Inv, Instants
  <2>4. ASSUME NEW u \in after + 1 .. v - 1 PROVE ~Matches(masks, zone, u)
    <3>1. CASE u < t
      BY <2>1, <2>3, <2>2, <3>1
    <3>2. CASE u >= t
      BY <2>1, <2>3, <2>2, <3>2
    <3> QED BY <3>1, <3>2, <2>1, <2>3
  <2> QED BY <1>1, <2>1, <2>2, <2>3, <2>4 DEF NoneSkipped
<1>3. Outcome'
  BY <1>1 DEF Inv, Outcome
<1> QED BY <1>1, <1>2, <1>3 DEF Inv

\* The facts of a regular zone at the candidate.
LEMMA RegularAtCandidate ==
  ASSUME Inv, Searching, zone \in RegularZones
  PROVE  /\ {NextMonth(zone, t), NextDay(zone, t), NextHour(zone, t)} \subseteq Int
         /\ NextMonth(zone, t) > t
         /\ \A w \in t .. NextMonth(zone, t) - 1 : Month(zone, w) = Month(zone, t)
         /\ NextDay(zone, t) > t
         /\ \A w \in t .. NextDay(zone, t) - 1 :
              /\ DayOfMonth(zone, w) = DayOfMonth(zone, t)
              /\ Weekday(zone, w) = Weekday(zone, t)
         /\ NextHour(zone, t) > t
         /\ \A w \in t .. NextHour(zone, t) - 1 : Hour(zone, w) = Hour(zone, t)
BY CandidateInHorizon, RegularAssumption DEF Regular

LEMMA StepKeepsInv ==
  ASSUME Inv, [Next]_vars
  PROVE  Inv'
<1>1. CASE SkipMonth
  <2>1. ASSUME zone \in RegularZones
        PROVE  \A u \in t .. NextMonth(zone, t) - 1 : ~Matches(masks, zone, u)
    BY <1>1, <2>1, RegularAtCandidate DEF SkipMonth, Matches, MonthMatches
  <2> QED
    BY <1>1, <2>1, RegularAtCandidate, JumpSkipsNothing DEF SkipMonth, Searching
<1>2. CASE SkipDay
  <2>1. ASSUME zone \in RegularZones
        PROVE  \A u \in t .. NextDay(zone, t) - 1 : ~Matches(masks, zone, u)
    <3>1. \A u \in t .. NextDay(zone, t) - 1 :
            DayMatches(masks, zone, u) = DayMatches(masks, zone, t)
      BY <1>2, <2>1, RegularAtCandidate DEF SkipDay, DayMatches
    <3> QED BY <1>2, <3>1 DEF SkipDay, Matches
  <2> QED
    BY <1>2, <2>1, RegularAtCandidate, JumpSkipsNothing DEF SkipDay, Searching
<1>3. CASE SkipHour
  <2>1. ASSUME zone \in RegularZones
        PROVE  \A u \in t .. NextHour(zone, t) - 1 : ~Matches(masks, zone, u)
    BY <1>3, <2>1, RegularAtCandidate DEF SkipHour, Matches, HourMatches
  <2> QED
    BY <1>3, <2>1, RegularAtCandidate, JumpSkipsNothing DEF SkipHour, Searching
<1>4. CASE SkipMinute
  <2>1. ASSUME zone \in RegularZones
        PROVE  t + 1 \in Int /\ t + 1 > t
               /\ \A u \in t .. (t + 1) - 1 : ~Matches(masks, zone, u)
    <3>1. t \in Int
      BY <2>1 DEF Inv, NoneSkipped
    <3>2. \A u \in t .. (t + 1) - 1 : u = t
      BY <3>1
    <3> QED BY <1>4, <3>1, <3>2 DEF SkipMinute, Matches
  <2> QED BY <1>4, <2>1, JumpSkipsNothing DEF SkipMinute, Searching
<1>5. CASE Found
  <2>1. UNCHANGED <<expr, masks, zone, after, t>> /\ result' = t /\ done'
    BY <1>5 DEF Found, Return
  <2>2. Limit' = Limit
    BY <2>1 DEF Limit
  <2>3. Matches(masks, zone, t) /\ t < Limit
    BY <1>5 DEF Found, Matches, Searching
  <2>4. Outcome'
    BY <2>1, <2>2, <2>3 DEF Outcome
  <2> QED BY <2>1, <2>2, <2>4, <1>5 DEF Inv, NoneSkipped, Found, Return
<1>6. CASE GiveUp
  <2>1. UNCHANGED <<expr, masks, zone, after, t>> /\ result' = 0 /\ done' /\ t >= Limit
    BY <1>6 DEF GiveUp, Return
  <2>2. Limit' = Limit
    BY <2>1 DEF Limit
  <2>3. Outcome'
    BY <2>1, <2>2 DEF Outcome
  <2> QED BY <2>1, <2>2, <2>3, <1>6 DEF Inv, NoneSkipped, GiveUp, Return
<1>7. CASE UNCHANGED vars
  BY <1>7 DEF vars, Inv, NoneSkipped, Outcome, Limit
<1> QED BY <1>1, <1>2, <1>3, <1>4, <1>5, <1>6, <1>7 DEF Next

LEMMA InitInv == ASSUME Init PROVE Inv
<1>1. after \in Int
  BY CalendarAssumption DEF Init, Instants
<1>2. t \in Int /\ after < t /\ \A u \in after + 1 .. t - 1 : FALSE
  BY <1>1 DEF Init
<1>3. NoneSkipped
  BY <1>2 DEF NoneSkipped
<1> QED BY <1>3 DEF Init, Inv, Outcome

LEMMA Invariance == Spec => []Inv
<1>1. Init => Inv
  BY InitInv
<1>2. Inv /\ [Next]_vars => Inv'
  BY StepKeepsInv
<1> QED BY <1>1, <1>2, PTL DEF Spec

-----------------------------------------------------------------------------
\* The first match, in terms of the masks: in a regular zone Next returns an
\* instant later than its argument, before the limit, that matches all fields
\* and before which none matches, or zero if none matches before the limit.
FirstMatch ==
  done /\ zone \in RegularZones =>
    \/ result = 0 /\ \A u \in after + 1 .. Limit - 1 : ~Matches(masks, zone, u)
    \/ /\ result \in after + 1 .. Limit - 1
       /\ Matches(masks, zone, result)
       /\ \A u \in after + 1 .. result - 1 : ~Matches(masks, zone, u)

\* The search finds the first match, for every calendar and every schedule.
THEOREM SearchIsExact == Spec => []FirstMatch
<1>1. Inv => FirstMatch
  <2> SUFFICES ASSUME Inv, done, zone \in RegularZones PROVE FirstMatch
    BY DEF FirstMatch
  <2>1. t \in Int /\ after < t /\ \A u \in after + 1 .. t - 1 : ~Matches(masks, zone, u)
    BY DEF Inv, NoneSkipped
  <2>2. after \in Int /\ Limit \in Int
    <3>1. zone \in Zones /\ after \in Starts
      BY DEF Inv
    <3>2. after \in Int
      BY <3>1, CalendarAssumption DEF Instants
    <3>3. Limit \in Int
      BY <3>1, HorizonAssumption DEF Limit
    <3> QED BY <3>2, <3>3
  <2>3. CASE result = 0 /\ t >= Limit
    <3>1. \A u \in after + 1 .. Limit - 1 : u \in after + 1 .. t - 1
      BY <2>1, <2>2, <2>3
    <3> QED BY <2>1, <2>3, <3>1 DEF FirstMatch
  <2>4. CASE result = t /\ t < Limit /\ Matches(masks, zone, t)
    <3>1. t \in after + 1 .. Limit - 1
      BY <2>1, <2>2, <2>4
    <3> QED BY <2>1, <2>4, <3>1 DEF FirstMatch
  <2> QED BY <2>3, <2>4 DEF Inv, Outcome
<1> QED BY <1>1, Invariance, PTL

-----------------------------------------------------------------------------
(* What the masks mean.                                                     *)

\* A multiple of a step that is smaller than the step is zero.
LEMMA SmallMultiple ==
  ASSUME NEW s \in Nat \ {0}, NEW q \in Int, NEW r \in 0 .. s - 1, s * q = r
  PROVE  r = 0
<1>1. CASE q >= 1
  <2>1. s * q >= s
    BY <1>1
  <2> QED BY <2>1
<1>2. CASE q <= -1
  <2>1. s * q <= -1
    BY <1>2
  <2> QED BY <2>1
<1>3. CASE q = 0
  BY <1>3
<1> QED BY <1>1, <1>2, <1>3

LEMMA Division ==
  ASSUME NEW d \in Int, NEW s \in Int, s > 0
  PROVE  d = s * (d \div s) + (d % s) /\ d % s \in 0 .. s - 1 /\ d \div s \in Int
OBVIOUS

\* What the loop over the values of a part reaches, k steps of s away from lo,
\* is what leaves no remainder.
LEMMA StepsAreMultiples ==
  ASSUME NEW s \in Nat \ {0}, NEW d \in Nat
  PROVE  (\E k \in 0 .. d : d = k * s) <=> d % s = 0
<1> DEFINE q == d \div s
           r == d % s
<1>1. d = s * q + r /\ r \in 0 .. s - 1 /\ q \in Int
  BY Division
<1> HIDE DEF q, r
<1>2. ASSUME NEW k \in 0 .. d, d = k * s PROVE r = 0
  <2>1. k - q \in Int /\ s * (k - q) = r
    BY <1>1, <1>2
  <2> QED BY <1>1, <2>1, SmallMultiple
<1>3. ASSUME r = 0 PROVE \E k \in 0 .. d : d = k * s
  <2>1. d = q * s
    BY <1>1, <1>3
  <2>2. q \in 0 .. d
    <3>1. CASE q <= -1
      <4>1. q * s <= -1
        BY <1>1, <3>1
      <4> QED BY <2>1, <4>1
    <3>2. CASE q >= d + 1
      <4>1. q * s >= d + 1
        BY <1>1, <3>2
      <4> QED BY <2>1, <4>1
    <3> QED BY <1>1, <3>1, <3>2
  <2> QED BY <2>1, <2>2
<1> QED BY <1>2, <1>3 DEF r

\* parseField selects the values that the field stands for.
LEMMA FieldMeaning ==
  ASSUME NEW field \in Field, NEW first \in Nat, NEW last \in Nat,
         Accepts(field, first, last), NEW v \in first .. last
  PROVE  v \in ParseField(field, first, last) <=> Selected(field, v, first)
<1>1. ASSUME ~field.star, NEW p \in field.parts
      PROVE  (\E k \in 0 .. last - first :
                IF p.any THEN v = first + k * p.step
                         ELSE v = p.lo + k * p.step /\ v <= p.hi)
             <=> (IF p.any THEN (v - first) % p.step = 0
                           ELSE v \in p.lo .. p.hi /\ (v - p.lo) % p.step = 0)
  <2>1. p \in Part /\ p.step \in Nat \ {0} /\ p.lo \in Nat /\ p.hi \in Nat
        /\ (p.any \/ (first <= p.lo /\ p.hi <= last))
    BY <1>1 DEF Accepts, Field, Part
  <2>2. CASE p.any
    <3>1. \A k \in 0 .. last - first : v = first + k * p.step => k \in 0 .. v - first
      <4> SUFFICES ASSUME NEW k \in 0 .. last - first, v = first + k * p.step
                   PROVE  k <= v - first
        OBVIOUS
      <4>1. k * p.step >= k
        BY <2>1
      <4> QED BY <4>1, <2>1
    <3>2. (\E k \in 0 .. v - first : v - first = k * p.step) <=> (v - first) % p.step = 0
      <4> DEFINE d == v - first
      <4>1. d \in Nat
        OBVIOUS
      <4> HIDE DEF d
      <4>2. (\E k \in 0 .. d : d = k * p.step) <=> d % p.step = 0
        BY <2>1, <4>1, StepsAreMultiples
      <4> QED BY <4>2 DEF d
    <3>3. \A k \in 0 .. last - first : k * p.step \in Int
      BY <2>1
    <3>4. (\E k \in 0 .. last - first : v = first + k * p.step)
          <=> (\E k \in 0 .. v - first : v - first = k * p.step)
      BY <3>1, <3>3
    <3> QED BY <2>2, <3>2, <3>4
  <2>3. CASE ~p.any
    <3>1. \A k \in 0 .. last - first : k * p.step \in Nat
      BY <2>1
    <3>2. CASE v < p.lo \/ v > p.hi
      BY <2>1, <2>3, <3>1, <3>2
    <3>3. CASE v \in p.lo .. p.hi
      <4>1. \A k \in 0 .. last - first : v = p.lo + k * p.step => k \in 0 .. v - p.lo
        <5> SUFFICES ASSUME NEW k \in 0 .. last - first, v = p.lo + k * p.step
                     PROVE  k <= v - p.lo
          BY <2>1, <3>3
        <5>1. k * p.step >= k
          BY <2>1
        <5> QED BY <5>1, <2>1
      <4>2. (\E k \in 0 .. v - p.lo : v - p.lo = k * p.step) <=> (v - p.lo) % p.step = 0
        <5> DEFINE d == v - p.lo
        <5>1. d \in Nat
          BY <2>1, <3>3
        <5> HIDE DEF d
        <5>2. (\E k \in 0 .. d : d = k * p.step) <=> d % p.step = 0
          BY <2>1, <5>1, StepsAreMultiples
        <5> QED BY <5>2 DEF d
      <4>3. v - p.lo <= last - first
        BY <2>1, <2>3, <3>3
      <4>4. (\E k \in 0 .. last - first : v = p.lo + k * p.step)
            <=> (\E k \in 0 .. v - p.lo : v - p.lo = k * p.step)
        BY <4>1, <4>3, <3>1, <2>1
      <4> QED BY <2>3, <3>3, <4>2, <4>4
    <3> QED BY <2>1, <3>2, <3>3
  <2> QED BY <2>2, <2>3
<1>2. CASE field.star
  BY <1>2 DEF ParseField, Selected
<1>3. CASE ~field.star
  <2>1. v \in Selects(field.parts, first, last) <=>
          \E p \in field.parts : \E k \in 0 .. last - first :
            IF p.any THEN v = first + k * p.step
                     ELSE v = p.lo + k * p.step /\ v <= p.hi
    BY DEF Selects
  <2> QED BY <1>1, <1>3, <2>1 DEF ParseField, Selected
<1> QED BY <1>2, <1>3

-----------------------------------------------------------------------------
(* The fields of an instant lie in the ranges of the fields of an expression. *)

LEMMA FieldRanges ==
  ASSUME NEW z \in Zones, NEW u \in Instants
  PROVE  /\ Minute(z, u) \in 0 .. MinutesPerHour - 1
         /\ Hour(z, u) \in 0 .. HoursPerDay - 1
         /\ Weekday(z, u) \in 0 .. DaysPerWeek - 1
         /\ Month(z, u) \in 1 .. MonthsPerYear
         /\ DayOfMonth(z, u) \in 1 .. LongestMonth
<1> DEFINE local == Local(z, u)
           day == Day(local)
<1>1. /\ MinutesPerHour \in Nat \ {0} /\ HoursPerDay \in Nat \ {0}
      /\ DaysPerWeek \in Nat \ {0} /\ MonthsPerYear \in Nat \ {0}
      /\ LongestMonth \in Nat \ {0} /\ LastMonth \in Nat
  BY CalendarAssumption
<1>2. local \in Int
  BY CalendarAssumption DEF Local, Offset, Instants
<1>3. day \in 0 .. MonthStart(LastMonth) - 1
  BY CoverAssumption
<1>4. MonthOf(local) \in 0 .. LastMonth
      /\ MonthStart(MonthOf(local)) <= day /\ day < MonthStart(MonthOf(local) + 1)
  BY <1>3, MonthsAssumption DEF MonthOf, MonthOfDay
<1>5. Minute(z, u) \in 0 .. MinutesPerHour - 1
  BY <1>1, <1>2, Division DEF Minute
<1>6. Hour(z, u) \in 0 .. HoursPerDay - 1
  <2>1. MinutesPerDay \in Nat \ {0} /\ MinutesPerDay = MinutesPerHour * HoursPerDay
    BY <1>1 DEF MinutesPerDay
  <2> DEFINE x == local % MinutesPerDay
  <2>2. x \in 0 .. MinutesPerDay - 1
    BY <1>2, <2>1, Division
  <2> HIDE DEF x
  <2> DEFINE h == x \div MinutesPerHour
             m == x % MinutesPerHour
  <2>3. x = MinutesPerHour * h + m /\ h \in Int /\ m \in 0 .. MinutesPerHour - 1
    BY <1>1, <2>2, <2>1, Division
  <2> HIDE DEF h, m
  <2>4. CASE h >= HoursPerDay
    <3>1. MinutesPerHour * h >= MinutesPerHour * HoursPerDay
      <4>1. h - HoursPerDay \in Nat
        BY <1>1, <2>3, <2>4
      <4>2. MinutesPerHour * (h - HoursPerDay) \in Nat
        BY <4>1, <1>1
      <4> QED BY <4>2, <1>1, <2>3
    <3> QED BY <3>1, <2>1, <2>2, <2>3, <1>1
  <2>5. CASE h <= -1
    <3>1. MinutesPerHour * h <= -MinutesPerHour
      BY <1>1, <2>3, <2>5
    <3> QED BY <3>1, <2>2, <2>3, <2>1, <1>1
  <2> QED BY <2>3, <2>4, <2>5, <1>1 DEF Hour, h, x
<1>7. Weekday(z, u) \in 0 .. DaysPerWeek - 1
  BY <1>1, <1>3, Division DEF Weekday
<1>8. Month(z, u) \in 1 .. MonthsPerYear
  BY <1>1, <1>4, Division DEF Month
<1>9. DayOfMonth(z, u) \in 1 .. LongestMonth
  BY <1>1, <1>3, <1>4, MonthsAssumption DEF DayOfMonth
<1> QED BY <1>5, <1>6, <1>7, <1>8, <1>9

-----------------------------------------------------------------------------
(* The first activation.                                                    *)

\* The masks are those of the expression, which was accepted.
Parsed == expr \in Exprs /\ ~ParseError(expr) /\ masks = ParseCron(expr)

LEMMA ParsedInvariance == Spec => []Parsed
<1>1. Init => Parsed
  BY DEF Init, Parsed
<1>2. Parsed /\ [Next]_vars => Parsed'
  BY DEF Parsed, Next, SkipMonth, SkipDay, SkipHour, SkipMinute, Found, GiveUp,
         MoveTo, Return, vars
<1> QED BY <1>1, <1>2, PTL DEF Spec

\* The masks match an instant exactly if the expression fires at it: the two
\* fields of the day are combined as their stars say, and the field of weekdays
\* may call the first of them by either of its two numbers.
LEMMA MatchesMeansFires ==
  ASSUME Parsed, NEW z \in Zones, NEW u \in Instants
  PROVE  Matches(masks, z, u) <=> Fires(expr, z, u)
<1> DEFINE e == expr
<1>1. /\ e.minute \in Field /\ e.hour \in Field /\ e.dom \in Field
      /\ e.month \in Field /\ e.dow \in Field
  BY ExprsAssumption DEF Parsed
<1>2. /\ Accepts(e.minute, 0, MinutesPerHour - 1)
      /\ Accepts(e.hour, 0, HoursPerDay - 1)
      /\ Accepts(e.dom, 1, LongestMonth)
      /\ Accepts(e.month, 1, MonthsPerYear)
      /\ Accepts(e.dow, 0, DaysPerWeek)
  BY DEF Parsed, ParseError
<1>3. /\ MinutesPerHour - 1 \in Nat /\ HoursPerDay - 1 \in Nat
      /\ LongestMonth \in Nat /\ MonthsPerYear \in Nat
      /\ DaysPerWeek \in Nat \ {0}
  BY CalendarAssumption
<1>4. /\ Minute(z, u) \in 0 .. MinutesPerHour - 1
      /\ Hour(z, u) \in 0 .. HoursPerDay - 1
      /\ Weekday(z, u) \in 0 .. DaysPerWeek - 1
      /\ Month(z, u) \in 1 .. MonthsPerYear
      /\ DayOfMonth(z, u) \in 1 .. LongestMonth
  BY FieldRanges
<1>5. MinuteMatches(masks, z, u) <=> Selected(e.minute, Minute(z, u), 0)
  BY <1>1, <1>2, <1>3, <1>4, FieldMeaning DEF Parsed, ParseCron, MinuteMatches
<1>6. HourMatches(masks, z, u) <=> Selected(e.hour, Hour(z, u), 0)
  BY <1>1, <1>2, <1>3, <1>4, FieldMeaning DEF Parsed, ParseCron, HourMatches
<1>7. MonthMatches(masks, z, u) <=> Selected(e.month, Month(z, u), 1)
  BY <1>1, <1>2, <1>3, <1>4, FieldMeaning DEF Parsed, ParseCron, MonthMatches
<1>8. DayOfMonth(z, u) \in masks.dom <=> Selected(e.dom, DayOfMonth(z, u), 1)
  BY <1>1, <1>2, <1>3, <1>4, FieldMeaning DEF Parsed, ParseCron
<1> DEFINE onDay == \/ Selected(e.dow, Weekday(z, u), 0)
                    \/ (Weekday(z, u) = 0 /\ Selected(e.dow, DaysPerWeek, 0))
           dow == ParseField(e.dow, 0, DaysPerWeek)
<1>9. Weekday(z, u) \in masks.dow <=> onDay
  <2>1. masks.dow = FoldSunday(dow)
    BY DEF Parsed, ParseCron
  <2>2. Weekday(z, u) \in dow <=> Selected(e.dow, Weekday(z, u), 0)
    BY <1>1, <1>2, <1>3, <1>4, FieldMeaning
  <2>3. DaysPerWeek \in dow <=> Selected(e.dow, DaysPerWeek, 0)
    BY <1>1, <1>2, <1>3, FieldMeaning
  <2> HIDE DEF dow
  <2>4. Weekday(z, u) # DaysPerWeek
    BY <1>3, <1>4
  <2>5. Weekday(z, u) \in FoldSunday(dow) <=>
          \/ Weekday(z, u) \in dow
          \/ Weekday(z, u) = 0 /\ DaysPerWeek \in dow
    BY <2>4 DEF FoldSunday
  <2> QED BY <2>1, <2>2, <2>3, <2>5
<1>10. masks.domStar = e.dom.star /\ masks.dowStar = e.dow.star
  BY DEF Parsed, ParseCron
<1>11. DayMatches(masks, z, u) <=>
         IF e.dom.star \/ e.dow.star
         THEN Selected(e.dom, DayOfMonth(z, u), 1) /\ onDay
         ELSE Selected(e.dom, DayOfMonth(z, u), 1) \/ onDay
  <2>1. e.dom.star => Selected(e.dom, DayOfMonth(z, u), 1)
    BY DEF Selected
  <2>2. e.dow.star => onDay
    BY DEF Selected
  <2> HIDE DEF onDay
  <2> QED BY <2>1, <2>2, <1>8, <1>9, <1>10 DEF DayMatches
<1> QED BY <1>5, <1>6, <1>7, <1>11 DEF Matches, Fires

\* For every calendar, every expression that parseCron accepts and every zone
\* whose jump the loop can handle, Next returns the first instant after its
\* argument at which the expression fires, or zero if there is none before the
\* limit of cronSearchYears.
THEOREM NextIsFirstFire == Spec => []FirstFire
<1>1. Inv /\ Parsed /\ FirstMatch => FirstFire
  <2> SUFFICES ASSUME Inv, Parsed, FirstMatch, done, zone \in RegularZones
               PROVE  FirstFire
    BY DEF FirstFire
  <2>1. zone \in Zones /\ after \in Nat /\ after \in Instants
        /\ Limit \in Int /\ Limit <= Horizon /\ Epoch \in Nat /\ Horizon \in Nat
    BY CalendarAssumption, HorizonAssumption DEF Inv, Limit, Instants
  <2>2. \A u \in after + 1 .. Limit - 1 :
          u < Limit /\ (Matches(masks, zone, u) <=> Fires(expr, zone, u))
    <3>1. \A u \in after + 1 .. Limit - 1 : u \in Instants /\ u < Limit
      BY <2>1 DEF Instants
    <3> QED BY <2>1, <3>1, MatchesMeansFires
  <2>3. CASE result = 0 /\ \A u \in after + 1 .. Limit - 1 : ~Matches(masks, zone, u)
    BY <2>2, <2>3 DEF FirstFire
  <2>4. CASE /\ result \in after + 1 .. Limit - 1
             /\ Matches(masks, zone, result)
             /\ \A u \in after + 1 .. result - 1 : ~Matches(masks, zone, u)
    <3>1. result > after /\ result # 0
      BY <2>1, <2>4
    <3>2. \A u \in after + 1 .. result - 1 : u \in after + 1 .. Limit - 1
      BY <2>1, <2>4
    <3> QED BY <2>2, <2>4, <3>1, <3>2 DEF FirstFire
  <2> QED BY <2>3, <2>4 DEF FirstMatch
<1> QED BY <1>1, Invariance, ParsedInvariance, SearchIsExact, PTL

-----------------------------------------------------------------------------
(* Zones in which the clock is not set.                                     *)

\* The quotient and the remainder are the only ones.
LEMMA Block ==
  ASSUME NEW n \in Nat \ {0}, NEW q \in Int, NEW w \in Int, n * q <= w, w < n * q + n
  PROVE  w \div n = q /\ w % n = w - n * q
<1> DEFINE p == w \div n
           r == w % n
           d == p - q
<1>1. w = n * p + r /\ r \in 0 .. n - 1 /\ p \in Int
  BY Division
<1> HIDE DEF p, r
<1>2. d \in Int /\ n * d = w - r - n * q
  BY <1>1
<1>3. p = q + d
  BY <1>1
<1> HIDE DEF d
<1>4. n * q \in Int
  OBVIOUS
<1>5. n * d < n /\ n * d > -n
  BY <1>1, <1>2, <1>4
<1>6. CASE d >= 1
  <2>1. n * d >= n
    BY <1>2, <1>6
  <2> QED BY <1>5, <2>1, <1>2
<1>7. CASE d <= -1
  <2>1. n * d <= -n
    BY <1>2, <1>7
  <2> QED BY <1>5, <2>1, <1>2
<1>8. CASE d = 0
  <2>1. p = q
    BY <1>3, <1>8
  <2> QED BY <1>1, <1>4, <2>1 DEF p, r
<1> QED BY <1>2, <1>6, <1>7, <1>8

\* A day has a whole number of hours.
LEMMA DayLength ==
  MinutesPerDay \in Nat \ {0} /\ MinutesPerHour \in Nat \ {0} /\ HoursPerDay \in Nat \ {0}
BY CalendarAssumption DEF MinutesPerDay

\* What a multiple of D says of the factor.
LEMMA Factors ==
  ASSUME NEW D \in Nat \ {0}, NEW a \in Int, NEW b \in Int
  PROVE  a <= b => D * a <= D * b
<1>1. D * (b - a) = D * b - D * a
  OBVIOUS
<1>2. ASSUME a <= b PROVE D * (b - a) >= 0
  BY <1>2
<1> QED BY <1>1, <1>2

\* A number between two multiples of D lies in a block between them.
LEMMA Between ==
  ASSUME NEW D \in Nat \ {0}, NEW d \in Int, NEW e \in Int, NEW x \in Int, NEW l \in Int,
         D * d <= l, l < D * e, D * x <= l, l < D * x + D
  PROVE  d <= x /\ x < e
<1>0. D * d \in Int /\ D * e \in Int /\ D * x \in Int /\ D * (x + 1) = D * x + D
  OBVIOUS
<1>1. ~(D * e <= D * x) /\ ~(D * (x + 1) <= D * d)
  BY <1>0
<1>2. ~(e <= x) /\ ~(x + 1 <= d)
  BY <1>1, Factors
<1> QED BY <1>2

\* The next multiple of D.
LEMMA NextMultiple ==
  ASSUME NEW D \in Nat \ {0}, NEW d \in Int, NEW e \in Int, d < e
  PROVE  D * d + D <= D * e
<1>1. D * (d + 1) = D * d + D /\ d + 1 <= e /\ d + 1 \in Int
  OBVIOUS
<1> QED BY <1>1, Factors

\* The months do not overlap.
LEMMA MonthIsUnique ==
  ASSUME NEW d \in 0 .. MonthStart(LastMonth) - 1, NEW m \in 0 .. LastMonth,
         MonthStart(m) <= d, d < MonthStart(m + 1)
  PROVE  MonthOfDay[d] = m
<1> DEFINE n == MonthOfDay[d]
<1>1. /\ n \in 0 .. LastMonth /\ MonthStart(n) <= d /\ d < MonthStart(n + 1)
      /\ LastMonth \in Nat
  BY MonthsAssumption, CalendarAssumption DEF MonthOfDay
<1> HIDE DEF n
<1>2. /\ m + 1 \in 0 .. LastMonth + 1 /\ n + 1 \in 0 .. LastMonth + 1
      /\ m \in 0 .. LastMonth + 1 /\ n \in 0 .. LastMonth + 1
  BY <1>1
<1>3. /\ MonthStart(m) \in Nat /\ MonthStart(n) \in Nat
      /\ MonthStart(m + 1) \in Nat /\ MonthStart(n + 1) \in Nat /\ d \in Int
  BY <1>1, MonthsAssumption
<1>4. ~(m < n)
  <2> SUFFICES ASSUME m < n PROVE FALSE
    OBVIOUS
  <2>1. m + 1 < n \/ m + 1 = n
    BY <1>1
  <2>2. MonthStart(m + 1) <= MonthStart(n)
    BY <1>2, <1>3, <2>1, MonthsAssumption
  <2> QED BY <1>1, <1>3, <2>2
<1>5. ~(n < m)
  <2> SUFFICES ASSUME n < m PROVE FALSE
    OBVIOUS
  <2>1. n + 1 < m \/ n + 1 = m
    BY <1>1
  <2>2. MonthStart(n + 1) <= MonthStart(m)
    BY <1>2, <1>3, <2>1, MonthsAssumption
  <2> QED BY <1>1, <1>3, <2>2
<1>6. n = m
  BY <1>1, <1>4, <1>5
<1> QED BY <1>6 DEF n

\* Where the clock is not set, local time differs from UTC by a constant.
LEMMA FixedClock ==
  ASSUME NEW z \in Zones, z.before = z.after
  PROVE  \A u \in Int : /\ Local(z, u) = u + z.before /\ Local(z, u) \in Int
                        /\ Date(z, u) = u - z.before /\ Date(z, u) \in Int
BY CalendarAssumption DEF Local, Date, Offset

\* A number of minutes, in days of D minutes.
LEMMA Quotients ==
  ASSUME NEW D \in Nat \ {0}, NEW d \in Int, NEW l \in Int
  PROVE  /\ l \div D \in Int
         /\ D * d <= l /\ l < D * d + D => l \div D = d
         /\ D * (l \div D) <= l /\ l < D * (l \div D) + D
         /\ (d * D) \div D = d /\ (d * D) % D = 0
<1> DEFINE q == l \div D
           r == l % D
<1>1. l = D * q + r /\ r \in 0 .. D - 1 /\ q \in Int
  <2>1. D \in Int /\ D > 0
    OBVIOUS
  <2> QED BY <2>1, Division
<1>2. D * d <= l /\ l < D * d + D => q = d
  BY Block
<1>3. (d * D) \div D = d /\ (d * D) % D = 0
  <2> DEFINE w == d * D
  <2>1. w \in Int /\ w = D * d
    OBVIOUS
  <2> HIDE DEF w
  <2>2. D * d <= w /\ w < D * d + D
    BY <2>1
  <2>3. w \div D = d /\ w % D = w - D * d
    BY <2>1, <2>2, Block
  <2> QED BY <2>1, <2>3 DEF w
<1> HIDE DEF q, r
<1>4. D * q \in Int
  BY <1>1
<1>5. D * q <= l /\ l < D * q + D
  BY <1>1, <1>4
<1> QED BY <1>1, <1>2, <1>3, <1>5 DEF q

\* A local time, in days and minutes of the day.
LEMMA DayOf ==
  ASSUME NEW d \in Int, NEW l \in Int
  PROVE  /\ Day(l) \in Int
         /\ MinutesPerDay * d <= l /\ l < MinutesPerDay * d + MinutesPerDay => Day(l) = d
         /\ MinutesPerDay * Day(l) <= l /\ l < MinutesPerDay * Day(l) + MinutesPerDay
         /\ Day(d * MinutesPerDay) = d /\ (d * MinutesPerDay) % MinutesPerDay = 0
BY DayLength, Quotients DEF Day

\* In the minutes up to the end of an hour the hour of the day is the same.
LEMMA SameHour ==
  ASSUME NEW M \in Nat \ {0}, NEW H \in Nat \ {0}, NEW D \in Nat \ {0}, D = M * H,
         NEW l \in Int, NEW v \in Int, l <= v, v < l - (l % M) + M
  PROVE  (v % D) \div M = (l % D) \div M
<1> DEFINE d == l \div D
           b == l % D
           h == b \div M
           e == b % M
           k == H * d + h
<1>1. l = D * d + b /\ b \in 0 .. D - 1 /\ d \in Int
  <2>1. D \in Int /\ D > 0
    OBVIOUS
  <2> QED BY <2>1, Division
<1> HIDE DEF d, b
<1>2. b = M * h + e /\ e \in 0 .. M - 1 /\ h \in Int
  <2>1. M \in Int /\ M > 0 /\ b \in Int
    BY <1>1
  <2> QED BY <2>1, Division
<1> HIDE DEF h, e
<1>3. h \in 0 .. H - 1
  <2>1. M * h \in Int /\ M * h < M * H /\ M * h > -M
    BY <1>1, <1>2
  <2>2. h < H
    BY <1>2, <2>1, Factors
  <2>3. h >= 0
    <3>1. CASE h <= -1
      <4>1. M * h <= -M
        BY <1>2, <3>1
      <4> QED BY <2>1, <4>1
    <3> QED BY <1>2, <3>1
  <2> QED BY <1>2, <2>2, <2>3
<1>4. /\ k \in Int /\ D * d \in Int /\ M * h \in Int /\ M * k \in Int
  BY <1>1, <1>3
<1>5. M * k = D * d + M * h
  <2>1. M * k = M * (H * d) + M * h
    BY <1>1, <1>3
  <2>2. M * (H * d) = D * d
    BY <1>1
  <2> QED BY <2>1, <2>2
<1> HIDE DEF k
<1>6. M * k <= l /\ l < M * k + M
  BY <1>1, <1>2, <1>4, <1>5
<1>7. l % M = l - M * k
  BY <1>4, <1>6, Block
<1>8. M * k <= v /\ v < M * k + M
  BY <1>4, <1>6, <1>7
<1> DEFINE r == v - D * d
<1>9. r \in Int /\ v = D * d + r /\ M * h <= r /\ r < M * h + M
  BY <1>4, <1>5, <1>8
<1>10. M * h >= 0 /\ M * h + M <= D
  <2>1. M * (h + 1) <= M * H /\ M * (h + 1) = M * h + M
    BY <1>3, Factors
  <2>2. M * h >= 0
    BY <1>3
  <2> QED BY <2>1, <2>2
<1>11. D * d <= v /\ v < D * d + D
  BY <1>4, <1>9, <1>10
<1>12. v % D = r
  BY <1>1, <1>11, Block
<1> HIDE DEF r
<1>13. r \div M = h
  BY <1>2, <1>9, Block
<1> QED BY <1>12, <1>13 DEF h, b

\* The jump over an hour goes to the end of the hour.
LEMMA FixedHours ==
  ASSUME NEW z \in Zones, z.before = z.after, NEW u \in Instants
  PROVE  /\ NextHour(z, u) \in Int /\ NextHour(z, u) > u
         /\ \A w \in u .. NextHour(z, u) - 1 : Hour(z, w) = Hour(z, u)
<1> DEFINE o == z.before
           l == u + o
           r == l % MinutesPerHour
<1>0. u \in Int /\ o \in Int /\ z.before \in Int
  BY CalendarAssumption DEF Instants
<1>1. /\ MinutesPerHour \in Nat \ {0} /\ MinutesPerDay \in Nat \ {0}
      /\ HoursPerDay \in Nat \ {0} /\ MinutesPerDay = MinutesPerHour * HoursPerDay
  BY DayLength DEF MinutesPerDay
<1>2. l \in Int /\ \A w \in Int : Local(z, w) = w + o /\ Date(z, w) = w - o
  BY <1>0, FixedClock
<1>3. r \in 0 .. MinutesPerHour - 1
  <2>1. MinutesPerHour \in Int /\ MinutesPerHour > 0
    BY <1>1
  <2> HIDE DEF l
  <2> QED BY <1>2, <2>1, Division
<1>4. Local(z, u) = l
  BY <1>0, <1>2
<1>5. NextHour(z, u) = Date(z, l - r) + MinutesPerHour
  BY <1>4 DEF NextHour
<1>6. ASSUME NEW v \in Int, l <= v, v < l - r + MinutesPerHour
      PROVE  (v % MinutesPerDay) \div MinutesPerHour = (l % MinutesPerDay) \div MinutesPerHour
  <2> HIDE DEF l
  <2> QED BY <1>1, <1>2, <1>6, SameHour
<1> HIDE DEF r
<1>7. Date(z, l - r) = l - r - o
  BY <1>0, <1>2, <1>3
<1>8. NextHour(z, u) = u - r + MinutesPerHour
  BY <1>0, <1>1, <1>3, <1>5, <1>7
<1>9. ASSUME NEW w \in u .. u - r + MinutesPerHour - 1 PROVE Hour(z, w) = Hour(z, u)
  <2>1. w \in Int /\ w + o \in Int /\ l <= w + o /\ w + o < l - r + MinutesPerHour
    BY <1>0, <1>1, <1>3
  <2>2. Local(z, w) = w + o
    BY <1>2, <2>1
  <2> QED BY <1>4, <1>6, <2>1, <2>2 DEF Hour
<1> QED BY <1>0, <1>1, <1>3, <1>8, <1>9

\* A day of a month is a day of the calendar.
LEMMA DaysOfMonth ==
  ASSUME NEW d \in Int, NEW s \in Nat, NEW e \in Nat, NEW last \in Nat, s <= d, e <= last
  PROVE  \A x \in d .. e - 1 : x \in 0 .. last - 1 /\ s <= x /\ x < e
OBVIOUS

\* The day of an instant has a month, which is not the last.
LEMMA MonthOfInstant ==
  ASSUME NEW z \in Zones, NEW u \in Instants
  PROVE  LET d == Day(Local(z, u))
             m == MonthOfDay[d]
         IN  /\ d \in 0 .. MonthStart(LastMonth) - 1 /\ d \in Int
             /\ m \in 0 .. LastMonth - 1 /\ m \in 0 .. LastMonth /\ m \in Int
             /\ m + 1 \in 0 .. LastMonth
             /\ MonthStart(m) <= d /\ d < MonthStart(m + 1)
             /\ MonthStart(m) \in Nat /\ MonthStart(m + 1) \in Nat
             /\ MonthStart(m + 1) <= MonthStart(LastMonth)
             /\ \A x \in d .. MonthStart(m + 1) - 1 :
                  /\ x \in 0 .. MonthStart(LastMonth) - 1
                  /\ MonthStart(m) <= x /\ x < MonthStart(m + 1)
<1> DEFINE d == Day(Local(z, u))
           m == MonthOfDay[d]
<1>1. d \in 0 .. MonthStart(LastMonth) - 1
  BY CoverAssumption
<1>2. /\ m \in 0 .. LastMonth /\ MonthStart(m) <= d /\ d < MonthStart(m + 1)
      /\ LastMonth \in Nat
  BY <1>1, MonthsAssumption, CalendarAssumption DEF MonthOfDay
<1> HIDE DEF d, m
<1>3. MonthStart(m) \in Nat /\ MonthStart(m + 1) \in Nat /\ MonthStart(LastMonth) \in Nat
  BY <1>2, MonthsAssumption
<1>4. m # LastMonth
  BY <1>1, <1>2, <1>3
<1>5. m + 1 < LastMonth \/ m + 1 = LastMonth
  BY <1>2, <1>4
<1>6. MonthStart(m + 1) <= MonthStart(LastMonth)
  <2>1. m + 1 \in 0 .. LastMonth + 1 /\ LastMonth \in 0 .. LastMonth + 1
    BY <1>2
  <2>2. m + 1 < LastMonth => MonthStart(m + 1) < MonthStart(LastMonth)
    BY <2>1, MonthsAssumption
  <2> QED BY <1>3, <1>5, <2>2
<1>7. \A x \in d .. MonthStart(m + 1) - 1 :
        x \in 0 .. MonthStart(LastMonth) - 1 /\ MonthStart(m) <= x /\ x < MonthStart(m + 1)
  <2> DEFINE s == MonthStart(m)
             e == MonthStart(m + 1)
             last == MonthStart(LastMonth)
  <2>1. d \in Int /\ s \in Nat /\ e \in Nat /\ last \in Nat /\ s <= d /\ e <= last
    BY <1>1, <1>2, <1>3, <1>6
  <2> HIDE DEF s, e, last
  <2>2. \A x \in d .. e - 1 : x \in 0 .. last - 1 /\ s <= x /\ x < e
    BY <2>1, DaysOfMonth
  <2> QED BY <2>2 DEF s, e, last
<1>8. d \in Int /\ m \in Int /\ m \in 0 .. LastMonth - 1 /\ m + 1 \in 0 .. LastMonth
  BY <1>1, <1>2, <1>3, <1>4
<1> QED BY <1>1, <1>2, <1>3, <1>6, <1>7, <1>8 DEF d, m

\* The jump over a day goes to the end of the day.
LEMMA FixedDays ==
  ASSUME NEW z \in Zones, z.before = z.after, NEW u \in Instants
  PROVE  /\ NextDay(z, u) \in Int /\ NextDay(z, u) > u
         /\ \A w \in u .. NextDay(z, u) - 1 : Day(Local(z, w)) = Day(Local(z, u))
<1> SUFFICES ASSUME NEW d \in Int, NEW m \in Int, NEW o \in Int, NEW D \in Nat \ {0},
                    d = Day(Local(z, u)), m = MonthOfDay[d], MonthStart(m) \in Nat,
                    o = z.before, D = MinutesPerDay
             PROVE  /\ NextDay(z, u) \in Int /\ NextDay(z, u) > u
                    /\ \A w \in u .. NextDay(z, u) - 1 : Day(Local(z, w)) = d
  BY MonthOfInstant, CalendarAssumption, DayLength
<1>0. u \in Int
  BY CalendarAssumption DEF Instants
<1>1. \A w \in Int : Local(z, w) = w + o /\ Date(z, w) = w - o
  BY FixedClock
<1>2. /\ D * d <= u + o /\ u + o < D * d + D
      /\ Day(d * D) = d /\ (d * D) % D = 0
  <2>1. Local(z, u) = u + o /\ u + o \in Int
    BY <1>0, <1>1
  <2> QED BY <2>1, DayOf
<1> DEFINE v == d * D - o
<1>3. NextDay(z, u) = AddDate(z, Date(z, d * D), 0, 1)
  BY DEF NextDay
<1>4. d * D \in Int /\ Date(z, d * D) = v /\ v \in Int /\ Local(z, v) = d * D
  <2>1. d * D \in Int /\ v \in Int /\ v + o = d * D
    OBVIOUS
  <2> HIDE DEF v
  <2>2. Local(z, v) = v + o
    BY <1>1, <2>1
  <2> QED BY <1>1, <2>1, <2>2 DEF v
<1> HIDE DEF v
<1>5. AddDate(z, v, 0, 1) =
        Date(z, (MonthStart(m + 0) + (d - MonthStart(m)) + 1) * D + 0)
  <2>1. MonthOf(d * D) = m
    BY <1>2 DEF MonthOf
  <2> QED BY <1>2, <1>4, <2>1 DEF AddDate
<1>6. MonthStart(m + 0) + (d - MonthStart(m)) + 1 = d + 1
  <2>1. m + 0 = m
    OBVIOUS
  <2> QED BY <2>1
<1>7. (d + 1) * D + 0 = D * d + D /\ D * d + D \in Int /\ D * d \in Int
  OBVIOUS
<1>8. AddDate(z, v, 0, 1) = Date(z, D * d + D)
  BY <1>5, <1>6, <1>7
<1>9. NextDay(z, u) = D * d + D - o
  BY <1>1, <1>3, <1>4, <1>7, <1>8
<1>10. ASSUME NEW w \in u .. D * d + D - o - 1 PROVE Day(Local(z, w)) = d
  <2>1. w \in Int /\ w + o \in Int /\ D * d <= w + o /\ w + o < D * d + D
    BY <1>0, <1>2, <1>7
  <2>2. Day(w + o) = d
    BY <2>1, DayOf
  <2> QED BY <1>1, <2>1, <2>2
<1> QED BY <1>0, <1>2, <1>7, <1>9, <1>10

\* The minutes from a day d up to the day e are in days from d to e.
LEMMA DaysBetween ==
  ASSUME NEW d \in Int, NEW e \in Int, NEW u \in Int, NEW o \in Int, d < e,
         MinutesPerDay * d <= u + o, u + o < MinutesPerDay * d + MinutesPerDay
  PROVE  /\ MinutesPerDay * e - o \in Int /\ MinutesPerDay * e - o > u
         /\ \A w \in u .. MinutesPerDay * e - o - 1 : w + o \in Int /\ Day(w + o) \in d .. e - 1
<1> SUFFICES ASSUME NEW D \in Nat \ {0}, D * d <= u + o, u + o < D * d + D
             PROVE  /\ D * e - o \in Int /\ D * e - o > u
                    /\ \A w \in u .. D * e - o - 1 :
                         w + o \in Int /\ (w + o) \div D \in d .. e - 1
  BY DayLength DEF Day
<1>1. D * e \in Int /\ D * d \in Int /\ D * d + D <= D * e
  BY NextMultiple
<1>2. ASSUME NEW w \in u .. D * e - o - 1 PROVE w + o \in Int /\ (w + o) \div D \in d .. e - 1
  <2> DEFINE l == w + o
  <2>1. l \in Int /\ D * d <= l /\ l < D * e
    BY <1>1
  <2> HIDE DEF l
  <2> DEFINE x == l \div D
  <2>2. x \in Int /\ D * x <= l /\ l < D * x + D
    BY <2>1, Quotients
  <2> HIDE DEF x
  <2>3. d <= x /\ x < e
    BY <2>1, <2>2, Between
  <2> QED BY <2>1, <2>2, <2>3 DEF x, l
<1> QED BY <1>1, <1>2

\* The jump over a month goes to the end of the month.
LEMMA FixedMonths ==
  ASSUME NEW z \in Zones, z.before = z.after, NEW u \in Instants
  PROVE  /\ NextMonth(z, u) \in Int /\ NextMonth(z, u) > u
         /\ \A w \in u .. NextMonth(z, u) - 1 : Month(z, w) = Month(z, u)
<1> SUFFICES ASSUME NEW d \in Int, NEW m \in Int, NEW s \in Nat, NEW e \in Nat, NEW o \in Int,
                    NEW D \in Nat \ {0}, NEW days,
                    d = Day(Local(z, u)), m = MonthOfDay[d], m \in 0 .. LastMonth,
                    s = MonthStart(m), e = MonthStart(m + 1), s <= d, d < e,
                    days = 0 .. MonthStart(LastMonth) - 1, s \in days,
                    \A x \in d .. e - 1 : x \in days /\ s <= x /\ x < e,
                    o = z.before, D = MinutesPerDay
             PROVE  /\ NextMonth(z, u) \in Int /\ NextMonth(z, u) > u
                    /\ \A w \in u .. NextMonth(z, u) - 1 : Month(z, w) = Month(z, u)
  <2>0. LastMonth \in Nat
    BY CalendarAssumption
  <2>1. MonthStart(LastMonth) \in Nat
    BY <2>0, MonthsAssumption
  <2>2. \A s, d, e, l : (s \in Nat /\ d \in Int /\ e \in Nat /\ l \in Nat /\ s <= d /\ d < e /\ e <= l)
                         => s \in 0 .. l - 1
    OBVIOUS
  <2> QED BY <2>1, <2>2, MonthOfInstant, CalendarAssumption, DayLength
<1>0. u \in Int
  BY CalendarAssumption DEF Instants
<1>1. \A w \in Int : Local(z, w) = w + o /\ Date(z, w) = w - o
  BY FixedClock
<1>2. /\ D * d <= u + o /\ u + o < D * d + D
      /\ Day(s * D) = s /\ (s * D) % D = 0
  <2>1. Local(z, u) = u + o /\ u + o \in Int /\ s \in Int
    BY <1>0, <1>1
  <2>2. D * d <= u + o /\ u + o < D * d + D
    BY <2>1, DayOf
  <2>3. Day(s * D) = s /\ (s * D) % D = 0
    BY <2>1, DayOf
  <2> QED BY <2>2, <2>3
<1>3. \A x \in days : s <= x /\ x < e => MonthOfDay[x] = m
  BY MonthIsUnique
<1>4. MonthOfDay[s] = m
  <2>1. s \in days /\ s <= s /\ s < e
    <3>1. s <= d /\ d < e
      OBVIOUS
    <3> QED BY <3>1
  <2> QED BY <1>3, <2>1
<1> DEFINE v == s * D - o
<1>5. NextMonth(z, u) = AddDate(z, Date(z, s * D), 1, 0)
  BY DEF NextMonth, MonthOf
<1>6. s * D \in Int /\ Date(z, s * D) = v /\ v \in Int /\ Local(z, v) = s * D
  <2>1. s * D \in Int /\ v \in Int /\ v + o = s * D
    OBVIOUS
  <2> HIDE DEF v
  <2>2. Local(z, v) = v + o
    BY <1>1, <2>1
  <2> QED BY <1>1, <2>1, <2>2 DEF v
<1> HIDE DEF v
<1>7. AddDate(z, v, 1, 0) = Date(z, (e + (s - s) + 0) * D + 0)
  <2>1. MonthOf(s * D) = m
    BY <1>2, <1>4 DEF MonthOf
  <2> QED BY <1>2, <1>6, <2>1 DEF AddDate
<1>8. (e + (s - s) + 0) * D + 0 = D * e /\ D * e \in Int /\ D * d \in Int
  OBVIOUS
<1>9. NextMonth(z, u) = D * e - o
  <2>1. NextMonth(z, u) = AddDate(z, v, 1, 0)
    BY <1>5, <1>6
  <2>2. AddDate(z, v, 1, 0) = Date(z, D * e)
    BY <1>7, <1>8
  <2>3. Date(z, D * e) = D * e - o
    BY <1>1, <1>8
  <2> QED BY <2>1, <2>2, <2>3
<1>10. /\ D * e - o \in Int /\ D * e - o > u
       /\ \A w \in u .. D * e - o - 1 : w + o \in Int /\ Day(w + o) \in d .. e - 1
  <2>1. MinutesPerDay * d <= u + o /\ u + o < MinutesPerDay * d + MinutesPerDay
    BY <1>2
  <2>2. d < e /\ d \in Int /\ e \in Int
    OBVIOUS
  <2>3. /\ MinutesPerDay * e - o \in Int /\ MinutesPerDay * e - o > u
        /\ \A w \in u .. MinutesPerDay * e - o - 1 :
             w + o \in Int /\ Day(w + o) \in d .. e - 1
    BY <1>0, <2>1, <2>2, DaysBetween
  <2> QED BY <2>3
<1>11. Month(z, u) = (m % MonthsPerYear) + 1
  BY DEF Month, MonthOf
<1>12. ASSUME NEW w \in u .. D * e - o - 1 PROVE Month(z, w) = Month(z, u)
  <2>1. w \in Int /\ Local(z, w) = w + o /\ Day(w + o) \in d .. e - 1
    BY <1>0, <1>1, <1>10
  <2>2. \A x \in d .. e - 1 : x \in days /\ s <= x /\ x < e
    OBVIOUS
  <2>3. MonthOfDay[Day(w + o)] = m
    BY <1>3, <2>1, <2>2
  <2> QED BY <1>11, <2>1, <2>3 DEF Month, MonthOf
<1> QED BY <1>9, <1>10, <1>12

\* A zone whose clock is not set is regular, whatever its offset and whatever the
\* calendar: each jump of the loop in Next goes forward, and over no instant of another
\* month, day or hour. So for such a zone SearchIsExact and NextIsFirstFire assume nothing.
THEOREM FixedZonesAreRegular == \A z \in Zones : z.before = z.after => Regular(z)
<1> SUFFICES ASSUME NEW z \in Zones, z.before = z.after, NEW u \in Instants
             PROVE  /\ {NextMonth(z, u), NextDay(z, u), NextHour(z, u)} \subseteq Int
                    /\ NextMonth(z, u) > u
                    /\ \A w \in u .. NextMonth(z, u) - 1 : Month(z, w) = Month(z, u)
                    /\ NextDay(z, u) > u
                    /\ \A w \in u .. NextDay(z, u) - 1 :
                         DayOfMonth(z, w) = DayOfMonth(z, u) /\ Weekday(z, w) = Weekday(z, u)
                    /\ NextHour(z, u) > u
                    /\ \A w \in u .. NextHour(z, u) - 1 : Hour(z, w) = Hour(z, u)
  BY DEF Regular
<1>1. \A w : Day(Local(z, w)) = Day(Local(z, u)) =>
        DayOfMonth(z, w) = DayOfMonth(z, u) /\ Weekday(z, w) = Weekday(z, u)
  BY DEF DayOfMonth, Weekday, MonthOf
<1> QED BY <1>1, FixedHours, FixedDays, FixedMonths

=============================================================================
