------------------------- MODULE CronScheduleProofs -------------------------
(***************************************************************************)
(* Proofs about cron.py, for every expression the parser accepts, every    *)
(* calendar and every length of hours, days and weeks.                     *)
(***************************************************************************)
EXTENDS CronSchedule, TLAPS

-----------------------------------------------------------------------------
(* Division.                                                               *)

LEMMA ProductPositive ==
  ASSUME NEW a \in Nat \ {0}, NEW b \in Nat \ {0}
  PROVE  a * b \in Nat \ {0}
OBVIOUS

LEMMA ProductType == ASSUME NEW a \in Nat, NEW b \in Nat PROVE a * b \in Nat
OBVIOUS

LEMMA ProductMonotonic ==
  ASSUME NEW a \in Nat, NEW b \in Nat, NEW m \in Nat, a <= b
  PROVE  a * m <= b * m
OBVIOUS

LEMMA Division ==
  ASSUME NEW x \in Nat, NEW m \in Nat \ {0}
  PROVE  /\ x \div m \in Nat /\ x % m \in 0..(m - 1)
         /\ x = (x \div m) * m + (x % m)
OBVIOUS

LEMMA SmallIsItsRest ==
  ASSUME NEW x \in Nat, NEW m \in Nat \ {0}
  PROVE  (x < m => x % m = x) /\ m % m = 0
OBVIOUS

\* A multiple of the step leaves no remainder.
LEMMA MultipleHasNoRest ==
  ASSUME NEW k \in Nat, NEW m \in Nat \ {0}
  PROVE  (k * m) % m = 0
OBVIOUS

\* A number below a product, divided by one factor, is below the other.
LEMMA QuotientBelow ==
  ASSUME NEW x \in Nat, NEW m \in Nat \ {0}, NEW n \in Nat, x < n * m
  PROVE  x \div m \in 0..(n - 1)
<1> DEFINE q == x \div m
<1>1. q \in Nat /\ x >= q * m
  <2>1. q \in Nat /\ x % m \in Nat /\ x = q * m + (x % m)
    BY Division
  <2> HIDE DEF q
  <2> QED
    BY <2>1, ProductType
<1>2. ~(n <= q)
  <2> SUFFICES ASSUME n <= q PROVE FALSE
    OBVIOUS
  <2>1. n * m <= q * m
    BY <1>1, ProductMonotonic
  <2>2. n * m \in Nat /\ q * m \in Nat
    BY <1>1, ProductType
  <2> HIDE DEF q
  <2> QED
    BY <1>1, <2>1, <2>2
<1> HIDE DEF q
<1>3. q \in 0..(n - 1)
  BY <1>1, <1>2
<1> QED
  BY <1>3 DEF q

-----------------------------------------------------------------------------
(* Fields.                                                                 *)


\* range(lo, hi + 1, step) holds exactly the values that lie in whole steps from
\* the start.
LEMMA PartReaches ==
  ASSUME NEW part \in Part, NEW range \in Bounds, PartValid(part, range), NEW v \in Int
  PROVE  v \in PartValues(part, range) <=>
           \E k \in 0..(range.hi - range.lo) :
             v = Low(part, range) + k * part.step /\ v <= High(part, range)
<1> DEFINE lo == Low(part, range)
           hi == High(part, range)
           step == part.step
<1>1. lo \in Int /\ hi \in Int /\ step \in Nat \ {0} /\ range.lo \in Int /\ range.hi \in Int
  BY DEF PartValid, Low, High, Part, Bounds
<1>2. range.lo <= lo /\ hi <= range.hi
  BY DEF PartValid
<1>3. v \in PartValues(part, range) <=> v \in lo..hi /\ (v - lo) % step = 0
  BY DEF PartValues
<1> HIDE DEF lo, hi, step
<1>4. ASSUME v \in lo..hi, (v - lo) % step = 0
      PROVE  \E k \in 0..(range.hi - range.lo) : v = lo + k * step /\ v <= hi
  <2> DEFINE x == v - lo
             k == x \div step
  <2>1. x \in Nat /\ x % step = 0
    BY <1>1, <1>4
  <2> HIDE DEF x
  <2>2. k \in Nat /\ x = k * step + (x % step)
    BY <1>1, <2>1, Division
  <2>3. k * 1 <= k * step
    <3> HIDE DEF k
    <3>1. 1 \in Nat /\ step \in Nat /\ 1 <= step
      BY <1>1
    <3>2. 1 * k <= step * k
      BY <2>2, <3>1, ProductMonotonic
    <3> QED
      BY <1>1, <2>2, <3>2
  <2> HIDE DEF k
  <2>4. x = k * step
    BY <1>1, <2>1, <2>2, ProductType
  <2>5. k <= x
    BY <2>1, <2>2, <2>3, <2>4
  <2>6. v = lo + x /\ v <= hi
    BY <1>1, <1>4 DEF x
  <2>7. k \in 0..(range.hi - range.lo)
    BY <1>1, <1>2, <2>1, <2>2, <2>5, <2>6
  <2> QED
    BY <2>4, <2>6, <2>7
<1>5. ASSUME NEW k \in 0..(range.hi - range.lo), v = lo + k * step, v <= hi
      PROVE  v \in lo..hi /\ (v - lo) % step = 0
  <2>1. k \in Nat /\ k * step \in Nat
    BY <1>1, ProductType
  <2>2. v - lo = k * step /\ lo <= v
    BY <1>1, <1>5, <2>1
  <2>3. (k * step) % step = 0
    BY <1>1, <2>1, MultipleHasNoRest
  <2> QED
    BY <1>1, <1>5, <2>2, <2>3
<1> QED
  BY <1>3, <1>4, <1>5 DEF lo, hi, step

\* _parse_field collects the values its parts name.
LEMMA FieldNames ==
  ASSUME NEW field \in Field, NEW range \in Bounds, FieldValid(field, range), NEW v \in Int
  PROVE  v \in ParseField(field, range) <=> Names(field, range, v)
<1>1. \A part \in field.parts : part \in Part /\ PartValid(part, range)
  BY DEF Field, FieldValid
<1>2. \A part \in field.parts :
        v \in PartValues(part, range) <=>
          \E k \in 0..(range.hi - range.lo) :
            v = Low(part, range) + k * part.step /\ v <= High(part, range)
  BY <1>1, PartReaches
<1> QED
  BY <1>2 DEF ParseField, Names

\* isoweekday % 7 against the folded set is the weekday or Sunday's alias
\* against the set as it was written.
LEMMA WeekdayFolds ==
  ASSUME NEW w \in 1..DaysPerWeek, NEW S
  PROVE  w % DaysPerWeek \in {IF v = DaysPerWeek THEN 0 ELSE v : v \in S} <=>
           w \in S \/ (w = DaysPerWeek /\ 0 \in S)
<1>0. DaysPerWeek \in Nat \ {0} /\ w \in Nat /\ w # 0 /\ w <= DaysPerWeek
  BY CronAssumption
<1>1. CASE w = DaysPerWeek
  <2>1. w % DaysPerWeek = 0
    BY <1>0, <1>1, SmallIsItsRest
  <2> QED
    BY <1>1, <2>1
<1>2. CASE w # DaysPerWeek
  <2>1. w < DaysPerWeek
    BY <1>0, <1>2
  <2>2. w % DaysPerWeek = w
    BY <1>0, <2>1, SmallIsItsRest
  <2> QED
    BY <1>0, <1>2, <2>2
<1> QED
  BY <1>1, <1>2

-----------------------------------------------------------------------------
(* Minutes.                                                                *)

\* A minute of the calendar falls on a day of the calendar.
LEMMA DayOfTime ==
  ASSUME NEW t \in Times
  PROVE  Day(t).dom \in Nat /\ Day(t).mon \in Nat /\ Day(t).dow \in 1..DaysPerWeek
<1>1. MinutesPerDay \in Nat \ {0}
  BY ProductPositive, CronAssumption DEF MinutesPerDay
<1> DEFINE DayRecord == [dom : Nat, mon : Nat, dow : 1..DaysPerWeek]
<1>c. Calendar \in Seq(DayRecord) /\ Len(Calendar) \in Nat
  BY CronAssumption
<1>2. Len(Calendar) * MinutesPerDay \in Nat
  BY <1>1, <1>c, ProductType
<1>3. t \in Nat /\ t < Len(Calendar) * MinutesPerDay
  BY <1>2 DEF Times
<1>4. t \div MinutesPerDay \in 0..(Len(Calendar) - 1)
  BY <1>1, <1>3, <1>c, QuotientBelow
<1>5. (t \div MinutesPerDay) + 1 \in 1..Len(Calendar)
  BY <1>4, <1>c
<1>6. Day(t) \in DayRecord
  <2> HIDE DEF DayRecord
  <2>1. \A d \in 1..Len(Calendar) : Calendar[d] \in DayRecord
    BY <1>c
  <2> QED
    BY <1>5, <2>1 DEF Day
<1> QED
  BY <1>6

\* The fields of an accepted expression.
LEMMA ExprFields ==
  ASSUME NEW e \in Exprs, ExprValid(e)
  PROVE  /\ FieldValid(e.minute, FieldRanges.minute)
         /\ FieldValid(e.hour, FieldRanges.hour)
         /\ FieldValid(e.dom, FieldRanges.dom)
         /\ FieldValid(e.mon, FieldRanges.mon)
         /\ FieldValid(e.dow, FieldRanges.dow)
         /\ e.minute \in Field /\ e.hour \in Field /\ e.dom \in Field
         /\ e.mon \in Field /\ e.dow \in Field
         /\ FieldRanges.minute \in Bounds /\ FieldRanges.hour \in Bounds
         /\ FieldRanges.dom \in Bounds /\ FieldRanges.mon \in Bounds
         /\ FieldRanges.dow \in Bounds
<1>1. e \in [minute : Field, hour : Field, dom : Field, mon : Field, dow : Field]
  BY CronAssumption
<1>2. FieldRanges \in [minute : Bounds, hour : Bounds, dom : Bounds, mon : Bounds,
                       dow : Bounds]
  BY CronAssumption
<1>3. DOMAIN FieldRanges = {"minute", "hour", "dom", "mon", "dow"}
  BY <1>2
<1>4. /\ FieldValid(e["minute"], FieldRanges["minute"])
      /\ FieldValid(e["hour"], FieldRanges["hour"])
      /\ FieldValid(e["dom"], FieldRanges["dom"])
      /\ FieldValid(e["mon"], FieldRanges["mon"])
      /\ FieldValid(e["dow"], FieldRanges["dow"])
  BY <1>3 DEF ExprValid
<1> QED
  BY <1>1, <1>2, <1>4

\* CronSchedule.matches on the parsed sets decides as the expression reads: in
\* every minute of the calendar, for every expression the parser accepts.
THEOREM MatchesAsWritten ==
  ASSUME NEW e \in Exprs, ExprValid(e), NEW t \in Times
  PROVE  Matches(Parse(e), t) <=> MatchesStandard(e, t)
<1> DEFINE s == Parse(e)
<1>1. /\ Day(t).dom \in Nat /\ Day(t).mon \in Nat /\ Day(t).dow \in 1..DaysPerWeek
  BY DayOfTime
<1>2. Minute(t) \in Int /\ Hour(t) \in Int
  BY CronAssumption DEF Minute, Hour, Times
<1>3. /\ Minute(t) \in s.minute <=> Names(e.minute, FieldRanges.minute, Minute(t))
      /\ Hour(t) \in s.hour <=> Names(e.hour, FieldRanges.hour, Hour(t))
  BY <1>2, ExprFields, FieldNames DEF Parse
<1>4. /\ Day(t).mon \in s.mon <=> Names(e.mon, FieldRanges.mon, Day(t).mon)
      /\ Day(t).dom \in s.dom <=> Names(e.dom, FieldRanges.dom, Day(t).dom)
  BY <1>1, ExprFields, FieldNames DEF Parse
<1>5. Day(t).dow % DaysPerWeek \in s.dow <=>
        NamesWeekday(e.dow, FieldRanges.dow, Day(t).dow)
  <2> DEFINE S == ParseField(e.dow, FieldRanges.dow)
             w == Day(t).dow
  <2>1. s.dow = {IF v = DaysPerWeek THEN 0 ELSE v : v \in S}
    BY DEF Parse
  <2>2. w \in Int /\ 0 \in Int
    BY <1>1
  <2>3. (w \in S <=> Names(e.dow, FieldRanges.dow, w))
        /\ (0 \in S <=> Names(e.dow, FieldRanges.dow, 0))
    BY <2>2, ExprFields, FieldNames
  <2> HIDE DEF S, w
  <2>4. w % DaysPerWeek \in {IF v = DaysPerWeek THEN 0 ELSE v : v \in S} <=>
          w \in S \/ (w = DaysPerWeek /\ 0 \in S)
    BY <1>1, WeekdayFolds DEF w
  <2> QED
    BY <2>1, <2>3, <2>4 DEF NamesWeekday, w
<1>6. s.domRestricted = ~e.dom.plain /\ s.dowRestricted = ~e.dow.plain
  BY DEF Parse
<1> HIDE DEF s
<1>7. Matches(s, t) <=> MatchesStandard(e, t)
  BY <1>3, <1>4, <1>5, <1>6, Zenon DEF Matches, MatchesStandard
<1> QED
  BY <1>7 DEF s

-----------------------------------------------------------------------------
(* next_after.                                                             *)

LEMMA TimesAreNatural == ASSUME NEW t \in Times PROVE t \in Nat
BY DEF Times

LEMMA InitIInv == Init => IInv
<1> SUFFICES ASSUME Init PROVE IInv
  OBVIOUS
<1>1. dt \in Nat
  BY DEF Init, Times
<1>2. TypeOK
  BY <1>1 DEF Init, TypeOK, Limit
<1> QED
  BY <1>2 DEF Init, IInv, SearchInv

LEMMA NextIInv == IInv /\ [Next]_vars => IInv'
<1> SUFFICES ASSUME IInv, [Next]_vars PROVE IInv'
  OBVIOUS
<1>t. TypeOK /\ dt \in Nat /\ candidate \in Nat /\ Limit \in Nat
  BY TimesAreNatural DEF IInv, TypeOK
<1>e. UNCHANGED <<expr, dt>> /\ Limit' = Limit
  BY DEF Next, Parsed, ParseRaises, Advance, Found, NotFound, Returned, vars, Limit
<1>1. CASE Parsed
  <2>1. /\ ExprValid(expr) /\ schedule' = Parse(expr)
        /\ candidate' = dt + 1 /\ outcome' = "searching"
    BY <1>1 DEF Parsed
  <2>2. candidate' \in Nat /\ candidate' > dt /\ (dt + 1)..(candidate' - 1) = {}
    BY <1>t, <2>1
  <2>3. TypeOK'
    BY <1>t, <1>e, <2>1, <2>2 DEF TypeOK
  <2>4. SearchInv'
    BY <1>e, <2>1, <2>2 DEF SearchInv
  <2> QED
    BY <2>3, <2>4 DEF IInv
<1>2. CASE ParseRaises
  BY <1>t, <1>e, <1>2 DEF ParseRaises, IInv, TypeOK, SearchInv
<1>3. CASE Advance
  <2>1. /\ outcome = "searching" /\ ~Matches(schedule, candidate)
        /\ candidate' = candidate + 1 /\ UNCHANGED <<schedule, outcome>>
    BY <1>3 DEF Advance
  <2>2. candidate' \in Nat /\ candidate > dt /\ candidate' > dt
    BY <1>t, <2>1 DEF IInv, SearchInv
  <2>3. TypeOK'
    BY <1>t, <1>e, <2>1, <2>2 DEF TypeOK
  <2>4. ASSUME NEW t \in (dt + 1)..(candidate' - 1), t <= Limit
        PROVE  ~Matches(schedule, t)
    <3>1. t = candidate \/ t \in (dt + 1)..(candidate - 1)
      BY <1>t, <2>1
    <3> QED
      BY <2>1, <2>4, <3>1 DEF IInv, SearchInv
  <2>5. SearchInv'
    BY <1>e, <2>1, <2>2, <2>4 DEF IInv, SearchInv
  <2> QED
    BY <2>3, <2>5 DEF IInv
<1>4. CASE Found
  BY <1>t, <1>e, <1>4 DEF Found, IInv, TypeOK, SearchInv
<1>5. CASE NotFound
  BY <1>t, <1>e, <1>5 DEF NotFound, IInv, TypeOK, SearchInv
<1>6. CASE UNCHANGED vars
  BY <1>e, <1>6 DEF vars, IInv, TypeOK, SearchInv
<1> QED
  BY <1>1, <1>2, <1>3, <1>4, <1>5, <1>6 DEF Next, Returned

LEMMA Invariance == Spec => []IInv
BY InitIInv, NextIInv, PTL DEF Spec

\* In the whole search the sets decide as the expression reads.
THEOREM MatchIsRight == Spec => []MatchIsStandard
<1>1. IInv => MatchIsStandard
  BY MatchesAsWritten DEF IInv, TypeOK, SearchInv, MatchIsStandard
<1> QED
  BY <1>1, Invariance, PTL

\* next_after returns the first minute after dt that the expression names, and
\* raises only when there is none up to its cap.
THEOREM NextIsTheFirst == Spec => []NextIsFirst
<1>1. ASSUME IInv PROVE NextIsFirst
  <2>1. dt \in Nat /\ candidate \in Nat /\ Limit \in Nat /\ Limit \in Times
    BY <1>1, TimesAreNatural DEF IInv, TypeOK
  <2>2. ASSUME NEW t \in Nat, t <= Limit PROVE t \in Times
    <3>1. Len(Calendar) * MinutesPerDay - 1 \in Int
      <4>1. MinutesPerDay \in Nat \ {0}
        BY CronAssumption, ProductPositive DEF MinutesPerDay
      <4>2. Len(Calendar) \in Nat
        BY CronAssumption
      <4> QED
        BY <4>1, <4>2, ProductType
    <3> QED
      BY <2>1, <2>2, <3>1 DEF Times
  <2>3. CASE outcome = "found"
    <3>1. /\ ExprValid(expr) /\ expr \in Exprs /\ schedule = Parse(expr)
          /\ candidate > dt /\ candidate <= Limit /\ Matches(schedule, candidate)
          /\ \A t \in (dt + 1)..(candidate - 1) : t <= Limit => ~Matches(schedule, t)
      BY <1>1, <2>3 DEF IInv, TypeOK, SearchInv
    <3>2. MatchesStandard(expr, candidate)
      BY <2>1, <2>2, <3>1, MatchesAsWritten
    <3>3. ASSUME NEW t \in (dt + 1)..(candidate - 1) PROVE ~MatchesStandard(expr, t)
      <4>1. t \in Nat /\ t <= Limit
        BY <2>1, <3>1
      <4> QED
        BY <2>2, <3>1, <4>1, MatchesAsWritten
    <3> QED
      BY <2>3, <3>1, <3>2, <3>3 DEF NextIsFirst
  <2>4. CASE outcome = "not found"
    <3>1. /\ ExprValid(expr) /\ expr \in Exprs /\ schedule = Parse(expr)
          /\ candidate > Limit
          /\ \A t \in (dt + 1)..(candidate - 1) : t <= Limit => ~Matches(schedule, t)
      BY <1>1, <2>4 DEF IInv, TypeOK, SearchInv
    <3>2. ASSUME NEW t \in (dt + 1)..Limit PROVE ~MatchesStandard(expr, t)
      <4>1. t \in Nat /\ t <= Limit /\ t \in (dt + 1)..(candidate - 1)
        BY <2>1, <3>1
      <4> QED
        BY <2>2, <3>1, <4>1, MatchesAsWritten
    <3> QED
      BY <2>4, <3>2 DEF NextIsFirst
  <2> QED
    BY <2>3, <2>4 DEF NextIsFirst
<1> QED
  BY <1>1, Invariance, PTL

=============================================================================
