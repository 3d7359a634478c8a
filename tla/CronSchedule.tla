---------------------------- MODULE CronSchedule ----------------------------
(***************************************************************************)
(* scheduler/cron.py: a five-field expression becomes five sets, a minute  *)
(* matches them or not, and next_after searches minute by minute.          *)
(* An expression is kept as what split leaves of it: a field is a set of   *)
(* parts, and `plain' says its text is "*".  Hours and days have as many   *)
(* minutes and hours as the constants say; the calendar is a constant.     *)
(***************************************************************************)
EXTENDS Integers, Sequences

CONSTANTS
  MinutesPerHour, HoursPerDay,
  Calendar,     \* for every day: its dom, its mon, and its dow as isoweekday
  FieldRanges,  \* _FIELD_RANGES: [minute, hour, dom, mon, dow -> [lo, hi]]
  DaysPerWeek,  \* 7: the alias of 0, and the modulus of isoweekday
  SearchCap,    \* next_after's cap, in days
  Exprs         \* the expressions looked at

MinutesPerDay == MinutesPerHour * HoursPerDay

\* Every minute of the calendar, counted from its first.
Times == 0..(Len(Calendar) * MinutesPerDay - 1)

\* A part is "*", a range a-b or a value a (a-a), each with a step, which is any
\* number int() accepts.
Part      == [star : BOOLEAN, lo : Int, hi : Int, step : Int]
Field     == [plain : BOOLEAN, parts : SUBSET Part]
Bounds    == [lo : Int, hi : Int]

ASSUME CronAssumption ==
  /\ MinutesPerHour \in Nat \ {0} /\ HoursPerDay \in Nat \ {0}
  /\ DaysPerWeek \in Nat \ {0} /\ SearchCap \in Nat
  /\ Calendar \in Seq([dom : Nat, mon : Nat, dow : 1..DaysPerWeek])
  /\ SearchCap < Len(Calendar)
  /\ FieldRanges \in [minute : Bounds, hour : Bounds, dom : Bounds, mon : Bounds,
                      dow : Bounds]
  /\ Exprs \subseteq [minute : Field, hour : Field, dom : Field, mon : Field,
                      dow : Field]

Minute(t) == t % MinutesPerHour
Hour(t)   == (t \div MinutesPerHour) % HoursPerDay
Day(t)    == Calendar[(t \div MinutesPerDay) + 1]

VARIABLES
  expr,       \* the expression given
  dt,         \* next_after's argument
  schedule,   \* the CronSchedule, once parsed
  candidate,  \* next_after's candidate
  outcome     \* "parsing", "searching", "found", "not found" or "invalid"

vars == <<expr, dt, schedule, candidate, outcome>>

-----------------------------------------------------------------------------
(* _parse_field.                                                           *)

Low(part, range)  == IF part.star THEN range.lo ELSE part.lo
High(part, range) == IF part.star THEN range.hi ELSE part.hi

PartValid(part, range) ==
  /\ part.step > 0
  /\ Low(part, range) <= High(part, range)
  /\ Low(part, range) >= range.lo
  /\ High(part, range) <= range.hi

\* range(lo, hi + 1, step)
PartValues(part, range) ==
  {v \in Low(part, range)..High(part, range) :
     (v - Low(part, range)) % part.step = 0}

FieldValid(field, range) ==
  field.parts # {} /\ \A part \in field.parts : PartValid(part, range)

ParseField(field, range) == UNION {PartValues(part, range) : part \in field.parts}

ExprValid(e) == \A f \in DOMAIN FieldRanges : FieldValid(e[f], FieldRanges[f])

\* Mutant: 7 is left as it is.
ParseUnaliased(e) ==
  [minute |-> ParseField(e.minute, FieldRanges.minute),
   hour   |-> ParseField(e.hour, FieldRanges.hour),
   dom    |-> ParseField(e.dom, FieldRanges.dom),
   mon    |-> ParseField(e.mon, FieldRanges.mon),
   dow    |-> ParseField(e.dow, FieldRanges.dow),
   domRestricted |-> ~e.dom.plain,
   dowRestricted |-> ~e.dow.plain]

\* CronSchedule.parse: the alias of Sunday is folded after the expansion.
Parse(e) ==
  [minute |-> ParseField(e.minute, FieldRanges.minute),
   hour   |-> ParseField(e.hour, FieldRanges.hour),
   dom    |-> ParseField(e.dom, FieldRanges.dom),
   mon    |-> ParseField(e.mon, FieldRanges.mon),
   dow    |-> {IF v = DaysPerWeek THEN 0 ELSE v :
                 v \in ParseField(e.dow, FieldRanges.dow)},
   domRestricted |-> ~e.dom.plain,
   dowRestricted |-> ~e.dow.plain]

Matches(s, t) ==
  LET domMatch == Day(t).dom \in s.dom
      dowMatch == Day(t).dow % DaysPerWeek \in s.dow
  IN  /\ Minute(t) \in s.minute
      /\ Hour(t) \in s.hour
      /\ Day(t).mon \in s.mon
      /\ IF s.domRestricted /\ s.dowRestricted
           THEN domMatch \/ dowMatch
           ELSE domMatch /\ dowMatch

-----------------------------------------------------------------------------

NoSchedule == [minute |-> {}, hour |-> {}, dom |-> {}, mon |-> {}, dow |-> {},
               domRestricted |-> FALSE, dowRestricted |-> FALSE]

Limit == dt + SearchCap * MinutesPerDay

Init ==
  /\ expr \in Exprs
  /\ dt \in {t \in Times : t + SearchCap * MinutesPerDay \in Times}
  /\ schedule = NoSchedule
  /\ candidate = 0
  /\ outcome = "parsing"

\* Mutant: the search begins at dt itself.
ParsedFromNow ==
  /\ outcome = "parsing"
  /\ ExprValid(expr)
  /\ schedule' = Parse(expr)
  /\ candidate' = dt
  /\ outcome' = "searching"
  /\ UNCHANGED <<expr, dt>>

Parsed ==
  /\ outcome = "parsing"
  /\ ExprValid(expr)
  /\ schedule' = Parse(expr)
  /\ candidate' = dt + 1
  /\ outcome' = "searching"
  /\ UNCHANGED <<expr, dt>>

ParseRaises ==
  /\ outcome = "parsing"
  /\ ~ExprValid(expr)
  /\ outcome' = "invalid"
  /\ UNCHANGED <<expr, dt, schedule, candidate>>

\* A round of next_after's loop, and its two ends.
Advance ==
  /\ outcome = "searching"
  /\ candidate <= Limit
  /\ ~Matches(schedule, candidate)
  /\ candidate' = candidate + 1
  /\ UNCHANGED <<expr, dt, schedule, outcome>>

Found ==
  /\ outcome = "searching"
  /\ candidate <= Limit
  /\ Matches(schedule, candidate)
  /\ outcome' = "found"
  /\ UNCHANGED <<expr, dt, schedule, candidate>>

NotFound ==
  /\ outcome = "searching"
  /\ candidate > Limit
  /\ outcome' = "not found"
  /\ UNCHANGED <<expr, dt, schedule, candidate>>

Returned ==
  /\ outcome \in {"found", "not found", "invalid"}
  /\ UNCHANGED vars

Next == Parsed \/ ParseRaises \/ Advance \/ Found \/ NotFound \/ Returned

Spec == Init /\ [][Next]_vars

-----------------------------------------------------------------------------
(* Properties.                                                             *)

\* What a minute must satisfy, said part by part of the expression and with no
\* expansion: some part of a field reaches the value in whole steps from its
\* start.  A weekday is named by itself or, Sunday, by the alias.
Names(field, range, v) ==
  \E part \in field.parts :
    \E k \in 0..(range.hi - range.lo) :
      v = Low(part, range) + k * part.step /\ v <= High(part, range)

NamesWeekday(field, range, isoweekday) ==
  \/ Names(field, range, isoweekday)
  \/ isoweekday = DaysPerWeek /\ Names(field, range, 0)

\* Standard cron: dom and dow are alternatives when both are given.
MatchesStandard(e, t) ==
  LET dom == Names(e.dom, FieldRanges.dom, Day(t).dom)
      dow == NamesWeekday(e.dow, FieldRanges.dow, Day(t).dow)
  IN  /\ Names(e.minute, FieldRanges.minute, Minute(t))
      /\ Names(e.hour, FieldRanges.hour, Hour(t))
      /\ Names(e.mon, FieldRanges.mon, Day(t).mon)
      /\ IF e.dom.plain \/ e.dow.plain THEN dom /\ dow ELSE dom \/ dow

\* The sets decide as the expression reads, on every day of the calendar: the
\* scheduler fires a job in exactly the minutes its cron expression names.
MatchIsStandard ==
  outcome = "searching" /\ candidate \in Times =>
    (Matches(schedule, candidate) <=> MatchesStandard(expr, candidate))

\* next_after returns the first matching minute after dt, not dt itself, and
\* fails only when there is none up to the cap.
NextIsFirst ==
  /\ outcome = "found" =>
       /\ candidate > dt
       /\ MatchesStandard(expr, candidate)
       /\ \A t \in (dt + 1)..(candidate - 1) : ~MatchesStandard(expr, t)
  /\ outcome = "not found" =>
       \A t \in (dt + 1)..Limit : ~MatchesStandard(expr, t)

-----------------------------------------------------------------------------
(* The inductive invariant: what the search has ruled out so far.          *)

TypeOK ==
  /\ expr \in Exprs
  /\ dt \in Nat /\ Limit \in Times
  /\ candidate \in Nat
  /\ outcome \in {"parsing", "searching", "found", "not found", "invalid"}

SearchInv ==
  outcome \in {"searching", "found", "not found"} =>
    /\ ExprValid(expr)
    /\ schedule = Parse(expr)
    /\ candidate > dt
    /\ \A t \in (dt + 1)..(candidate - 1) : t <= Limit => ~Matches(schedule, t)
    /\ outcome = "found" => candidate <= Limit /\ Matches(schedule, candidate)
    /\ outcome = "not found" => candidate > Limit

IInv == TypeOK /\ SearchInv

=============================================================================
