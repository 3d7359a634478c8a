CONSTANTS
  MinutesPerHour = 3
  HoursPerDay = 2
  DaysPerWeek = 7
  SearchCap = 8
  Calendar <- CalendarVal
  FieldRanges <- RangesVal
  Exprs <- ExprsVal
SPECIFICATION Spec
INVARIANTS
  MatchIsStandard
  NextIsFirst
