CONSTANTS
  NJobs = 4
  DueMinutes <- FourDue
  Forbid = {1, 2, 4}
  Executors = {1, 2, 3}
  Malformed = {2}
  BackoffLimit <- FourBackoff
  Deadline <- FourDeadline
  HasNotifier = TRUE
  NotifierRaises = TRUE
  TicksPerMinute = 2
  Slack = 1
  MaxWait = 1
  Horizon = 3
  MaxRestarts = 1
SPECIFICATION FairSpec
INVARIANTS
  TypeOK
  NoDoubleFire
  AttemptsInOrder
  OverlapOnlyPastDeadline
  SuccessIsReal
  NotifiedOncePerTerminal
  EveryDueJobReported
PROPERTIES
  PassEnds
  DispatchReported
