CONSTANTS
  NJobs = 2
  DueMinutes <- PairDue
  Forbid = {1}
  Executors = {1, 2}
  Malformed = {}
  BackoffLimit <- PairBackoff
  Deadline <- PairDeadline
  HasNotifier = TRUE
  NotifierRaises = FALSE
  TicksPerMinute = 2
  Slack = 0
  MaxWait = 1
  Horizon = 8
  MaxRestarts = 0
SPECIFICATION FairSpec
PROPERTIES
  EveryMinuteScanned
