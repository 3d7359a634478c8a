CONSTANTS
  MaxAttempts = 2
  ByHand = {}
  Target = "git"
  Backend = "docker"
  Chunks = 1
  Days = 0
SPECIFICATION Spec
INVARIANTS
  TimeoutRecorded
