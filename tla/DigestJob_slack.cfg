CONSTANTS
  MaxAttempts = 1
  ByHand = {0}
  Target = "slack"
  Backend = "kubernetes"
  Chunks = 2
  Days = 1
SPECIFICATION Spec
INVARIANTS
  PublishedIsOut
