CONSTANTS
  MaxAttempts = 2
  ByHand = {}
  Target = "git"
  Backend = "docker"
  Chunks = 1
  Days = 1
SPECIFICATION FairSpec
INVARIANTS
  PublishedIsOut
  SucceededIsPublished
  SuccessMatchesRows
PROPERTIES
  RowsFollowLifecycle
  VerdictReached
  AttemptsEnd
