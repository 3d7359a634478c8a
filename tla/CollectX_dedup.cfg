CONSTANTS
  Collectors = {1, 2}
  Searches <- SearchesVal
SPECIFICATION Spec
INVARIANTS
  DuplicatesOnlyByOverlap
  SucceededIsComplete
PROPERTIES
  RowsFollowLifecycle
