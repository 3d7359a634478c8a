CONSTANTS
  LocalPolicy <- Yaml
  RemotePolicy <- DevEngine
  Repositories <- Notes
  Escaping = {"outside"}
  Queries = 3
  Targets <- JobTargets
SPECIFICATION FairSpec
INVARIANTS
  SucceededRestsOnEvidence
  NothingWithoutAuthority
  ExitTellsRows
PROPERTIES
  RowsFollowLifecycle
  CommandEnds
