CONSTANTS
  c1 = c1
  c2 = c2
  Callers = {c1, c2}
  Lifetime = 4
  AssumedTTL = 4
  Margin = 1
  HttpTimeout = 1
  MaxTime = 6
  MaxMints = 4
SYMMETRY Perms
SPECIFICATION Spec
INVARIANTS
  TypeOK
  ReturnedUsable
  MintsSpaced
PROPERTIES
  CacheHardlyRegresses
