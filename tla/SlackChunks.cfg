CONSTANTS
  MaxLen = 3
  MaxLines = 4
  MaxWidth = 7
SPECIFICATION Spec
INVARIANTS
  ChunksFit
  NothingLost
  LinesKept
  ShortLinesWhole
