SPECIFICATION Spec
CONSTANTS
  a = a
  b = b
  d = d
  Chunk = {a, b, d}
  Doc = {d}
  TopK <- MCTopK
  LastVersion = 2
SYMMETRY Symmetry
INVARIANTS
  TypeOK
  NewestRead
  BothBeatOne
  ResultIsRanking
  PanicsOnNegativeK
  HitsArePairs
