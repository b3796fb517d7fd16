SPECIFICATION Spec
CONSTANTS
  s1 = s1
  s2 = s2
  outer = outer
  inner = inner
  moved = moved
  x = x
  y = y
  Session = {s1, s2}
  ChunksOf <- MCChunksOf
  Listed <- MCListed
  Short = {}
  GraphStore = TRUE
  Runs = 2
INVARIANT
  ReindexForcesIngestion
