SPECIFICATION Spec
CONSTANTS
  w1 = w1
  w2 = w2
  r1 = r1
  r2 = r2
  c1 = c1
  c2 = c2
  k1 = k1
  Writer = {w1, w2}
  Reader = {r1}
  Chunk = {c1, c2}
  ParamsOf <- MCParamsOf
  SkillsOf <- MCSkillsOf
  FailingDb = TRUE
CHECK_DEADLOCK FALSE
SYMMETRY Symmetry
INVARIANTS
  TypeOK
  RowsAreWhole
  ResultIsSnapshot
  OnlyFallBackBlocks
