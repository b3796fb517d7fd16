SPECIFICATION Spec
CONSTANTS
  q1 = q1
  q2 = q2
  i1 = i1
  i2 = i2
  Question = {q1, q2}
  Backend = {"sqlite", "cozo"}
  Ask = {i1, i2}
INVARIANTS
  TypeOK
  LabelIsShown
  KnowsBackend
PROPERTIES
  PageSettles
