SPECIFICATION Spec
CONSTANTS
  r1 = r1
  r2 = r2
  Backend = {"sqlite", "cozo", "other"}
  ToLoad <- MCToLoad
  Request = {r1, r2}
INVARIANTS
  TypeOK
  LabelIsSource
  NoReadAfterClose
  CleanExit
PROPERTIES
  SignalEnds
