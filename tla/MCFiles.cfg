SPECIFICATION FilesSpec
CONSTANTS
  CfgMaxLines = 2
  CfgMdMaxLines = 2
  UnitType = {"module", "subroutine"}
  Name = {"a"}
  LastLine = 6
  LastFile = 4
INVARIANTS
  EachIsReadOnce
  UnitsAreMatchedPairs
  PartsTile
  IdsAreDistinct
  DeclsAreInnermost
  ContainmentIsNesting
  SectionsTile
