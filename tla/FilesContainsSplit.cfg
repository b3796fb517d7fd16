SPECIFICATION FilesSpec
CONSTANTS
  CfgMaxLines = 2
  CfgMdMaxLines = 2
  UnitType = {"module", "subroutine"}
  Name = {"a"}
  LastLine = 5
  LastFile = 0
INVARIANT
  NestedIsContained
