SPECIFICATION FilesSpec
CONSTANTS
  CfgMaxLines = 2
  CfgMdMaxLines = 2
  UnitType = {"module", "subroutine"}
  Name = {"a"}
  LastLine = 3
  LastFile = 0
PROPERTIES
  EndKeywordCloses
