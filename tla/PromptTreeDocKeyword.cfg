SPECIFICATION Spec
CONSTANTS
  Trees <- SelfTree
  Absent = Absent
  OtherType = OtherType
INVARIANT KeywordsAreFine
