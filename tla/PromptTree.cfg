SPECIFICATION Spec
CONSTANTS
  Trees <- MCTrees
  Absent = Absent
  OtherType = OtherType
INVARIANTS
  ModuleResolves
  VerifyFindsDrift
