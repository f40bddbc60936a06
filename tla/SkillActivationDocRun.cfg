SPECIFICATION Spec
CONSTANTS
  r1 = r1
  r2 = r2
  Runs <- TwoRuns
  Names <- MCNames
  Roots <- MCRoots
  SubDirs <- MCSubDirs
  Disks <- MCDisks
  Headers <- MCHeaders
  NoName = NoName
  MaxEdits = 1
INVARIANT LoadedForRestOfRun
