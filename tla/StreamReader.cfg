SPECIFICATION Spec
CONSTANTS
  MaxLines = 2
  Bodies <- MCBodies
  Statuses = {429}
INVARIANTS
  TypeOK
  ChunkingIrrelevant
PROPERTIES
  KeepsStreamPromise
  StreamEnds
