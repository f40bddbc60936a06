SPECIFICATION Spec
CONSTANTS
  MaxLines = 1
  Bodies <- MCBodies
  Statuses = {429}
INVARIANT FailsWithoutStop
