SPECIFICATION TimedSpec
CONSTANTS
  MaxAttempts = 4
  InitialBackoff = 1
  BackoffCap = 2
  Width = 2
  Timeouts <- SomeTimeouts
  Failures <- MCFailures
  MaxEvents = 3
INVARIANTS
  RetriesJustified
  NothingRetracted
  CompletionWhole
  BackoffGrows
PROPERTIES
  KeepsCallPromise
  DeadlineEnds
  Returns
