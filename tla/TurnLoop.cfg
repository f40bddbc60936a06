SPECIFICATION FairSpec
CONSTANTS
  look = look
  hand = hand
  ghost = ghost
  here = here
  there = there
  ToolNames <- MCToolNames
  Registered <- MCRegistered
  Arguments <- MCArguments
  UseIds <- MCUseIds
  RoundLimit = 3
  StallThreshold = 3
  StopRequests = {r1, r2}
  MaxStopCalls = 2
  Conversations <- MCConversations
  Completions <- MCCompletions
INVARIANTS
  TypeOK
  TranscriptAnswered
  TranscriptResumable
  RecordsMatchTranscript
  RoundLimitHolds
  StalledExactly
  StopRequestEndsRun
  CancellationBoundsWork
  ObserverSeesRun
  WirePaired
PROPERTIES
  KeepsPromise
  Terminates
