SPECIFICATION Spec
CONSTANTS
  look = look
  hand = hand
  ghost = ghost
  here = here
  there = there
  ToolNames <- MCToolNames
  Registered <- MCRegistered
  Arguments <- MCArguments
  UseIds <- MCUseIds
  RoundLimit = 3
  StallThreshold = 2
  StopRequests <- NoStopRequests
  MaxStopCalls = 0
  Conversations <- OneConversation
  Completions <- StallCompletions
INVARIANT RepetitionEndsRun
