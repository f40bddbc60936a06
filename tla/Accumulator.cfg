SPECIFICATION Spec
CONSTANTS
  Ids <- MCIds
  Counts <- MCCounts
  Families <- MCFamilies
  MaxEvents = 6
INVARIANTS
  TypeOK
  BlocksFollowStream
  SignaturesAttached
  UsageKnown
  ArgumentsReassembled
  CompletionHonest
