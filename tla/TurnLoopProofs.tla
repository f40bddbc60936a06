--------------------------- MODULE TurnLoopProofs ---------------------------
(***************************************************************************)
(* What TurnLoop satisfies for every round limit, stall threshold, tool    *)
(* set, conversation and model.  First the types, the rounds and what a    *)
(* cancellation leaves to do.  Then the transcript: its tool uses are      *)
(* answered, it can be sent and resumed, its records tell the same story,  *)
(* and Agent::run keeps what RunPromise states.  Then how a run ends       *)
(* early: by the stall tracker or by a stop request.  Last what the        *)
(* providers are sent.                                                     *)
(***************************************************************************)
EXTENDS WireRequest, SelectionProofs

-----------------------------------------------------------------------------
(***************************************************************************)
(* The types of what the helpers build.                                    *)
(***************************************************************************)
LEMMA AssistantMessageType ==
  ASSUME NEW c \in CompletionType, NEW asked \in Seq(ToolUses)
  PROVE  AssistantMessage(c, asked) \in Messages
BY DEF AssistantMessage, Messages, CompletionType, Roles

LEMMA ToolResultsMessageType ==
  ASSUME NEW rs \in Seq(ToolResults)
  PROVE  ToolResultsMessage(rs) \in Messages
BY DEF ToolResultsMessage, Messages, Roles

LEMMA NotClosingType == NotClosing \in ClosingType
BY DEF NotClosing, ClosingType, NoMessage, AssistantMessage, Messages, Roles, StopReasons

LEMMA StallRecordType ==
  ASSUME NEW s \in StallState, NEW call \in CallRecord
  PROVE  StallRecord(s, call) \in StallState
BY DEF StallRecord, StallState, Option, Some, KeyOf, CallKey, CallRecord

LEMMA ResultOfType ==
  ASSUME NEW use \in ToolUses, NEW call \in CallRecord
  PROVE  ResultOf(use, call) \in ToolResults
BY DEF ResultOf, ToolUses, ToolResults, CallRecord

LEMMA StopRecordedType ==
  ASSUME NEW slot \in Option(StopRequests), NEW request \in StopRequests
  PROVE  StopRecorded(slot, request) \in Option(StopRequests)
BY DEF StopRecorded, Option, Some

LEMMA OptionFacts ==
  ASSUME NEW S
  PROVE  /\ None \in Option(S)
         /\ \A x \in S : Some(x) \in Option(S) /\ Some(x) # None /\ Some(x)[1] = x
         /\ \A o \in Option(S) : o # None => o[1] \in S
<1>1. None \in Option(S)
  BY DEF None, Option
<1>2. ASSUME NEW x \in S
      PROVE  Some(x) \in Option(S) /\ Some(x) # None /\ Some(x)[1] = x
  BY DEF Option, Some, None
<1>3. ASSUME NEW o \in Option(S), o # None
      PROVE  o[1] \in S
  BY <1>3 DEF Option, None
<1> QED
  BY <1>1, <1>2, <1>3

LEMMA CurrentUseType ==
  ASSUME RoundOK, pc \in {"dispatch", "called"} \/ (pc = "tools" /\ Len(results) < Len(uses))
  PROVE  CurrentUse \in ToolUses
BY DEF RoundOK, CurrentUse

-----------------------------------------------------------------------------
(***************************************************************************)
(* Type correctness.                                                       *)
(***************************************************************************)
LEMMA InitType == Init => TypeOK
<1> SUFFICES ASSUME Init PROVE TypeOK
  OBVIOUS
<1>1. ControlOK /\ TraceOK
  BY TurnLoopAssumption DEF Init, ControlOK, TraceOK
<1>2. RoundOK
  <2>1. record \in Option(CallRecord)
    BY OptionFacts DEF Init, NoRecord
  <2>2. skipping \in BOOLEAN
    BY DEF Init
  <2>3. pc = "start" /\ uses = <<>> /\ results = <<>> /\ calls = <<>>
    BY DEF Init
  <2> QED
    BY <2>1, <2>2, <2>3 DEF RoundOK
<1>3. ClosingOK
  BY NotClosingType DEF Init, ClosingOK
<1>4. StallOK
  BY DEF Init, StallOK, StallState, Option, None
<1>5. ContextOK
  BY OptionFacts DEF Init, ContextOK
<1>6. ResultOK
  BY OptionFacts DEF Init, ResultOK, Endings, Replies
<1>7. ObserverOK
  BY DEF Init, ObserverOK
<1>8. HistoryOK
  <2>1. [rounds |-> 0, calls |-> 0] \in [rounds : Nat, calls : Nat]
    OBVIOUS
  <2>2. cancelledAt \in {Some([rounds |-> 0, calls |-> 0]), None}
    <3>1. CASE cancelled
      BY <3>1 DEF Init
    <3>2. CASE ~cancelled
      BY <3>2 DEF Init
    <3> QED
      BY <3>1, <3>2
  <2>3. cancelledAt \in Option([rounds : Nat, calls : Nat])
    <3> DEFINE T == [rounds : Nat, calls : Nat]
    <3>1. Some([rounds |-> 0, calls |-> 0]) \in Option(T) /\ None \in Option(T)
      <4> HIDE DEF T
      <4> QED
        BY <2>1, OptionFacts DEF T
    <3> QED
      BY <2>2, <3>1
  <2>4. stopLog = <<>>
    BY DEF Init
  <2> QED
    BY <2>3, <2>4 DEF HistoryOK
<1> QED
  BY <1>1, <1>2, <1>3, <1>4, <1>5, <1>6, <1>7, <1>8 DEF TypeOK

LEMMA StepType == TypeOK /\ [Next]_vars => TypeOK'
<1> SUFFICES ASSUME TypeOK, [Next]_vars PROVE TypeOK'
  OBVIOUS
<1>a. UNCHANGED traceVars => TraceOK'
  BY DEF TypeOK, TraceOK, traceVars
<1>b. UNCHANGED closing => ClosingOK'
  BY DEF TypeOK, ClosingOK
<1>c. UNCHANGED stall => StallOK'
  BY DEF TypeOK, StallOK
<1>d. UNCHANGED contextVars => ContextOK'
  BY DEF TypeOK, ContextOK, contextVars
<1>e. UNCHANGED resultVars => ResultOK'
  BY DEF TypeOK, ResultOK, resultVars
<1>f. UNCHANGED observerVars => ObserverOK'
  BY DEF TypeOK, ObserverOK, observerVars
<1>g. UNCHANGED historyVars => HistoryOK'
  BY DEF TypeOK, HistoryOK, historyVars
<1>h. ASSUME UNCHANGED <<inputVars, round>>,
             pc' \in {"start", "head", "model", "tools", "dispatch", "called", "closing", "done"}
      PROVE  ControlOK'
  BY <1>h DEF TypeOK, ControlOK, inputVars
<1>i. ASSUME UNCHANGED roundVars, pc' \notin {"tools", "dispatch", "called"}
      PROVE  RoundOK'
  BY <1>i DEF TypeOK, RoundOK, roundVars
<1>j. \A kind \in {"Completed", "Truncated", "RoundsExhausted", "Cancelled",
                   "InvalidConversation", "Provider"} : [kind |-> kind] \in Endings
  BY DEF Endings
<1>k. None \in Replies
  BY OptionFacts DEF Replies
<1>1. CASE RejectConversation
  <2>1. ResultOK'
    BY <1>1, <1>j, <1>k DEF RejectConversation, Return, ResultOK
  <2> QED
    BY <1>1, <2>1, <1>a, <1>b, <1>c, <1>d, <1>f, <1>g, <1>h, <1>i
       DEF RejectConversation, Return, TypeOK
<1>2. CASE StopCancelled
  <2>1. ResultOK'
    BY <1>2, <1>j, <1>k DEF StopCancelled, Return, ResultOK
  <2> QED
    BY <1>2, <2>1, <1>a, <1>b, <1>c, <1>d, <1>f, <1>g, <1>h, <1>i
       DEF StopCancelled, Return, TypeOK
<1>3. CASE ExhaustRounds
  <2>1. ResultOK'
    BY <1>3, <1>j, <1>k DEF ExhaustRounds, Return, ResultOK
  <2> QED
    BY <1>3, <2>1, <1>a, <1>b, <1>c, <1>d, <1>f, <1>g, <1>h, <1>i
       DEF ExhaustRounds, Return, TypeOK
<1>4. CASE ModelFails
  <2>1. ResultOK'
    BY <1>4, <1>j, <1>k DEF ModelFails, Return, ResultOK
  <2> QED
    BY <1>4, <2>1, <1>a, <1>b, <1>c, <1>d, <1>f, <1>g, <1>h, <1>i
       DEF ModelFails, Return, TypeOK
<1>5. CASE AcceptConversation
  BY <1>5, <1>a, <1>b, <1>c, <1>d, <1>e, <1>f, <1>g, <1>h, <1>i
     DEF AcceptConversation, TypeOK
<1>6. CASE BeginRound
  BY <1>6, <1>a, <1>b, <1>c, <1>d, <1>e, <1>f, <1>g, <1>h, <1>i
     DEF BeginRound, TypeOK
<1>7. ASSUME NEW c \in Completions, ReplyTruncated(c)
      PROVE  TypeOK'
  <2>1. c \in CompletionType
    BY TurnLoopAssumption
  <2>2. ClosingOK'
    <3>1. WithoutToolUses(c) \in Messages
      <4>1. <<>> \in Seq(ToolUses)
        OBVIOUS
      <4> QED
        BY <2>1, <4>1, AssistantMessageType DEF WithoutToolUses
    <3>2. c.stop \in StopReasons
      BY <2>1 DEF CompletionType
    <3>3. closing' = [message |-> WithoutToolUses(c), stop |-> c.stop, outcome |-> "Truncated"]
      BY <1>7 DEF ReplyTruncated, CloseRound
    <3> QED
      BY <3>1, <3>2, <3>3 DEF ClosingOK, ClosingType
  <2>3. ObserverOK'
    BY <1>7, <2>1 DEF ReplyTruncated, CloseRound, TypeOK, ObserverOK, RoundRecord, CompletionType
  <2>4. RoundOK'
    BY <1>7 DEF ReplyTruncated, CloseRound, TypeOK, RoundOK
  <2> QED
    BY <1>7, <2>2, <2>3, <2>4, <1>a, <1>c, <1>d, <1>e, <1>g, <1>h
       DEF ReplyTruncated, CloseRound, TypeOK
<1>8. ASSUME NEW c \in Completions, ReplyFinal(c)
      PROVE  TypeOK'
  <2>1. c \in CompletionType
    BY TurnLoopAssumption
  <2>2. ClosingOK'
    BY <1>8, <2>1, AssistantMessageType
       DEF ReplyFinal, CloseRound, ClosingOK, ClosingType, CompletionType
  <2>3. ObserverOK'
    BY <1>8, <2>1 DEF ReplyFinal, CloseRound, TypeOK, ObserverOK, RoundRecord, CompletionType
  <2>4. RoundOK'
    BY <1>8 DEF ReplyFinal, CloseRound, TypeOK, RoundOK
  <2> QED
    BY <1>8, <2>2, <2>3, <2>4, <1>a, <1>c, <1>d, <1>e, <1>g, <1>h
       DEF ReplyFinal, CloseRound, TypeOK
<1>9. ASSUME NEW c \in Completions, ReplyWithTools(c)
      PROVE  TypeOK'
  <2>1. c \in CompletionType /\ c.uses \in Seq(ToolUses)
    BY TurnLoopAssumption DEF CompletionType
  <2>2. TraceOK'
    BY <1>9, <2>1, AssistantMessageType DEF ReplyWithTools, TypeOK, TraceOK
  <2>3. ClosingOK'
    BY <1>9, <2>1 DEF ReplyWithTools, TypeOK, ClosingOK, ClosingType, CompletionType
  <2>4. RoundOK'
    <3>1. skipping' \in BOOLEAN
      BY <1>9 DEF ReplyWithTools
    <3>2. /\ uses' = c.uses /\ results' = <<>> /\ calls' = <<>> /\ record' = record
          /\ pc' = "tools"
      BY <1>9 DEF ReplyWithTools
    <3>3. Len(results') <= Len(uses')
      BY <2>1, <3>2
    <3> QED
      BY <2>1, <3>1, <3>2, <3>3 DEF TypeOK, RoundOK
  <2> QED
    BY <1>9, <2>2, <2>3, <2>4, <1>c, <1>d, <1>e, <1>f, <1>g, <1>h
       DEF ReplyWithTools, TypeOK
<1>10. CASE SkipTool
  <2>1. CurrentUse \in ToolUses
    BY <1>10, CurrentUseType DEF SkipTool, TypeOK
  <2>2. RoundOK'
    BY <1>10, <2>1 DEF SkipTool, TypeOK, RoundOK, ToolUses, ToolResults
  <2> QED
    BY <1>10, <2>2, <1>a, <1>b, <1>c, <1>d, <1>e, <1>f, <1>g, <1>h
       DEF SkipTool, ControlOK, TypeOK
<1>11. CASE BeginDispatch
  <2>1. RoundOK'
    BY <1>11 DEF BeginDispatch, TypeOK, RoundOK, roundVars
  <2> QED
    BY <1>11, <2>1, <1>a, <1>b, <1>c, <1>d, <1>e, <1>f, <1>g, <1>h
       DEF BeginDispatch, TypeOK
<1>12. ASSUME NEW failed \in BOOLEAN, FinishDispatch(failed)
       PROVE  TypeOK'
  <2>a. CurrentUse.name \in ToolNames /\ CurrentUse.input \in Arguments
    <3>1. pc = "dispatch" /\ RoundOK
      BY <1>12 DEF FinishDispatch, TypeOK
    <3>2. CurrentUse \in ToolUses
      BY <3>1 DEF RoundOK, CurrentUse
    <3> QED
      BY <3>2 DEF ToolUses
  <2> DEFINE call == [name |-> CurrentUse.name, input |-> CurrentUse.input, failed |-> failed]
  <2>1. call \in CallRecord
    BY <2>a, Zenon DEF CallRecord
  <2>2. record' = Some(call) /\ seenCalls' = Append(seenCalls, call)
    BY <1>12 DEF FinishDispatch
  <2> HIDE DEF call
  <2>3. RoundOK'
    BY <1>12, <2>1, <2>2, OptionFacts DEF FinishDispatch, TypeOK, RoundOK
  <2>4. ObserverOK'
    BY <1>12, <2>1, <2>2 DEF FinishDispatch, TypeOK, ObserverOK
  <2> QED
    BY <1>12, <2>3, <2>4, <1>a, <1>b, <1>c, <1>d, <1>e, <1>g, <1>h
       DEF FinishDispatch, TypeOK
<1>13. CASE EndDispatch
  <2>1. CurrentUse \in ToolUses /\ record[1] \in CallRecord
    BY <1>13, CurrentUseType, OptionFacts DEF EndDispatch, TypeOK, RoundOK
  <2>2. StallOK'
    BY <1>13, <2>1, StallRecordType DEF EndDispatch, TypeOK, StallOK
  <2>3. RoundOK'
    BY <1>13, <2>1, ResultOfType, OptionFacts DEF EndDispatch, TypeOK, RoundOK, NoRecord
  <2> QED
    BY <1>13, <2>2, <2>3, <1>a, <1>b, <1>d, <1>e, <1>f, <1>g, <1>h
       DEF EndDispatch, TypeOK
<1>14. CASE FinishTools
  <2>1. results \in Seq(ToolResults) /\ calls \in Seq(CallRecord) /\ closing.stop \in StopReasons
    BY DEF TypeOK, RoundOK, ClosingOK, ClosingType
  <2>2. ClosingOK'
    BY <1>14, <2>1, ToolResultsMessageType DEF FinishTools, CloseRound, ClosingOK, ClosingType
  <2>3. ObserverOK'
    BY <1>14, <2>1 DEF FinishTools, CloseRound, TypeOK, ObserverOK, RoundRecord
  <2> QED
    BY <1>14, <2>2, <2>3, <1>a, <1>c, <1>d, <1>e, <1>g, <1>h, <1>i
       DEF FinishTools, CloseRound, TypeOK
<1>15. ASSUME KeepRound, pc' \in {"head", "done"}
       PROVE  TraceOK' /\ RoundOK' /\ ClosingOK' /\ StallOK' /\ ObserverOK' /\ HistoryOK'
              /\ cancelled' \in BOOLEAN /\ conversation' \in Seq(Messages)
  <2>1. TraceOK'
    BY <1>15 DEF KeepRound, TypeOK, TraceOK, RoundOK, ClosingOK, ClosingType, RoundRecord
  <2>2. RoundOK'
    <3>1. skipping' \in BOOLEAN
      BY <1>15 DEF KeepRound
    <3>2. uses' = <<>> /\ results' = <<>> /\ calls' = <<>> /\ record' = record
      BY <1>15 DEF KeepRound
    <3> QED
      BY <1>15, <3>1, <3>2 DEF TypeOK, RoundOK
  <2>3. ClosingOK'
    BY <1>15, NotClosingType DEF KeepRound, ClosingOK
  <2>4. cancelled' \in BOOLEAN /\ conversation' \in Seq(Messages)
    BY <1>15 DEF KeepRound, TypeOK, ContextOK, ControlOK, inputVars
  <2> QED
    BY <1>15, <2>1, <2>2, <2>3, <2>4, <1>c, <1>f, <1>g DEF KeepRound
<1>16. CASE EndTerminal
  <2>1. ResultOK'
    <3>1. closing.outcome \in {"Completed", "Truncated", "Cancelled"}
      BY <1>16 DEF EndTerminal, TypeOK, ClosingOK, ClosingType
    <3>2. \A m : TextReply(m) \in Replies
      BY OptionFacts DEF TextReply, Replies
    <3> QED
      BY <1>16, <3>1, <3>2, <1>j, <1>k DEF EndTerminal, Return, ResultOK
  <2> QED
    BY <1>16, <1>15, <2>1 DEF EndTerminal, Return, TypeOK, ControlOK, ContextOK
<1>17. CASE EndStopRequested
  <2>1. stopSlot[1] \in StopRequests
    BY <1>17, OptionFacts DEF EndStopRequested, TypeOK, ContextOK
  <2>2. ResultOK'
    BY <1>17, <2>1, OptionFacts DEF EndStopRequested, Return, ResultOK, Endings, Replies
  <2>3. stopSlot' \in Option(StopRequests)
    BY <1>17, OptionFacts DEF EndStopRequested
  <2> QED
    BY <1>17, <1>15, <2>2, <2>3 DEF EndStopRequested, Return, TypeOK, ControlOK, ContextOK
<1>18. CASE EndStalled
  <2>1. stall.last[1].name \in ToolNames /\ stall.streak \in Nat
    BY <1>18, OptionFacts DEF EndStalled, Tripped, TypeOK, StallOK, StallState, CallKey
  <2>2. ResultOK'
    BY <1>18, <2>1, <1>k DEF EndStalled, Return, ResultOK, Endings
  <2> QED
    BY <1>18, <1>15, <2>2 DEF EndStalled, Return, TypeOK, ControlOK, ContextOK
<1>19. CASE NextRound
  BY <1>19, <1>15, <1>e DEF NextRound, TypeOK, ControlOK, ContextOK
<1>20. ASSUME NEW request \in StopRequests, RequestStop(request)
       PROVE  TypeOK'
  <2>1. ContextOK'
    BY <1>20, StopRecordedType DEF RequestStop, TypeOK, ContextOK
  <2>2. HistoryOK'
    BY <1>20 DEF RequestStop, TypeOK, HistoryOK
  <2>3. RoundOK'
    BY <1>20 DEF RequestStop, TypeOK, RoundOK, roundVars
  <2> QED
    BY <1>20, <2>1, <2>2, <2>3, <1>a, <1>b, <1>c, <1>e, <1>f, <1>h
       DEF RequestStop, TypeOK, ControlOK
<1>21. CASE Cancel
  <2>1. ContextOK'
    BY <1>21 DEF Cancel, TypeOK, ContextOK
  <2>2. HistoryOK'
    <3>1. [rounds |-> Len(rounds), calls |-> Len(seenCalls)] \in [rounds : Nat, calls : Nat]
      BY DEF TypeOK, TraceOK, ObserverOK
    <3> QED
      BY <1>21, <3>1, OptionFacts DEF Cancel, TypeOK, HistoryOK
  <2>3. RoundOK'
    BY <1>21 DEF Cancel, TypeOK, RoundOK, roundVars
  <2> QED
    BY <1>21, <2>1, <2>2, <2>3, <1>a, <1>b, <1>c, <1>e, <1>f, <1>h DEF Cancel, TypeOK, ControlOK
<1>22. CASE UNCHANGED vars
  <2>1. RoundOK'
    BY <1>22 DEF vars, TypeOK, RoundOK, roundVars
  <2> QED
    BY <1>22, <2>1, <1>a, <1>b, <1>c, <1>d, <1>e, <1>f, <1>g, <1>h DEF vars, TypeOK, ControlOK
<1> QED
  BY <1>1, <1>2, <1>3, <1>4, <1>5, <1>6, <1>7, <1>8, <1>9, <1>10, <1>11, <1>12, <1>13, <1>14,
     <1>16, <1>17, <1>18, <1>19, <1>20, <1>21, <1>22 DEF Next, Loop, Model, Handler, Returned

(* Every variable of a run keeps its type and a round its shape, whatever   *)
(* the limits, the tools, the conversation and the model.                   *)
THEOREM TypeCorrect == Spec => []TypeOK
<1> QED
  BY InitType, StepType, PTL DEF Spec

-----------------------------------------------------------------------------
(***************************************************************************)
(* The limits of a run, from inductive invariants that say what each of    *)
(* them rests on.                                                          *)
(***************************************************************************)
(* Between the head of the loop and the end of push_round. *)
Busy == {"model", "tools", "dispatch", "called", "closing"}

-----------------------------------------------------------------------------
(***************************************************************************)
(* The round limit.  The loop counter is one ahead of the rounds kept, and *)
(* within the limit while a round is in progress.                          *)
(***************************************************************************)
RoundsCounted ==
  /\ pc # "done" => round = Len(rounds) + 1
  /\ pc \in Busy => round <= RoundLimit
  /\ Len(rounds) <= RoundLimit
  /\ ending.kind = "RoundsExhausted" => pc = "done" /\ Len(rounds) = RoundLimit

LEMMA RoundsCountedInit == Init => RoundsCounted
BY TurnLoopAssumption DEF Init, RoundsCounted, Busy

LEMMA RoundsCountedStep == TypeOK /\ RoundsCounted /\ [Next]_vars => RoundsCounted'
<1> SUFFICES ASSUME TypeOK, RoundsCounted, [Next]_vars PROVE RoundsCounted'
  OBVIOUS
<1> USE DEF Busy
<1>t. round \in Nat /\ rounds \in Seq(RoundRecord) /\ Len(rounds) \in Nat /\ RoundLimit \in Nat
  BY TurnLoopAssumption DEF TypeOK, ControlOK, TraceOK
<1>a. ASSUME UNCHANGED <<round, rounds, ending>>, pc = "done" <=> pc' = "done",
             pc' \in Busy => pc \in Busy
      PROVE  RoundsCounted'
  BY <1>a DEF RoundsCounted
<1>b. ASSUME UNCHANGED <<round, rounds>>, pc' = "done", ending'.kind # "RoundsExhausted"
      PROVE  RoundsCounted'
  BY <1>b DEF RoundsCounted
<1>c. ASSUME KeepRound
      PROVE  Len(rounds') = round /\ round <= RoundLimit
  BY <1>c, <1>t DEF KeepRound, RoundsCounted
<1>1. CASE RejectConversation \/ StopCancelled \/ ModelFails
  BY <1>1, <1>b DEF RejectConversation, StopCancelled, ModelFails, Return, traceVars
<1>2. CASE ExhaustRounds
  BY <1>2, <1>t DEF ExhaustRounds, Return, RoundsLeft, RoundsCounted, traceVars
<1>3. CASE BeginRound
  BY <1>3 DEF BeginRound, RoundsLeft, RoundsCounted, traceVars, resultVars
<1>4. CASE AcceptConversation \/ SkipTool \/ BeginDispatch \/ EndDispatch \/ FinishTools \/ Cancel
  BY <1>4, <1>a DEF AcceptConversation, SkipTool, BeginDispatch, EndDispatch, FinishTools, Cancel,
                    CloseRound, traceVars, resultVars
<1>5. ASSUME NEW c \in Completions, ReplyTruncated(c) \/ ReplyFinal(c) \/ ReplyWithTools(c)
      PROVE  RoundsCounted'
  BY <1>5, <1>a DEF ReplyTruncated, ReplyFinal, ReplyWithTools, CloseRound, traceVars, resultVars
<1>6. ASSUME NEW failed \in BOOLEAN, FinishDispatch(failed)
      PROVE  RoundsCounted'
  <2>1. UNCHANGED <<round, rounds, ending>> /\ pc = "dispatch" /\ pc' = "called"
    BY <1>6 DEF FinishDispatch, traceVars, resultVars
  <2> QED
    BY <2>1, <1>a
<1>7. ASSUME NEW request \in StopRequests, RequestStop(request)
      PROVE  RoundsCounted'
  BY <1>7, <1>a DEF RequestStop, traceVars, resultVars
<1>8. CASE EndTerminal
  <2>1. ending' = [kind |-> closing.outcome] /\ closing.outcome \in {"Completed", "Truncated", "Cancelled"}
    BY <1>8 DEF EndTerminal, Return, TypeOK, ClosingOK, ClosingType
  <2> QED
    BY <1>8, <1>c, <2>1 DEF EndTerminal, Return, RoundsCounted
<1>9. CASE EndStopRequested \/ EndStalled
  BY <1>9, <1>c DEF EndStopRequested, EndStalled, Return, RoundsCounted
<1>10. CASE NextRound
  BY <1>10, <1>c, <1>t DEF NextRound, RoundsCounted, resultVars, KeepRound
<1>11. CASE UNCHANGED vars
  BY <1>11, <1>a DEF vars, traceVars, resultVars
<1> QED
  BY <1>1, <1>2, <1>3, <1>4, <1>5, <1>6, <1>7, <1>8, <1>9, <1>10, <1>11
     DEF Next, Loop, Model, Handler, Returned

(* Agent::run makes at most round_limit rounds, and ends as RoundsExhausted *)
(* only after all of them, whatever the limit (zero included).              *)
THEOREM RoundLimitCorrect == Spec => []RoundLimitHolds
<1>1. RoundsCounted => RoundLimitHolds
  BY DEF RoundsCounted, RoundLimitHolds
<1> QED
  BY <1>1, RoundsCountedInit, RoundsCountedStep, TypeCorrect, PTL DEF Spec

-----------------------------------------------------------------------------
(***************************************************************************)
(* Cancellation.  Once the token is cancelled no round and no dispatch     *)
(* begins, so what may still be added is what was in progress.             *)
(***************************************************************************)
AddsAtMostRound ==
  cancelled => /\ Len(rounds) <= cancelledAt[1].rounds + 1
               /\ pc \in Busy => Len(rounds) <= cancelledAt[1].rounds

AddsAtMostCall ==
  cancelled => /\ Len(seenCalls) <= cancelledAt[1].calls + 1
               /\ pc = "dispatch" => Len(seenCalls) <= cancelledAt[1].calls

CancellationNoted == cancelled <=> cancelledAt # None

OnlyWhenCancelled ==
  /\ skipping => cancelled
  /\ closing.outcome = "Cancelled" => cancelled
  /\ ending.kind = "Cancelled" => cancelled /\ reply = None

WorkBounded == AddsAtMostRound /\ AddsAtMostCall /\ CancellationNoted /\ OnlyWhenCancelled

LEMMA WorkBoundedInit == Init => WorkBounded
<1> SUFFICES ASSUME Init PROVE WorkBounded
  OBVIOUS
<1>1. CASE cancelled
  <2>1. cancelledAt = <<[rounds |-> 0, calls |-> 0]>> /\ rounds = <<>> /\ seenCalls = <<>>
    BY <1>1 DEF Init, Some
  <2>2. AddsAtMostRound /\ AddsAtMostCall
    BY <2>1 DEF AddsAtMostRound, AddsAtMostCall
  <2>3. CancellationNoted
    BY <1>1, <2>1 DEF CancellationNoted, None
  <2> QED
    BY <1>1, <2>2, <2>3 DEF WorkBounded, OnlyWhenCancelled, Init
<1>2. CASE ~cancelled
  <2>1. AddsAtMostRound /\ AddsAtMostCall
    BY <1>2 DEF AddsAtMostRound, AddsAtMostCall
  <2>2. CancellationNoted
    BY <1>2 DEF CancellationNoted, Init
  <2>3. OnlyWhenCancelled
    BY DEF OnlyWhenCancelled, Init, NotClosing
  <2> QED
    BY <2>1, <2>2, <2>3 DEF WorkBounded
<1> QED
  BY <1>1, <1>2

LEMMA WorkBoundedStep == TypeOK /\ WorkBounded /\ [Next]_vars => WorkBounded'
<1> SUFFICES ASSUME TypeOK, WorkBounded, [Next]_vars PROVE WorkBounded'
  OBVIOUS
<1> USE DEF Busy
<1>t. /\ rounds \in Seq(RoundRecord) /\ seenCalls \in Seq(CallRecord)
      /\ Len(rounds) \in Nat /\ Len(seenCalls) \in Nat
  BY DEF TypeOK, TraceOK, ObserverOK
<1>z. cancelled => cancelledAt[1].rounds \in Nat /\ cancelledAt[1].calls \in Nat
  <2> DEFINE T == [rounds : Nat, calls : Nat]
  <2>1. cancelledAt \in Option(T)
    BY DEF TypeOK, HistoryOK
  <2>2. cancelled => cancelledAt # None
    BY Zenon DEF WorkBounded, CancellationNoted
  <2>3. cancelledAt # None => cancelledAt[1] \in T
    <3> HIDE DEF T
    <3> QED
      BY <2>1, OptionFacts
  <2> QED
    BY <2>2, <2>3
<1>r. ASSUME UNCHANGED <<cancelled, cancelledAt, rounds>>,
             cancelled => (pc' \in Busy => pc \in Busy)
      PROVE  AddsAtMostRound'
  BY <1>r DEF WorkBounded, AddsAtMostRound
<1>s. ASSUME UNCHANGED <<cancelled, cancelledAt, seenCalls>>,
             cancelled => (pc' = "dispatch" => pc = "dispatch")
      PROVE  AddsAtMostCall'
  BY <1>s DEF WorkBounded, AddsAtMostCall
<1>n. ASSUME UNCHANGED <<cancelled, cancelledAt>>
      PROVE  CancellationNoted'
  BY <1>n DEF WorkBounded, CancellationNoted
<1>o. ASSUME UNCHANGED <<cancelled, skipping, closing, ending, reply>>
      PROVE  OnlyWhenCancelled'
  BY <1>o DEF WorkBounded, OnlyWhenCancelled
<1>k. ASSUME KeepRound, UNCHANGED cancelled, pc' \in {"head", "done"}
      PROVE  AddsAtMostRound' /\ AddsAtMostCall' /\ CancellationNoted'
  <2>1. UNCHANGED <<cancelledAt, seenCalls>> /\ pc = "closing" /\ Len(rounds') = Len(rounds) + 1
    BY <1>k, <1>t DEF KeepRound, historyVars, observerVars
  <2>2. AddsAtMostRound'
    BY <1>k, <1>z, <2>1, <1>t DEF WorkBounded, AddsAtMostRound
  <2> QED
    BY <1>k, <2>1, <2>2, <1>s, <1>n
<1>1. CASE RejectConversation \/ ExhaustRounds \/ ModelFails
  <2>1. UNCHANGED <<cancelled, cancelledAt, rounds, seenCalls, skipping, closing>> /\ pc' = "done"
    BY <1>1 DEF RejectConversation, ExhaustRounds, ModelFails, Return, traceVars, roundVars,
                contextVars, observerVars, historyVars
  <2>2. ending'.kind # "Cancelled"
    BY <1>1 DEF RejectConversation, ExhaustRounds, ModelFails, Return
  <2>3. OnlyWhenCancelled'
    BY <2>1, <2>2 DEF WorkBounded, OnlyWhenCancelled
  <2> QED
    BY <2>1, <2>3, <1>r, <1>s, <1>n DEF WorkBounded
<1>2. CASE StopCancelled
  <2>1. UNCHANGED <<cancelled, cancelledAt, rounds, seenCalls, skipping, closing>> /\ pc' = "done"
        /\ cancelled /\ reply' = None
    BY <1>2 DEF StopCancelled, Return, traceVars, roundVars, contextVars, observerVars, historyVars
  <2>2. OnlyWhenCancelled'
    BY <2>1 DEF WorkBounded, OnlyWhenCancelled
  <2> QED
    BY <2>1, <2>2, <1>r, <1>s, <1>n DEF WorkBounded
<1>3. CASE AcceptConversation \/ BeginRound \/ BeginDispatch
  <2>1. /\ UNCHANGED <<cancelled, cancelledAt, rounds, seenCalls, skipping, closing, ending, reply>>
        /\ pc' \in Busy => pc \in Busy \/ ~cancelled
        /\ pc' = "dispatch" => ~cancelled
    BY <1>3 DEF AcceptConversation, BeginRound, BeginDispatch, MustSkip, traceVars, roundVars,
                contextVars, resultVars, observerVars, historyVars
  <2> QED
    BY <2>1, <1>r, <1>s, <1>n, <1>o DEF WorkBounded
<1>4. ASSUME NEW c \in Completions, ReplyTruncated(c) \/ ReplyFinal(c) \/ ReplyWithTools(c)
      PROVE  WorkBounded'
  <2>1. /\ UNCHANGED <<cancelled, cancelledAt, rounds, seenCalls, ending, reply>>
        /\ pc = "model" /\ pc' \in {"tools", "closing"}
    BY <1>4 DEF ReplyTruncated, ReplyFinal, ReplyWithTools, CloseRound, traceVars, contextVars,
                resultVars, observerVars, historyVars
  <2>2. closing'.outcome = "Cancelled" => closing.outcome = "Cancelled"
    <3>1. CASE ReplyTruncated(c) \/ ReplyFinal(c)
      BY <3>1 DEF ReplyTruncated, ReplyFinal, CloseRound
    <3>2. CASE ReplyWithTools(c)
      BY <3>2 DEF ReplyWithTools, TypeOK, ClosingOK, ClosingType
    <3> QED
      BY <1>4, <3>1, <3>2
  <2>3. skipping' => skipping
    BY <1>4 DEF ReplyTruncated, ReplyFinal, ReplyWithTools
  <2>4. OnlyWhenCancelled'
    BY <2>1, <2>2, <2>3 DEF WorkBounded, OnlyWhenCancelled
  <2> QED
    BY <2>1, <2>4, <1>r, <1>s, <1>n DEF WorkBounded
<1>5. CASE SkipTool
  <2>1. /\ UNCHANGED <<cancelled, cancelledAt, rounds, seenCalls, closing, ending, reply, pc>>
        /\ skipping \/ cancelled
    BY <1>5 DEF SkipTool, MustSkip, traceVars, contextVars, resultVars, observerVars, historyVars
  <2>2. OnlyWhenCancelled'
    BY <2>1 DEF WorkBounded, OnlyWhenCancelled
  <2> QED
    BY <2>1, <2>2, <1>r, <1>s, <1>n DEF WorkBounded
<1>6. ASSUME NEW failed \in BOOLEAN, FinishDispatch(failed)
      PROVE  WorkBounded'
  <2>1. /\ UNCHANGED <<cancelled, cancelledAt, rounds, skipping, closing, ending, reply>>
        /\ pc = "dispatch" /\ pc' = "called"
    BY <1>6 DEF FinishDispatch, traceVars, contextVars, resultVars, historyVars
  <2>2. Len(seenCalls') = Len(seenCalls) + 1
    <3>1. PICK call : seenCalls' = Append(seenCalls, call)
      BY <1>6 DEF FinishDispatch
    <3> QED
      BY <3>1, <1>t
  <2>3. AddsAtMostCall'
    BY <2>1, <2>2, <1>z, <1>t DEF WorkBounded, AddsAtMostCall
  <2> QED
    BY <2>1, <2>3, <1>r, <1>n, <1>o DEF WorkBounded
<1>7. CASE EndDispatch
  BY <1>7, <1>r, <1>s, <1>n, <1>o
     DEF EndDispatch, WorkBounded, traceVars, contextVars, resultVars, observerVars, historyVars
<1>8. CASE FinishTools
  <2>1. /\ UNCHANGED <<cancelled, cancelledAt, rounds, seenCalls, ending, reply, skipping>>
        /\ pc = "tools" /\ pc' = "closing"
        /\ closing'.outcome = "Cancelled" => skipping
    BY <1>8 DEF FinishTools, CloseRound, traceVars, roundVars, contextVars, resultVars, historyVars
  <2>2. OnlyWhenCancelled'
    BY <2>1 DEF WorkBounded, OnlyWhenCancelled
  <2> QED
    BY <2>1, <2>2, <1>r, <1>s, <1>n DEF WorkBounded
<1>9. CASE EndTerminal
  <2>1. /\ KeepRound /\ UNCHANGED cancelled /\ pc' = "done"
        /\ ~skipping' /\ closing' = NotClosing /\ ending'.kind = closing.outcome
        /\ closing.outcome = "Cancelled" => reply' = None
    BY <1>9 DEF EndTerminal, KeepRound, Return
  <2>2. OnlyWhenCancelled'
    BY <2>1 DEF WorkBounded, OnlyWhenCancelled, NotClosing
  <2> QED
    BY <2>1, <2>2, <1>k DEF WorkBounded
<1>10. CASE EndStopRequested \/ EndStalled
  <2>1. /\ KeepRound /\ UNCHANGED cancelled /\ pc' = "done"
        /\ ~skipping' /\ closing' = NotClosing /\ ending'.kind # "Cancelled"
    BY <1>10 DEF EndStopRequested, EndStalled, KeepRound, Return
  <2>2. OnlyWhenCancelled'
    BY <2>1 DEF WorkBounded, OnlyWhenCancelled, NotClosing
  <2> QED
    BY <2>1, <2>2, <1>k DEF WorkBounded
<1>11. CASE NextRound
  <2>1. /\ KeepRound /\ UNCHANGED <<cancelled, ending, reply>> /\ pc' = "head"
        /\ ~skipping' /\ closing' = NotClosing
    BY <1>11 DEF NextRound, KeepRound, resultVars
  <2>2. OnlyWhenCancelled'
    BY <2>1 DEF WorkBounded, OnlyWhenCancelled, NotClosing
  <2> QED
    BY <2>1, <2>2, <1>k DEF WorkBounded
<1>12. ASSUME NEW request \in StopRequests, RequestStop(request)
       PROVE  WorkBounded'
  BY <1>12, <1>r, <1>s, <1>n, <1>o
     DEF RequestStop, WorkBounded, traceVars, roundVars, resultVars, observerVars
<1>13. CASE Cancel
  <2>1. /\ UNCHANGED <<rounds, seenCalls, skipping, closing, ending, reply, pc>>
        /\ ~cancelled /\ cancelled'
        /\ cancelledAt' = <<[rounds |-> Len(rounds), calls |-> Len(seenCalls)]>>
    BY <1>13 DEF Cancel, Some, traceVars, roundVars, resultVars, observerVars
  <2>2. cancelledAt'[1].rounds = Len(rounds) /\ cancelledAt'[1].calls = Len(seenCalls)
        /\ cancelledAt' # None
    BY <2>1 DEF None
  <2>3. AddsAtMostRound' /\ AddsAtMostCall'
    BY <2>1, <2>2, <1>t DEF AddsAtMostRound, AddsAtMostCall
  <2>4. CancellationNoted'
    BY <2>1, <2>2 DEF CancellationNoted
  <2>5. OnlyWhenCancelled'
    BY <2>1 DEF WorkBounded, OnlyWhenCancelled
  <2> QED
    BY <2>3, <2>4, <2>5 DEF WorkBounded
<1>14. CASE UNCHANGED vars
  BY <1>14, <1>r, <1>s, <1>n, <1>o
     DEF vars, WorkBounded, traceVars, roundVars, contextVars, resultVars, observerVars, historyVars
<1> QED
  BY <1>1, <1>2, <1>3, <1>4, <1>5, <1>6, <1>7, <1>8, <1>9, <1>10, <1>11, <1>12, <1>13, <1>14
     DEF Next, Loop, Model, Handler, Returned

(* After a cancellation at most the call in flight finishes and at most the *)
(* round in progress is kept; only a cancelled run ends as Cancelled, and   *)
(* without a reply.                                                         *)
THEOREM CancellationCorrect == Spec => []CancellationBoundsWork
<1>1. WorkBounded => CancellationBoundsWork
  BY DEF WorkBounded, AddsAtMostRound, AddsAtMostCall, CancellationNoted, OnlyWhenCancelled,
         CancellationBoundsWork
<1> QED
  BY <1>1, WorkBoundedInit, WorkBoundedStep, TypeCorrect, PTL DEF Spec

-----------------------------------------------------------------------------
(***************************************************************************)
(* The inductive invariant.  While a round of tools is in progress, until  *)
(* push_round keeps it, the trace ends with the message that asked for     *)
(* them and the answers are still collected in results and calls.          *)
(***************************************************************************)
MidRound == InRound \/ (pc = "closing" /\ closing.outcome \in {"Continue", "Cancelled"})

ReplyKept == pc = "done" /\ ending.kind \in {"Completed", "Truncated"}

Alternates ==
  Len(appended) = CASE ReplyKept -> 2 * Len(rounds) - 1
                    [] MidRound  -> 2 * Len(rounds) + 1
                    [] OTHER     -> 2 * Len(rounds)

(* A message of the assistant and what the loop answered it. *)
ToolPair(m, r) ==
  /\ m.role = "assistant" /\ m.results = <<>>
  /\ r = ToolResultsMessage(r.results)

PairsKept ==
  \A k \in DOMAIN rounds : 2 * k <= Len(appended) =>
    /\ ToolPair(appended[2 * k - 1], appended[2 * k])
    /\ PairMatches(appended[2 * k - 1], appended[2 * k], rounds[k].calls)

LastIsReply ==
  ReplyKept => /\ appended[Len(appended)].uses = <<>>
               /\ appended[Len(appended)].role = "assistant"
               /\ rounds[Len(rounds)].calls = <<>>

(* The answers so far: those with a call first, then the cancelled ones. *)
AnswersSoFar ==
  /\ Len(calls) <= Len(results) /\ Len(results) <= Len(uses)
  /\ \A i \in DOMAIN results : results[i].id = uses[i].id
  /\ \A i \in DOMAIN calls :
       /\ calls[i].name = uses[i].name /\ calls[i].input = uses[i].input
       /\ results[i].outcome = IF calls[i].failed THEN "failed" ELSE "ok"
  /\ \A i \in DOMAIN results : i > Len(calls) => results[i].outcome = "cancelled"
  /\ Len(calls) < Len(results) => skipping

RoundAnswered ==
  MidRound =>
    /\ appended[Len(appended)].role = "assistant" /\ appended[Len(appended)].results = <<>>
    /\ appended[Len(appended)].uses = uses /\ uses # <<>>
    /\ AnswersSoFar
    /\ skipping => pc \in {"tools", "closing"}
    /\ pc = "called" => KeyOf(record[1]) = KeyOf(CurrentUse)

ClosingMatches ==
  pc = "closing" =>
    IF closing.outcome \in {"Continue", "Cancelled"}
    THEN Len(results) = Len(uses) /\ closing.message = ToolResultsMessage(results)
    ELSE /\ closing.message.role = "assistant" /\ calls = <<>>
         /\ closing.message.uses = <<>> /\ closing.message.results = <<>>

Resumable ==
  /\ pc = "start" => appended = <<>>
  /\ pc # "done" => ending.kind # "InvalidConversation"
  /\ pc # "start" /\ ending.kind # "InvalidConversation" => ValidConversation(Transcript)

TranscriptInv ==
  /\ Alternates /\ PairsKept /\ LastIsReply
  /\ RoundAnswered /\ ClosingMatches /\ Resumable

-----------------------------------------------------------------------------
(***************************************************************************)
(* validate_messages and growing transcripts.                              *)
(***************************************************************************)
LEMMA AppendFacts ==
  ASSUME NEW S, NEW s \in Seq(S), NEW x \in S
  PROVE  /\ Append(s, x) \in Seq(S)
         /\ Len(s) \in Nat /\ Len(Append(s, x)) = Len(s) + 1
         /\ DOMAIN s = 1..Len(s) /\ DOMAIN Append(s, x) = 1..(Len(s) + 1)
         /\ \A i \in 1..Len(s) : Append(s, x)[i] = s[i]
         /\ Append(s, x)[Len(s) + 1] = x
OBVIOUS

(* What is known before message k does not depend on what comes after it.  *)
LEMMA PrefixDecides ==
  ASSUME NEW ms \in Seq(Messages), NEW more \in Seq(Messages), Len(ms) <= Len(more),
         \A i \in 1..Len(ms) : more[i] = ms[i],
         NEW k \in 1..Len(ms)
  PROVE  /\ PastSystemHead(more, k) = PastSystemHead(ms, k)
         /\ KnownIds(more, k) = KnownIds(ms, k)
<1>1. \A j \in 1..(k - 1) : more[j] = ms[j]
  OBVIOUS
<1>2. PastSystemHead(more, k) <=> PastSystemHead(ms, k)
  BY <1>1 DEF PastSystemHead
<1>3. PastSystemHead(more, k) = PastSystemHead(ms, k)
  BY <1>2 DEF PastSystemHead
<1>4. \A j \in 1..(k - 1) : IdsOf(more[j]) = IdsOf(ms[j]) /\ (more[j].role = "assistant" <=> ms[j].role = "assistant")
  BY <1>1
<1>5. KnownIds(more, k) = KnownIds(ms, k)
  <2> HIDE <1>1
  <2> QED
    BY <1>4 DEF KnownIds
<1> QED
  BY <1>3, <1>5

LEMMA ValidGrows ==
  ASSUME NEW ms \in Seq(Messages), NEW m \in Messages, ValidMessages(ms),
         \/ m.role = "user" /\ ValidUserMessage(Append(ms, m), Len(ms) + 1)
         \/ m.role = "assistant" /\ m.results = <<>>
  PROVE  ValidMessages(Append(ms, m))
<1> DEFINE more == Append(ms, m)
<1>1. /\ more \in Seq(Messages) /\ Len(ms) \in Nat /\ Len(more) = Len(ms) + 1
      /\ DOMAIN ms = 1..Len(ms) /\ DOMAIN more = 1..(Len(ms) + 1)
      /\ \A i \in 1..Len(ms) : more[i] = ms[i]
      /\ more[Len(ms) + 1] = m
  BY AppendFacts
<1> HIDE DEF more
<1>2. ASSUME NEW k \in 1..Len(ms)
      PROVE  \/ more[k].role = "system"    /\ ValidSystemMessage(more, k)
             \/ more[k].role = "user"      /\ ValidUserMessage(more, k)
             \/ more[k].role = "assistant" /\ ValidAssistantMessage(more, k)
  <2>1. PastSystemHead(more, k) = PastSystemHead(ms, k) /\ KnownIds(more, k) = KnownIds(ms, k)
    BY <1>1, PrefixDecides
  <2>2. more[k] = ms[k]
    BY <1>1
  <2> QED
    BY <1>1, <2>1, <2>2 DEF ValidMessages, ValidSystemMessage, ValidUserMessage, ValidAssistantMessage
<1>3. \/ more[Len(ms) + 1].role = "user"      /\ ValidUserMessage(more, Len(ms) + 1)
      \/ more[Len(ms) + 1].role = "assistant" /\ ValidAssistantMessage(more, Len(ms) + 1)
  BY <1>1 DEF ValidAssistantMessage, more
<1>4. ValidMessages(more)
  BY <1>1, <1>2, <1>3 DEF ValidMessages
<1> QED
  BY <1>4 DEF more

(* A conversation stays valid when the assistant's message is added, and   *)
(* when the answers to it are.                                             *)
LEMMA ConversationGrows ==
  ASSUME NEW ms \in Seq(Messages), NEW m \in Messages, ValidConversation(ms),
         \/ m.role = "assistant" /\ m.results = <<>>
         \/ /\ m.role = "user" /\ ~m.reasoning /\ m.uses = <<>>
            /\ ms # <<>> /\ ms[Len(ms)].role = "assistant"
            /\ \A i \in DOMAIN m.results :
                 i \in DOMAIN ms[Len(ms)].uses /\ m.results[i].id = ms[Len(ms)].uses[i].id
  PROVE  ValidConversation(Append(ms, m))
<1> DEFINE more == Append(ms, m)
<1>1. /\ more \in Seq(Messages) /\ Len(ms) \in Nat /\ Len(more) = Len(ms) + 1
      /\ DOMAIN ms = 1..Len(ms) /\ DOMAIN more = 1..(Len(ms) + 1)
      /\ \A i \in 1..Len(ms) : more[i] = ms[i]
      /\ more[Len(ms) + 1] = m
  BY AppendFacts
<1> HIDE DEF more
<1>2. \A k \in DOMAIN more : more[k].role # "system"
  BY <1>1 DEF ValidConversation
<1>3. CASE m.role = "assistant" /\ m.results = <<>>
  BY <1>2, <1>3, ValidGrows DEF ValidConversation, more
<1>4. CASE ~(m.role = "assistant" /\ m.results = <<>>)
  <2> DEFINE last == Len(ms)
  <2>1. last \in 1..last /\ more[last] = ms[last] /\ more[last].role = "assistant"
    BY <1>1, <1>4
  <2>2. IdsOf(ms[last]) \subseteq KnownIds(more, last + 1)
    BY <1>1, <2>1 DEF KnownIds
  <2>3. \A i \in DOMAIN m.results : m.results[i].id \in IdsOf(ms[last])
    BY <1>4 DEF IdsOf
  <2>4. ValidUserMessage(more, last + 1)
    BY <1>1, <1>4, <2>2, <2>3 DEF ValidUserMessage
  <2> QED
    BY <1>2, <1>4, <2>4, ValidGrows DEF ValidConversation, more
<1> QED
  BY <1>3, <1>4

(* The agent's system prompt may be put at the head of any conversation.   *)
LEMMA SystemPromptFits ==
  ASSUME NEW ms \in Seq(Messages), ValidConversation(ms)
  PROVE  ValidMessages(<<SystemMessage>> \o ms)
<1> DEFINE all == <<SystemMessage>> \o ms
<1>1. SystemMessage \in Messages
  BY DEF SystemMessage, Messages, Roles
<1>2. /\ Len(ms) \in Nat /\ DOMAIN ms = 1..Len(ms) /\ DOMAIN all = 1..(Len(ms) + 1)
      /\ all[1] = SystemMessage
      /\ \A k \in 2..(Len(ms) + 1) : k - 1 \in 1..Len(ms) /\ all[k] = ms[k - 1]
  BY <1>1
<1> HIDE DEF all
<1>3. ValidSystemMessage(all, 1)
  BY <1>2 DEF ValidSystemMessage, PastSystemHead, SystemMessage
<1>4. ASSUME NEW k \in 2..(Len(ms) + 1)
      PROVE  KnownIds(ms, k - 1) \subseteq KnownIds(all, k)
  <2> SUFFICES ASSUME NEW id \in KnownIds(ms, k - 1) PROVE id \in KnownIds(all, k)
    OBVIOUS
  <2>1. PICK j \in 1..(k - 2) : ms[j].role = "assistant" /\ id \in IdsOf(ms[j])
    BY <1>2 DEF KnownIds
  <2>2. j + 1 \in 1..(k - 1) /\ all[j + 1] = ms[j]
    BY <1>2, <2>1
  <2> QED
    BY <2>1, <2>2 DEF KnownIds
<1>5. ASSUME NEW k \in 2..(Len(ms) + 1)
      PROVE  \/ all[k].role = "user"      /\ ValidUserMessage(all, k)
             \/ all[k].role = "assistant" /\ ValidAssistantMessage(all, k)
  <2>1. k - 1 \in DOMAIN ms /\ all[k] = ms[k - 1]
    BY <1>2
  <2>2. \/ ms[k - 1].role = "user"      /\ ValidUserMessage(ms, k - 1)
        \/ ms[k - 1].role = "assistant" /\ ValidAssistantMessage(ms, k - 1)
    BY <2>1 DEF ValidConversation, ValidMessages
  <2> QED
    BY <1>4, <2>1, <2>2 DEF ValidUserMessage, ValidAssistantMessage
<1>6. \A k \in DOMAIN all : k = 1 \/ k \in 2..(Len(ms) + 1)
  BY <1>2
<1>7. all[1].role = "system"
  BY <1>2 DEF SystemMessage
<1> QED
  BY <1>3, <1>5, <1>6, <1>7 DEF ValidMessages, all

-----------------------------------------------------------------------------
(***************************************************************************)
(* The invariant is inductive.                                             *)
(***************************************************************************)
LEMMA TranscriptInit == Init => TranscriptInv
<1> SUFFICES ASSUME Init PROVE TranscriptInv
  OBVIOUS
<1>1. /\ pc = "start" /\ appended = <<>> /\ rounds = <<>>
      /\ ending.kind = "Running"
  BY DEF Init
<1>2. ~MidRound /\ ~ReplyKept
  BY <1>1 DEF MidRound, InRound, ReplyKept
<1> QED
  BY <1>1, <1>2 DEF TranscriptInv, Alternates, PairsKept, LastIsReply, RoundAnswered,
                    ClosingMatches, Resumable

(* The trace grows by one message. *)
LEMMA TraceGrows ==
  ASSUME TypeOK, NEW m \in Messages, appended' = Append(appended, m), UNCHANGED conversation,
         ValidConversation(Transcript),
         \/ m.role = "assistant" /\ m.results = <<>>
         \/ /\ m.role = "user" /\ ~m.reasoning /\ m.uses = <<>>
            /\ appended # <<>> /\ appended[Len(appended)].role = "assistant"
            /\ \A i \in DOMAIN m.results :
                 /\ i \in DOMAIN appended[Len(appended)].uses
                 /\ m.results[i].id = appended[Len(appended)].uses[i].id
  PROVE  ValidConversation(Transcript')
<1>1. conversation \in Seq(Messages) /\ appended \in Seq(Messages)
  BY DEF TypeOK, ControlOK, TraceOK
<1>2. Transcript' = Append(Transcript, m) /\ Transcript \in Seq(Messages)
  BY <1>1 DEF Transcript
<1>3. appended # <<>> => Transcript # <<>> /\ Transcript[Len(Transcript)] = appended[Len(appended)]
  BY <1>1 DEF Transcript
<1>4. \/ m.role = "assistant" /\ m.results = <<>>
      \/ /\ m.role = "user" /\ ~m.reasoning /\ m.uses = <<>>
         /\ Transcript # <<>> /\ Transcript[Len(Transcript)].role = "assistant"
         /\ \A i \in DOMAIN m.results :
              /\ i \in DOMAIN Transcript[Len(Transcript)].uses
              /\ m.results[i].id = Transcript[Len(Transcript)].uses[i].id
  BY <1>3
<1> HIDE DEF Transcript
<1>5. ValidConversation(Append(Transcript, m))
  BY <1>2, <1>4, ConversationGrows
<1> QED
  BY <1>2, <1>5

(* What the end of push_round adds to a round of tools is its answer.      *)
LEMMA RoundIsKept ==
  ASSUME TypeOK, TranscriptInv, KeepRound, closing.outcome \in {"Continue", "Cancelled"}
  PROVE  /\ Len(appended) = 2 * Len(rounds) + 1
         /\ Len(rounds') = Len(rounds) + 1 /\ Len(appended') = 2 * Len(rounds')
         /\ \A k \in 1..Len(appended) : appended'[k] = appended[k]
         /\ ToolPair(appended'[Len(appended)], appended'[Len(appended) + 1])
         /\ PairMatches(appended'[Len(appended)], appended'[Len(appended) + 1], calls)
         /\ PairsKept'
         /\ ValidConversation(Transcript')
<1> DEFINE n == Len(appended)
<1>t. /\ appended \in Seq(Messages) /\ rounds \in Seq(RoundRecord) /\ results \in Seq(ToolResults)
      /\ uses \in Seq(ToolUses) /\ calls \in Seq(CallRecord)
      /\ closing.message \in Messages /\ closing.stop \in StopReasons
  BY DEF TypeOK, TraceOK, RoundOK, ClosingOK, ClosingType
<1>1. MidRound /\ ~ReplyKept /\ pc = "closing"
  BY DEF KeepRound, MidRound, ReplyKept
<1>2. Len(appended) = 2 * Len(rounds) + 1
  BY <1>1 DEF TranscriptInv, Alternates
<1>3. /\ appended[n].role = "assistant" /\ appended[n].results = <<>> /\ appended[n].uses = uses
      /\ uses # <<>> /\ AnswersSoFar
      /\ Len(results) = Len(uses) /\ closing.message = ToolResultsMessage(results)
  BY <1>1 DEF TranscriptInv, RoundAnswered, ClosingMatches
<1>4. /\ Len(appended') = n + 1 /\ appended'[n + 1] = closing.message
      /\ \A k \in 1..n : appended'[k] = appended[k]
  BY <1>t, AppendFacts DEF KeepRound
<1>r. [stop |-> closing.stop, calls |-> calls] \in RoundRecord
  BY <1>t DEF RoundRecord
<1>5. /\ Len(rounds') = Len(rounds) + 1 /\ DOMAIN rounds' = 1..(Len(rounds) + 1)
      /\ DOMAIN rounds = 1..Len(rounds) /\ Len(rounds) \in Nat
      /\ rounds'[Len(rounds) + 1].calls = calls
      /\ \A k \in 1..Len(rounds) : rounds'[k] = rounds[k]
  BY <1>t, <1>r DEF KeepRound
<1>6. ToolPair(appended'[n], appended'[n + 1])
  <2>1. appended'[n] = appended[n] /\ appended'[n + 1] = ToolResultsMessage(results)
    BY <1>2, <1>3, <1>4, <1>5
  <2>2. ToolResultsMessage(results).results = results
    BY DEF ToolResultsMessage
  <2> QED
    BY <1>3, <2>1, <2>2 DEF ToolPair
<1>7. PairMatches(appended'[n], appended'[n + 1], calls)
  <2>1. appended'[n].uses = uses /\ appended'[n + 1].results = results /\ appended'[n + 1].role = "user"
    BY <1>t, <1>2, <1>3, <1>4 DEF ToolResultsMessage
  <2> QED
    BY <1>t, <1>3, <2>1 DEF PairMatches, RequestsTools, Answers, AnswersSoFar
<1>8. PairsKept'
  <2> SUFFICES ASSUME NEW k \in DOMAIN rounds', 2 * k <= Len(appended')
               PROVE  /\ ToolPair(appended'[2 * k - 1], appended'[2 * k])
                      /\ PairMatches(appended'[2 * k - 1], appended'[2 * k], rounds'[k].calls)
    BY DEF PairsKept
  <2>1. CASE k = Len(rounds) + 1
    BY <1>2, <1>5, <1>6, <1>7, <2>1
  <2>2. CASE k \in 1..Len(rounds)
    <3>1. /\ appended'[2 * k - 1] = appended[2 * k - 1] /\ appended'[2 * k] = appended[2 * k]
          /\ rounds'[k] = rounds[k] /\ k \in DOMAIN rounds /\ 2 * k <= Len(appended)
      BY <1>2, <1>4, <1>5, <2>2
    <3> QED
      BY <3>1 DEF TranscriptInv, PairsKept
  <2> QED
    BY <1>5, <2>1, <2>2
<1>9. ValidConversation(Transcript')
  <2>1. ValidConversation(Transcript) /\ UNCHANGED conversation
    BY <1>1 DEF TranscriptInv, Resumable, KeepRound, inputVars
  <2>2. /\ closing.message.role = "user" /\ ~closing.message.reasoning /\ closing.message.uses = <<>>
        /\ closing.message.results = results
    BY <1>3 DEF ToolResultsMessage
  <2>3. \A i \in DOMAIN results : i \in DOMAIN uses /\ results[i].id = uses[i].id
    BY <1>t, <1>3 DEF AnswersSoFar
  <2>4. appended # <<>> /\ appended' = Append(appended, closing.message)
    BY <1>t, <1>2 DEF KeepRound
  <2> QED
    BY <1>t, <1>3, <2>1, <2>2, <2>3, <2>4, TraceGrows
<1> QED
  BY <1>2, <1>4, <1>5, <1>6, <1>7, <1>8, <1>9

(* A final reply is kept without answers. *)
LEMMA ReplyIsKept ==
  ASSUME TypeOK, TranscriptInv, KeepRound, closing.outcome \notin {"Continue", "Cancelled"}
  PROVE  /\ Len(appended) = 2 * Len(rounds)
         /\ Len(rounds') = Len(rounds) + 1 /\ Len(appended') = 2 * Len(rounds') - 1
         /\ \A k \in 1..Len(appended) : appended'[k] = appended[k]
         /\ appended'[Len(appended')].uses = <<>>
         /\ appended'[Len(appended')].role = "assistant"
         /\ rounds'[Len(rounds')].calls = <<>>
         /\ PairsKept'
         /\ ValidConversation(Transcript')
<1> DEFINE n == Len(appended)
<1>t. /\ appended \in Seq(Messages) /\ rounds \in Seq(RoundRecord)
      /\ calls \in Seq(CallRecord)
      /\ closing.message \in Messages /\ closing.stop \in StopReasons
  BY DEF TypeOK, TraceOK, RoundOK, ClosingOK, ClosingType
<1>1. ~MidRound /\ ~ReplyKept /\ pc = "closing"
  BY DEF KeepRound, MidRound, InRound, ReplyKept
<1>2. Len(appended) = 2 * Len(rounds)
  BY <1>1 DEF TranscriptInv, Alternates
<1>3. /\ closing.message.role = "assistant" /\ calls = <<>>
      /\ closing.message.uses = <<>> /\ closing.message.results = <<>>
  BY <1>1 DEF TranscriptInv, ClosingMatches
<1>4. /\ Len(appended') = n + 1 /\ appended'[n + 1] = closing.message
      /\ \A k \in 1..n : appended'[k] = appended[k]
  BY <1>t, AppendFacts DEF KeepRound
<1>r. [stop |-> closing.stop, calls |-> calls] \in RoundRecord
  BY <1>t DEF RoundRecord
<1>5. /\ Len(rounds') = Len(rounds) + 1 /\ DOMAIN rounds' = 1..(Len(rounds) + 1)
      /\ DOMAIN rounds = 1..Len(rounds) /\ Len(rounds) \in Nat
      /\ rounds'[Len(rounds) + 1].calls = calls
      /\ \A k \in 1..Len(rounds) : rounds'[k] = rounds[k]
  BY <1>t, <1>r DEF KeepRound
<1>6. PairsKept'
  <2> SUFFICES ASSUME NEW k \in DOMAIN rounds', 2 * k <= Len(appended')
               PROVE  /\ ToolPair(appended'[2 * k - 1], appended'[2 * k])
                      /\ PairMatches(appended'[2 * k - 1], appended'[2 * k], rounds'[k].calls)
    BY DEF PairsKept
  <2>1. /\ appended'[2 * k - 1] = appended[2 * k - 1] /\ appended'[2 * k] = appended[2 * k]
        /\ rounds'[k] = rounds[k] /\ k \in DOMAIN rounds /\ 2 * k <= Len(appended)
    BY <1>2, <1>4, <1>5
  <2> QED
    BY <2>1 DEF TranscriptInv, PairsKept
<1>7. ValidConversation(Transcript')
  <2>1. ValidConversation(Transcript) /\ UNCHANGED conversation
    BY <1>1 DEF TranscriptInv, Resumable, KeepRound, inputVars
  <2>2. appended' = Append(appended, closing.message)
    BY DEF KeepRound
  <2> QED
    BY <1>t, <1>3, <2>1, <2>2, TraceGrows
<1> QED
  BY <1>2, <1>3, <1>4, <1>5, <1>6, <1>7

LEMMA TranscriptStep == TypeOK /\ TranscriptInv /\ [Next]_vars => TranscriptInv'
<1> SUFFICES ASSUME TypeOK, TranscriptInv, [Next]_vars PROVE TranscriptInv'
  OBVIOUS
<1>t. /\ appended \in Seq(Messages) /\ rounds \in Seq(RoundRecord) /\ results \in Seq(ToolResults)
      /\ uses \in Seq(ToolUses) /\ calls \in Seq(CallRecord) /\ conversation \in Seq(Messages)
      /\ closing.outcome \in {"Continue", "Completed", "Truncated", "Cancelled"}
  BY DEF TypeOK, TraceOK, RoundOK, ControlOK, ClosingOK, ClosingType
(* Steps that leave the trace alone, and steps that leave the round alone. *)
<1>a. ASSUME UNCHANGED <<appended, rounds, conversation>>, MidRound' <=> MidRound,
             ~ReplyKept, ~ReplyKept'
      PROVE  Alternates' /\ PairsKept' /\ LastIsReply'
  BY <1>a DEF TranscriptInv, Alternates, PairsKept, LastIsReply
<1>b. ASSUME UNCHANGED <<appended, conversation, ending>>, pc # "start", pc' \notin {"start", "done"}, pc # "done"
      PROVE  Resumable'
  BY <1>b DEF TranscriptInv, Resumable, Transcript
<1>c. ASSUME ~MidRound', pc' # "closing"
      PROVE  RoundAnswered' /\ ClosingMatches'
  BY <1>c DEF RoundAnswered, ClosingMatches
<1>1. CASE RejectConversation
  <2>1. /\ UNCHANGED <<appended, rounds, conversation>> /\ pc = "start" /\ pc' = "done"
        /\ ending'.kind = "InvalidConversation"
    BY <1>1 DEF RejectConversation, Return, inputVars, traceVars
  <2>2. ~MidRound /\ ~MidRound' /\ ~ReplyKept /\ ~ReplyKept'
    BY <2>1 DEF MidRound, InRound, ReplyKept
  <2> QED
    BY <2>1, <2>2, <1>a, <1>c DEF TranscriptInv, Resumable
<1>2. CASE AcceptConversation
  <2>1. /\ UNCHANGED <<appended, rounds, conversation, ending>> /\ pc = "start" /\ pc' = "head"
        /\ ValidConversation(conversation)
    BY <1>2 DEF AcceptConversation, inputVars, traceVars, resultVars
  <2>2. ~MidRound /\ ~MidRound' /\ ~ReplyKept /\ ~ReplyKept'
    BY <2>1 DEF MidRound, InRound, ReplyKept
  <2>3. Transcript' = conversation
    BY <2>1, <1>t DEF TranscriptInv, Resumable, Transcript
  <2> QED
    BY <2>1, <2>2, <2>3, <1>a, <1>c DEF TranscriptInv, Resumable
<1>3. CASE BeginRound
  <2>1. UNCHANGED <<appended, rounds, conversation, ending>> /\ pc = "head" /\ pc' = "model"
    BY <1>3 DEF BeginRound, inputVars, traceVars, resultVars
  <2>2. ~MidRound /\ ~MidRound' /\ ~ReplyKept /\ ~ReplyKept'
    BY <2>1 DEF MidRound, InRound, ReplyKept
  <2> QED
    BY <2>1, <2>2, <1>a, <1>b, <1>c DEF TranscriptInv
<1>4. CASE StopCancelled \/ ExhaustRounds \/ ModelFails
  <2>1. /\ UNCHANGED <<appended, rounds, conversation>> /\ pc \in {"head", "model"} /\ pc' = "done"
        /\ ending'.kind \in {"Cancelled", "RoundsExhausted", "Provider"}
    BY <1>4 DEF StopCancelled, ExhaustRounds, ModelFails, Return, inputVars, traceVars
  <2>2. ~MidRound /\ ~MidRound' /\ ~ReplyKept /\ ~ReplyKept'
    BY <2>1 DEF MidRound, InRound, ReplyKept
  <2>3. Resumable'
    BY <2>1 DEF TranscriptInv, Resumable, Transcript
  <2> QED
    BY <2>1, <2>2, <2>3, <1>a, <1>c DEF TranscriptInv
<1>5. ASSUME NEW c \in Completions, ReplyTruncated(c) \/ ReplyFinal(c)
      PROVE  TranscriptInv'
  <2>1. /\ UNCHANGED <<appended, rounds, conversation, ending>> /\ pc = "model" /\ pc' = "closing"
        /\ closing'.outcome \in {"Completed", "Truncated"} /\ calls' = <<>>
        /\ closing'.message = AssistantMessage(c, <<>>)
    BY <1>5 DEF ReplyTruncated, ReplyFinal, CloseRound, WithoutToolUses, inputVars, traceVars, resultVars
  <2>2. ~MidRound /\ ~MidRound' /\ ~ReplyKept /\ ~ReplyKept'
    BY <2>1 DEF MidRound, InRound, ReplyKept
  <2>3. ClosingMatches'
    BY <2>1 DEF ClosingMatches, AssistantMessage
  <2>4. RoundAnswered'
    BY <2>2 DEF RoundAnswered
  <2> QED
    BY <2>1, <2>2, <2>3, <2>4, <1>a, <1>b DEF TranscriptInv
<1>6. ASSUME NEW c \in Completions, ReplyWithTools(c)
      PROVE  TranscriptInv'
  <2> DEFINE m == AssistantMessage(c, c.uses)
  <2>1. /\ UNCHANGED <<rounds, conversation, ending>> /\ pc = "model" /\ pc' = "tools"
        /\ appended' = Append(appended, m) /\ uses' = c.uses /\ c.uses # <<>>
        /\ results' = <<>> /\ calls' = <<>> /\ ~skipping'
    BY <1>6 DEF ReplyWithTools, inputVars, traceVars, resultVars
  <2>2. ~MidRound /\ MidRound' /\ ~ReplyKept /\ ~ReplyKept'
    BY <2>1 DEF MidRound, InRound, ReplyKept
  <2>3. m \in Messages /\ m.role = "assistant" /\ m.results = <<>> /\ m.uses = c.uses
    <3>1. c \in CompletionType /\ c.uses \in Seq(ToolUses)
      BY TurnLoopAssumption DEF CompletionType
    <3> QED
      BY <3>1, AssistantMessageType DEF AssistantMessage
  <2> HIDE DEF m
  <2>4. /\ Len(appended) \in Nat /\ Len(appended') = Len(appended) + 1 /\ appended'[Len(appended) + 1] = m
        /\ \A k \in 1..Len(appended) : appended'[k] = appended[k]
    BY <1>t, <2>1, <2>3, AppendFacts
  <2>5. Len(appended) = 2 * Len(rounds) /\ Len(rounds) \in Nat
    BY <1>t, <2>2 DEF TranscriptInv, Alternates
  <2>6. Alternates' /\ LastIsReply'
    BY <2>1, <2>2, <2>4, <2>5 DEF Alternates, LastIsReply
  <2>7. PairsKept'
    <3> SUFFICES ASSUME NEW k \in DOMAIN rounds', 2 * k <= Len(appended')
                 PROVE  /\ ToolPair(appended'[2 * k - 1], appended'[2 * k])
                        /\ PairMatches(appended'[2 * k - 1], appended'[2 * k], rounds'[k].calls)
      BY DEF PairsKept
    <3>1. k \in DOMAIN rounds /\ k \in 1..Len(rounds) /\ 2 * k <= Len(appended)
      BY <1>t, <2>1, <2>5
    <3>2. appended'[2 * k - 1] = appended[2 * k - 1] /\ appended'[2 * k] = appended[2 * k]
      BY <2>4, <2>5, <3>1
    <3> QED
      BY <2>1, <3>1, <3>2 DEF TranscriptInv, PairsKept
  <2>8. RoundAnswered' /\ ClosingMatches'
    BY <2>1, <2>3, <2>4 DEF RoundAnswered, ClosingMatches, AnswersSoFar
  <2>9. Resumable'
    <3>1. ValidConversation(Transcript)
      BY <2>1 DEF TranscriptInv, Resumable
    <3> QED
      BY <2>1, <2>3, <3>1, TraceGrows DEF TranscriptInv, Resumable
  <2> QED
    BY <2>6, <2>7, <2>8, <2>9 DEF TranscriptInv
<1>7. CASE SkipTool
  <2>1. /\ UNCHANGED <<appended, rounds, conversation, ending, pc, uses, calls, record>>
        /\ pc = "tools" /\ Len(results) < Len(uses) /\ skipping'
        /\ results' = Append(results, [id |-> CurrentUse.id, outcome |-> "cancelled"])
    BY <1>7 DEF SkipTool, inputVars, traceVars, resultVars
  <2>2. MidRound /\ MidRound' /\ ~ReplyKept /\ ~ReplyKept'
    BY <2>1 DEF MidRound, InRound, ReplyKept
  <2>3. [id |-> CurrentUse.id, outcome |-> "cancelled"] \in ToolResults
    <3>1. CurrentUse \in ToolUses
      BY <2>1, CurrentUseType DEF TypeOK
    <3> QED
      BY <3>1 DEF ToolUses, ToolResults
  <2>4. /\ Len(results) \in Nat /\ Len(results') = Len(results) + 1
        /\ results'[Len(results) + 1].id = CurrentUse.id
        /\ results'[Len(results) + 1].outcome = "cancelled"
        /\ \A i \in 1..Len(results) : results'[i] = results[i]
        /\ DOMAIN results = 1..Len(results) /\ DOMAIN results' = 1..(Len(results) + 1)
    BY <1>t, <2>1, <2>3, AppendFacts
  <2>5. RoundAnswered'
    <3>1. AnswersSoFar /\ uses # <<>> /\ DOMAIN calls = 1..Len(calls) /\ Len(calls) \in Nat
      BY <1>t, <2>2 DEF TranscriptInv, RoundAnswered
    <3>2. AnswersSoFar'
      BY <2>1, <2>4, <3>1 DEF AnswersSoFar, CurrentUse
    <3> QED
      BY <2>1, <2>2, <3>2 DEF TranscriptInv, RoundAnswered
  <2>6. ClosingMatches'
    BY <2>1 DEF ClosingMatches
  <2> QED
    BY <2>1, <2>2, <2>5, <2>6, <1>a, <1>b DEF TranscriptInv
<1>8. CASE BeginDispatch
  <2>1. /\ UNCHANGED <<appended, rounds, conversation, ending, uses, results, calls, record, skipping>>
        /\ pc = "tools" /\ pc' = "dispatch" /\ ~skipping
    BY <1>8 DEF BeginDispatch, MustSkip, inputVars, traceVars, roundVars, resultVars
  <2>2. MidRound /\ MidRound' /\ ~ReplyKept /\ ~ReplyKept'
    BY <2>1 DEF MidRound, InRound, ReplyKept
  <2>3. RoundAnswered' /\ ClosingMatches'
    BY <2>1, <2>2 DEF TranscriptInv, RoundAnswered, AnswersSoFar, ClosingMatches
  <2> QED
    BY <2>1, <2>2, <2>3, <1>a, <1>b DEF TranscriptInv
<1>9. ASSUME NEW request \in StopRequests, RequestStop(request)
      PROVE  TranscriptInv'
  <2>1. /\ UNCHANGED <<appended, rounds, conversation, ending, uses, results, calls, record, skipping>>
        /\ pc = "dispatch" /\ pc' = pc
    BY <1>9 DEF RequestStop, inputVars, traceVars, roundVars, resultVars
  <2>2. MidRound /\ MidRound' /\ ~ReplyKept /\ ~ReplyKept'
    BY <2>1 DEF MidRound, InRound, ReplyKept
  <2>3. RoundAnswered' /\ ClosingMatches'
    BY <2>1, <2>2 DEF TranscriptInv, RoundAnswered, AnswersSoFar, ClosingMatches
  <2> QED
    BY <2>1, <2>2, <2>3, <1>a, <1>b DEF TranscriptInv
<1>10. ASSUME NEW failed \in BOOLEAN, FinishDispatch(failed)
       PROVE  TranscriptInv'
  <2>1. /\ UNCHANGED <<appended, rounds, conversation, ending, uses, results, calls, skipping>>
        /\ pc = "dispatch" /\ pc' = "called"
        /\ record' = Some([name |-> CurrentUse.name, input |-> CurrentUse.input, failed |-> failed])
    BY <1>10 DEF FinishDispatch, inputVars, traceVars, resultVars
  <2>2. MidRound /\ MidRound' /\ ~ReplyKept /\ ~ReplyKept'
    BY <2>1 DEF MidRound, InRound, ReplyKept
  <2>3. KeyOf(record'[1]) = KeyOf(CurrentUse) /\ CurrentUse' = CurrentUse
    BY <2>1 DEF Some, KeyOf, CurrentUse
  <2>4. ~skipping
    BY <2>1, <2>2 DEF TranscriptInv, RoundAnswered
  <2>5. RoundAnswered' /\ ClosingMatches'
    BY <2>1, <2>2, <2>3, <2>4 DEF TranscriptInv, RoundAnswered, AnswersSoFar, ClosingMatches
  <2> QED
    BY <2>1, <2>2, <2>5, <1>a, <1>b DEF TranscriptInv
<1>11. CASE EndDispatch
  <2>1. /\ UNCHANGED <<appended, rounds, conversation, ending, uses, skipping>>
        /\ pc = "called" /\ pc' = "tools"
        /\ results' = Append(results, ResultOf(CurrentUse, record[1]))
        /\ calls' = Append(calls, record[1])
    BY <1>11 DEF EndDispatch, inputVars, traceVars, resultVars
  <2>2. MidRound /\ MidRound' /\ ~ReplyKept /\ ~ReplyKept'
    BY <2>1 DEF MidRound, InRound, ReplyKept
  <2>3. record[1] \in CallRecord /\ CurrentUse \in ToolUses /\ Len(results) < Len(uses)
    BY <2>1, CurrentUseType, OptionFacts DEF TypeOK, RoundOK
  <2>4. /\ AnswersSoFar /\ Len(calls) = Len(results)
        /\ record[1].name = CurrentUse.name /\ record[1].input = CurrentUse.input
    BY <1>t, <2>1, <2>2 DEF TranscriptInv, RoundAnswered, AnswersSoFar, KeyOf
  <2>5. /\ Len(results) \in Nat /\ Len(results') = Len(results) + 1
        /\ results'[Len(results) + 1] = ResultOf(CurrentUse, record[1])
        /\ \A i \in 1..Len(results) : results'[i] = results[i]
        /\ DOMAIN results = 1..Len(results) /\ DOMAIN results' = 1..(Len(results) + 1)
    BY <1>t, <2>1, <2>3, ResultOfType, AppendFacts
  <2>6. /\ Len(calls') = Len(calls) + 1 /\ calls'[Len(calls) + 1] = record[1]
        /\ \A i \in 1..Len(calls) : calls'[i] = calls[i]
        /\ DOMAIN calls = 1..Len(calls) /\ DOMAIN calls' = 1..(Len(calls) + 1)
    BY <1>t, <2>1, <2>3, AppendFacts
  <2>7. AnswersSoFar'
    BY <2>1, <2>3, <2>4, <2>5, <2>6 DEF AnswersSoFar, CurrentUse, ResultOf
  <2>8. RoundAnswered' /\ ClosingMatches'
    BY <2>1, <2>2, <2>7 DEF TranscriptInv, RoundAnswered, ClosingMatches
  <2> QED
    BY <2>1, <2>2, <2>8, <1>a, <1>b DEF TranscriptInv
<1>12. CASE FinishTools
  <2>1. /\ UNCHANGED <<appended, rounds, conversation, ending, uses, results, calls, skipping>>
        /\ pc = "tools" /\ pc' = "closing" /\ Len(results) = Len(uses)
        /\ closing'.outcome \in {"Continue", "Cancelled"}
        /\ closing'.message = ToolResultsMessage(results)
    BY <1>12 DEF FinishTools, CloseRound, inputVars, traceVars, roundVars, resultVars
  <2>2. MidRound /\ MidRound' /\ ~ReplyKept /\ ~ReplyKept'
    BY <2>1 DEF MidRound, InRound, ReplyKept
  <2>3. RoundAnswered'
    BY <2>1, <2>2 DEF TranscriptInv, RoundAnswered, AnswersSoFar
  <2>4. ClosingMatches'
    BY <2>1 DEF ClosingMatches, ToolResultsMessage
  <2> QED
    BY <2>1, <2>2, <2>3, <2>4, <1>a, <1>b DEF TranscriptInv
<1>13. ASSUME KeepRound, closing.outcome \in {"Continue", "Cancelled"},
              \/ pc' = "head" /\ UNCHANGED ending
              \/ pc' = "done" /\ ending'.kind \in {"Cancelled", "StopRequested", "Stalled"}
       PROVE  TranscriptInv'
  <2>1. pc = "closing" /\ ~MidRound' /\ ~ReplyKept'
    BY <1>13 DEF KeepRound, MidRound, InRound, ReplyKept
  <2>2. PairsKept' /\ Len(appended') = 2 * Len(rounds') /\ ValidConversation(Transcript')
    BY <1>13, RoundIsKept
  <2>3. Alternates' /\ LastIsReply'
    BY <2>1, <2>2 DEF Alternates, LastIsReply
  <2>4. Resumable'
    BY <1>13, <2>1, <2>2 DEF TranscriptInv, Resumable
  <2> QED
    BY <1>13, <2>1, <2>2, <2>3, <2>4, <1>c DEF TranscriptInv
<1>14. CASE EndTerminal
  <2>1. /\ KeepRound /\ closing.outcome # "Continue" /\ pc = "closing" /\ pc' = "done"
        /\ ending' = [kind |-> closing.outcome]
    BY <1>14 DEF EndTerminal, KeepRound, Return
  <2>2. CASE closing.outcome = "Cancelled"
    BY <2>1, <2>2, <1>13
  <2>3. CASE closing.outcome \in {"Completed", "Truncated"}
    <3>1. ReplyKept' /\ ~MidRound'
      BY <2>1, <2>3 DEF ReplyKept, MidRound, InRound
    <3>2. /\ PairsKept' /\ Len(appended') = 2 * Len(rounds') - 1 /\ ValidConversation(Transcript')
          /\ LastIsReply'
      BY <2>1, <2>3, ReplyIsKept DEF LastIsReply
    <3>3. Alternates'
      BY <3>1, <3>2 DEF Alternates
    <3>4. Resumable'
      BY <2>1, <2>3, <3>2 DEF Resumable
    <3> QED
      BY <2>1, <3>1, <3>2, <3>3, <3>4, <1>c DEF TranscriptInv
  <2> QED
    BY <1>t, <2>1, <2>2, <2>3
<1>15. CASE EndStopRequested \/ EndStalled
  BY <1>15, <1>13 DEF EndStopRequested, EndStalled, Return
<1>16. CASE NextRound
  BY <1>16, <1>13 DEF NextRound, resultVars
<1>17. CASE Cancel \/ UNCHANGED vars
  <2>1. UNCHANGED <<pc, appended, rounds, conversation, ending, uses, results, calls, record, skipping, closing>>
    BY <1>17 DEF Cancel, vars, inputVars, traceVars, roundVars, resultVars
  <2>2. (MidRound' <=> MidRound) /\ (ReplyKept' <=> ReplyKept)
    BY <2>1 DEF MidRound, InRound, ReplyKept
  <2>3. Alternates' /\ PairsKept' /\ LastIsReply'
    BY <2>1, <2>2 DEF TranscriptInv, Alternates, PairsKept, LastIsReply
  <2>4. RoundAnswered'
    BY <2>1, <2>2 DEF TranscriptInv, RoundAnswered, AnswersSoFar, CurrentUse
  <2>5. ClosingMatches' /\ Resumable'
    BY <2>1 DEF TranscriptInv, ClosingMatches, Resumable, Transcript
  <2> QED
    BY <2>3, <2>4, <2>5 DEF TranscriptInv
<1> QED
  BY <1>1, <1>2, <1>3, <1>4, <1>5, <1>6, <1>7, <1>8, <1>9, <1>10, <1>11, <1>12, <1>14, <1>15,
     <1>16, <1>17 DEF Next, Loop, Model, Handler, Returned

LEMMA TranscriptHolds == Spec => []TranscriptInv
<1> QED
  BY TranscriptInit, TranscriptStep, TypeCorrect, PTL DEF Spec

-----------------------------------------------------------------------------
(***************************************************************************)
(* What it means.                                                          *)
(***************************************************************************)
LEMMA PairsAnswer ==
  ASSUME TypeOK, TranscriptInv, pc \in {"model", "done"}
  PROVE  AllAnswered(appended)
<1>1. /\ appended \in Seq(Messages) /\ rounds \in Seq(RoundRecord)
      /\ Len(appended) \in Nat /\ Len(rounds) \in Nat
      /\ DOMAIN appended = 1..Len(appended) /\ DOMAIN rounds = 1..Len(rounds)
  BY DEF TypeOK, TraceOK
<1>2. ~MidRound
  BY DEF MidRound, InRound
<1>3. Len(appended) = IF ReplyKept THEN 2 * Len(rounds) - 1 ELSE 2 * Len(rounds)
  BY <1>2 DEF TranscriptInv, Alternates
<1> SUFFICES ASSUME NEW k \in 1..Len(appended), RequestsTools(appended[k])
             PROVE  k < Len(appended) /\ Answers(appended[k + 1], appended[k])
  BY <1>1 DEF AllAnswered
<1>4. PICK j \in 1..Len(rounds) : k = 2 * j - 1 \/ k = 2 * j
  <2>1. (k + 1) \div 2 \in 1..Len(rounds) /\ (k = 2 * ((k + 1) \div 2) - 1 \/ k = 2 * ((k + 1) \div 2))
    BY <1>1, <1>3
  <2> QED
    BY <2>1
<1>5. CASE 2 * j <= Len(appended)
  <2>1. /\ ToolPair(appended[2 * j - 1], appended[2 * j])
        /\ PairMatches(appended[2 * j - 1], appended[2 * j], rounds[j].calls)
    BY <1>1, <1>5 DEF TranscriptInv, PairsKept
  <2>2. appended[2 * j].uses = <<>>
    BY <2>1 DEF ToolPair, ToolResultsMessage
  <2>3. k = 2 * j - 1
    BY <1>4, <2>2 DEF RequestsTools
  <2> QED
    BY <1>1, <1>5, <2>1, <2>3 DEF PairMatches
<1>6. CASE ~(2 * j <= Len(appended))
  <2>1. ReplyKept /\ k = Len(appended)
    BY <1>1, <1>3, <1>4, <1>6
  <2>2. appended[k].uses = <<>>
    BY <2>1 DEF TranscriptInv, LastIsReply
  <2> QED
    BY <2>2 DEF RequestsTools
<1> QED
  BY <1>5, <1>6

(* Whenever a request goes out, and whenever the run hands its trace back,  *)
(* every tool use of the run is answered, in order and by id.               *)
THEOREM TranscriptAnsweredCorrect == Spec => []TranscriptAnswered
<1>1. TypeOK /\ TranscriptInv => TranscriptAnswered
  BY PairsAnswer DEF TranscriptAnswered
<1> QED
  BY <1>1, TranscriptHolds, TypeCorrect, PTL

(* Once a conversation is accepted the transcript satisfies the request     *)
(* invariants at every point, with or without a system prompt.              *)
THEOREM TranscriptResumableCorrect == Spec => []TranscriptResumable
<1>1. TypeOK /\ TranscriptInv => TranscriptResumable
  <2> SUFFICES ASSUME TypeOK, TranscriptInv, pc # "start", ending.kind # "InvalidConversation"
               PROVE  ValidConversation(Transcript) /\ ValidMessages(<<SystemMessage>> \o Transcript)
    BY DEF TranscriptResumable
  <2>1. ValidConversation(Transcript)
    BY DEF TranscriptInv, Resumable
  <2>2. Transcript \in Seq(Messages)
    BY DEF TypeOK, ControlOK, TraceOK, Transcript
  <2> QED
    BY <2>1, <2>2, SystemPromptFits
<1> QED
  BY <1>1, TranscriptHolds, TypeCorrect, PTL

(* The round records and the transcript tell one story.                     *)
THEOREM RecordsCorrect == Spec => []RecordsMatchTranscript
<1>1. TypeOK /\ TranscriptInv => RecordsMatchTranscript
  <2> SUFFICES ASSUME TypeOK, TranscriptInv, NEW k \in DOMAIN rounds
               PROVE  \/ /\ 2 * k <= Len(appended)
                         /\ PairMatches(appended[2 * k - 1], appended[2 * k], rounds[k].calls)
                      \/ /\ k = Len(rounds) /\ Len(appended) = 2 * k - 1
                         /\ pc = "done" /\ ending.kind \in {"Completed", "Truncated"}
                         /\ ~RequestsTools(appended[2 * k - 1]) /\ rounds[k].calls = <<>>
    BY DEF RecordsMatchTranscript
  <2>1. k \in 1..Len(rounds) /\ Len(rounds) \in Nat /\ Len(appended) \in Nat
    BY DEF TypeOK, TraceOK
  <2>2. CASE 2 * k <= Len(appended)
    BY <2>2 DEF TranscriptInv, PairsKept
  <2>3. CASE ~(2 * k <= Len(appended))
    <3>1. ReplyKept /\ k = Len(rounds) /\ Len(appended) = 2 * k - 1
      BY <2>1, <2>3 DEF TranscriptInv, Alternates
    <3> QED
      BY <3>1 DEF TranscriptInv, LastIsReply, ReplyKept, RequestsTools
  <2> QED
    BY <2>2, <2>3
<1> QED
  BY <1>1, TranscriptHolds, TypeCorrect, PTL

-----------------------------------------------------------------------------
(***************************************************************************)
(* Agent::run keeps its promise.  Its caller sees whole rounds: what the   *)
(* round in progress has put in the trace is not among the kept messages.  *)
(***************************************************************************)
LEMMA StartOf ==
  ASSUME NEW S, NEW s \in Seq(S), NEW n \in Nat, n <= Len(s)
  PROVE  /\ SubSeq(s, 1, n) \in Seq(S) /\ Len(SubSeq(s, 1, n)) = n
         /\ \A i \in 1..n : SubSeq(s, 1, n)[i] = s[i]
         /\ n = Len(s) => SubSeq(s, 1, n) = s
OBVIOUS

LEMMA SameStart ==
  ASSUME NEW S, NEW s \in Seq(S), NEW t \in Seq(S), NEW n \in Nat,
         n <= Len(s), n <= Len(t), \A i \in 1..n : s[i] = t[i]
  PROVE  SubSeq(s, 1, n) = SubSeq(t, 1, n)
OBVIOUS

LEMMA PromiseInit == Init => Promise!Init
<1> SUFFICES ASSUME Init PROVE Promise!Init
  OBVIOUS
<1>1. pc = "start" /\ appended = <<>> /\ rounds = <<>> /\ ending.kind = "Running"
  BY DEF Init
<1>2. Kept = <<>>
  BY <1>1 DEF Kept
<1> QED
  BY <1>1, <1>2 DEF Promise!Init, Phase

(* A step inside a round, or between two, changes nothing that is promised. *)
LEMMA InsideRound ==
  ASSUME TypeOK, TypeOK', TranscriptInv,
         pc \notin {"start", "done"}, pc' \notin {"start", "done"},
         UNCHANGED <<rounds, ending>>,
         Len(appended') >= Len(appended), \A k \in 1..Len(appended) : appended'[k] = appended[k]
  PROVE  UNCHANGED Promise!promiseVars
<1>1. /\ appended \in Seq(Messages) /\ appended' \in Seq(Messages) /\ rounds \in Seq(RoundRecord)
      /\ Len(appended) \in Nat /\ Len(appended') \in Nat /\ Len(rounds) \in Nat
  BY DEF TypeOK, TraceOK
<1>2. 2 * Len(rounds) <= Len(appended)
  BY <1>1 DEF TranscriptInv, Alternates, ReplyKept
<1>3. SubSeq(appended, 1, 2 * Len(rounds)) = SubSeq(appended', 1, 2 * Len(rounds))
  BY <1>1, <1>2, SameStart
<1>4. Kept' = Kept
  BY <1>3 DEF Kept
<1>5. Phase' = Phase
  BY DEF Phase
<1> QED
  BY <1>4, <1>5 DEF Promise!promiseVars

(* The run gives up between two rounds. *)
LEMMA BetweenRounds ==
  ASSUME TypeOK, TranscriptInv, pc \in {"head", "model"}, pc' = "done", UNCHANGED <<appended, rounds>>,
         ending'.kind \in {"Cancelled", "RoundsExhausted", "Provider"}
  PROVE  Promise!GiveUp
<1>1. appended \in Seq(Messages) /\ Len(appended) = 2 * Len(rounds) /\ Len(rounds) \in Nat
  BY DEF TypeOK, TraceOK, TranscriptInv, Alternates, ReplyKept, MidRound, InRound
<1>2. Kept' = Kept
  BY <1>1, StartOf DEF Kept
<1> QED
  BY <1>2 DEF Promise!GiveUp, Phase

LEMMA ToolRoundPromised ==
  ASSUME TypeOK, TypeOK', TranscriptInv, KeepRound, closing.outcome \in {"Continue", "Cancelled"},
         \/ pc' = "head" /\ UNCHANGED ending
         \/ pc' = "done" /\ ending'.kind \in {"Cancelled", "StopRequested", "Stalled"}
  PROVE  Promise!ToolRound
<1> DEFINE n == Len(appended)
<1>1. /\ appended \in Seq(Messages) /\ appended' \in Seq(Messages) /\ n \in Nat /\ Len(rounds) \in Nat
      /\ Len(appended') \in Nat /\ Len(rounds') \in Nat
  BY DEF TypeOK, TraceOK
<1>2. /\ n = 2 * Len(rounds) + 1
      /\ Len(rounds') = Len(rounds) + 1 /\ Len(appended') = 2 * Len(rounds')
      /\ \A k \in 1..n : appended'[k] = appended[k]
      /\ ToolPair(appended'[n], appended'[n + 1])
      /\ PairMatches(appended'[n], appended'[n + 1], calls)
  BY RoundIsKept
<1>3. Kept' = appended'
  BY <1>1, <1>2, StartOf DEF Kept
<1>4. Kept = SubSeq(appended, 1, 2 * Len(rounds))
  BY DEF Kept, KeepRound
<1>5. Len(Kept) = 2 * Len(rounds) /\ Len(Kept') = Len(Kept) + 2
  BY <1>1, <1>2, <1>3, <1>4, StartOf
<1>6. SubSeq(Kept', 1, Len(Kept)) = Kept
  BY <1>1, <1>2, <1>3, <1>4, <1>5, SameStart
<1>7. /\ Kept'[Len(Kept) + 1] = appended'[n] /\ Kept'[Len(Kept) + 2] = appended'[n + 1]
  BY <1>1, <1>2, <1>3, <1>5
<1>8. Promise!GrowsBy(2)
  BY <1>5, <1>6 DEF Promise!GrowsBy
<1>9. Phase = "running" /\ (pc' = "head" => Phase' = "running") /\ (pc' = "done" => Phase' = "returned")
  BY DEF Phase, KeepRound
<1> QED
  BY <1>2, <1>7, <1>8, <1>9 DEF Promise!ToolRound, ToolPair, PairMatches,
     RequestsTools, Answers, Promise!RequestsTools, Promise!Answers

LEMMA FinalReplyPromised ==
  ASSUME TypeOK, TypeOK', TranscriptInv, KeepRound, closing.outcome \notin {"Continue", "Cancelled"},
         pc' = "done", ending'.kind \in {"Completed", "Truncated"}
  PROVE  Promise!FinalReply
<1> DEFINE n == Len(appended)
<1>1. /\ appended \in Seq(Messages) /\ appended' \in Seq(Messages) /\ n \in Nat /\ Len(rounds) \in Nat
  BY DEF TypeOK, TraceOK
<1>2. /\ n = 2 * Len(rounds)
      /\ Len(rounds') = Len(rounds) + 1 /\ Len(appended') = 2 * Len(rounds') - 1
      /\ \A k \in 1..n : appended'[k] = appended[k]
      /\ appended'[Len(appended')].uses = <<>> /\ appended'[Len(appended')].role = "assistant"
  BY ReplyIsKept
<1>3. Kept' = appended'
  BY DEF Kept
<1>4. Kept = appended
  BY <1>1, <1>2, StartOf DEF Kept, KeepRound
<1>5. Len(appended') = n + 1
  BY <1>1, <1>2
<1>6. SubSeq(Kept', 1, Len(Kept)) = Kept
  <2>1. SubSeq(appended', 1, n) = SubSeq(appended, 1, n)
    BY <1>1, <1>2, <1>5, SameStart
  <2> QED
    BY <1>1, <1>3, <1>4, <2>1, StartOf
<1>7. Promise!GrowsBy(1)
  BY <1>3, <1>4, <1>5, <1>6 DEF Promise!GrowsBy
<1>8. Phase = "running" /\ Phase' = "returned"
  BY DEF Phase, KeepRound
<1> QED
  BY <1>2, <1>3, <1>4, <1>5, <1>7, <1>8
     DEF Promise!FinalReply, RequestsTools, Promise!RequestsTools

LEMMA PromiseStep ==
  TypeOK /\ TypeOK' /\ TranscriptInv /\ [Next]_vars => [Promise!Next]_Promise!promiseVars
<1> SUFFICES ASSUME TypeOK, TypeOK', TranscriptInv, [Next]_vars
             PROVE  Promise!Next \/ UNCHANGED Promise!promiseVars
  OBVIOUS
<1>t. /\ appended \in Seq(Messages) /\ Len(appended) \in Nat
      /\ closing.outcome \in {"Continue", "Completed", "Truncated", "Cancelled"}
  BY DEF TypeOK, TraceOK, ClosingOK, ClosingType
<1>1. CASE RejectConversation
  <2>1. /\ pc = "start" /\ pc' = "done" /\ UNCHANGED <<appended, rounds>>
        /\ ending'.kind = "InvalidConversation"
    BY <1>1 DEF RejectConversation, Return, traceVars
  <2>2. appended = <<>> /\ Len(rounds) = 0
    <3>1. ~ReplyKept /\ ~MidRound
      BY <2>1 DEF ReplyKept, MidRound, InRound
    <3>2. appended = <<>> /\ Len(appended) = 2 * Len(rounds) /\ Len(rounds) \in Nat
      BY <2>1, <3>1 DEF TranscriptInv, Resumable, Alternates, TypeOK, TraceOK
    <3> QED
      BY <3>2
  <2>3. Kept = <<>> /\ Kept' = <<>>
    BY <2>1, <2>2 DEF Kept
  <2>4. Promise!Refuse
    BY <2>1, <2>3 DEF Promise!Refuse, Phase
  <2> QED
    BY <2>4 DEF Promise!Next
<1>2. CASE AcceptConversation
  <2>1. pc = "start" /\ pc' = "head" /\ UNCHANGED <<appended, rounds, ending>>
    BY <1>2 DEF AcceptConversation, traceVars, resultVars
  <2>2. Promise!Admit
    BY <2>1 DEF Promise!Admit, Phase, Kept
  <2> QED
    BY <2>2 DEF Promise!Next
<1>3. CASE StopCancelled \/ ExhaustRounds \/ ModelFails
  <2>1. /\ pc \in {"head", "model"} /\ pc' = "done" /\ UNCHANGED <<appended, rounds>>
        /\ ending'.kind \in {"Cancelled", "RoundsExhausted", "Provider"}
    BY <1>3 DEF StopCancelled, ExhaustRounds, ModelFails, Return, traceVars
  <2> QED
    BY <2>1, BetweenRounds DEF Promise!Next
<1>4. CASE BeginRound \/ SkipTool \/ BeginDispatch \/ EndDispatch \/ FinishTools
  <2>1. pc \notin {"start", "done"} /\ pc' \notin {"start", "done"} /\ UNCHANGED <<appended, rounds, ending>>
    BY <1>4 DEF BeginRound, SkipTool, BeginDispatch, EndDispatch, FinishTools, CloseRound,
                traceVars, resultVars
  <2> QED
    BY <1>t, <2>1, InsideRound
<1>5. ASSUME NEW c \in Completions, ReplyTruncated(c) \/ ReplyFinal(c)
      PROVE  UNCHANGED Promise!promiseVars
  <2>1. pc = "model" /\ pc' = "closing" /\ UNCHANGED <<appended, rounds, ending>>
    BY <1>5 DEF ReplyTruncated, ReplyFinal, CloseRound, traceVars, resultVars
  <2> QED
    BY <1>t, <2>1, InsideRound
<1>6. ASSUME NEW c \in Completions, ReplyWithTools(c)
      PROVE  UNCHANGED Promise!promiseVars
  <2> DEFINE m == AssistantMessage(c, c.uses)
  <2>1. /\ pc = "model" /\ pc' = "tools" /\ UNCHANGED <<rounds, ending>>
        /\ appended' = Append(appended, m)
    BY <1>6 DEF ReplyWithTools, resultVars
  <2>2. m \in Messages
    BY TurnLoopAssumption, AssistantMessageType DEF CompletionType
  <2> HIDE DEF m
  <2>3. Len(appended') = Len(appended) + 1 /\ \A k \in 1..Len(appended) : appended'[k] = appended[k]
    BY <1>t, <2>1, <2>2, AppendFacts
  <2> QED
    BY <1>t, <2>1, <2>3, InsideRound
<1>7. ASSUME NEW failed \in BOOLEAN, FinishDispatch(failed)
      PROVE  UNCHANGED Promise!promiseVars
  <2>1. pc = "dispatch" /\ pc' = "called" /\ UNCHANGED <<appended, rounds, ending>>
    BY <1>7 DEF FinishDispatch, traceVars, resultVars
  <2> QED
    BY <1>t, <2>1, InsideRound
<1>8. ASSUME NEW request \in StopRequests, RequestStop(request)
      PROVE  UNCHANGED Promise!promiseVars
  <2>1. pc = "dispatch" /\ pc' = pc /\ UNCHANGED <<appended, rounds, ending>>
    BY <1>8 DEF RequestStop, traceVars, resultVars
  <2> QED
    BY <1>t, <2>1, InsideRound
<1>9. CASE EndTerminal
  <2>1. /\ KeepRound /\ closing.outcome # "Continue" /\ pc' = "done"
        /\ ending' = [kind |-> closing.outcome]
    BY <1>9 DEF EndTerminal, Return
  <2>2. CASE closing.outcome = "Cancelled"
    BY <2>1, <2>2, ToolRoundPromised DEF Promise!Next
  <2>3. CASE closing.outcome # "Cancelled"
    BY <1>t, <2>1, <2>3, FinalReplyPromised DEF Promise!Next
  <2> QED
    BY <2>2, <2>3
<1>10. CASE EndStopRequested \/ EndStalled
  BY <1>10, ToolRoundPromised DEF EndStopRequested, EndStalled, Return, Promise!Next
<1>11. CASE NextRound
  BY <1>11, ToolRoundPromised DEF NextRound, resultVars, Promise!Next
<1>12. CASE Cancel \/ UNCHANGED vars
  <2>1. UNCHANGED <<pc, appended, rounds, ending>>
    BY <1>12 DEF Cancel, vars, traceVars, resultVars
  <2> QED
    BY <2>1 DEF Promise!promiseVars, Kept, Phase
<1> QED
  BY <1>1, <1>2, <1>3, <1>4, <1>5, <1>6, <1>7, <1>8, <1>9, <1>10, <1>11, <1>12
     DEF Next, Loop, Model, Handler, Returned

(* The turn loop implements what Agent::run promises: the trace grows by    *)
(* whole answered rounds, only a reply or a reason to give up ends it, and  *)
(* the verdict is given once, with that trace.                              *)
THEOREM PromiseKept == Spec => KeepsPromise
<1> QED
  BY PromiseInit, PromiseStep, TypeCorrect, TranscriptHolds, PTL
     DEF Spec, KeepsPromise, Promise!Spec

(* The same of the fair specification, which the runs check. *)
COROLLARY FairPromiseKept == FairSpec => KeepsPromise
BY PromiseKept, PTL DEF FairSpec

-----------------------------------------------------------------------------
(***************************************************************************)
(* The observer.  A call is told of before it is recorded, so the call     *)
(* that on_tool_call is awaited for is the one in `record`; before the     *)
(* model answers there is none.                                            *)
(***************************************************************************)
ObserverInv ==
  /\ ObserverSeesRun
  /\ pc # "called" => record = NoRecord
  /\ pc \in {"start", "head", "model"} => calls = <<>>

LEMMA CallsOfType ==
  ASSUME NEW made \in Seq(RoundRecord)
  PROVE  CallsOf(made) \in Seq(CallRecord)
<1>1. \A k \in DOMAIN made : made[k].calls \in Seq(CallRecord)
  <2>1. \A k \in DOMAIN made : made[k] \in RoundRecord
    OBVIOUS
  <2> QED
    BY <2>1 DEF RoundRecord
<1>2. [k \in DOMAIN made |-> made[k].calls] \in Seq(Seq(CallRecord))
  BY <1>1
<1> QED
  BY <1>2, FlattenType DEF CallsOf

LEMMA CallsOfAppend ==
  ASSUME NEW made \in Seq(RoundRecord), NEW r \in RoundRecord
  PROVE  CallsOf(Append(made, r)) = CallsOf(made) \o r.calls
<1> DEFINE parts == [k \in DOMAIN made |-> made[k].calls]
           longer == Append(made, r)
<1>1. r.calls \in Seq(CallRecord) /\ \A k \in DOMAIN made : made[k].calls \in Seq(CallRecord)
  <2>1. \A k \in DOMAIN made : made[k] \in RoundRecord
    OBVIOUS
  <2> QED
    BY <2>1 DEF RoundRecord
<1>2. parts \in Seq(Seq(CallRecord))
  BY <1>1
<1>3. [k \in DOMAIN longer |-> longer[k].calls] = Append(parts, r.calls)
  OBVIOUS
<1> HIDE DEF parts, longer
<1>4. FlattenSeq(Append(parts, r.calls)) = FlattenSeq(parts) \o r.calls
  BY <1>1, <1>2, FlattenAppend
<1> QED
  BY <1>3, <1>4 DEF CallsOf, parts, longer

LEMMA ObserverInit == Init => ObserverInv
<1> SUFFICES ASSUME Init PROVE ObserverInv
  OBVIOUS
<1>1. /\ pc = "start" /\ rounds = <<>> /\ calls = <<>> /\ record = <<>> /\ seenRounds = <<>>
      /\ seenCalls = <<>>
  BY DEF Init, NoRecord, None
<1>2. CallsOf(rounds) = <<>>
  BY <1>1, FlattenEmpty DEF CallsOf
<1> QED
  BY <1>1, <1>2 DEF ObserverInv, ObserverSeesRun, NoRecord, None

LEMMA ObserverStep == TypeOK /\ ObserverInv /\ [Next]_vars => ObserverInv'
<1> SUFFICES ASSUME TypeOK, ObserverInv, [Next]_vars PROVE ObserverInv'
  OBVIOUS
<1>t. /\ rounds \in Seq(RoundRecord) /\ calls \in Seq(CallRecord) /\ closing.stop \in StopReasons
      /\ seenCalls \in Seq(CallRecord) /\ record \in Option(CallRecord)
      /\ pc = "called" => record # None
  BY DEF TypeOK, TraceOK, RoundOK, ClosingOK, ClosingType, ObserverOK
<1>o. /\ seenRounds = IF pc = "closing"
                      THEN Append(rounds, [stop |-> closing.stop, calls |-> calls])
                      ELSE rounds
      /\ seenCalls = CallsOf(rounds) \o calls \o record
      /\ pc # "called" => record = <<>>
      /\ pc \in {"start", "head", "model"} => calls = <<>>
  BY DEF ObserverInv, ObserverSeesRun, NoRecord, None
<1>c. CallsOf(rounds) \in Seq(CallRecord)
  BY <1>t, CallsOfType
<1>e. \A s \in Seq(CallRecord) : s \o <<>> = s
  OBVIOUS
<1>a. ASSUME UNCHANGED <<rounds, calls, record, seenRounds, seenCalls>>,
             pc # "closing", pc' # "closing", pc' = "called" <=> pc = "called",
             pc' \in {"start", "head", "model"} => pc \in {"start", "head", "model"}
      PROVE  ObserverInv'
  BY <1>a, <1>o DEF ObserverInv, ObserverSeesRun, NoRecord, None
<1>1. CASE RejectConversation \/ AcceptConversation \/ BeginRound \/ StopCancelled \/ ExhaustRounds
           \/ ModelFails
  BY <1>1, <1>a DEF RejectConversation, AcceptConversation, BeginRound, StopCancelled,
                    ExhaustRounds, ModelFails, Return, traceVars, roundVars, observerVars
<1>2. ASSUME NEW c \in Completions, ReplyTruncated(c) \/ ReplyFinal(c)
      PROVE  ObserverInv'
  <2>1. /\ pc = "model" /\ pc' = "closing" /\ calls' = <<>> /\ UNCHANGED <<rounds, record, seenCalls>>
        /\ closing'.stop = c.stop
        /\ seenRounds' = Append(seenRounds, [stop |-> c.stop, calls |-> <<>>])
    BY <1>2 DEF ReplyTruncated, ReplyFinal, CloseRound, traceVars
  <2> QED
    BY <1>o, <2>1 DEF ObserverInv, ObserverSeesRun, NoRecord, None
<1>3. ASSUME NEW c \in Completions, ReplyWithTools(c)
      PROVE  ObserverInv'
  <2>1. /\ pc = "model" /\ pc' = "tools" /\ calls' = <<>>
        /\ UNCHANGED <<rounds, record, seenRounds, seenCalls>>
    BY <1>3 DEF ReplyWithTools, observerVars
  <2> QED
    BY <1>o, <2>1 DEF ObserverInv, ObserverSeesRun, NoRecord, None
<1>4. CASE SkipTool \/ BeginDispatch
  BY <1>4, <1>a DEF SkipTool, BeginDispatch, traceVars, roundVars, observerVars
<1>5. ASSUME NEW request \in StopRequests, RequestStop(request)
      PROVE  ObserverInv'
  BY <1>5, <1>a DEF RequestStop, traceVars, roundVars, observerVars
<1>6. ASSUME NEW failed \in BOOLEAN, FinishDispatch(failed)
      PROVE  ObserverInv'
  <2>1. PICK call : call = [name |-> CurrentUse.name, input |-> CurrentUse.input, failed |-> failed]
    OBVIOUS
  <2>2. /\ pc = "dispatch" /\ pc' = "called" /\ record' = <<call>>
        /\ seenCalls' = Append(seenCalls, call) /\ UNCHANGED <<rounds, calls, seenRounds>>
    BY <1>6, <2>1 DEF FinishDispatch, Some, traceVars
  <2>3. call \in CallRecord
    <3>1. record' \in Option(CallRecord)
      BY StepType DEF TypeOK, RoundOK
    <3> QED
      BY <2>2, <3>1 DEF Option
  <2>4. seenCalls' = CallsOf(rounds) \o calls \o <<call>>
    <3>1. seenCalls = CallsOf(rounds) \o calls
      BY <1>o, <1>t, <1>c, <1>e, <2>2
    <3>2. Append(seenCalls, call) = seenCalls \o <<call>>
      BY <1>t, <2>3, AppendIsConcat
    <3> QED
      BY <2>2, <3>1, <3>2
  <2> QED
    BY <1>o, <2>2, <2>4 DEF ObserverInv, ObserverSeesRun, NoRecord, None
<1>7. CASE EndDispatch
  <2>1. PICK call : call = record[1]
    OBVIOUS
  <2>2. /\ pc = "called" /\ pc' = "tools" /\ record' = <<>> /\ calls' = Append(calls, call)
        /\ UNCHANGED <<rounds, seenRounds, seenCalls>>
    BY <1>7, <2>1 DEF EndDispatch, NoRecord, None, observerVars, traceVars
  <2>3. call \in CallRecord /\ record = <<call>>
    <3>1. record \in Seq(CallRecord) /\ Len(record) <= 1 /\ record # <<>>
      BY <1>t, <2>2 DEF Option, None
    <3>2. Len(record) = 1
      BY <3>1
    <3> QED
      BY <2>1, <3>1, <3>2
  <2>4. calls' = calls \o <<call>> /\ calls' \in Seq(CallRecord)
    BY <1>t, <2>2, <2>3, AppendIsConcat
  <2>5. seenCalls = CallsOf(rounds) \o calls' \o <<>>
    <3>1. seenCalls = CallsOf(rounds) \o calls \o <<call>>
      BY <1>o, <2>3
    <3>2. CallsOf(rounds) \o calls \o <<call>> = CallsOf(rounds) \o (calls \o <<call>>)
      BY <1>c, <1>t, <2>3, ConcatAssociative, SMTT(30)
    <3>3. CallsOf(rounds) \o calls' \in Seq(CallRecord)
      BY <1>c, <2>4
    <3> QED
      BY <1>e, <2>4, <3>1, <3>2, <3>3
  <2> QED
    BY <1>o, <2>2, <2>5 DEF ObserverInv, ObserverSeesRun, NoRecord, None
<1>8. CASE FinishTools
  <2>1. /\ pc = "tools" /\ pc' = "closing" /\ closing'.stop = closing.stop
        /\ UNCHANGED <<rounds, calls, record, seenCalls>>
        /\ seenRounds' = Append(seenRounds, [stop |-> closing.stop, calls |-> calls])
    BY <1>8 DEF FinishTools, CloseRound, traceVars, roundVars
  <2> QED
    BY <1>o, <2>1 DEF ObserverInv, ObserverSeesRun, NoRecord, None
<1>9. CASE EndTerminal \/ EndStopRequested \/ EndStalled \/ NextRound
  <2>1. /\ pc = "closing" /\ pc' \in {"head", "done"} /\ calls' = <<>>
        /\ UNCHANGED <<record, seenRounds, seenCalls>>
        /\ rounds' = Append(rounds, [stop |-> closing.stop, calls |-> calls])
    BY <1>9 DEF EndTerminal, EndStopRequested, EndStalled, NextRound, KeepRound, Return, observerVars
  <2>2. [stop |-> closing.stop, calls |-> calls] \in RoundRecord
    BY <1>t DEF RoundRecord
  <2>3. CallsOf(rounds') = CallsOf(rounds) \o calls
    BY <1>t, <2>1, <2>2, CallsOfAppend
  <2>4. seenCalls = CallsOf(rounds') \o <<>> \o <<>>
    <3>1. CallsOf(rounds) \o calls \in Seq(CallRecord)
      BY <1>c, <1>t
    <3> QED
      BY <1>e, <1>o, <2>1, <2>3, <3>1
  <2> QED
    BY <1>o, <2>1, <2>4 DEF ObserverInv, ObserverSeesRun, NoRecord, None
<1>10. CASE Cancel \/ UNCHANGED vars
  <2>1. UNCHANGED <<pc, rounds, calls, record, closing, seenRounds, seenCalls>>
    BY <1>10 DEF Cancel, vars, traceVars, roundVars, observerVars
  <2> QED
    BY <1>o, <2>1 DEF ObserverInv, ObserverSeesRun, NoRecord, None
<1> QED
  BY <1>1, <1>2, <1>3, <1>4, <1>5, <1>6, <1>7, <1>8, <1>9, <1>10
     DEF Next, Loop, Model, Handler, Returned

(* The observer is told of every round and of every call that the trace     *)
(* holds, once and in order, each call before its round.                    *)
THEOREM ObserverCorrect == Spec => []ObserverSeesRun
<1>1. ObserverInv => ObserverSeesRun
  BY DEF ObserverInv
<1> QED
  BY <1>1, ObserverInit, ObserverStep, TypeCorrect, PTL DEF Spec


-----------------------------------------------------------------------------
(***************************************************************************)
(* The stall tracker.  It knows the calls the observer was told of, but    *)
(* for the one that on_tool_call is still awaited for.                     *)
(***************************************************************************)
Counted == IF pc = "called" THEN Len(seenCalls) - 1 ELSE Len(seenCalls)

SameCall(i, j) == KeyOf(seenCalls[i]) = KeyOf(seenCalls[j])

TrackerExact ==
  IF Counted = 0 THEN stall = [last |-> None, streak |-> 0]
  ELSE /\ stall.last = Some(KeyOf(seenCalls[Counted]))
       /\ stall.streak \in 1..Counted
       /\ \A i \in (Counted - stall.streak + 1)..Counted : SameCall(i, Counted)
       /\ stall.streak < Counted => ~SameCall(Counted - stall.streak, Counted)

StallInv ==
  /\ TrackerExact
  /\ pc = "called" => seenCalls # <<>> /\ record[1] = seenCalls[Len(seenCalls)]
  /\ pc \in {"start", "head", "model"} => ~Tripped(stall)
  /\ ending.kind = "Stalled" =>
       /\ pc = "done" /\ Tripped(stall)
       /\ ending.tool = stall.last[1].name /\ ending.count = stall.streak

-----------------------------------------------------------------------------
(***************************************************************************)
(* The stop request.  It waits in the slot until the round is kept; only a *)
(* cancellation that leaves tools of the round out goes before it.         *)
(***************************************************************************)
StoppedOrCancelled ==
  \/ ending = [kind |-> "StopRequested", request |-> stopLog[1]] /\ reply = Some(stopLog[1])
  \/ /\ ending.kind = "Cancelled"
     /\ Len(rounds[Len(rounds)].calls) < Len(appended[Len(appended) - 1].uses)

StopInv ==
  /\ pc # "done" => stopSlot = IF stopLog = <<>> THEN None ELSE Some(stopLog[1])
  /\ stopLog # <<>> => MidRound \/ (pc = "done" /\ StoppedOrCancelled)
  /\ MidRound /\ skipping => Len(calls) < Len(results)
  /\ pc = "closing" /\ closing.outcome = "Cancelled" => skipping

-----------------------------------------------------------------------------
LEMMA StallInit == Init => StallInv
<1> SUFFICES ASSUME Init PROVE StallInv
  OBVIOUS
<1>1. /\ pc = "start" /\ seenCalls = <<>> /\ stall = [last |-> None, streak |-> 0]
      /\ ending.kind = "Running"
  BY DEF Init
<1>2. Counted = 0
  BY <1>1 DEF Counted
<1> QED
  BY <1>1, <1>2 DEF StallInv, TrackerExact, Tripped

(* The tracker is exact again when the call it did not know is recorded.   *)
LEMMA TrackerCatchesUp ==
  ASSUME TypeOK, StallInv, EndDispatch
  PROVE  TrackerExact'
<1> DEFINE n == Len(seenCalls)
<1>1. /\ pc = "called" /\ pc' = "tools" /\ UNCHANGED seenCalls
      /\ stall' = StallRecord(stall, seenCalls[n])
      /\ seenCalls \in Seq(CallRecord) /\ seenCalls # <<>> /\ n \in Nat
  BY DEF EndDispatch, StallInv, observerVars, TypeOK, ObserverOK
<1>2. Counted = n - 1 /\ Counted' = n /\ n > 0
  BY <1>1 DEF Counted
<1>3. stall'.last = Some(KeyOf(seenCalls[n]))
  BY <1>1 DEF StallRecord
<1>4. CASE Counted = 0
  <2>1. stall'.streak = 1 /\ n = 1
    BY <1>1, <1>2, <1>4 DEF StallRecord, StallInv, TrackerExact, Some, None
  <2> QED
    BY <1>1, <1>2, <1>3, <2>1 DEF TrackerExact, SameCall
<1>5. CASE Counted # 0
  <2>1. /\ stall.last = Some(KeyOf(seenCalls[n - 1])) /\ stall.streak \in 1..(n - 1)
        /\ \A i \in (n - stall.streak)..(n - 1) : KeyOf(seenCalls[i]) = KeyOf(seenCalls[n - 1])
        /\ stall.streak < n - 1 => KeyOf(seenCalls[n - 1 - stall.streak]) # KeyOf(seenCalls[n - 1])
    BY <1>2, <1>5 DEF StallInv, TrackerExact, SameCall
  <2>2. CASE KeyOf(seenCalls[n - 1]) = KeyOf(seenCalls[n])
    <3>1. stall'.streak = stall.streak + 1
      BY <1>1, <2>1, <2>2 DEF StallRecord
    <3>2. \A i \in (n - stall'.streak + 1)..n : KeyOf(seenCalls[i]) = KeyOf(seenCalls[n])
      <4> SUFFICES ASSUME NEW i \in (n - stall.streak)..n
                   PROVE  KeyOf(seenCalls[i]) = KeyOf(seenCalls[n])
        BY <1>1, <2>1, <3>1
      <4>1. i = n \/ i \in (n - stall.streak)..(n - 1)
        BY <1>1, <2>1
      <4> QED
        BY <2>1, <2>2, <4>1
    <3>3. stall'.streak < n => KeyOf(seenCalls[n - stall'.streak]) # KeyOf(seenCalls[n])
      <4>1. n - stall'.streak = n - 1 - stall.streak
        BY <1>1, <2>1, <3>1
      <4> QED
        BY <1>1, <2>1, <2>2, <3>1, <4>1
    <3>4. stall'.streak \in 1..n
      BY <1>1, <2>1, <3>1
    <3> QED
      BY <1>1, <1>2, <1>3, <3>2, <3>3, <3>4 DEF TrackerExact, SameCall
  <2>3. CASE KeyOf(seenCalls[n - 1]) # KeyOf(seenCalls[n])
    <3>1. stall'.streak = 1
      <4>1. Some(KeyOf(seenCalls[n - 1])) # Some(KeyOf(seenCalls[n]))
        BY <2>3 DEF Some
      <4> QED
        BY <1>1, <2>1, <4>1 DEF StallRecord
    <3> QED
      BY <1>1, <1>2, <1>3, <2>3, <3>1 DEF TrackerExact, SameCall
  <2> QED
    BY <2>2, <2>3
<1> QED
  BY <1>4, <1>5

LEMMA StallStep == TypeOK /\ StallInv /\ [Next]_vars => StallInv'
<1> SUFFICES ASSUME TypeOK, StallInv, [Next]_vars PROVE StallInv'
  OBVIOUS
<1>t. seenCalls \in Seq(CallRecord) /\ Len(seenCalls) \in Nat
  BY DEF TypeOK, ObserverOK
<1>a. ASSUME UNCHANGED <<seenCalls, stall>>, pc # "called", pc' # "called"
      PROVE  TrackerExact'
  BY <1>a DEF StallInv, TrackerExact, Counted, SameCall
(* Nobody sees the tracker, and nothing of a stall is decided. *)
<1>b. ASSUME UNCHANGED <<seenCalls, stall, ending>>, pc \notin {"called", "done"}, pc' # "called",
             pc' \in {"start", "head", "model"} => ~Tripped(stall)
      PROVE  StallInv'
  BY <1>a, <1>b DEF StallInv, Tripped
<1>c. ASSUME UNCHANGED <<seenCalls, stall>>, pc # "called", pc' = "done", ending'.kind # "Stalled"
      PROVE  StallInv'
  BY <1>a, <1>c DEF StallInv
<1>1. CASE RejectConversation \/ StopCancelled \/ ExhaustRounds \/ ModelFails
  BY <1>1, <1>c DEF RejectConversation, StopCancelled, ExhaustRounds, ModelFails, Return, observerVars
<1>2. CASE AcceptConversation \/ BeginRound
  BY <1>2, <1>b DEF AcceptConversation, BeginRound, observerVars, resultVars, StallInv
<1>3. ASSUME NEW c \in Completions, ReplyTruncated(c) \/ ReplyFinal(c) \/ ReplyWithTools(c)
      PROVE  StallInv'
  <2>1. /\ UNCHANGED <<seenCalls, stall, ending>> /\ pc = "model" /\ pc' \in {"closing", "tools"}
    BY <1>3 DEF ReplyTruncated, ReplyFinal, ReplyWithTools, CloseRound, observerVars, resultVars
  <2> QED
    BY <2>1, <1>b
<1>4. CASE SkipTool \/ BeginDispatch \/ FinishTools
  <2>1. /\ UNCHANGED <<seenCalls, stall, ending>> /\ pc = "tools" /\ pc' \in {"tools", "dispatch", "closing"}
    BY <1>4 DEF SkipTool, BeginDispatch, FinishTools, CloseRound, observerVars, resultVars
  <2> QED
    BY <2>1, <1>b
<1>5. ASSUME NEW request \in StopRequests, RequestStop(request)
      PROVE  StallInv'
  <2>1. UNCHANGED <<seenCalls, stall, ending>> /\ pc = "dispatch" /\ pc' = pc
    BY <1>5 DEF RequestStop, observerVars, resultVars
  <2> QED
    BY <2>1, <1>b
<1>6. ASSUME NEW failed \in BOOLEAN, FinishDispatch(failed)
      PROVE  StallInv'
  <2> DEFINE call == [name |-> CurrentUse.name, input |-> CurrentUse.input, failed |-> failed]
  <2>1. /\ UNCHANGED <<stall, ending>> /\ pc = "dispatch" /\ pc' = "called"
        /\ record' = Some(call) /\ seenCalls' = Append(seenCalls, call)
    BY <1>6 DEF FinishDispatch, resultVars
  <2>2. call \in CallRecord
    <3>1. CurrentUse \in ToolUses
      BY <2>1, CurrentUseType DEF TypeOK
    <3>2. CurrentUse.name \in ToolNames /\ CurrentUse.input \in Arguments
      BY <3>1 DEF ToolUses
    <3> QED
      BY <3>2, Zenon DEF CallRecord
  <2> HIDE DEF call
  <2>3. /\ Len(seenCalls') = Len(seenCalls) + 1 /\ seenCalls'[Len(seenCalls')] = call
        /\ \A i \in 1..Len(seenCalls) : seenCalls'[i] = seenCalls[i] /\ seenCalls' # <<>>
        /\ seenCalls' # <<>>
    BY <1>t, <2>1, <2>2
  <2>4. Counted = Len(seenCalls) /\ Counted' = Len(seenCalls)
    BY <1>t, <2>1, <2>3 DEF Counted
  <2>5. TrackerExact'
    <3>1. CASE Counted = 0
      BY <2>1, <2>4, <3>1 DEF StallInv, TrackerExact
    <3>2. CASE Counted # 0
      <4>1. /\ stall.last = Some(KeyOf(seenCalls[Counted])) /\ stall.streak \in 1..Counted
            /\ \A i \in (Counted - stall.streak + 1)..Counted : SameCall(i, Counted)
            /\ stall.streak < Counted => ~SameCall(Counted - stall.streak, Counted)
        BY <3>2 DEF StallInv, TrackerExact
      <4>2. Counted \in Nat /\ \A i \in 1..Counted : seenCalls'[i] = seenCalls[i]
        BY <1>t, <2>3, <2>4
      <4>3. seenCalls'[Counted] = seenCalls[Counted]
        BY <3>2, <4>2
      <4>4. /\ \A i \in (Counted - stall.streak + 1)..Counted :
                 KeyOf(seenCalls'[i]) = KeyOf(seenCalls'[Counted])
            /\ stall.streak < Counted =>
                 KeyOf(seenCalls'[Counted - stall.streak]) # KeyOf(seenCalls'[Counted])
        BY <4>1, <4>2, <4>3 DEF SameCall
      <4> QED
        BY <2>1, <2>4, <3>2, <4>1, <4>3, <4>4 DEF TrackerExact, SameCall
    <3> QED
      BY <3>1, <3>2
  <2> QED
    BY <2>1, <2>3, <2>5 DEF StallInv, Some
<1>7. CASE EndDispatch
  <2>1. pc = "called" /\ pc' = "tools" /\ UNCHANGED ending
    BY <1>7 DEF EndDispatch, resultVars
  <2> QED
    BY <1>7, <2>1, TrackerCatchesUp DEF StallInv
<1>8. CASE EndTerminal
  <2>1. /\ UNCHANGED <<seenCalls, stall>> /\ pc = "closing" /\ pc' = "done"
        /\ ending'.kind \in {"Completed", "Truncated", "Cancelled"}
    BY <1>8 DEF EndTerminal, KeepRound, Return, observerVars, TypeOK, ClosingOK, ClosingType
  <2> QED
    BY <2>1, <1>c
<1>9. CASE EndStopRequested
  BY <1>9, <1>c DEF EndStopRequested, KeepRound, Return, observerVars
<1>10. CASE EndStalled
  <2>1. /\ UNCHANGED <<seenCalls, stall>> /\ pc = "closing" /\ pc' = "done" /\ Tripped(stall)
        /\ ending'.tool = stall.last[1].name /\ ending'.count = stall.streak
    BY <1>10 DEF EndStalled, KeepRound, Return, observerVars
  <2> QED
    BY <2>1, <1>a DEF StallInv
<1>11. CASE NextRound
  <2>1. /\ UNCHANGED <<seenCalls, stall, ending>> /\ pc = "closing" /\ pc' = "head" /\ ~Tripped(stall)
    BY <1>11 DEF NextRound, KeepRound, observerVars, resultVars
  <2> QED
    BY <2>1, <1>b
<1>12. CASE Cancel \/ UNCHANGED vars
  <2>1. UNCHANGED <<pc, seenCalls, stall, ending, record>>
    BY <1>12 DEF Cancel, vars, observerVars, resultVars, roundVars
  <2> QED
    BY <2>1 DEF StallInv, TrackerExact, Counted, SameCall, Tripped
<1> QED
  BY <1>1, <1>2, <1>3, <1>4, <1>5, <1>6, <1>7, <1>8, <1>9, <1>10, <1>11, <1>12
     DEF Next, Loop, Model, Handler, Returned

(* A run ends as Stalled only after a repetition, which it reports exactly; *)
(* and the model is never called while the latest calls are one.            *)
THEOREM StalledExactlyCorrect == Spec => []StalledExactly
<1>1. TypeOK /\ StallInv => StalledExactly
  <2> SUFFICES ASSUME TypeOK, StallInv PROVE StalledExactly
    OBVIOUS
  <2> DEFINE n == Len(seenCalls)
  <2>1. seenCalls \in Seq(CallRecord) /\ n \in Nat /\ StallThreshold \in Nat
    BY TurnLoopAssumption DEF TypeOK, ObserverOK
  <2>2. ASSUME pc # "called", seenCalls # <<>>
        PROVE  /\ stall.last = Some(KeyOf(seenCalls[n])) /\ stall.streak \in 1..n
               /\ \A i \in (n - stall.streak + 1)..n : KeyOf(seenCalls[i]) = KeyOf(seenCalls[n])
               /\ stall.streak < n => KeyOf(seenCalls[n - stall.streak]) # KeyOf(seenCalls[n])
    BY <2>1, <2>2 DEF StallInv, TrackerExact, Counted, SameCall
  <2>3. CASE ending.kind = "Stalled"
    <3>1. /\ pc = "done" /\ Tripped(stall)
          /\ ending.tool = stall.last[1].name /\ ending.count = stall.streak
      BY <2>3 DEF StallInv
    <3>2. seenCalls # <<>>
      BY <3>1, <2>1 DEF StallInv, TrackerExact, Counted, Tripped
    <3>3. ending.tool = seenCalls[n].name
      BY <2>2, <3>1, <3>2 DEF Some, KeyOf
    <3>4. ending.count >= StallThreshold
      BY <3>1 DEF Tripped
    <3>5. Repeating(ending.count)
      BY <2>1, <2>2, <3>1, <3>2 DEF Repeating
    <3>6. ~Repeating(ending.count + 1)
      BY <2>1, <2>2, <3>1, <3>2 DEF Repeating
    <3> QED
      BY <3>1, <3>2, <3>3, <3>4, <3>5, <3>6 DEF StalledExactly
  <2>4. ASSUME pc = "model", seenCalls # <<>>
        PROVE  ~Repeating(StallThreshold)
    <3>1. stall.streak < StallThreshold
      <4>1. stall.last # None
        <5>1. stall.last = Some(KeyOf(seenCalls[n]))
          BY <2>2, <2>4
        <5>2. Some(KeyOf(seenCalls[n])) # None
          BY DEF Some, None
        <5> QED
          BY <5>1, <5>2
      <4>2. ~Tripped(stall)
        BY <2>4 DEF StallInv
      <4>3. stall.streak \in Nat
        BY DEF TypeOK, StallOK, StallState
      <4> QED
        BY <2>1, <4>1, <4>2, <4>3 DEF Tripped
    <3>2. n - stall.streak \in (n - StallThreshold + 1)..n
      BY <2>1, <2>2, <2>4, <3>1
    <3> QED
      BY <2>1, <2>2, <2>4, <3>1, <3>2 DEF Repeating
  <2> QED
    BY <2>3, <2>4 DEF StalledExactly
<1> QED
  BY <1>1, StallInit, StallStep, TypeCorrect, PTL DEF Spec

-----------------------------------------------------------------------------
LEMMA StopInit == Init => StopInv
BY DEF Init, StopInv, MidRound, InRound, None

LEMMA StopStep == TypeOK /\ TranscriptInv /\ StopInv /\ [Next]_vars => StopInv'
<1> SUFFICES ASSUME TypeOK, TranscriptInv, StopInv, [Next]_vars PROVE StopInv'
  OBVIOUS
<1>t. /\ results \in Seq(ToolResults) /\ calls \in Seq(CallRecord) /\ stopLog \in Seq(StopRequests)
      /\ closing.outcome \in {"Continue", "Completed", "Truncated", "Cancelled"}
  BY DEF TypeOK, RoundOK, HistoryOK, ClosingOK, ClosingType
(* Between rounds no request is recorded, so none is lost. *)
<1>a. ASSUME UNCHANGED <<stopSlot, stopLog>>, ~MidRound, ~MidRound', pc # "done", pc' = "closing" => closing'.outcome # "Cancelled"
      PROVE  StopInv'
  BY <1>a DEF StopInv
<1>1. CASE RejectConversation \/ AcceptConversation \/ BeginRound \/ StopCancelled \/ ExhaustRounds \/ ModelFails
  <2>1. /\ UNCHANGED <<stopSlot, stopLog>> /\ pc \in {"start", "head", "model"}
        /\ pc' \in {"head", "model", "done"}
    BY <1>1 DEF RejectConversation, AcceptConversation, BeginRound, StopCancelled, ExhaustRounds,
                ModelFails, Return, contextVars, historyVars
  <2> QED
    BY <2>1, <1>a DEF MidRound, InRound
<1>2. ASSUME NEW c \in Completions, ReplyTruncated(c) \/ ReplyFinal(c)
      PROVE  StopInv'
  <2>1. /\ UNCHANGED <<stopSlot, stopLog>> /\ pc = "model" /\ pc' = "closing"
        /\ closing'.outcome \in {"Completed", "Truncated"}
    BY <1>2 DEF ReplyTruncated, ReplyFinal, CloseRound, contextVars, historyVars
  <2> QED
    BY <2>1, <1>a DEF MidRound, InRound
<1>3. ASSUME NEW c \in Completions, ReplyWithTools(c)
      PROVE  StopInv'
  <2>1. UNCHANGED <<stopSlot, stopLog>> /\ pc = "model" /\ pc' = "tools" /\ ~skipping'
    BY <1>3 DEF ReplyWithTools, contextVars, historyVars
  <2> QED
    BY <2>1 DEF StopInv, MidRound, InRound
(* Within a round. *)
<1>b. ASSUME UNCHANGED <<stopSlot, stopLog>>, MidRound', pc # "done",
             skipping' => Len(calls') < Len(results'),
             pc' = "closing" /\ closing'.outcome = "Cancelled" => skipping'
      PROVE  StopInv'
  BY <1>b DEF StopInv, MidRound, InRound
<1>4. CASE SkipTool
  <2>1. /\ UNCHANGED <<stopSlot, stopLog, calls>> /\ pc = "tools" /\ pc' = "tools"
        /\ results' = Append(results, [id |-> CurrentUse.id, outcome |-> "cancelled"])
    BY <1>4 DEF SkipTool, contextVars, historyVars
  <2>2. MidRound /\ MidRound'
    BY <2>1 DEF MidRound, InRound
  <2>3. Len(calls) <= Len(results)
    BY <2>2 DEF TranscriptInv, RoundAnswered, AnswersSoFar
  <2>4. Len(results') = Len(results) + 1
    BY <1>t, <2>1
  <2>5. Len(calls') < Len(results')
    BY <1>t, <2>1, <2>3, <2>4
  <2> QED
    BY <2>1, <2>2, <2>5, <1>b
<1>5. CASE BeginDispatch
  <2>1. UNCHANGED <<stopSlot, stopLog>> /\ pc = "tools" /\ pc' = "dispatch" /\ ~skipping'
    BY <1>5 DEF BeginDispatch, MustSkip, contextVars, historyVars, roundVars
  <2> QED
    BY <2>1, <1>b DEF MidRound, InRound
<1>6. ASSUME NEW request \in StopRequests, RequestStop(request)
      PROVE  StopInv'
  <2>1. /\ UNCHANGED <<skipping, calls, results>> /\ pc = "dispatch" /\ pc' = "dispatch"
        /\ stopSlot' = StopRecorded(stopSlot, request) /\ stopLog' = Append(stopLog, request)
    BY <1>6 DEF RequestStop, roundVars
  <2>2. MidRound /\ MidRound'
    BY <2>1 DEF MidRound, InRound
  <2>3. stopLog' # <<>> /\ stopLog'[1] = IF stopLog = <<>> THEN request ELSE stopLog[1]
    BY <1>t, <2>1
  <2>4. stopSlot' = Some(stopLog'[1])
    BY <1>t, <2>1, <2>3 DEF StopInv, StopRecorded, Some, None
  <2> QED
    BY <2>1, <2>2, <2>3, <2>4 DEF StopInv
<1>7. ASSUME NEW failed \in BOOLEAN, FinishDispatch(failed)
      PROVE  StopInv'
  <2>1. /\ UNCHANGED <<stopSlot, stopLog, skipping, calls, results>> /\ pc = "dispatch" /\ pc' = "called"
    BY <1>7 DEF FinishDispatch, contextVars, historyVars
  <2> QED
    BY <2>1, <1>b DEF MidRound, InRound, StopInv
<1>8. CASE EndDispatch
  <2>1. /\ UNCHANGED <<stopSlot, stopLog, skipping>> /\ pc = "called" /\ pc' = "tools"
    BY <1>8 DEF EndDispatch, contextVars, historyVars
  <2>2. ~skipping
    BY <2>1 DEF TranscriptInv, RoundAnswered, MidRound, InRound
  <2> QED
    BY <2>1, <2>2, <1>b DEF MidRound, InRound
<1>9. CASE FinishTools
  <2>1. /\ UNCHANGED <<stopSlot, stopLog, skipping, calls, results>> /\ pc = "tools" /\ pc' = "closing"
        /\ closing'.outcome = IF skipping THEN "Cancelled" ELSE "Continue"
    BY <1>9 DEF FinishTools, CloseRound, contextVars, historyVars, roundVars
  <2> QED
    BY <2>1, <1>b DEF MidRound, InRound, StopInv
(* The round is kept. *)
<1>10. ASSUME KeepRound, closing.outcome \in {"Continue", "Cancelled"}
       PROVE  MidRound /\ UNCHANGED stopLog /\ stopSlot = IF stopLog = <<>> THEN None ELSE Some(stopLog[1])
  BY <1>10 DEF KeepRound, StopInv, MidRound, historyVars
<1>11. CASE EndTerminal
  <2>1. /\ KeepRound /\ pc = "closing" /\ pc' = "done" /\ closing.outcome # "Continue"
        /\ ending' = [kind |-> closing.outcome] /\ UNCHANGED stopLog
    BY <1>11 DEF EndTerminal, KeepRound, Return, historyVars
  <2>2. CASE closing.outcome = "Cancelled"
    <3>1. Len(calls) < Len(results) /\ Len(results) = Len(uses) /\ appended[Len(appended)].uses = uses
      BY <2>1, <2>2 DEF StopInv, MidRound, TranscriptInv, RoundAnswered, ClosingMatches
    <3>2. /\ Len(appended') - 1 = Len(appended) /\ appended'[Len(appended)] = appended[Len(appended)]
          /\ rounds'[Len(rounds')].calls = calls
      <4>1. /\ Len(appended) = 2 * Len(rounds) + 1 /\ Len(rounds) \in Nat
            /\ Len(rounds') = Len(rounds) + 1 /\ Len(appended') = 2 * Len(rounds')
            /\ \A k \in 1..Len(appended) : appended'[k] = appended[k]
        BY <2>1, <2>2, RoundIsKept DEF TypeOK, TraceOK
      <4>2. rounds'[Len(rounds) + 1].calls = calls
        <5>1. [stop |-> closing.stop, calls |-> calls] \in RoundRecord /\ rounds \in Seq(RoundRecord)
          BY <1>t DEF TypeOK, TraceOK, ClosingOK, ClosingType, RoundRecord
        <5> QED
          BY <2>1, <5>1, AppendFacts DEF KeepRound
      <4> QED
        BY <4>1, <4>2
    <3>3. StoppedOrCancelled'
      BY <2>1, <2>2, <3>1, <3>2 DEF StoppedOrCancelled
    <3> QED
      BY <2>1, <3>3 DEF StopInv, MidRound, InRound
  <2>3. CASE closing.outcome # "Cancelled"
    <3>1. ~MidRound /\ ~MidRound'
      BY <2>1, <2>3 DEF MidRound, InRound
    <3>2. stopLog' = <<>>
      BY <2>1, <3>1 DEF StopInv
    <3> QED
      BY <2>1, <3>1, <3>2 DEF StopInv
  <2> QED
    BY <2>2, <2>3
<1>12. CASE EndStopRequested
  <2>1. /\ KeepRound /\ closing.outcome = "Continue" /\ stopSlot # None /\ pc' = "done"
        /\ ending' = [kind |-> "StopRequested", request |-> stopSlot[1]] /\ reply' = Some(stopSlot[1])
    BY <1>12 DEF EndStopRequested, Return
  <2>2. stopLog' = stopLog /\ stopSlot[1] = stopLog[1]
    BY <2>1, <1>10 DEF Some
  <2>3. StoppedOrCancelled'
    BY <2>1, <2>2 DEF StoppedOrCancelled
  <2> QED
    BY <2>1, <2>3 DEF StopInv, MidRound, InRound
<1>13. CASE EndStalled \/ NextRound
  <2>1. /\ KeepRound /\ closing.outcome = "Continue" /\ stopSlot = None /\ UNCHANGED stopSlot
        /\ pc' \in {"head", "done"}
    BY <1>13 DEF EndStalled, NextRound, Return
  <2>2. stopLog' = <<>>
    BY <2>1, <1>10 DEF Some, None
  <2> QED
    BY <2>1, <2>2 DEF StopInv, MidRound, InRound
<1>14. CASE Cancel \/ UNCHANGED vars
  <2>1. UNCHANGED <<pc, stopSlot, stopLog, skipping, calls, results, closing, ending, reply, rounds, appended>>
    BY <1>14 DEF Cancel, vars, historyVars, contextVars, roundVars, resultVars, traceVars
  <2>2. MidRound' <=> MidRound
    BY <2>1 DEF MidRound, InRound
  <2> QED
    BY <2>1, <2>2 DEF StopInv, StoppedOrCancelled
<1> QED
  BY <1>1, <1>2, <1>3, <1>4, <1>5, <1>6, <1>7, <1>8, <1>9, <1>11, <1>12, <1>13, <1>14
     DEF Next, Loop, Model, Handler, Returned

(* After a recorded stop request no model call is made, and the run ends    *)
(* with the first one as its ending and its reply, unless a cancellation    *)
(* left tools of that round out.                                            *)
THEOREM StopRequestCorrect == Spec => []StopRequestEndsRun
<1>1. StopInv => StopRequestEndsRun
  BY DEF StopInv, StopRequestEndsRun, StoppedOrCancelled, MidRound, InRound
<1> QED
  BY <1>1, StopInit, StopStep, TypeCorrect, TranscriptHolds, PTL DEF Spec

-----------------------------------------------------------------------------
(***************************************************************************)
(* The two wires.                                                          *)
(***************************************************************************)
WireMessages ==
  [role : {"system", "user", "assistant", "tool"}, text : BOOLEAN, calls : Seq(UseIds), answers : Seq(UseIds)]

(* What build_request is given: a system prompt only at the head, and each *)
(* tool use answered by the message that follows, which answers no other.  *)
Sendable(ms, n) ==
  /\ ms \in Seq(Messages) /\ n \in Nat /\ n = Len(ms)
  /\ \A k \in 1..n : ms[k].role = "system" => k = 1 /\ ms[k].uses = <<>> /\ ms[k].results = <<>>
  /\ \A k \in 1..n : ms[k].role = "user" => ms[k].uses = <<>>
  /\ \A k \in 1..n : ms[k].role = "assistant" => ms[k].results = <<>>
  /\ \A k \in 1..n : ms[k].uses # <<>> => k < n /\ Answers(ms[k + 1], ms[k])
  /\ \A k \in 1..n : ms[k].results # <<>> => k > 1 /\ Answers(ms[k], ms[k - 1])

(* All calls of w are answered, but those of its last message if open.     *)
PairedBut(w, open) ==
  /\ w \in Seq(WireMessages)
  /\ \A k \in 1..Len(w) : \A i \in 1..Len(w[k].calls) :
       \/ open /\ k = Len(w)
       \/ k + i <= Len(w) /\ w[k + i].role = "tool" /\ w[k + i].answers = <<w[k].calls[i]>>
  /\ \A k \in 1..Len(w) : w[k].role = "tool" => \E j \in 1..(k - 1) : (k - j) \in 1..Len(w[j].calls)

SystemFirst(w, prompted) == \A k \in 1..Len(w) : w[k].role = "system" <=> prompted /\ k = 1

LEMMA WireMessageType ==
  ASSUME NEW x \in WireMessages
  PROVE  x.calls \in Seq(UseIds) /\ x.answers \in Seq(UseIds) /\ Len(x.calls) \in Nat
BY DEF WireMessages

(* One more message that is not an answer. *)
LEMMA PairedAppend ==
  ASSUME NEW w, PairedBut(w, FALSE), NEW x \in WireMessages, x.role # "tool",
         NEW open \in BOOLEAN, open \/ x.calls = <<>>
  PROVE  PairedBut(Append(w, x), open)
<1>1. PICK n, v : n = Len(w) /\ v = Append(w, x)
  OBVIOUS
<1>2. n \in Nat /\ w \in Seq(WireMessages)
  BY <1>1 DEF PairedBut
<1>3. /\ v \in Seq(WireMessages) /\ Len(v) = n + 1 /\ v[n + 1] = x
      /\ \A k \in 1..n : v[k] = w[k]
  BY <1>1, <1>2, AppendProperties
<1>4. ASSUME NEW k \in 1..(n + 1), NEW i \in 1..Len(v[k].calls)
      PROVE  \/ open /\ k = n + 1
             \/ k + i <= n + 1 /\ v[k + i].role = "tool" /\ v[k + i].answers = <<v[k].calls[i]>>
  <2>1. CASE k = n + 1
    <3>1. x.calls # <<>>
      BY <1>3, <1>4, <2>1
    <3> QED
      BY <2>1, <3>1
  <2>2. CASE k \in 1..n
    <3>1. /\ k + i <= n /\ w[k + i].role = "tool" /\ w[k + i].answers = <<w[k].calls[i]>>
      BY <1>1, <1>3, <1>4, <2>2 DEF PairedBut
    <3>2. Len(w[k].calls) \in Nat
      BY <1>1, <1>2, <2>2, WireMessageType
    <3>3. k + i \in 1..n
      BY <1>2, <1>3, <1>4, <2>2, <3>1, <3>2
    <3>4. k + i <= n + 1
      BY <1>2, <3>3
    <3> QED
      BY <1>3, <2>2, <3>1, <3>3, <3>4
  <2> QED
    BY <1>2, <2>1, <2>2
<1>5. ASSUME NEW k \in 1..(n + 1), v[k].role = "tool"
      PROVE  \E j \in 1..(k - 1) : (k - j) \in 1..Len(v[j].calls)
  <2>1. k # n + 1
    BY <1>3, <1>5
  <2>2. k \in 1..n /\ w[k].role = "tool"
    BY <1>2, <1>3, <1>5, <2>1
  <2>3. PICK j \in 1..(k - 1) : (k - j) \in 1..Len(w[j].calls)
    BY <1>1, <2>2 DEF PairedBut
  <2>4. j \in 1..n
    BY <1>2, <2>2, <2>3
  <2> QED
    BY <1>3, <2>3, <2>4
<1> QED
  BY <1>1, <1>3, <1>4, <1>5 DEF PairedBut

LEMMA WireConcat ==
  ASSUME NEW w \in Seq(WireMessages), NEW t \in Seq(WireMessages)
  PROVE  /\ w \o t \in Seq(WireMessages) /\ Len(w \o t) = Len(w) + Len(t)
         /\ \A k \in 1..Len(w) : (w \o t)[k] = w[k]
         /\ \A i \in 1..Len(t) : (w \o t)[Len(w) + i] = t[i]
<1>1. PICK S : S = WireMessages
  OBVIOUS
<1> HIDE DEF WireMessages
<1>2. w \in Seq(S) /\ t \in Seq(S)
  BY <1>1
<1>3. /\ w \o t \in Seq(S) /\ Len(w \o t) = Len(w) + Len(t)
      /\ \A k \in 1..Len(w) : (w \o t)[k] = w[k]
  BY <1>2
<1>4. \A i \in 1..Len(t) : (w \o t)[Len(w) + i] = t[i]
  BY <1>2
<1> QED
  BY <1>1, <1>3, <1>4

(* The answers to the calls of the last message. *)
LEMMA PairedAnswers ==
  ASSUME NEW w, PairedBut(w, TRUE), w # <<>>, NEW asked, asked = w[Len(w)].calls,
         NEW t \in Seq(WireMessages), Len(t) = Len(asked),
         \A i \in 1..Len(asked) : t[i].role = "tool" /\ t[i].calls = <<>> /\ t[i].answers = <<asked[i]>>
  PROVE  PairedBut(w \o t, FALSE)
<1>1. PICK n, m, v : n = Len(w) /\ m = Len(asked) /\ v = w \o t
  OBVIOUS
<1>2. n \in Nat \ {0} /\ w \in Seq(WireMessages)
  BY <1>1 DEF PairedBut
<1>3. m \in Nat /\ asked \in Seq(UseIds)
  <2>1. w[n] \in WireMessages
    BY <1>1, <1>2
  <2> QED
    BY <1>1, <2>1, WireMessageType
<1>4. /\ v \in Seq(WireMessages) /\ Len(v) = n + m
      /\ \A k \in 1..n : v[k] = w[k]
      /\ \A i \in 1..m : v[n + i] = t[i]
  <2>1. Len(w) = n /\ Len(t) = m
    BY <1>1
  <2>2. /\ w \o t \in Seq(WireMessages) /\ Len(w \o t) = Len(w) + Len(t)
        /\ \A k \in 1..Len(w) : (w \o t)[k] = w[k]
        /\ \A i \in 1..Len(t) : (w \o t)[Len(w) + i] = t[i]
    BY <1>2, WireConcat
  <2> QED
    BY <1>1, <2>1, <2>2
<1>5. ASSUME NEW k \in 1..(n + m) PROVE k \in 1..n \/ (k - n \in 1..m /\ k = n + (k - n))
  BY <1>2, <1>3
<1>6. ASSUME NEW k \in 1..(n + m), NEW i \in 1..Len(v[k].calls)
      PROVE  k + i <= n + m /\ v[k + i].role = "tool" /\ v[k + i].answers = <<v[k].calls[i]>>
  <2>1. CASE k = n
    <3>1. v[k].calls = asked /\ i \in 1..m
      BY <1>1, <1>2, <1>4, <1>6, <2>1
    <3>2. v[k + i] = t[i] /\ k + i <= n + m
      BY <1>2, <1>3, <1>4, <2>1, <3>1
    <3>3. t[i].role = "tool" /\ t[i].answers = <<asked[i]>>
      BY <1>1, <3>1
    <3> QED
      BY <3>1, <3>2, <3>3
  <2>2. CASE k \in 1..n /\ k # n
    <3>1. /\ k + i <= n /\ w[k + i].role = "tool" /\ w[k + i].answers = <<w[k].calls[i]>>
      BY <1>1, <1>4, <1>6, <2>2 DEF PairedBut
    <3>2. Len(w[k].calls) \in Nat
      <4>1. w[k] \in WireMessages
        BY <1>1, <1>2, <2>2
      <4> QED
        BY <4>1, WireMessageType
    <3>3. k + i \in 1..n
      BY <1>2, <1>4, <1>6, <2>2, <3>1, <3>2
    <3>4. k + i <= n + m
      BY <1>2, <1>3, <3>3
    <3> QED
      BY <1>4, <2>2, <3>1, <3>3, <3>4
  <2>3. CASE k \notin 1..n
    <3>1. PICK l \in 1..m : k = n + l
      BY <1>5, <2>3
    <3>2. v[k].calls = <<>>
      BY <1>1, <1>4, <3>1
    <3> QED
      BY <1>6, <3>2
  <2> QED
    BY <2>1, <2>2, <2>3
<1>7. ASSUME NEW k \in 1..(n + m), v[k].role = "tool"
      PROVE  \E j \in 1..(k - 1) : (k - j) \in 1..Len(v[j].calls)
  <2>1. CASE k \in 1..n
    <3>1. PICK j \in 1..(k - 1) : (k - j) \in 1..Len(w[j].calls)
      BY <1>1, <1>4, <1>7, <2>1 DEF PairedBut
    <3>2. j \in 1..n
      BY <1>2, <2>1, <3>1
    <3> QED
      BY <1>4, <3>1, <3>2
  <2>2. CASE k \notin 1..n
    <3>1. PICK l \in 1..m : k = n + l
      BY <1>5, <2>2
    <3>2. n \in 1..(k - 1) /\ k - n = l /\ n \in 1..n
      BY <1>2, <1>3, <3>1
    <3>3. v[n].calls = asked
      BY <1>1, <1>4, <3>2
    <3> QED
      BY <1>1, <3>1, <3>2, <3>3
  <2> QED
    BY <2>1, <2>2
<1>8. PairedBut(v, FALSE)
  BY <1>4, <1>6, <1>7 DEF PairedBut
<1> QED
  BY <1>1, <1>8

(* The system prompt is the first message, and no later one is a system message. *)
LEMMA SystemFirstGrows ==
  ASSUME NEW w \in Seq(WireMessages), NEW t \in Seq(WireMessages), NEW prompted,
         SystemFirst(w, prompted), prompted => w # <<>>, \A i \in 1..Len(t) : t[i].role # "system"
  PROVE  SystemFirst(w \o t, prompted)
<1>1. PICK n, m, v, S : n = Len(w) /\ m = Len(t) /\ v = w \o t /\ S = WireMessages
  OBVIOUS
<1>2. w \in Seq(S) /\ t \in Seq(S) /\ n \in Nat /\ m \in Nat /\ (prompted => n # 0)
  BY <1>1
<1>3. Len(v) = n + m /\ (\A k \in 1..n : v[k] = w[k]) /\ \A i \in 1..m : v[n + i] = t[i]
  BY <1>1, <1>2
<1> SUFFICES ASSUME NEW k \in 1..(n + m) PROVE v[k].role = "system" <=> prompted /\ k = 1
  BY <1>1, <1>3 DEF SystemFirst
<1>4. CASE k \in 1..n
  BY <1>1, <1>3, <1>4 DEF SystemFirst
<1>5. CASE k \notin 1..n
  <2>1. k - n \in 1..m /\ k = n + (k - n) /\ (n # 0 => k # 1)
    BY <1>2, <1>5
  <2>2. v[k].role # "system"
    BY <1>1, <1>3, <2>1
  <2> QED
    BY <1>2, <2>1, <2>2
<1> QED
  BY <1>4, <1>5

-----------------------------------------------------------------------------
UseIdsOf(m) == [i \in DOMAIN m.uses |-> m.uses[i].id]

LEMMA UseIdsType ==
  ASSUME NEW m \in Messages
  PROVE  /\ UseIdsOf(m) \in Seq(UseIds) /\ Len(UseIdsOf(m)) = Len(m.uses) /\ Len(m.uses) \in Nat
         /\ DOMAIN m.uses = 1..Len(m.uses)
         /\ m.uses = <<>> <=> UseIdsOf(m) = <<>>
<1>1. m.uses \in Seq(ToolUses)
  BY DEF Messages
<1>2. \A i \in DOMAIN m.uses : m.uses[i].id \in UseIds
  <2>1. \A i \in DOMAIN m.uses : m.uses[i] \in ToolUses
    BY <1>1
  <2> QED
    BY <2>1 DEF ToolUses
<1>3. Len(m.uses) \in Nat /\ DOMAIN m.uses = 1..Len(m.uses)
  BY <1>1
<1>4. UseIdsOf(m) \in Seq(UseIds) /\ Len(UseIdsOf(m)) = Len(m.uses)
  BY <1>2, <1>3 DEF UseIdsOf
<1>5. m.uses = <<>> <=> Len(m.uses) = 0
  BY <1>1
<1> QED
  BY <1>3, <1>4, <1>5

(* What becomes of a message that is no user's. *)
LEMMA SingleToOpenAi ==
  ASSUME NEW m \in Messages, m.role # "user"
  PROVE  \E x \in WireMessages :
           /\ MessageToOpenAi(m) = <<x>>
           /\ x.role = m.role
           /\ x.calls = IF m.role = "assistant" THEN UseIdsOf(m) ELSE <<>>
<1>1. UseIdsOf(m) \in Seq(UseIds) /\ m.text \in BOOLEAN /\ m.role \in Roles
  BY UseIdsType DEF Messages
<1>2. CASE m.role = "system"
  <2> DEFINE x == OpenAiMessage("system", TRUE, <<>>, <<>>)
  <2>1. x \in WireMessages /\ x.role = "system" /\ x.calls = <<>>
    BY DEF OpenAiMessage, WireMessages
  <2>2. MessageToOpenAi(m) = <<x>>
    BY <1>2 DEF MessageToOpenAi
  <2> QED
    BY <1>2, <2>1, <2>2
<1>3. CASE m.role = "assistant"
  <2>1. AssistantToOpenAi(m) = OpenAiMessage("assistant", m.text, UseIdsOf(m), <<>>)
    BY DEF AssistantToOpenAi, UseIdsOf
  <2>2. /\ AssistantToOpenAi(m) \in WireMessages
        /\ AssistantToOpenAi(m).role = "assistant" /\ AssistantToOpenAi(m).calls = UseIdsOf(m)
    BY <1>1, <2>1 DEF OpenAiMessage, WireMessages
  <2>3. MessageToOpenAi(m) = <<AssistantToOpenAi(m)>>
    BY <1>3 DEF MessageToOpenAi
  <2> QED
    BY <1>3, <2>2, <2>3
<1> QED
  BY <1>1, <1>2, <1>3 DEF Roles

(* A user's message: the results, and then the text. *)
LEMMA UserWire ==
  ASSUME NEW m \in Messages, m.role = "user"
  PROVE  \E t \in Seq(WireMessages), r \in Seq(WireMessages) :
           /\ MessageToOpenAi(m) = t \o r
           /\ Len(t) = Len(m.results)
           /\ \A i \in 1..Len(m.results) :
                t[i].role = "tool" /\ t[i].calls = <<>> /\ t[i].answers = <<m.results[i].id>>
           /\ \/ r = <<>>
              \/ \E x \in WireMessages : r = <<x>> /\ x.role = "user" /\ x.calls = <<>>
<1> DEFINE t == [i \in DOMAIN m.results |-> ResultToOpenAi(m.results[i])]
           x == OpenAiMessage("user", TRUE, <<>>, <<>>)
           r == IF m.text THEN <<x>> ELSE <<>>
<1>1. m.results \in Seq(ToolResults) /\ \A i \in DOMAIN m.results : m.results[i].id \in UseIds
  <2>1. m.results \in Seq(ToolResults)
    BY DEF Messages
  <2>2. \A i \in DOMAIN m.results : m.results[i] \in ToolResults
    BY <2>1
  <2> QED
    BY <2>1, <2>2 DEF ToolResults
<1>2. \A i \in DOMAIN m.results : t[i] \in WireMessages /\ t[i].role = "tool" /\ t[i].calls = <<>> /\ t[i].answers = <<m.results[i].id>>
  BY <1>1 DEF ResultToOpenAi, OpenAiMessage, WireMessages
<1>3. t \in Seq(WireMessages) /\ Len(t) = Len(m.results) /\ DOMAIN m.results = 1..Len(m.results)
  <2>2. Len(m.results) \in Nat /\ DOMAIN m.results = 1..Len(m.results)
    BY <1>1
  <2>1. \A i \in 1..Len(m.results) : ResultToOpenAi(m.results[i]) \in WireMessages
    <3> SUFFICES ASSUME NEW i \in DOMAIN m.results PROVE ResultToOpenAi(m.results[i]) \in WireMessages
      BY <2>2
    <3>1. t[i] = ResultToOpenAi(m.results[i])
      OBVIOUS
    <3> HIDE DEF t, WireMessages
    <3> QED
      BY <1>2, <3>1
  <2> HIDE DEF WireMessages
  <2> QED
    BY <2>1, <2>2
<1>4. x \in WireMessages /\ x.role = "user" /\ x.calls = <<>>
  BY DEF OpenAiMessage, WireMessages
<1>5. r \in Seq(WireMessages) /\ (r = <<>> \/ r = <<x>>)
  <2> HIDE DEF x, WireMessages
  <2> QED
    BY <1>4
<1>6. MessageToOpenAi(m) = t \o r
  BY DEF MessageToOpenAi, UserToOpenAi
<1> HIDE DEF t, r, x
<1> QED
  BY <1>2, <1>3, <1>4, <1>5, <1>6

LEMMA MessageWire ==
  ASSUME NEW m \in Messages
  PROVE  MessageToOpenAi(m) \in Seq(WireMessages)
<1>1. CASE m.role = "user"
  <2>1. PICK t \in Seq(WireMessages), r \in Seq(WireMessages) : MessageToOpenAi(m) = t \o r
    BY <1>1, UserWire
  <2> QED
    BY <2>1, WireConcat
<1>2. CASE m.role # "user"
  <2>1. PICK x \in WireMessages : MessageToOpenAi(m) = <<x>>
    BY <1>2, SingleToOpenAi
  <2> QED
    BY <2>1
<1> QED
  BY <1>1, <1>2

(* The first n messages on the wire. *)
WireOf(ms, n) == FlattenSeq([k \in 1..n |-> MessageToOpenAi(ms[k])])

LEMMA WireNext ==
  ASSUME NEW ms \in Seq(Messages), NEW n \in Nat, n < Len(ms)
  PROVE  /\ WireOf(ms, 0) = <<>>
         /\ WireOf(ms, n + 1) = WireOf(ms, n) \o MessageToOpenAi(ms[n + 1])
<1> DEFINE f(m) == [k \in 1..m |-> MessageToOpenAi(ms[k])]
<1>1. \A k \in 1..Len(ms) : ms[k] \in Messages
  OBVIOUS
<1>2. \A k \in 1..Len(ms) : MessageToOpenAi(ms[k]) \in Seq(WireMessages)
  BY <1>1, MessageWire
<1>3. n + 1 \in 1..Len(ms) /\ \A k \in 1..n : k \in 1..Len(ms)
  OBVIOUS
<1>4. f(n) \in Seq(Seq(WireMessages)) /\ MessageToOpenAi(ms[n + 1]) \in Seq(WireMessages)
  BY <1>2, <1>3
<1>5. f(n + 1) = Append(f(n), MessageToOpenAi(ms[n + 1]))
  OBVIOUS
<1>6. FlattenSeq(f(n + 1)) = FlattenSeq(f(n)) \o MessageToOpenAi(ms[n + 1])
  <2> HIDE DEF f
  <2> QED
    BY <1>4, <1>5, FlattenAppend
<1>7. f(0) = <<>>
  OBVIOUS
<1> QED
  BY <1>6, <1>7, FlattenEmpty DEF WireOf

Asks(ms, n) == n # 0 /\ ms[n].uses # <<>>

Prompted(ms) == ms # <<>> /\ ms[1].role = "system"

WireGood(w, ms, n) ==
  /\ PairedBut(w, Asks(ms, n))
  /\ Asks(ms, n) => w # <<>> /\ w[Len(w)].calls = UseIdsOf(ms[n])
  /\ SystemFirst(w, Prompted(ms))
  /\ n # 0 /\ Prompted(ms) => w # <<>>

LEMMA PairedNone == PairedBut(<<>>, FALSE) /\ \A prompted : SystemFirst(<<>>, prompted)
<1>1. <<>> \in Seq(WireMessages) /\ 1..Len(<<>>) = {}
  OBVIOUS
<1> QED
  BY <1>1 DEF PairedBut, SystemFirst

LEMMA SendableMessage ==
  ASSUME NEW ms, NEW n, Sendable(ms, n), NEW k \in 1..n
  PROVE  /\ ms[k] \in Messages /\ ms[k].role \in Roles
         /\ ms[k].uses \in Seq(ToolUses) /\ ms[k].results \in Seq(ToolResults)
         /\ ms[k].role # "assistant" => ms[k].uses = <<>>
<1>1. ms[k] \in Messages
  BY DEF Sendable
<1>2. ms[k].role \in Roles /\ ms[k].uses \in Seq(ToolUses) /\ ms[k].results \in Seq(ToolResults)
  BY <1>1 DEF Messages
<1> QED
  BY <1>1, <1>2 DEF Sendable, Roles

(* One message more. *)
LEMMA WireStep ==
  ASSUME NEW ms, NEW len, Sendable(ms, len), NEW n \in Nat, n < len,
         NEW w, WireGood(w, ms, n), n = 0 => w = <<>>,
         NEW out, out = MessageToOpenAi(ms[n + 1])
  PROVE  WireGood(w \o out, ms, n + 1)
<1> DEFINE m == ms[n + 1]
           k == n + 1
<1>1. k \in 1..len /\ k \in Nat /\ k # 0 /\ k - 1 = n /\ len \in Nat
  BY DEF Sendable
<1>2. /\ m \in Messages /\ m.role \in Roles /\ m.results \in Seq(ToolResults)
      /\ m.role # "assistant" => m.uses = <<>>
  BY <1>1, SendableMessage
<1>3. w \in Seq(WireMessages) /\ PairedBut(w, Asks(ms, n)) /\ Asks(ms, n) \in BOOLEAN
  BY DEF WireGood, PairedBut, Asks
<1>4. Asks(ms, k) <=> m.uses # <<>>
  BY <1>1 DEF Asks
<1>5. Prompted(ms) => ms[1].role = "system"
  BY DEF Prompted
<1>6. m.role = "system" <=> n = 0 /\ Prompted(ms)
  <2>1. ms # <<>> /\ Len(ms) = len
    BY <1>1 DEF Sendable
  <2>2. m.role = "system" => k = 1
    BY <1>1 DEF Sendable
  <2> QED
    BY <1>1, <2>1, <2>2 DEF Prompted
<1>7. n = 0 => w = <<>>
  OBVIOUS
<1>8. Asks(ms, n) => m.role = "user" /\ Len(m.results) = Len(ms[n].uses)
                     /\ \A i \in 1..Len(m.results) : m.results[i].id = UseIdsOf(ms[n])[i]
  <2> SUFFICES ASSUME Asks(ms, n)
               PROVE  m.role = "user" /\ Len(m.results) = Len(ms[n].uses)
                      /\ \A i \in 1..Len(m.results) : m.results[i].id = UseIdsOf(ms[n])[i]
    OBVIOUS
  <2>1. n \in 1..len
    BY <1>1 DEF Asks
  <2>2. Answers(m, ms[n])
    BY <2>1 DEF Asks, Sendable
  <2>3. DOMAIN ms[n].uses = 1..Len(ms[n].uses)
    BY <2>1, SendableMessage, UseIdsType
  <2> QED
    BY <2>2, <2>3 DEF Answers, UseIdsOf
<1>9. m.results # <<>> => Asks(ms, n)
  <2> SUFFICES ASSUME m.results # <<>> PROVE Asks(ms, n)
    OBVIOUS
  <2>1. k > 1 /\ Answers(m, ms[n])
    BY <1>1 DEF Sendable
  <2>2. n \in 1..len
    BY <1>1, <2>1
  <2>3. Len(m.results) # 0
    BY <1>2
  <2>4. ms[n].uses # <<>>
    BY <2>1, <2>3 DEF Answers
  <2> QED
    BY <2>2, <2>4 DEF Asks
<1> HIDE DEF m, k
<1>10. CASE m.role # "user"
  <2>1. PICK x \in WireMessages :
          /\ out = <<x>> /\ x.role = m.role
          /\ x.calls = IF m.role = "assistant" THEN UseIdsOf(m) ELSE <<>>
    BY <1>2, <1>10, SingleToOpenAi DEF m, k
  <2>2. ~Asks(ms, n)
    BY <1>8, <1>10
  <2>3. PairedBut(w, FALSE)
    BY <1>3, <2>2
  <2>4. x.role # "tool" /\ x.calls = UseIdsOf(m)
    BY <1>2, <1>10, <2>1, UseIdsType DEF Roles
  <2>5. PairedBut(Append(w, x), Asks(ms, k))
    <3>1. Asks(ms, k) \in BOOLEAN /\ (Asks(ms, k) \/ x.calls = <<>>)
      <4>1. Asks(ms, k) \/ x.calls = <<>>
        BY <1>2, <1>4, <2>4, UseIdsType
      <4> QED
        BY <4>1 DEF Asks
    <3> QED
      BY <2>3, <2>4, <3>1, PairedAppend
  <2>6. w \o out = Append(w, x)
    BY <1>3, <2>1
  <2>7. Append(w, x) # <<>> /\ Append(w, x)[Len(Append(w, x))] = x
    BY <1>3
  <2>8. SystemFirst(w \o out, Prompted(ms))
    <3>1. CASE m.role = "system"
      <4>1. w \o out = <<x>> /\ Prompted(ms) /\ x.role = "system"
        BY <1>6, <1>7, <2>1, <3>1
      <4>2. Len(<<x>>) = 1 /\ <<x>>[1] = x /\ \A i \in 1..1 : i = 1
        OBVIOUS
      <4>3. SystemFirst(<<x>>, Prompted(ms))
        BY <4>1, <4>2 DEF SystemFirst
      <4> QED
        BY <4>1, <4>3
    <3>2. CASE m.role # "system"
      <4>1. out \in Seq(WireMessages) /\ \A i \in 1..Len(out) : out[i].role # "system"
        BY <2>1, <3>2
      <4>2. SystemFirst(w, Prompted(ms)) /\ (Prompted(ms) => w # <<>>)
        BY <1>6, <3>2 DEF WireGood
      <4> QED
        BY <1>3, <4>1, <4>2, SystemFirstGrows
    <3> QED
      BY <3>1, <3>2
  <2> QED
    BY <2>4, <2>5, <2>6, <2>7, <2>8 DEF WireGood, m, k
<1>11. CASE m.role = "user"
  <2>1. PICK t \in Seq(WireMessages), r \in Seq(WireMessages) :
          /\ out = t \o r
          /\ Len(t) = Len(m.results)
          /\ \A i \in 1..Len(m.results) :
               t[i].role = "tool" /\ t[i].calls = <<>> /\ t[i].answers = <<m.results[i].id>>
          /\ \/ r = <<>>
             \/ \E x \in WireMessages : r = <<x>> /\ x.role = "user" /\ x.calls = <<>>
    BY <1>2, <1>11, UserWire DEF m, k
  <2>2. PairedBut(w \o t, FALSE)
    <3>1. CASE Asks(ms, n)
      <4> DEFINE asked == UseIdsOf(ms[n])
      <4>1. w # <<>> /\ asked = w[Len(w)].calls /\ PairedBut(w, TRUE)
        BY <1>3, <3>1 DEF WireGood
      <4>2. n \in 1..len
        BY <1>1, <3>1 DEF Asks
      <4>3. Len(asked) = Len(m.results)
        BY <1>8, <3>1, <4>2, SendableMessage, UseIdsType
      <4>4. \A i \in 1..Len(asked) : t[i].role = "tool" /\ t[i].calls = <<>> /\ t[i].answers = <<asked[i]>>
        BY <1>8, <2>1, <3>1, <4>3
      <4>5. Len(t) = Len(asked)
        BY <2>1, <4>3
      <4> HIDE DEF asked
      <4> QED
        BY <4>1, <4>4, <4>5, PairedAnswers
    <3>2. CASE ~Asks(ms, n)
      <4>1. m.results = <<>>
        BY <1>9, <3>2
      <4>2. t = <<>>
        BY <2>1, <4>1
      <4>3. w \o t = w
        BY <1>3, <4>2
      <4> QED
        BY <1>3, <3>2, <4>3
    <3> QED
      BY <3>1, <3>2
  <2>3. w \o t \in Seq(WireMessages)
    BY <2>2 DEF PairedBut
  <2>4. w \o out = (w \o t) \o r
    <3> HIDE DEF WireMessages
    <3> QED
      BY <1>3, <2>1, SMTT(30)
  <2>5. PairedBut(w \o out, FALSE)
    <3>1. CASE r = <<>>
      <4>1. (w \o t) \o r = w \o t
        BY <2>3, <3>1
      <4> QED
        BY <2>2, <2>4, <4>1
    <3>2. CASE r # <<>>
      <4>1. PICK x \in WireMessages : r = <<x>> /\ x.role = "user" /\ x.calls = <<>>
        BY <2>1, <3>2
      <4>2. (w \o t) \o r = Append(w \o t, x)
        BY <2>3, <4>1
      <4>3. PairedBut(Append(w \o t, x), FALSE)
        BY <2>2, <4>1, PairedAppend
      <4> QED
        BY <2>4, <4>2, <4>3
    <3> QED
      BY <3>1, <3>2
  <2>6. ~Asks(ms, k)
    BY <1>2, <1>4, <1>11
  <2>7. Prompted(ms) => w # <<>>
    BY <1>6, <1>11 DEF WireGood
  <2>8. SystemFirst(w \o t, Prompted(ms))
    <3>1. \A i \in 1..Len(t) : t[i].role # "system"
      BY <2>1
    <3> QED
      BY <1>3, <2>1, <2>7, <3>1, SystemFirstGrows DEF WireGood
  <2>9. SystemFirst(w \o out, Prompted(ms))
    <3>1. \A i \in 1..Len(r) : r[i].role # "system"
      BY <2>1
    <3>2. Prompted(ms) => w \o t # <<>>
      <4> HIDE DEF WireMessages
      <4> QED
        BY <1>3, <2>1, <2>7
    <3> QED
      BY <2>1, <2>3, <2>4, <2>8, <3>1, <3>2, SystemFirstGrows
  <2>10. Prompted(ms) => w \o out # <<>>
    <3>1. out \in Seq(WireMessages)
      BY <2>1, WireConcat
    <3> HIDE DEF WireMessages
    <3> QED
      BY <1>3, <2>7, <3>1
  <2>11. PairedBut(w \o out, Asks(ms, k))
    BY <2>5, <2>6 DEF Asks
  <2> QED
    BY <2>6, <2>9, <2>10, <2>11 DEF WireGood, k
<1> QED
  BY <1>10, <1>11

(* The whole list. *)
LEMMA OpenAiSends ==
  ASSUME NEW ms, NEW n, Sendable(ms, n), n # 0
  PROVE  /\ OpenAiPaired(OpenAiRequest(ms))
         /\ \A k \in DOMAIN OpenAiRequest(ms) :
              OpenAiRequest(ms)[k].role = "system" <=> Prompted(ms) /\ k = 1
<1> DEFINE Holds == {k \in 0..n : WireGood(WireOf(ms, k), ms, k)}
<1>1. n \in Nat /\ n = Len(ms) /\ ms \in Seq(Messages)
  BY DEF Sendable
<1>2. WireOf(ms, 0) = <<>>
  <2>1. 0 \in Nat /\ 0 < Len(ms)
    BY <1>1
  <2> QED
    BY <1>1, <2>1, WireNext
<1>3. 0 \in Holds
  <2>1. ~Asks(ms, 0) /\ Asks(ms, 0) = FALSE
    BY DEF Asks
  <2>2. WireGood(<<>>, ms, 0)
    BY <2>1, PairedNone DEF WireGood
  <2> QED
    BY <1>1, <1>2, <2>2
<1>4. ASSUME NEW k \in 0..n, k \in Holds, k < n PROVE k + 1 \in Holds
  <2>1. k \in Nat /\ k + 1 \in 0..n /\ k < Len(ms)
    BY <1>1, <1>4
  <2>2. PICK w, out : w = WireOf(ms, k) /\ out = MessageToOpenAi(ms[k + 1])
    OBVIOUS
  <2>3. WireGood(w, ms, k) /\ (k = 0 => w = <<>>)
    BY <1>2, <1>4, <2>2
  <2>4. WireGood(w \o out, ms, k + 1)
    BY <1>4, <2>1, <2>2, <2>3, WireStep
  <2>5. WireOf(ms, k + 1) = w \o out
    BY <1>1, <2>1, <2>2, WireNext
  <2> QED
    BY <2>1, <2>4, <2>5
<1> HIDE DEF Holds
<1>5. n \in Holds
  BY <1>1, <1>3, <1>4, InductionUpTo
<1>6. WireGood(WireOf(ms, n), ms, n)
  BY <1>5 DEF Holds
<1>7. OpenAiRequest(ms) = WireOf(ms, n)
  BY <1>1 DEF OpenAiRequest, WireOf
<1>8. ~Asks(ms, n)
  BY <1>1 DEF Asks, Sendable
<1>9. PICK w : w = WireOf(ms, n)
  OBVIOUS
<1>10. PairedBut(w, FALSE) /\ SystemFirst(w, Prompted(ms))
  BY <1>6, <1>8, <1>9 DEF WireGood, Asks
<1>11. w \in Seq(WireMessages) /\ DOMAIN w = 1..Len(w)
  BY <1>10 DEF PairedBut
<1>12. \A k \in 1..Len(w) : DOMAIN w[k].calls = 1..Len(w[k].calls)
  <2>1. \A k \in 1..Len(w) : w[k] \in WireMessages
    BY <1>11
  <2>2. \A k \in 1..Len(w) : w[k].calls \in Seq(UseIds)
    BY <2>1, WireMessageType
  <2> QED
    BY <2>2
<1>13. OpenAiPaired(w)
  <2>1. \A k \in DOMAIN w : \A i \in DOMAIN w[k].calls :
          k + i <= Len(w) /\ w[k + i].role = "tool" /\ w[k + i].answers = <<w[k].calls[i]>>
    BY <1>10, <1>11, <1>12 DEF PairedBut
  <2>2. ASSUME NEW k \in DOMAIN w, w[k].role = "tool"
        PROVE  \E j \in 1..(k - 1) : (k - j) \in DOMAIN w[j].calls
    <3>1. PICK j \in 1..(k - 1) : (k - j) \in 1..Len(w[j].calls)
      BY <1>10, <1>11, <2>2 DEF PairedBut
    <3>2. j \in 1..Len(w)
      BY <1>11, <2>2, <3>1
    <3> QED
      BY <1>12, <3>1, <3>2
  <2> QED
    BY <2>1, <2>2 DEF OpenAiPaired
<1> QED
  BY <1>7, <1>9, <1>10, <1>11, <1>13 DEF SystemFirst

-----------------------------------------------------------------------------
LEMMA AscendingRest ==
  ASSUME NEW n \in Nat
  PROVE  Ascending(2..(n + 1), n + 1) = [k \in 1..n |-> k + 1]
<1> DEFINE S == 2..(n + 1)
           Holds == {m \in 0..n : Ascending(S, m + 1) = [k \in 1..m |-> k + 1]}
<1>1. 0 \in Holds
  <2>1. Ascending(S, 0 + 1) = IF 0 + 1 \in S THEN Append(Ascending(S, 0), 0 + 1) ELSE Ascending(S, 0)
    BY AscendingNext
  <2>2. 0 + 1 \notin S /\ Ascending(S, 0) = <<>>
    BY AscendingNext
  <2> QED
    BY <2>1, <2>2
<1>2. ASSUME NEW m \in 0..n, m \in Holds, m < n PROVE m + 1 \in Holds
  <2>1. m + 1 \in Nat /\ (m + 1) + 1 \in S /\ m + 1 \in 0..n
    BY <1>2
  <2>2. Ascending(S, (m + 1) + 1) = Append(Ascending(S, m + 1), (m + 1) + 1)
    <3> HIDE DEF S
    <3> QED
      BY <2>1, AscendingNext
  <2>3. Append([k \in 1..m |-> k + 1], (m + 1) + 1) = [k \in 1..(m + 1) |-> k + 1]
    OBVIOUS
  <2> QED
    BY <1>2, <2>1, <2>2, <2>3
<1> HIDE DEF Holds
<1>3. n \in Holds
  BY <1>1, <1>2, InductionUpTo
<1> QED
  BY <1>3 DEF Holds

Headed(head, ms) == head \o ms

(* What a system prompt at the head changes. *)
LEMMA HeadedFacts ==
  ASSUME NEW ms \in Seq(Messages)
  PROVE  LET all == Headed(<<SystemMessage>>, ms)
         IN  /\ all \in Seq(Messages) /\ Len(all) = Len(ms) + 1 /\ DOMAIN all = 1..(Len(ms) + 1)
             /\ all[1] = SystemMessage
             /\ \A k \in 1..Len(ms) : all[k + 1] = ms[k]
<1>1. SystemMessage \in Messages
  BY DEF SystemMessage, Messages, Roles
<1>2. PICK S, x : S = Messages /\ x = SystemMessage
  OBVIOUS
<1>3. x \in S /\ ms \in Seq(S)
  BY <1>1, <1>2
<1>4. LET all == <<x>> \o ms
      IN  /\ all \in Seq(S) /\ Len(all) = Len(ms) + 1 /\ DOMAIN all = 1..(Len(ms) + 1)
          /\ all[1] = x
          /\ \A k \in 1..Len(ms) : all[k + 1] = ms[k]
  BY <1>3
<1> QED
  BY <1>2, <1>4 DEF Headed

NoSystem(ms) == \A k \in 1..Len(ms) : ms[k].role # "system"

LEMMA SendableHeaded ==
  ASSUME NEW ms, NEW n, Sendable(ms, n), NoSystem(ms)
  PROVE  Sendable(Headed(<<SystemMessage>>, ms), n + 1)
<1>1. ms \in Seq(Messages) /\ n \in Nat /\ n = Len(ms)
  BY DEF Sendable
<1>2. PICK all : all = Headed(<<SystemMessage>>, ms)
  OBVIOUS
<1>3. /\ all \in Seq(Messages) /\ Len(all) = n + 1
      /\ all[1] = SystemMessage
      /\ \A k \in 1..n : all[k + 1] = ms[k]
  BY <1>1, <1>2, HeadedFacts
<1>4. /\ all[1].role = "system" /\ all[1].uses = <<>> /\ all[1].results = <<>>
  BY <1>3 DEF SystemMessage
<1>5. ASSUME NEW k \in 1..(n + 1), k # 1
      PROVE  \E j \in 1..n : k = j + 1 /\ all[k] = ms[j]
  <2>1. k - 1 \in 1..n /\ k = (k - 1) + 1
    BY <1>1, <1>5
  <2> QED
    BY <1>3, <2>1
<1>6. \A k \in 1..(n + 1) : all[k].role = "system" => k = 1 /\ all[k].uses = <<>> /\ all[k].results = <<>>
  BY <1>1, <1>4, <1>5 DEF NoSystem
<1>7. \A k \in 1..(n + 1) : all[k].role = "user" => all[k].uses = <<>>
  BY <1>4, <1>5 DEF Sendable
<1>8. \A k \in 1..(n + 1) : all[k].role = "assistant" => all[k].results = <<>>
  BY <1>4, <1>5 DEF Sendable
<1>9. ASSUME NEW k \in 1..(n + 1), all[k].uses # <<>>
      PROVE  k < n + 1 /\ Answers(all[k + 1], all[k])
  <2>1. PICK j \in 1..n : k = j + 1 /\ all[k] = ms[j]
    BY <1>4, <1>5, <1>9
  <2>2. j < n /\ Answers(ms[j + 1], ms[j])
    BY <1>9, <2>1 DEF Sendable
  <2>3. j + 1 \in 1..n /\ k < n + 1
    BY <1>1, <2>1, <2>2
  <2> QED
    BY <1>3, <2>1, <2>2, <2>3
<1>10. ASSUME NEW k \in 1..(n + 1), all[k].results # <<>>
       PROVE  k > 1 /\ Answers(all[k], all[k - 1])
  <2>1. PICK j \in 1..n : k = j + 1 /\ all[k] = ms[j]
    BY <1>4, <1>5, <1>10
  <2>2. j > 1 /\ Answers(ms[j], ms[j - 1])
    BY <1>10, <2>1 DEF Sendable
  <2>3. j - 1 \in 1..n /\ k - 1 = (j - 1) + 1 /\ k > 1
    BY <1>1, <2>1, <2>2
  <2> QED
    BY <1>3, <2>1, <2>2, <2>3
<1> QED
  BY <1>1, <1>2, <1>3, <1>6, <1>7, <1>8, <1>9, <1>10, SMTT(30) DEF Sendable

(* Anthropic's messages are those of the transcript, one for one. *)
LEMMA AnthropicTurns ==
  ASSUME NEW ms \in Seq(Messages), NoSystem(ms)
  PROVE  /\ AnthropicRequest(Headed(<<>>, ms)) =
              [system |-> FALSE, messages |-> [k \in DOMAIN ms |-> MessageToAnthropic(ms[k])]]
         /\ AnthropicRequest(Headed(<<SystemMessage>>, ms)) =
              [system |-> TRUE, messages |-> [k \in DOMAIN ms |-> MessageToAnthropic(ms[k])]]
<1>1. PICK n : n = Len(ms)
  OBVIOUS
<1>2. n \in Nat /\ DOMAIN ms = 1..n
  BY <1>1
<1>3. Headed(<<>>, ms) = ms
  BY DEF Headed
<1>4. PICK all : all = Headed(<<SystemMessage>>, ms)
  OBVIOUS
<1>5. /\ Len(all) = n + 1 /\ DOMAIN all = 1..(n + 1) /\ all[1] = SystemMessage
      /\ \A k \in 1..n : all[k + 1] = ms[k]
  BY <1>1, <1>4, HeadedFacts
<1>6. At(ms, Ascending({k \in DOMAIN ms : ms[k].role # "system"}, n)) = ms
  <2>1. {k \in DOMAIN ms : ms[k].role # "system"} = 1..n
    BY <1>1, <1>2 DEF NoSystem
  <2>2. Ascending(1..n, n) = [k \in 1..n |-> k]
    BY <1>2, AscendingAll
  <2>3. At(ms, [k \in 1..n |-> k]) = [k \in 1..n |-> ms[k]]
    BY <1>2 DEF At
  <2>4. ms = [k \in 1..n |-> ms[k]]
    BY <1>2
  <2> QED
    BY <2>1, <2>2, <2>3, <2>4
<1>7. At(all, Ascending({k \in DOMAIN all : all[k].role # "system"}, n + 1)) = ms
  <2>1. {k \in DOMAIN all : all[k].role # "system"} = 2..(n + 1)
    <3>1. all[1].role = "system"
      BY <1>5 DEF SystemMessage
    <3>2. \A k \in 2..(n + 1) : all[k].role # "system"
      <4> SUFFICES ASSUME NEW k \in 2..(n + 1) PROVE all[k].role # "system"
        OBVIOUS
      <4>1. k - 1 \in 1..n /\ (k - 1) + 1 = k
        BY <1>2
      <4> QED
        BY <1>1, <1>5, <4>1 DEF NoSystem
    <3>3. \A k \in 1..(n + 1) : k = 1 \/ k \in 2..(n + 1)
      BY <1>2
    <3>4. 2..(n + 1) \subseteq 1..(n + 1) /\ 1 \notin 2..(n + 1)
      BY <1>2
    <3> QED
      BY <1>5, <3>1, <3>2, <3>3, <3>4
  <2>2. Ascending(2..(n + 1), n + 1) = [k \in 1..n |-> k + 1]
    BY <1>2, AscendingRest
  <2>3. At(all, [k \in 1..n |-> k + 1]) = [k \in 1..n |-> ms[k]]
    BY <1>5 DEF At
  <2>4. ms = [k \in 1..n |-> ms[k]]
    BY <1>2
  <2> QED
    BY <2>1, <2>2, <2>3, <2>4
<1>8. SystemPrompt(ms) = FALSE
  BY <1>1, <1>2 DEF SystemPrompt, NoSystem
<1>9. SystemPrompt(all) = TRUE
  <2>1. 1 \in DOMAIN all /\ all[1].role = "system" /\ ~PastSystemHead(all, 1)
    BY <1>2, <1>5 DEF SystemMessage, PastSystemHead
  <2>2. SystemPrompt(all)
    BY <2>1 DEF SystemPrompt
  <2> QED
    BY <2>2 DEF SystemPrompt
<1>10. AnthropicRequest(ms) = [system |-> FALSE, messages |-> [k \in DOMAIN ms |-> MessageToAnthropic(ms[k])]]
  BY <1>1, <1>6, <1>8 DEF AnthropicRequest
<1>11. AnthropicRequest(all) = [system |-> TRUE, messages |-> [k \in DOMAIN ms |-> MessageToAnthropic(ms[k])]]
  BY <1>5, <1>7, <1>9 DEF AnthropicRequest
<1> QED
  BY <1>3, <1>4, <1>10, <1>11

LEMMA AnthropicSends ==
  ASSUME NEW ms, NEW n, Sendable(ms, n), NEW prompted,
         NEW wire, wire = [system |-> prompted, messages |-> [k \in DOMAIN ms |-> MessageToAnthropic(ms[k])]]
  PROVE  AnthropicPaired(wire) /\ Len(wire.messages) = Len(ms)
<1>1. ms \in Seq(Messages) /\ n \in Nat /\ n = Len(ms) /\ DOMAIN ms = 1..n
  BY DEF Sendable
<1>2. PICK w : w = wire.messages
  OBVIOUS
<1>3. DOMAIN w = 1..n /\ Len(w) = n /\ \A k \in 1..n : w[k] = MessageToAnthropic(ms[k])
  BY <1>1, <1>2
<1>4. ASSUME NEW k \in 1..n
      PROVE  /\ w[k].role = IF ms[k].role = "user" THEN "user" ELSE "assistant"
             /\ w[k].uses = UseIdsOf(ms[k])
             /\ DOMAIN w[k].results = 1..Len(ms[k].results)
             /\ Len(ms[k].results) \in Nat
             /\ \A i \in 1..Len(ms[k].results) : w[k].results[i].id = ms[k].results[i].id
             /\ ms[k].results = <<>> => w[k].results = <<>>
             /\ ms[k].uses = <<>> <=> w[k].uses = <<>>
             /\ DOMAIN ms[k].uses = 1..Len(ms[k].uses)
             /\ UseIdsOf(ms[k]) = [i \in 1..Len(ms[k].uses) |-> ms[k].uses[i].id]
  <2>1. ms[k] \in Messages /\ ms[k].results \in Seq(ToolResults)
    BY SendableMessage
  <2>2. w[k] = MessageToAnthropic(ms[k])
    BY <1>3
  <2>3. w[k].uses = UseIdsOf(ms[k]) /\ w[k].role = IF ms[k].role = "user" THEN "user" ELSE "assistant"
    BY <2>2 DEF MessageToAnthropic, UseIdsOf
  <2>4. w[k].results = [i \in DOMAIN ms[k].results |->
                          [id |-> ms[k].results[i].id, isError |-> ms[k].results[i].outcome # "ok"]]
    BY <2>2 DEF MessageToAnthropic
  <2>5. Len(ms[k].results) \in Nat /\ DOMAIN ms[k].results = 1..Len(ms[k].results)
    BY <2>1
  <2>6. ms[k].results = <<>> => w[k].results = <<>>
    BY <2>4
  <2>7. DOMAIN ms[k].uses = 1..Len(ms[k].uses) /\ (ms[k].uses = <<>> <=> UseIdsOf(ms[k]) = <<>>)
    BY <2>1, UseIdsType
  <2> QED
    BY <2>3, <2>4, <2>5, <2>6, <2>7 DEF UseIdsOf
<1>5. ASSUME NEW k \in 1..n, w[k].uses # <<>>
      PROVE  /\ k < n /\ w[k + 1].role = "user"
             /\ [i \in DOMAIN w[k + 1].results |-> w[k + 1].results[i].id] = w[k].uses
  <2>1. k < n /\ Answers(ms[k + 1], ms[k])
    BY <1>4, <1>5 DEF Sendable
  <2>2. k + 1 \in 1..n
    BY <1>1, <2>1
  <2>3. /\ ms[k + 1].role = "user" /\ Len(ms[k + 1].results) = Len(ms[k].uses)
        /\ \A i \in 1..Len(ms[k].uses) : ms[k + 1].results[i].id = ms[k].uses[i].id
    BY <1>4, <2>1 DEF Answers
  <2>4. w[k + 1].role = "user"
    BY <1>4, <2>2, <2>3
  <2>5. DOMAIN w[k + 1].results = 1..Len(ms[k].uses)
    BY <1>4, <2>2, <2>3
  <2>6. \A i \in 1..Len(ms[k].uses) : w[k + 1].results[i].id = ms[k].uses[i].id
    BY <1>4, <2>2, <2>3
  <2>7. w[k].uses = [i \in 1..Len(ms[k].uses) |-> ms[k].uses[i].id]
    BY <1>4
  <2> QED
    BY <2>1, <2>4, <2>5, <2>6, <2>7
<1>6. ASSUME NEW k \in 1..n, w[k].results # <<>>
      PROVE  k > 1 /\ w[k - 1].uses # <<>>
  <2>1. ms[k].results # <<>>
    BY <1>4, <1>6
  <2>2. k > 1 /\ Answers(ms[k], ms[k - 1])
    BY <2>1 DEF Sendable
  <2>3. k - 1 \in 1..n
    BY <1>1, <2>2
  <2>4. Len(ms[k].results) # 0
    <3>1. ms[k].results \in Seq(ToolResults)
      BY SendableMessage
    <3> QED
      BY <2>1, <3>1
  <2>5. ms[k - 1].uses # <<>>
    BY <2>2, <2>4 DEF Answers
  <2> QED
    BY <1>4, <2>2, <2>3, <2>5
<1>7. AnthropicPaired(wire)
  <2>1. ASSUME NEW k \in DOMAIN wire.messages
        PROVE  LET m == wire.messages[k]
               IN  /\ m.uses # <<>> =>
                        /\ k < Len(wire.messages) /\ wire.messages[k + 1].role = "user"
                        /\ [i \in DOMAIN wire.messages[k + 1].results |-> wire.messages[k + 1].results[i].id] = m.uses
                   /\ m.results # <<>> => k > 1 /\ wire.messages[k - 1].uses # <<>>
    <3>1. k \in 1..n
      BY <1>2, <1>3, <2>1
    <3>2. w[k].uses # <<>> =>
            /\ k < n /\ w[k + 1].role = "user"
            /\ [i \in DOMAIN w[k + 1].results |-> w[k + 1].results[i].id] = w[k].uses
      BY <1>5, <3>1
    <3>3. w[k].results # <<>> => k > 1 /\ w[k - 1].uses # <<>>
      BY <1>6, <3>1
    <3> QED
      BY <1>2, <1>3, <3>2, <3>3
  <2> QED
    BY <2>1 DEF AnthropicPaired
<1> QED
  BY <1>1, <1>2, <1>3, <1>7

-----------------------------------------------------------------------------
(* The answers of the run follow their tool uses. *)
LEMMA ResultsFollowUses ==
  ASSUME TypeOK, TranscriptInv, pc = "model"
  PROVE  /\ AllAnswered(appended) /\ ResultsFollow(appended)
         /\ appended # <<>> => appended[1].results = <<>>
<1>1. /\ appended \in Seq(Messages) /\ rounds \in Seq(RoundRecord)
      /\ Len(appended) \in Nat /\ Len(rounds) \in Nat
      /\ DOMAIN appended = 1..Len(appended) /\ DOMAIN rounds = 1..Len(rounds)
  BY DEF TypeOK, TraceOK
<1>2. Len(appended) = 2 * Len(rounds)
  BY DEF TranscriptInv, Alternates, MidRound, InRound, ReplyKept
<1>3. ASSUME NEW j \in 1..Len(rounds)
      PROVE  /\ appended[2 * j - 1].results = <<>>
             /\ Answers(appended[2 * j], appended[2 * j - 1])
  <2>1. 2 * j <= Len(appended)
    BY <1>1, <1>2
  <2>2. /\ ToolPair(appended[2 * j - 1], appended[2 * j])
        /\ PairMatches(appended[2 * j - 1], appended[2 * j], rounds[j].calls)
    BY <1>1, <2>1 DEF TranscriptInv, PairsKept
  <2> QED
    BY <2>2 DEF ToolPair, PairMatches
<1>4. ASSUME NEW k \in 1..Len(appended), appended[k].results # <<>>
      PROVE  k > 1 /\ Answers(appended[k], appended[k - 1])
  <2>1. PICK j \in 1..Len(rounds) : k = 2 * j - 1 \/ k = 2 * j
    <3>1. (k + 1) \div 2 \in 1..Len(rounds) /\ (k = 2 * ((k + 1) \div 2) - 1 \/ k = 2 * ((k + 1) \div 2))
      BY <1>1, <1>2
    <3> QED
      BY <3>1
  <2>2. k = 2 * j /\ k > 1
    BY <1>3, <1>4, <2>1
  <2> QED
    BY <1>3, <2>2
<1>5. appended # <<>> => appended[1].results = <<>>
  <2> SUFFICES ASSUME appended # <<>> PROVE appended[1].results = <<>>
    OBVIOUS
  <2>1. 1 \in 1..Len(rounds) /\ 2 * 1 - 1 = 1
    BY <1>1, <1>2
  <2> QED
    BY <1>3, <2>1
<1> QED
  BY <1>1, <1>4, <1>5, PairsAnswer DEF ResultsFollow

(* The request of a round can be sent. *)
LEMMA TranscriptSendable ==
  ASSUME TypeOK, TranscriptInv, pc = "model", AllAnswered(conversation), ResultsFollow(conversation)
  PROVE  Sendable(Transcript, Len(Transcript)) /\ NoSystem(Transcript)
<1>1. PICK a, b, c, t : a = Len(conversation) /\ b = Len(appended) /\ c = conversation /\ t = Transcript
  OBVIOUS
<1>2. c \in Seq(Messages) /\ appended \in Seq(Messages) /\ a \in Nat /\ b \in Nat
  BY <1>1 DEF TypeOK, ControlOK, TraceOK
<1>3. /\ t \in Seq(Messages) /\ Len(t) = a + b /\ DOMAIN t = 1..(a + b)
      /\ \A k \in 1..a : t[k] = c[k]
      /\ \A k \in 1..b : t[a + k] = appended[k]
  <2>1. PICK S : S = Messages
    OBVIOUS
  <2>2. c \in Seq(S) /\ appended \in Seq(S)
    BY <1>2, <2>1
  <2> QED
    BY <1>1, <2>1, <2>2 DEF Transcript
<1>4. ASSUME NEW k \in 1..(a + b)
      PROVE  k \in 1..a \/ \E j \in 1..b : k = a + j
  <2>1. k \in 1..a \/ (k - a \in 1..b /\ k = a + (k - a))
    BY <1>2
  <2> QED
    BY <2>1
<1>5. AllAnswered(appended) /\ ResultsFollow(appended) /\ (b # 0 => appended[1].results = <<>>)
  BY <1>1, <1>2, ResultsFollowUses
<1>6. DOMAIN c = 1..a /\ DOMAIN appended = 1..b
  BY <1>1, <1>2
<1>7. ValidConversation(t)
  BY <1>1 DEF TypeOK, ControlOK, TranscriptInv, Resumable
<1>8. \A k \in 1..(a + b) : t[k].role # "system"
  BY <1>3, <1>7 DEF ValidConversation
<1>9. \A k \in 1..(a + b) : t[k].role = "user" => t[k].uses = <<>>
  BY <1>3, <1>7 DEF ValidConversation, ValidMessages, ValidUserMessage
<1>10. \A k \in 1..(a + b) : t[k].role = "assistant" => t[k].results = <<>>
  BY <1>3, <1>7 DEF ValidConversation, ValidMessages, ValidAssistantMessage
<1>11. ASSUME NEW k \in 1..(a + b), t[k].uses # <<>>
       PROVE  k < a + b /\ Answers(t[k + 1], t[k])
  <2>1. CASE k \in 1..a
    <3>1. t[k] = c[k]
      BY <1>3, <2>1
    <3>2. k < a /\ Answers(c[k + 1], c[k])
      BY <1>1, <1>6, <1>11, <2>1, <3>1 DEF AllAnswered, RequestsTools
    <3>3. k + 1 \in 1..a /\ k < a + b
      BY <1>2, <2>1, <3>2
    <3> QED
      BY <1>3, <3>1, <3>2, <3>3
  <2>2. CASE k \notin 1..a
    <3>1. PICK j \in 1..b : k = a + j
      BY <1>4, <2>2
    <3>2. t[k] = appended[j]
      BY <1>3, <3>1
    <3>3. j < b /\ Answers(appended[j + 1], appended[j])
      BY <1>1, <1>5, <1>6, <1>11, <3>2 DEF AllAnswered, RequestsTools
    <3>4. j + 1 \in 1..b /\ k + 1 = a + (j + 1) /\ k < a + b
      BY <1>2, <3>1, <3>3
    <3> QED
      BY <1>3, <3>2, <3>3, <3>4
  <2> QED
    BY <2>1, <2>2
<1>12. ASSUME NEW k \in 1..(a + b), t[k].results # <<>>
       PROVE  k > 1 /\ Answers(t[k], t[k - 1])
  <2>1. CASE k \in 1..a
    <3>1. t[k] = c[k]
      BY <1>3, <2>1
    <3>2. k > 1 /\ Answers(c[k], c[k - 1])
      BY <1>1, <1>6, <1>12, <2>1, <3>1 DEF ResultsFollow
    <3>3. k - 1 \in 1..a
      BY <1>2, <2>1, <3>2
    <3> QED
      BY <1>3, <3>1, <3>2, <3>3
  <2>2. CASE k \notin 1..a
    <3>1. PICK j \in 1..b : k = a + j
      BY <1>4, <2>2
    <3>2. t[k] = appended[j]
      BY <1>3, <3>1
    <3>3. j > 1 /\ Answers(appended[j], appended[j - 1])
      BY <1>5, <1>6, <1>12, <3>2 DEF ResultsFollow
    <3>4. j - 1 \in 1..b /\ k - 1 = a + (j - 1) /\ k > 1
      BY <1>2, <3>1, <3>3
    <3> QED
      BY <1>3, <3>2, <3>3, <3>4
  <2> QED
    BY <2>1, <2>2
<1>13. Sendable(t, a + b)
  BY <1>2, <1>3, <1>8, <1>9, <1>10, <1>11, <1>12 DEF Sendable
<1> QED
  BY <1>1, <1>3, <1>8, <1>13 DEF NoSystem

(* Every request of the loop reaches both providers in the form they take. *)
THEOREM WirePairedCorrect == Spec => []WirePaired
<1>1. TypeOK /\ TranscriptInv => WirePaired
  <2> SUFFICES ASSUME TypeOK, TranscriptInv,
                      pc = "model", AllAnswered(conversation), ResultsFollow(conversation),
                      NEW head \in {<<>>, <<SystemMessage>>}
               PROVE  LET ms        == head \o Transcript
                          openai    == OpenAiRequest(ms)
                          anthropic == AnthropicRequest(ms)
                      IN  /\ OpenAiPaired(openai)
                          /\ \A k \in DOMAIN openai : openai[k].role = "system" <=> head # <<>> /\ k = 1
                          /\ AnthropicPaired(anthropic)
                          /\ anthropic.system = (head # <<>>)
                          /\ Len(anthropic.messages) = Len(Transcript)
    BY DEF WirePaired
  <2>1. PICK t, n, ms : t = Transcript /\ n = Len(t) /\ ms = Headed(head, t)
    OBVIOUS
  <2>2. Sendable(t, n) /\ NoSystem(t)
    BY <2>1, TranscriptSendable
  <2>3. t \in Seq(Messages) /\ n \in Nat
    BY <2>2 DEF Sendable
  <2>4. PICK m : Sendable(ms, m) /\ (Prompted(ms) <=> head # <<>>)
    <3>1. CASE head = <<>>
      <4>1. ms = t
        BY <2>1, <2>3, <3>1 DEF Headed
      <4>2. ~Prompted(t)
        <5>1. t # <<>> => 1 \in 1..n
          BY <2>1, <2>3
        <5> QED
          BY <2>1, <2>2, <5>1 DEF Prompted, NoSystem
      <4> QED
        BY <2>2, <3>1, <4>1, <4>2
    <3>2. CASE head = <<SystemMessage>>
      <4>1. Sendable(ms, n + 1)
        BY <2>1, <2>2, <3>2, SendableHeaded
      <4>2. /\ Len(ms) = Len(t) + 1 /\ ms[1] = SystemMessage
        BY <2>1, <2>3, <3>2, HeadedFacts
      <4>3. ms # <<>>
        BY <2>1, <2>3, <4>2
      <4>4. head # <<>>
        BY <3>2
      <4>5. Prompted(ms)
        BY <4>2, <4>3 DEF Prompted, SystemMessage
      <4> QED
        BY <4>1, <4>4, <4>5
    <3> QED
      BY <3>1, <3>2
  <2>5. /\ OpenAiPaired(OpenAiRequest(ms))
        /\ \A k \in DOMAIN OpenAiRequest(ms) : OpenAiRequest(ms)[k].role = "system" <=> head # <<>> /\ k = 1
    <3>1. CASE m # 0
      BY <2>4, <3>1, OpenAiSends
    <3>2. CASE m = 0
      <4>1. ms = <<>>
        <5>1. ms \in Seq(Messages) /\ m = Len(ms)
          BY <2>4 DEF Sendable
        <5> HIDE DEF Messages
        <5> QED
          BY <3>2, <5>1
      <4>2. OpenAiRequest(ms) = <<>>
        <5>1. OpenAiRequest(ms) = FlattenSeq(<<>>)
          BY <4>1 DEF OpenAiRequest
        <5> QED
          BY <5>1, FlattenEmpty
      <4>3. DOMAIN <<>> = {}
        OBVIOUS
      <4> QED
        BY <4>2, <4>3 DEF OpenAiPaired
    <3> QED
      BY <3>1, <3>2
  <2>6. AnthropicRequest(ms) =
          [system |-> head # <<>>, messages |-> [k \in DOMAIN t |-> MessageToAnthropic(t[k])]]
    <3>1. (<<>> # <<>>) = FALSE /\ (<<SystemMessage>> # <<>>) = TRUE
      OBVIOUS
    <3>2. CASE head = <<>>
      BY <2>1, <2>2, <2>3, <3>1, <3>2, AnthropicTurns
    <3>3. CASE head = <<SystemMessage>>
      BY <2>1, <2>2, <2>3, <3>1, <3>3, AnthropicTurns
    <3> QED
      BY <3>2, <3>3
  <2>7. /\ AnthropicPaired(AnthropicRequest(ms))
        /\ Len(AnthropicRequest(ms).messages) = Len(t)
    BY <2>2, <2>6, AnthropicSends
  <2>8. AnthropicRequest(ms).system = (head # <<>>)
    BY <2>6
  <2> QED
    BY <2>1, <2>5, <2>7, <2>8 DEF Headed
<1> QED
  BY <1>1, TranscriptHolds, TypeCorrect, PTL
=============================================================================
