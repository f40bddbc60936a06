------------------------------ MODULE TurnLoop ------------------------------
(***************************************************************************)
(* One call of Agent::run (agent/run.rs): the turn loop that calls the     *)
(* model, dispatches the tools it asks for and decides when to stop.       *)
(*                                                                         *)
(* Actors: the loop itself, cut at its await points (the model's stream, a *)
(* tool handler, the observer's on_tool_call and on_round); the model,     *)
(* which answers with any completion or fails; the tool handlers, which    *)
(* may record stop requests while they run; and the caller, which may      *)
(* cancel the token between any two steps (a handler may too: it sees the  *)
(* same token).                                                            *)
(*                                                                         *)
(* The model call is one step here: nothing of the run's state changes     *)
(* between the request and the finished completion.  Its retries and its   *)
(* deadline are modelled in ModelCall.                                     *)
(***************************************************************************)
EXTENDS Conversation, SequencesExt

CONSTANTS
  RoundLimit,       (* Limits::round_limit                                 *)
  StallThreshold,   (* Limits::stall_threshold                             *)
  Registered,       (* names in the ToolSet                                *)
  StopRequests,     (* stop requests a handler may record                  *)
  MaxStopCalls,     (* bound: calls of request_stop in a run               *)
  Conversations,    (* conversations a caller may pass to run              *)
  Completions       (* completions the model may answer with               *)

ASSUME TurnLoopAssumption ==
  /\ RoundLimit \in Nat
  /\ StallThreshold \in Nat
  /\ MaxStopCalls \in Nat
  /\ Registered \subseteq ToolNames
  /\ Conversations \subseteq Seq(Messages)
  /\ Completions \subseteq CompletionType

VARIABLES
  pc,             (* where the loop is suspended                           *)
  conversation,   (* the caller's history plus the new input               *)
  round,          (* the loop counter                                      *)
  appended,       (* RunState::appended: messages of this run              *)
  rounds,         (* RunState::rounds: one record per completed round      *)
  uses,           (* tool uses of the round in progress                    *)
  results,        (* their results so far                                  *)
  calls,          (* records of those that were dispatched                 *)
  skipping,       (* run_tool_round's local `cancelled`                    *)
  record,         (* record of the call on_tool_call is told of            *)
  closing,        (* message, stop reason and outcome of a finished round  *)
  stall,          (* StallTracker                                          *)
  cancelled,      (* the cancellation token                                *)
  stopSlot,       (* ToolContext::stop_request                             *)
  ending,         (* how the run returned                                  *)
  reply,          (* RunRecord::reply                                      *)
  seenRounds,     (* rounds the observer was told of                       *)
  seenCalls,      (* tool calls the observer was told of                   *)
  stopLog,        (* history: every call of request_stop, in order         *)
  cancelledAt     (* history: rounds and calls made when the token was cancelled *)

inputVars    == <<conversation>>
traceVars    == <<appended, rounds>>
roundVars    == <<uses, results, calls, skipping, record>>
contextVars  == <<cancelled, stopSlot>>
resultVars   == <<ending, reply>>
observerVars == <<seenRounds, seenCalls>>
historyVars  == <<stopLog, cancelledAt>>

vars == <<pc, inputVars, round, traceVars, roundVars, closing, stall,
          contextVars, resultVars, observerVars, historyVars>>

-----------------------------------------------------------------------------
(* Option<T>: <<>> is None and <<x>> is Some(x). *)
None      == <<>>
Some(x)   == <<x>>
Option(S) == {s \in Seq(S) : Len(s) <= 1}

CallKey      == [name : ToolNames, input : Arguments]
CallRecord   == [name : ToolNames, input : Arguments, failed : BOOLEAN]
RoundRecord  == [stop : StopReasons, calls : Seq(CallRecord)]
StallState   == [last : Option(CallKey), streak : Nat]

Endings ==
  [kind : {"Running", "Completed", "Truncated", "RoundsExhausted", "Cancelled",
           "InvalidConversation", "Provider"}]
    \cup [kind : {"StopRequested"}, request : StopRequests]
    \cup [kind : {"Stalled"}, tool : ToolNames, count : Nat]

Replies == Option({"text"} \cup StopRequests)

NoMessage == AssistantMessage([text |-> FALSE, reasoning |-> FALSE], <<>>)
NotClosing == [message |-> NoMessage, stop |-> "Other", outcome |-> "Continue"]
NoRecord   == None

(* What the next request carries, after the system prompt. *)
Transcript == conversation \o appended

(* The tool use run_tool_round's loop is at. *)
CurrentUse == uses[Len(results) + 1]

KeyOf(call) == [name |-> call.name, input |-> call.input]

-----------------------------------------------------------------------------
(***************************************************************************)
(* Helpers.  A definition named ...Mutant is the bug its comment describes, *)
(* in place of the definition after it; no specification uses one.          *)
(***************************************************************************)

(* Bug: the arguments are not compared. *)
StallRecordMutant(s, call) ==
  [last   |-> Some(KeyOf(call)),
   streak |-> IF s.last # None /\ s.last[1].name = call.name THEN s.streak + 1 ELSE 1]

(* StallTracker::record: consecutive calls equal in name and arguments. *)
StallRecord(s, call) ==
  [last   |-> Some(KeyOf(call)),
   streak |-> IF s.last = Some(KeyOf(call)) THEN s.streak + 1 ELSE 1]

(* StallTracker::tripped *)
Tripped(s) == s.streak >= StallThreshold /\ s.last # None

(* Bug: the last request wins. *)
StopRecordedMutant(slot, request) == Some(request)

(* Bug: the slot is a queue. *)
StopQueuedMutant(slot, request) == Append(slot, request)

(* ToolContext::request_stop: the first request wins. *)
StopRecorded(slot, request) == IF slot = None THEN Some(request) ELSE slot

(* Bug: a failure is not flagged on the result. *)
ResultOfMutant(use, call) == [id |-> use.id, outcome |-> "ok"]

(* tool_outcome_to_result *)
ResultOf(use, call) ==
  [id |-> use.id, outcome |-> IF call.failed THEN "failed" ELSE "ok"]

(* Bug: the tool uses of a cut-off completion stay in the message. *)
WithoutToolUsesMutant(c) == AssistantMessage(c, c.uses)

(* What finish_truncated keeps of a completion. *)
WithoutToolUses(c) == AssistantMessage(c, <<>>)

(* Bug: one round too many. *)
RoundsLeftMutant == round <= RoundLimit + 1

(* for _round in 1..=round_limit *)
RoundsLeft == round <= RoundLimit

(* Bug: the token is not looked at between two tools of a round. *)
MustSkipMutant == skipping

MustSkip == skipping \/ cancelled

(* non_empty(text_content) *)
TextReply(m) == IF m.text THEN Some("text") ELSE None

-----------------------------------------------------------------------------
Init ==
  /\ pc = "start"
  /\ conversation \in Conversations
  /\ round = 1
  /\ appended = <<>> /\ rounds = <<>>
  /\ uses = <<>> /\ results = <<>> /\ calls = <<>> /\ skipping = FALSE
  /\ record = NoRecord
  /\ closing = NotClosing
  /\ stall = [last |-> None, streak |-> 0]
  /\ cancelled \in BOOLEAN
  /\ stopSlot = None
  /\ ending = [kind |-> "Running"] /\ reply = None
  /\ seenRounds = <<>> /\ seenCalls = <<>>
  /\ stopLog = <<>>
  /\ cancelledAt = IF cancelled THEN Some([rounds |-> 0, calls |-> 0]) ELSE None

Return(e, r) ==
  /\ pc' = "done"
  /\ ending' = e
  /\ reply' = r

(***************************************************************************)
(* Agent::run: the upfront check and the head of the loop.                 *)
(***************************************************************************)
RejectConversation ==
  /\ pc = "start"
  /\ ~ValidConversation(conversation)
  /\ Return([kind |-> "InvalidConversation"], None)
  /\ UNCHANGED <<inputVars, round, traceVars, roundVars, closing, stall,
                 contextVars, observerVars, historyVars>>

AcceptConversation ==
  /\ pc = "start"
  /\ ValidConversation(conversation)
  /\ pc' = "head"
  /\ UNCHANGED <<inputVars, round, traceVars, roundVars, closing, stall,
                 contextVars, resultVars, observerVars, historyVars>>

BeginRound ==
  /\ pc = "head"
  /\ RoundsLeft
  /\ ~cancelled
  /\ pc' = "model"
  /\ UNCHANGED <<inputVars, round, traceVars, roundVars, closing, stall,
                 contextVars, resultVars, observerVars, historyVars>>

StopCancelled ==
  /\ pc = "head"
  /\ RoundsLeft
  /\ cancelled
  /\ Return([kind |-> "Cancelled"], None)
  /\ UNCHANGED <<inputVars, round, traceVars, roundVars, closing, stall,
                 contextVars, observerVars, historyVars>>

ExhaustRounds ==
  /\ pc = "head"
  /\ ~RoundsLeft
  /\ Return([kind |-> "RoundsExhausted"], None)
  /\ UNCHANGED <<inputVars, round, traceVars, roundVars, closing, stall,
                 contextVars, observerVars, historyVars>>

-----------------------------------------------------------------------------
(***************************************************************************)
(* run_round: the model's answer.  A failure to open the stream, a failed  *)
(* item of it and a completion that does not assemble are all Failed.      *)
(***************************************************************************)
ModelFails ==
  /\ pc = "model"
  /\ Return([kind |-> "Provider"], None)
  /\ UNCHANGED <<inputVars, round, traceVars, roundVars, closing, stall,
                 contextVars, observerVars, historyVars>>

(* Bug: the observer is not told of a round cut short by a cancellation. *)
CloseRoundMutant(message, stop, made, outcome) ==
  /\ closing' = [message |-> message, stop |-> stop, outcome |-> outcome]
  /\ seenRounds' = IF outcome = "Cancelled" THEN seenRounds
                   ELSE Append(seenRounds, [stop |-> stop, calls |-> made])
  /\ pc' = "closing"

(* The start of push_round: on_round is awaited before the round is kept. *)
CloseRound(message, stop, made, outcome) ==
  /\ closing' = [message |-> message, stop |-> stop, outcome |-> outcome]
  /\ seenRounds' = Append(seenRounds, [stop |-> stop, calls |-> made])
  /\ pc' = "closing"

(* finish_truncated: the tool uses of a cut-off completion are dropped. *)
ReplyTruncated(c) ==
  /\ pc = "model"
  /\ c.stop = "MaxTokens"
  /\ calls' = <<>>
  /\ CloseRound(WithoutToolUses(c), c.stop, <<>>, "Truncated")
  /\ UNCHANGED <<inputVars, round, traceVars, uses, results, skipping, record, stall,
                 contextVars, resultVars, seenCalls, historyVars>>

(* finish_completed *)
ReplyFinal(c) ==
  /\ pc = "model"
  /\ c.stop # "MaxTokens"
  /\ c.uses = <<>>
  /\ calls' = <<>>
  /\ CloseRound(AssistantMessage(c, <<>>), c.stop, <<>>, "Completed")
  /\ UNCHANGED <<inputVars, round, traceVars, uses, results, skipping, record, stall,
                 contextVars, resultVars, seenCalls, historyVars>>

(* The head of run_tool_round: the assistant message is kept at once. *)
ReplyWithTools(c) ==
  /\ pc = "model"
  /\ c.stop # "MaxTokens"
  /\ c.uses # <<>>
  /\ appended' = Append(appended, AssistantMessage(c, c.uses))
  /\ uses' = c.uses
  /\ results' = <<>> /\ calls' = <<>> /\ skipping' = FALSE
  /\ closing' = [closing EXCEPT !.stop = c.stop]
  /\ pc' = "tools"
  /\ UNCHANGED <<inputVars, round, rounds, record, stall,
                 contextVars, resultVars, observerVars, historyVars>>

-----------------------------------------------------------------------------
(***************************************************************************)
(* run_tool_round: one pass of its loop per tool use.                      *)
(***************************************************************************)

(* Bug: a skipped tool use gets no result, and the loop stays at it. *)
SkipToolMutant ==
  /\ pc = "tools"
  /\ Len(results) < Len(uses)
  /\ MustSkip
  /\ skipping' = TRUE
  /\ UNCHANGED <<pc, inputVars, round, traceVars, uses, results, calls, record, closing, stall,
                 contextVars, resultVars, observerVars, historyVars>>

SkipTool ==
  /\ pc = "tools"
  /\ Len(results) < Len(uses)
  /\ MustSkip
  /\ skipping' = TRUE
  /\ results' = Append(results, [id |-> CurrentUse.id, outcome |-> "cancelled"])
  /\ UNCHANGED <<pc, inputVars, round, traceVars, uses, calls, record, closing, stall,
                 contextVars, resultVars, observerVars, historyVars>>

BeginDispatch ==
  /\ pc = "tools"
  /\ Len(results) < Len(uses)
  /\ ~MustSkip
  /\ pc' = "dispatch"
  /\ UNCHANGED <<inputVars, round, traceVars, roundVars, closing, stall,
                 contextVars, resultVars, observerVars, historyVars>>

(* A handler that is running calls ToolContext::request_stop. *)
RequestStop(request) ==
  /\ pc = "dispatch"
  /\ CurrentUse.name \in Registered
  /\ Len(stopLog) < MaxStopCalls
  /\ stopSlot' = StopRecorded(stopSlot, request)
  /\ stopLog' = Append(stopLog, request)
  /\ UNCHANGED <<pc, inputVars, round, traceVars, roundVars, closing, stall,
                 cancelled, resultVars, observerVars, cancelledAt>>

(* ToolSet::dispatch returns (an unknown name always fails) and dispatch_one *)
(* tells the observer.                                                       *)
FinishDispatch(failed) ==
  /\ pc = "dispatch"
  /\ CurrentUse.name \notin Registered => failed
  /\ LET call == [name |-> CurrentUse.name, input |-> CurrentUse.input, failed |-> failed]
     IN  /\ record' = Some(call)
         /\ seenCalls' = Append(seenCalls, call)
  /\ pc' = "called"
  /\ UNCHANGED <<inputVars, round, traceVars, uses, results, calls, skipping, closing, stall,
                 contextVars, resultVars, seenRounds, historyVars>>

(* Back from on_tool_call: the call counts towards a stall and is recorded. *)
EndDispatch ==
  /\ pc = "called"
  /\ stall' = StallRecord(stall, record[1])
  /\ results' = Append(results, ResultOf(CurrentUse, record[1]))
  /\ calls' = Append(calls, record[1])
  /\ record' = NoRecord
  /\ pc' = "tools"
  /\ UNCHANGED <<inputVars, round, traceVars, uses, skipping, closing,
                 contextVars, resultVars, observerVars, historyVars>>

(* Bug: a cancellation breaks out of the loop, leaving uses unanswered. *)
FinishToolsMutant ==
  /\ pc = "tools"
  /\ Len(results) = Len(uses) \/ skipping
  /\ CloseRound(ToolResultsMessage(results), closing.stop, calls,
                IF skipping THEN "Cancelled" ELSE "Continue")
  /\ UNCHANGED <<inputVars, round, traceVars, roundVars, stall,
                 contextVars, resultVars, seenCalls, historyVars>>

FinishTools ==
  /\ pc = "tools"
  /\ Len(results) = Len(uses)
  /\ CloseRound(ToolResultsMessage(results), closing.stop, calls,
                IF skipping THEN "Cancelled" ELSE "Continue")
  /\ UNCHANGED <<inputVars, round, traceVars, roundVars, stall,
                 contextVars, resultVars, seenCalls, historyVars>>

-----------------------------------------------------------------------------
(***************************************************************************)
(* The end of push_round, then what run does with the round's outcome.     *)
(***************************************************************************)
KeepRound ==
  /\ pc = "closing"
  /\ rounds' = Append(rounds, [stop |-> closing.stop, calls |-> calls])
  /\ appended' = Append(appended, closing.message)
  /\ closing' = NotClosing
  /\ uses' = <<>> /\ results' = <<>> /\ calls' = <<>> /\ skipping' = FALSE
  /\ UNCHANGED <<inputVars, record, stall, cancelled, observerVars, historyVars>>

(* RoundOutcome::Terminal *)
EndTerminal ==
  /\ KeepRound
  /\ closing.outcome # "Continue"
  /\ Return([kind |-> closing.outcome],
            IF closing.outcome = "Cancelled" THEN None ELSE TextReply(closing.message))
  /\ UNCHANGED <<round, stopSlot>>

(* stopped_or_stalled: a stop request is looked at first, and taken. *)
EndStopRequested ==
  /\ KeepRound
  /\ closing.outcome = "Continue"
  /\ stopSlot # None
  /\ stopSlot' = None
  /\ Return([kind |-> "StopRequested", request |-> stopSlot[1]], Some(stopSlot[1]))
  /\ UNCHANGED round

EndStalled ==
  /\ KeepRound
  /\ closing.outcome = "Continue"
  /\ stopSlot = None
  /\ Tripped(stall)
  /\ Return([kind |-> "Stalled", tool |-> stall.last[1].name, count |-> stall.streak], None)
  /\ UNCHANGED <<round, stopSlot>>

NextRound ==
  /\ KeepRound
  /\ closing.outcome = "Continue"
  /\ stopSlot = None
  /\ ~Tripped(stall)
  /\ round' = round + 1
  /\ pc' = "head"
  /\ UNCHANGED <<stopSlot, resultVars>>

-----------------------------------------------------------------------------
(* The caller, or a handler that is running, cancels the token. *)
Cancel ==
  /\ pc # "done"
  /\ ~cancelled
  /\ cancelled' = TRUE
  /\ cancelledAt' = Some([rounds |-> Len(rounds), calls |-> Len(seenCalls)])
  /\ UNCHANGED <<pc, inputVars, round, traceVars, roundVars, closing, stall,
                 stopSlot, resultVars, observerVars, stopLog>>

(* The caller has its answer; the run's state is gone. *)
Returned == pc = "done" /\ UNCHANGED vars

Loop ==
  \/ RejectConversation \/ AcceptConversation
  \/ BeginRound \/ StopCancelled \/ ExhaustRounds
  \/ SkipTool \/ BeginDispatch \/ EndDispatch \/ FinishTools
  \/ EndTerminal \/ EndStopRequested \/ EndStalled \/ NextRound

Model ==
  \/ ModelFails
  \/ \E c \in Completions : ReplyTruncated(c) \/ ReplyFinal(c) \/ ReplyWithTools(c)

Handler == \E failed \in BOOLEAN : FinishDispatch(failed)

Next ==
  \/ Loop \/ Model \/ Handler
  \/ \E request \in StopRequests : RequestStop(request)
  \/ Cancel
  \/ Returned

Spec == Init /\ [][Next]_vars

(* The executor polls the loop, a model call answers or fails (ModelCall    *)
(* shows when it must) and a handler returns; nobody has to cancel or stop. *)
Fairness == WF_vars(Loop) /\ WF_vars(Model) /\ WF_vars(Handler)

FairSpec == Spec /\ Fairness

-----------------------------------------------------------------------------
(***************************************************************************)
(* Properties.                                                             *)
(***************************************************************************)
InRound == pc \in {"tools", "dispatch", "called"}

ControlOK ==
  /\ pc \in {"start", "head", "model", "tools", "dispatch", "called", "closing", "done"}
  /\ round \in Nat
  /\ conversation \in Seq(Messages)

TraceOK == appended \in Seq(Messages) /\ rounds \in Seq(RoundRecord)

RoundOK ==
  /\ uses \in Seq(ToolUses)
  /\ results \in Seq(ToolResults)
  /\ calls \in Seq(CallRecord)
  /\ skipping \in BOOLEAN
  /\ record \in Option(CallRecord)
  /\ pc = "tools" => Len(results) <= Len(uses)
  /\ pc \in {"dispatch", "called"} => Len(results) < Len(uses)
  /\ pc = "called" => record # None

ClosingType ==
  [message : Messages, stop : StopReasons,
   outcome : {"Continue", "Completed", "Truncated", "Cancelled"}]

ClosingOK == closing \in ClosingType

StallOK == stall \in StallState

ContextOK == cancelled \in BOOLEAN /\ stopSlot \in Option(StopRequests)

ResultOK == ending \in Endings /\ reply \in Replies

ObserverOK == seenRounds \in Seq(RoundRecord) /\ seenCalls \in Seq(CallRecord)

HistoryOK ==
  /\ stopLog \in Seq(StopRequests)
  /\ cancelledAt \in Option([rounds : Nat, calls : Nat])

(* Every variable keeps its type, and a round in progress its shape: while  *)
(* a tool runs there is a tool use it runs for, and afterwards its record.  *)
TypeOK ==
  /\ ControlOK /\ TraceOK /\ RoundOK /\ ClosingOK /\ StallOK
  /\ ContextOK /\ ResultOK /\ ObserverOK /\ HistoryOK

(* Whenever a request goes out, and whenever the run hands its trace back  *)
(* (also after a provider failure or a cancellation half-way through a     *)
(* round), every tool use of the run is answered, in order and by id.      *)
TranscriptAnswered == pc \in {"model", "done"} => AllAnswered(appended)

(* Once the conversation is accepted, the transcript satisfies the request *)
(* invariants at every point, with or without a system prompt at its head: *)
(* Model::stream never refuses a request of the loop, and the caller may   *)
(* pass conversation and trace back to run.                                *)
TranscriptResumable ==
  pc # "start" /\ ending.kind # "InvalidConversation" =>
    /\ ValidConversation(Transcript)
    /\ ValidMessages(<<SystemMessage>> \o Transcript)

(* Message pair 2k-1, 2k of the trace is what round k's record says: its    *)
(* calls are the first tool uses, in order, each with the outcome its       *)
(* result shows; the uses without a call are exactly those answered         *)
(* "cancelled before it ran".                                               *)
PairMatches(m, r, made) ==
  /\ RequestsTools(m) /\ Answers(r, m)
  /\ Len(made) <= Len(m.uses)
  /\ \A i \in DOMAIN m.uses :
       IF i <= Len(made)
       THEN /\ made[i].name = m.uses[i].name /\ made[i].input = m.uses[i].input
            /\ r.results[i].outcome = IF made[i].failed THEN "failed" ELSE "ok"
       ELSE r.results[i].outcome = "cancelled"

(* The round records and the transcript tell one story: every round but a   *)
(* final reply is a matching pair, and only the last one is a reply.        *)
RecordsMatchTranscript ==
  \A k \in DOMAIN rounds :
    \/ /\ 2 * k <= Len(appended)
       /\ PairMatches(appended[2 * k - 1], appended[2 * k], rounds[k].calls)
    \/ /\ k = Len(rounds) /\ Len(appended) = 2 * k - 1
       /\ pc = "done" /\ ending.kind \in {"Completed", "Truncated"}
       /\ ~RequestsTools(appended[2 * k - 1]) /\ rounds[k].calls = <<>>

(* The loop makes at most RoundLimit rounds, and ends as RoundsExhausted     *)
(* only after making all of them.                                            *)
RoundLimitHolds ==
  /\ Len(rounds) <= RoundLimit
  /\ ending.kind = "RoundsExhausted" => Len(rounds) = RoundLimit

(* The last n calls dispatched are the same call. *)
Repeating(n) ==
  /\ n <= Len(seenCalls)
  /\ \A i \in (Len(seenCalls) - n + 1)..Len(seenCalls) :
       KeyOf(seenCalls[i]) = KeyOf(seenCalls[Len(seenCalls)])

(* A run that ends as Stalled did repeat the call it names, exactly as      *)
(* often as it says and at least as often as the threshold; and the model   *)
(* is not called while the latest calls are such a repetition.              *)
StalledExactly ==
  /\ ending.kind = "Stalled" =>
       /\ seenCalls # <<>>
       /\ ending.tool = seenCalls[Len(seenCalls)].name
       /\ ending.count >= StallThreshold
       /\ Repeating(ending.count) /\ ~Repeating(ending.count + 1)
  /\ pc = "model" /\ seenCalls # <<>> => ~Repeating(StallThreshold)

(* What the documentation of Limits::stall_threshold says instead: that     *)
(* many consecutive identical calls, anywhere, end the run.                 *)
RepetitionEndsRun ==
  pc = "model" =>
    ~ \E last \in StallThreshold..Len(seenCalls) :
        \A i \in (last - StallThreshold + 1)..last : KeyOf(seenCalls[i]) = KeyOf(seenCalls[last])

(* A recorded stop request is followed by no model call, and the run ends   *)
(* with the first one recorded as its ending and its reply, unless the      *)
(* token was cancelled before all tools of the round had run.               *)
StopRequestEndsRun ==
  stopLog # <<>> =>
    /\ pc \notin {"start", "head", "model"}
    /\ pc = "done" =>
         \/ ending = [kind |-> "StopRequested", request |-> stopLog[1]] /\ reply = Some(stopLog[1])
         \/ /\ ending.kind = "Cancelled"
            /\ Len(rounds[Len(rounds)].calls) < Len(appended[Len(appended) - 1].uses)

(* After the token is cancelled at most the call in flight is finished and  *)
(* at most the round in progress is kept; and a run ends as Cancelled only  *)
(* if the token was cancelled, and then with no reply.                      *)
CancellationBoundsWork ==
  /\ cancelled <=> cancelledAt # None
  /\ cancelled =>
       /\ Len(rounds) <= cancelledAt[1].rounds + 1
       /\ Len(seenCalls) <= cancelledAt[1].calls + 1
  /\ ending.kind = "Cancelled" => cancelled /\ reply = None

(* The calls of a sequence of round records, in order. *)
CallsOf(made) == FlattenSeq([k \in DOMAIN made |-> made[k].calls])

(* The observer is told of every round and every call, once and in order,   *)
(* each call before its round: what it has seen is what the trace holds,    *)
(* plus the round in progress.                                              *)
ObserverSeesRun ==
  /\ seenRounds = IF pc = "closing"
                  THEN Append(rounds, [stop |-> closing.stop, calls |-> calls])
                  ELSE rounds
  /\ seenCalls = CallsOf(rounds) \o calls \o record

(* The run returns, whatever the model, the handlers and the caller do. *)
Terminates == <>(pc = "done")

-----------------------------------------------------------------------------
(* The messages of the rounds the run has kept. *)
Kept == IF pc = "done" THEN appended ELSE SubSeq(appended, 1, 2 * Len(rounds))

Phase == CASE pc = "start" -> "idle"
           [] pc = "done"  -> "returned"
           [] OTHER        -> "running"

Promise == INSTANCE RunPromise WITH phase <- Phase, transcript <- Kept, verdict <- ending.kind

(* Agent::run keeps its promise: its trace grows by whole answered rounds,  *)
(* only a reply or a reason to give up ends it, and it returns once.        *)
KeepsPromise == Promise!Spec
=============================================================================
