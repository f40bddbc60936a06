------------------------------ MODULE ModelCall ------------------------------
(***************************************************************************)
(* One model call (model.rs, retry.rs): Model::complete, or Model::stream  *)
(* as the turn loop consumes it (stream_round in agent/run.rs), with the   *)
(* retries and the deadline around the provider.                           *)
(*                                                                         *)
(* Actors: the call itself, polled by its executor; the provider, which    *)
(* answers, streams, fails, ends or stays silent as it likes; and time.    *)
(* tokio's timeout polls what it bounds before it looks at the clock, so   *)
(* an item that is there is taken even when the deadline has passed.       *)
(***************************************************************************)
EXTENDS Integers, Sequences

CONSTANTS
  MaxAttempts,     (* RetryPolicy::max_attempts                            *)
  InitialBackoff,  (* RetryPolicy::initial_backoff                         *)
  BackoffCap,      (* RetryPolicy::backoff_cap                             *)
  Width,           (* bits of the backoff multiplier; 32 in the code       *)
  Timeouts,        (* timeouts a Model may be built with                   *)
  Failures,        (* failures a provider may answer with                  *)
  MaxEvents        (* bound: events of one attempt                         *)

(* Option<T>: <<>> is None and <<x>> is Some(x). *)
None      == <<>>
Some(x)   == <<x>>
Option(S) == {s \in Seq(S) : Len(s) <= 1}

(* ProviderFailure: a status is kept, it decides whether to retry. *)
FailureType ==
  [kind : {"Transport", "Decode", "Configuration", "InvalidRequest", "TimedOut"}]
    \cup [kind : {"Status"}, status : Nat, retryAfter : Option(Nat)]

ASSUME ModelCallAssumption ==
  /\ MaxAttempts \in Nat \ {0}
  /\ InitialBackoff \in Nat
  /\ BackoffCap \in Nat
  /\ Width \in Nat
  /\ MaxEvents \in Nat
  /\ Timeouts \subseteq Option(Nat)
  /\ Failures \subseteq FailureType

VARIABLES
  mode,        (* which of the two operations was called                   *)
  pc,          (* where the call is suspended                              *)
  attempt,     (* run_with_retry's counter; 0 before the first             *)
  wire,        (* the provider's next answer, when it is there             *)
  sent,        (* history: what the provider put on this attempt's stream  *)
  held,        (* the first event, until the stream's consumer takes it    *)
  folded,      (* events pushed into the accumulator                       *)
  told,        (* events the run's observer was told of                    *)
  timeLeft,    (* until the deadline, if there is one                      *)
  sleepLeft,   (* until the sleep between two attempts is over             *)
  waits,       (* history: the delays computed and waited                  *)
  failures,    (* history: how the attempts failed                         *)
  outcome      (* what the call returned                                   *)

vars == <<mode, pc, attempt, wire, sent, held, folded, told, timeLeft, sleepLeft,
          waits, failures, outcome>>

EventKinds == {"delta", "finished"}
Event      == [attempt : Nat, index : Nat, kind : EventKinds]
Items      == [kind : {"opened", "end"}]
                \cup [kind : {"event"}, event : Event]
                \cup [kind : {"failure"}, failure : FailureType]
Wait       == [asked : Option(Nat), computed : Nat, waited : Nat]
Outcomes   == [kind : {"Pending", "Completed"}] \cup FailureType

(* A timeout is a Transport failure in the code; it is told apart here      *)
(* because it comes from the call itself.                                   *)
Transport == [kind |-> "Transport"]
TimedOut  == [kind |-> "TimedOut"]

-----------------------------------------------------------------------------
(***************************************************************************)
(* The retry policy.  A definition named ...Mutant is the bug its comment  *)
(* describes, in place of the definition after it.                         *)
(***************************************************************************)
Least(a, b)    == IF a < b THEN a ELSE b
Greatest(a, b) == IF a < b THEN b ELSE a

(* ProviderFailure::is_retryable *)
IsRetryable(f) ==
  \/ f.kind \in {"Transport", "TimedOut"}
  \/ f.kind = "Status" /\ f.status \in {408, 429} \cup 500..599

(* ProviderFailure::retry_after *)
RetryAfter(f) == IF f.kind = "Status" THEN f.retryAfter ELSE None

(* Bug: a shift past the width is not saturated. *)
MultiplierMutant(n) == 2 ^ (n - 1) % 2 ^ Width

(* 1_u32.checked_shl(n - 1).unwrap_or(u32::MAX) *)
Multiplier(n) == IF n - 1 < Width THEN 2 ^ (n - 1) ELSE 2 ^ Width - 1

(* exponential_backoff: the product saturates far above any cap. *)
ExponentialBackoff(n) == Least(InitialBackoff * Multiplier(n), BackoffCap)

ComputedDelay(n, f) ==
  IF RetryAfter(f) = None THEN ExponentialBackoff(n)
  ELSE Greatest(ExponentialBackoff(n), RetryAfter(f)[1])

(* Bug: one attempt too many. *)
MayRetryMutant(n, f) == IsRetryable(f) /\ n <= MaxAttempts

(* decide: RetryDecision::Wait, with ComputedDelay, or Stop. *)
MayRetry(n, f) == IsRetryable(f) /\ n < MaxAttempts

-----------------------------------------------------------------------------
Init ==
  /\ mode \in {"complete", "stream"}
  /\ pc = "start"
  /\ attempt = 0
  /\ wire = None /\ sent = <<>> /\ held = None
  /\ folded = <<>> /\ told = <<>>
  /\ timeLeft \in Timeouts
  /\ sleepLeft = 0
  /\ waits = <<>> /\ failures = <<>>
  /\ outcome = [kind |-> "Pending"]

(***************************************************************************)
(* The call: the upfront check, and one attempt.                           *)
(***************************************************************************)
RejectRequest ==
  /\ pc = "start"
  /\ pc' = "done"
  /\ outcome' = [kind |-> "InvalidRequest"]
  /\ UNCHANGED <<mode, attempt, wire, sent, held, folded, told, timeLeft, sleepLeft,
                 waits, failures>>

(* Bug: the accumulator outlives the attempt that failed. *)
OpenAttemptMutant ==
  /\ attempt' = attempt + 1
  /\ pc' = "opening"
  /\ wire' = None /\ sent' = <<>>
  /\ UNCHANGED folded

(* complete_once and open_once start from nothing. *)
OpenAttempt ==
  /\ attempt' = attempt + 1
  /\ pc' = "opening"
  /\ wire' = None /\ sent' = <<>> /\ folded' = <<>>

Begin ==
  /\ pc = "start"
  /\ OpenAttempt
  /\ UNCHANGED <<mode, held, told, timeLeft, sleepLeft, waits, failures, outcome>>

Retry(f) ==
  /\ MayRetry(attempt, f)
  /\ \E jittered \in 0..ComputedDelay(attempt, f) :
       /\ sleepLeft' = jittered
       /\ waits' = Append(waits, [asked    |-> RetryAfter(f),
                                  computed |-> ComputedDelay(attempt, f),
                                  waited   |-> jittered])
  /\ pc' = "waiting"
  /\ UNCHANGED outcome

GiveUp(f) ==
  /\ ~MayRetry(attempt, f)
  /\ pc' = "done"
  /\ outcome' = f
  /\ UNCHANGED <<sleepLeft, waits>>

(* An attempt fails: run_with_retry waits, or hands the failure back. *)
AttemptFails(f) ==
  /\ failures' = Append(failures, f)
  /\ wire' = None
  /\ Retry(f) \/ GiveUp(f)

Arrived(kind) == wire # None /\ wire[1].kind = kind

StreamOpened ==
  /\ pc = "opening"
  /\ Arrived("opened")
  /\ pc' = IF mode = "stream" THEN "first" ELSE "reading"
  /\ wire' = None
  /\ UNCHANGED <<mode, attempt, sent, held, folded, told, timeLeft, sleepLeft,
                 waits, failures, outcome>>

(* The provider never opens a stream, or fails on it: while it is opened,   *)
(* before its first event, or at any point of Model::complete.              *)
AttemptRefused ==
  /\ pc \in {"opening", "first", "reading"}
  /\ Arrived("failure")
  /\ AttemptFails(wire[1].failure)
  /\ UNCHANGED <<mode, attempt, sent, held, folded, told, timeLeft>>

(* open_once: a stream without events. *)
StreamEmpty ==
  /\ pc = "first"
  /\ Arrived("end")
  /\ AttemptFails(Transport)
  /\ UNCHANGED <<mode, attempt, sent, held, folded, told, timeLeft>>

(* Bug: the event it waited for is not put back in front of the others. *)
FirstEventMutant ==
  /\ pc = "first"
  /\ Arrived("event")
  /\ held' = None /\ wire' = None
  /\ pc' = "streaming"
  /\ UNCHANGED <<mode, attempt, sent, folded, told, timeLeft, sleepLeft,
                 waits, failures, outcome>>

(* open_once: the call's stream starts with the event it waited for. *)
FirstEvent ==
  /\ pc = "first"
  /\ Arrived("event")
  /\ held' = Some(wire[1].event)
  /\ wire' = None
  /\ pc' = "streaming"
  /\ UNCHANGED <<mode, attempt, sent, folded, told, timeLeft, sleepLeft,
                 waits, failures, outcome>>

(* complete_once *)
FoldEvent ==
  /\ pc = "reading"
  /\ Arrived("event")
  /\ folded' = Append(folded, wire[1].event)
  /\ wire' = None
  /\ UNCHANGED <<mode, pc, attempt, sent, held, told, timeLeft, sleepLeft,
                 waits, failures, outcome>>

(* CompletionAccumulator::finish needs a finished event. *)
FinishedSeen == \E i \in DOMAIN folded : folded[i].kind = "finished"

Complete ==
  /\ FinishedSeen
  /\ pc' = "done"
  /\ outcome' = [kind |-> "Completed"]
  /\ UNCHANGED <<wire, sleepLeft, waits, failures>>

(* Bug: a stream that ends unfinished is no failure, and is waited for. *)
FinishFailuresMutant == IF FinishedSeen THEN {[kind |-> "Decode"]} ELSE {}

(* finish fails: no finished event, or arguments that are no JSON. *)
FinishFailures == IF FinishedSeen THEN {[kind |-> "Decode"]} ELSE {Transport}

EndOfComplete ==
  /\ pc = "reading"
  /\ Arrived("end")
  /\ Complete \/ \E f \in FinishFailures : AttemptFails(f)
  /\ UNCHANGED <<mode, attempt, sent, held, folded, told, timeLeft>>

(***************************************************************************)
(* stream_round: the loop over the stream Model::stream returned.          *)
(***************************************************************************)
Consume(event) ==
  /\ told' = Append(told, event)
  /\ folded' = Append(folded, event)

TakeHeld ==
  /\ pc = "streaming"
  /\ held # None
  /\ Consume(held[1])
  /\ held' = None
  /\ UNCHANGED <<mode, pc, attempt, wire, sent, timeLeft, sleepLeft, waits, failures, outcome>>

TakeEvent ==
  /\ pc = "streaming"
  /\ held = None
  /\ Arrived("event")
  /\ Consume(wire[1].event)
  /\ wire' = None
  /\ UNCHANGED <<mode, pc, attempt, sent, held, timeLeft, sleepLeft, waits, failures, outcome>>

(* Bug: a failure in the middle of the stream is retried. *)
StreamFailsMutant(f) == AttemptFails(f)

(* The failure is the stream's last item; it is not retried. *)
StreamFails(f) ==
  /\ pc' = "done"
  /\ outcome' = f
  /\ failures' = Append(failures, f)
  /\ UNCHANGED <<wire, sleepLeft, waits>>

TakeFailure ==
  /\ pc = "streaming"
  /\ held = None
  /\ Arrived("failure")
  /\ StreamFails(wire[1].failure)
  /\ UNCHANGED <<mode, attempt, sent, held, folded, told, timeLeft>>

EndOfStream ==
  /\ pc = "streaming"
  /\ held = None
  /\ Arrived("end")
  /\ Complete \/ \E f \in FinishFailures : StreamFails(f)
  /\ UNCHANGED <<mode, attempt, sent, held, folded, told, timeLeft>>

(***************************************************************************)
(* Between two attempts, and the deadline.                                 *)
(***************************************************************************)
NextAttempt ==
  /\ pc = "waiting"
  /\ sleepLeft = 0
  /\ OpenAttempt
  /\ UNCHANGED <<mode, held, told, timeLeft, sleepLeft, waits, failures, outcome>>

(* Bug: the deadline bounds the opening of a stream, not its events. *)
BoundedMutant == pc \in {"opening", "first", "reading", "waiting"}

(* What the timeout is wrapped around. *)
Bounded == pc \in {"opening", "first", "reading", "waiting", "streaming"}

(* What the timeout polls first is pending. *)
Stuck ==
  /\ wire = None /\ held = None
  /\ pc = "waiting" => sleepLeft > 0

Expire ==
  /\ Bounded
  /\ timeLeft = Some(0)
  /\ Stuck
  /\ pc' = "done"
  /\ outcome' = TimedOut
  /\ UNCHANGED <<mode, attempt, wire, sent, held, folded, told, timeLeft, sleepLeft,
                 waits, failures>>

-----------------------------------------------------------------------------
(***************************************************************************)
(* The environment.                                                        *)
(***************************************************************************)
Answer(item) == wire' = Some(item)

(* Provider::complete returns. *)
AnswerOpening ==
  /\ pc = "opening" /\ wire = None
  /\ \/ Answer([kind |-> "opened"])
     \/ \E f \in Failures : Answer([kind |-> "failure", failure |-> f])
  /\ UNCHANGED <<mode, pc, attempt, sent, held, folded, told, timeLeft, sleepLeft,
                 waits, failures, outcome>>

Reading == pc \in {"first", "reading", "streaming"} /\ wire = None

(* A finished event or a failure closes the provider's stream. *)
Closed == \E i \in DOMAIN sent : sent[i] \in {"finished", "failure"}

SendEvent(kind) ==
  /\ Reading /\ ~Closed
  /\ Len(sent) < MaxEvents
  /\ Answer([kind |-> "event",
             event |-> [attempt |-> attempt, index |-> Len(sent) + 1, kind |-> kind]])
  /\ sent' = Append(sent, kind)
  /\ UNCHANGED <<mode, pc, attempt, held, folded, told, timeLeft, sleepLeft,
                 waits, failures, outcome>>

SendFailure(f) ==
  /\ Reading /\ ~Closed
  /\ Answer([kind |-> "failure", failure |-> f])
  /\ sent' = Append(sent, "failure")
  /\ UNCHANGED <<mode, pc, attempt, held, folded, told, timeLeft, sleepLeft,
                 waits, failures, outcome>>

EndStream ==
  /\ Reading
  /\ Answer([kind |-> "end"])
  /\ UNCHANGED <<mode, pc, attempt, sent, held, folded, told, timeLeft, sleepLeft,
                 waits, failures, outcome>>

Before(t) == IF t > 0 THEN t - 1 ELSE 0

(* Time passes; only what a timer still has to wait is kept of it. *)
Tick ==
  /\ pc \notin {"start", "done"}
  /\ sleepLeft > 0 \/ (timeLeft # None /\ timeLeft[1] > 0)
  /\ sleepLeft' = Before(sleepLeft)
  /\ timeLeft' = IF timeLeft = None THEN None ELSE Some(Before(timeLeft[1]))
  /\ UNCHANGED <<mode, pc, attempt, wire, sent, held, folded, told, waits, failures, outcome>>

Returned == pc = "done" /\ UNCHANGED vars

Call ==
  \/ RejectRequest \/ Begin
  \/ StreamOpened \/ AttemptRefused \/ StreamEmpty \/ FirstEvent
  \/ FoldEvent \/ EndOfComplete
  \/ TakeHeld \/ TakeEvent \/ TakeFailure \/ EndOfStream
  \/ NextAttempt \/ Expire

Provider ==
  \/ AnswerOpening
  \/ \E kind \in EventKinds : SendEvent(kind)
  \/ \E f \in Failures : SendFailure(f)
  \/ EndStream

Next == Call \/ Provider \/ Tick \/ Returned

Spec == Init /\ [][Next]_vars

(* The executor polls the call and the timers run. *)
TimedSpec == Spec /\ WF_vars(Call) /\ WF_vars(Tick)

-----------------------------------------------------------------------------
(***************************************************************************)
(* Properties.                                                             *)
(***************************************************************************)
TypeOK ==
  /\ mode \in {"complete", "stream"}
  /\ pc \in {"start", "opening", "first", "reading", "streaming", "waiting", "done"}
  /\ attempt \in 0..MaxAttempts
  /\ wire \in Option(Items)
  /\ sent \in Seq(EventKinds \cup {"failure"})
  /\ held \in Option(Event)
  /\ folded \in Seq(Event)
  /\ told \in Seq(Event)
  /\ timeLeft \in Option(Nat)
  /\ sleepLeft \in Nat
  /\ waits \in Seq(Wait)
  /\ failures \in Seq(FailureType)
  /\ outcome \in Outcomes

(* Every attempt after the first was earned by a retryable failure of the   *)
(* one before it, at most MaxAttempts are made, and a call that gives up    *)
(* returns the failure of its last attempt, which could not be retried      *)
(* (but for a failure after events were delivered).                         *)
RetriesJustified ==
  /\ attempt <= MaxAttempts
  /\ \A i \in DOMAIN failures : i < attempt => IsRetryable(failures[i])
  /\ pc = "waiting" => Len(failures) = attempt /\ IsRetryable(failures[attempt])
  /\ outcome.kind \in {"Transport", "Status", "Decode", "Configuration"} =>
       /\ Len(failures) = attempt /\ outcome = failures[attempt]
       /\ IsRetryable(outcome) /\ attempt < MaxAttempts => told # <<>>

(* What the observer of a run was told is never taken back: the events it   *)
(* saw are the first ones of the attempt in progress, in order, and exactly *)
(* what the completion is made of.                                          *)
NothingRetracted ==
  mode = "stream" =>
    /\ told = folded
    /\ \A i \in DOMAIN told : told[i] = [attempt |-> attempt, index |-> i, kind |-> sent[i]]

(* A completion is made of all the events of one attempt, the last one,     *)
(* in order: nothing of an attempt that failed is left in it.               *)
CompletionWhole ==
  outcome.kind = "Completed" =>
    /\ folded = [i \in DOMAIN sent |-> [attempt |-> attempt, index |-> i, kind |-> sent[i]]]
    /\ sent[Len(sent)] = "finished"

(* Without a Retry-After the computed delays never shrink from one attempt  *)
(* to the next, not even past the width of the multiplier, and never exceed *)
(* the cap; no sleep is longer than the delay computed for it.              *)
BackoffGrows ==
  /\ \A i \in DOMAIN waits :
       /\ waits[i].waited <= waits[i].computed
       /\ waits[i].asked = None => waits[i].computed <= BackoffCap
  /\ \A i, j \in DOMAIN waits :
       i < j /\ waits[i].asked = None => waits[i].computed <= waits[j].computed

(* The attempts, the waits and the deadline are invisible to the caller: it *)
(* hears one stream, of which the completion is made, or the call fails.    *)
Verdict ==
  CASE outcome.kind = "Pending"   -> "Pending"
    [] outcome.kind = "Completed" -> "Completed"
    [] OTHER                      -> "Failed"

Promise == INSTANCE ModelPromise WITH
  watched    <- mode = "stream",
  heard      <- told,
  completion <- IF Verdict = "Completed" THEN folded ELSE <<>>,
  verdict    <- Verdict

KeepsCallPromise == Promise!Spec

(* What the documentation of ProviderFailure::retry_after says: the wait    *)
(* the server asked for beats the computed one.                             *)
RetryAfterHonoured ==
  \A i \in DOMAIN waits : waits[i].asked # None => waits[i].waited >= waits[i].asked[1]

(* With a timeout the call returns, even if the provider falls silent: at   *)
(* the opening, between two events, or between two attempts.                *)
DeadlineEnds == timeLeft # None ~> pc = "done"

(* Without one it returns if the provider does not fall silent: retries end *)
(* and a stream that ends unfinished is not waited for.                     *)
Returns == WF_vars(Provider) => <>(pc = "done")
=============================================================================
