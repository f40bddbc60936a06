--------------------------- MODULE ModelCallProofs ---------------------------
(***************************************************************************)
(* Proofs about ModelCall: its types, and the safety properties that its   *)
(* run checks, for every retry policy, set of failures and timeout.        *)
(***************************************************************************)
EXTENDS ModelCall, FiniteSetTheorems, TLAPS

-----------------------------------------------------------------------------
(***************************************************************************)
(* The inductive invariants.                                               *)
(***************************************************************************)
Attempting == pc \in {"opening", "first", "reading", "streaming"}

(* An attempt is in progress only between its start and its failure; the    *)
(* failures and the waits so far are those of the attempts before it.       *)
CountersAgree ==
  /\ pc = "start" => attempt = 0 /\ failures = <<>> /\ waits = <<>>
  /\ Attempting => attempt >= 1 /\ Len(failures) = attempt - 1 /\ Len(waits) = attempt - 1
  /\ pc = "waiting" =>
       /\ attempt \in 1..(MaxAttempts - 1)
       /\ Len(failures) = attempt /\ Len(waits) = attempt
  /\ pc # "done" => outcome.kind = "Pending"

(* A delay is at least the exponential backoff of its attempt, and exactly  *)
(* that when the provider asked for nothing.                                *)
DelaysFollowPolicy ==
  \A i \in DOMAIN waits :
    /\ waits[i].waited <= waits[i].computed
    /\ waits[i].computed >= ExponentialBackoff(i)
    /\ waits[i].asked = None => waits[i].computed = ExponentialBackoff(i)

(* The event that the provider sent as the i-th one of this attempt.        *)
SentEvent(i) == [attempt |-> attempt, index |-> i, kind |-> sent[i]]

InStream == pc \in {"first", "reading", "streaming"}

(* Every event of the attempt is in exactly one place: folded, held back    *)
(* for the stream's consumer, or on the wire.                               *)
EventsConserved ==
  /\ pc \in {"start", "opening"} => sent = <<>>
  /\ \A i \in DOMAIN folded : i \in DOMAIN sent /\ folded[i] = SentEvent(i)
  /\ held # None => pc = "streaming" /\ folded = <<>> /\ held = Some(SentEvent(1))
  /\ InStream =>
       /\ wire # None => wire[1].kind # "opened"
       /\ Len(sent) = Len(folded) + Len(held)
                        + (IF Arrived("event") \/ Arrived("failure") THEN 1 ELSE 0)
       /\ Arrived("event") => wire[1].event = SentEvent(Len(sent))

(* Nothing follows the item that closes the provider's stream.              *)
ClosedOnce ==
  \A i \in DOMAIN sent : sent[i] \in {"finished", "failure"} => i = Len(sent)

(* Only the consumer of a stream tells the observer, and only once no       *)
(* attempt can follow.                                                      *)
ToldWhenFolded ==
  /\ mode = "complete" => told = <<>> /\ pc \notin {"first", "streaming"}
  /\ mode = "stream" => told = folded /\ pc # "reading"
  /\ pc \in {"start", "opening", "first"} => folded = <<>> /\ told = <<>>
  /\ pc = "waiting" => told = <<>>
  /\ pc = "streaming" /\ held = None => told # <<>>

CallInv ==
  /\ CountersAgree
  /\ DelaysFollowPolicy
  /\ EventsConserved
  /\ ClosedOnce
  /\ ToldWhenFolded
  /\ RetriesJustified
  /\ CompletionWhole

-----------------------------------------------------------------------------
(***************************************************************************)
(* The backoff.                                                            *)
(***************************************************************************)
(* A power of two counts the subsets of an interval. *)
LEMMA PowerIsCardinality ==
  ASSUME NEW n \in Nat
  PROVE  /\ IsFiniteSet(SUBSET (1..n))
         /\ 2 ^ n = Cardinality(SUBSET (1..n))
         /\ 2 ^ n \in Nat \ {0}
<1>1. IsFiniteSet(1..n) /\ Cardinality(1..n) = n
  BY FS_Interval
<1>2. IsFiniteSet(SUBSET (1..n)) /\ 2 ^ n = Cardinality(SUBSET (1..n))
  BY <1>1, FS_SUBSET
<1>3. SUBSET (1..n) # {}
  OBVIOUS
<1> QED
  BY <1>2, <1>3, FS_CardinalityType, FS_EmptySet

(* Powers of two grow with the exponent. *)
LEMMA PowerGrows ==
  ASSUME NEW m \in Nat, NEW n \in Nat, m < n
  PROVE  2 ^ m < 2 ^ n
<1>1. SUBSET (1..m) \in SUBSET (SUBSET (1..n)) /\ SUBSET (1..m) # SUBSET (1..n)
  <2>1. 1..m \subseteq 1..n
    OBVIOUS
  <2>2. n \in 1..n /\ n \notin 1..m
    OBVIOUS
  <2> QED
    BY <2>1, <2>2
<1>2. /\ Cardinality(SUBSET (1..m)) <= Cardinality(SUBSET (1..n))
      /\ Cardinality(SUBSET (1..m)) # Cardinality(SUBSET (1..n))
  BY <1>1, PowerIsCardinality, FS_Subset
<1> QED
  <2>1. 2 ^ m = Cardinality(SUBSET (1..m)) /\ 2 ^ m \in Nat
    BY PowerIsCardinality
  <2>2. 2 ^ n = Cardinality(SUBSET (1..n)) /\ 2 ^ n \in Nat
    BY PowerIsCardinality
  <2> QED
    BY <1>2, <2>1, <2>2

(* The multiplier never shrinks, not even where it saturates. *)
LEMMA MultiplierGrows ==
  ASSUME NEW m \in Nat \ {0}, NEW n \in Nat \ {0}, m <= n
  PROVE  Multiplier(m) \in Nat /\ Multiplier(n) \in Nat /\ Multiplier(m) <= Multiplier(n)
<1> DEFINE top == 2 ^ Width
           pm  == 2 ^ (m - 1)
           pn  == 2 ^ (n - 1)
<1>1. top \in Nat \ {0} /\ pm \in Nat /\ pn \in Nat
  <2>1. Width \in Nat /\ m - 1 \in Nat /\ n - 1 \in Nat
    BY ModelCallAssumption
  <2> QED
    BY <2>1, PowerIsCardinality
<1>2. m < n => pm < pn
  BY PowerGrows
<1>3. m - 1 < Width => pm < top
  BY PowerGrows, ModelCallAssumption
<1>4. n - 1 < Width => pn < top
  BY PowerGrows, ModelCallAssumption
<1>5. m = n => pm = pn
  OBVIOUS
<1>6. /\ Multiplier(m) = IF m - 1 < Width THEN pm ELSE top - 1
      /\ Multiplier(n) = IF n - 1 < Width THEN pn ELSE top - 1
  BY DEF Multiplier
<1> HIDE DEF top, pm, pn
<1>7. Width \in Nat
  BY ModelCallAssumption
<1> QED
  BY <1>1, <1>2, <1>3, <1>4, <1>5, <1>6, <1>7

(* So does a product that one factor of stays the same. *)
LEMMA ProductGrows ==
  ASSUME NEW a \in Nat, NEW b \in Nat, NEW c \in Nat, b <= c
  PROVE  a * b <= a * c /\ a * b \in Nat
<1>1. PICK d \in Nat : c = b + d
  <2>1. c - b \in Nat /\ c = b + (c - b)
    OBVIOUS
  <2> QED
    BY <2>1
<1>2. a * b \in Nat /\ a * d \in Nat
  OBVIOUS
<1>3. a * (b + d) = a * b + a * d
  OBVIOUS
<1> QED
  BY <1>1, <1>2, <1>3

(* exponential_backoff never shrinks from one attempt to a later one, and   *)
(* never exceeds the cap.                                                   *)
LEMMA BackoffNeverShrinks ==
  ASSUME NEW m \in Nat \ {0}, NEW n \in Nat \ {0}, m <= n
  PROVE  /\ ExponentialBackoff(m) \in Nat
         /\ ExponentialBackoff(m) <= BackoffCap
         /\ ExponentialBackoff(m) <= ExponentialBackoff(n)
<1> DEFINE a == InitialBackoff * Multiplier(m)
           b == InitialBackoff * Multiplier(n)
<1>1. a \in Nat /\ b \in Nat /\ a <= b
  <2>1. /\ InitialBackoff \in Nat /\ Multiplier(m) \in Nat /\ Multiplier(n) \in Nat
        /\ Multiplier(m) <= Multiplier(n)
    BY MultiplierGrows, ModelCallAssumption
  <2>2. Multiplier(n) <= Multiplier(n)
    BY <2>1
  <2> QED
    BY <2>1, <2>2, ProductGrows
<1>2. ExponentialBackoff(m) = Least(a, BackoffCap) /\ ExponentialBackoff(n) = Least(b, BackoffCap)
  BY DEF ExponentialBackoff
<1> HIDE DEF a, b
<1> QED
  BY <1>1, <1>2, ModelCallAssumption DEF Least

(* The computed delay: the backoff, or the longer wait the server asked for. *)
LEMMA DelayBounds ==
  ASSUME NEW n \in Nat \ {0}, NEW f \in FailureType
  PROVE  /\ ComputedDelay(n, f) \in Nat
         /\ ComputedDelay(n, f) >= ExponentialBackoff(n)
         /\ RetryAfter(f) \in Option(Nat)
         /\ RetryAfter(f) = None => ComputedDelay(n, f) = ExponentialBackoff(n)
<1>1. ExponentialBackoff(n) \in Nat
  BY BackoffNeverShrinks
<1>2. RetryAfter(f) \in Option(Nat)
  BY DEF RetryAfter, FailureType, Option, None
<1>3. RetryAfter(f) # None => RetryAfter(f)[1] \in Nat
  BY <1>2 DEF Option, None
<1> QED
  BY <1>1, <1>2, <1>3 DEF ComputedDelay, Greatest

-----------------------------------------------------------------------------
(***************************************************************************)
(* Types, and the counters.                                                *)
(***************************************************************************)
LEMMA AppendLength ==
  ASSUME NEW S, NEW s \in Seq(S), NEW x \in S
  PROVE  /\ Append(s, x) \in Seq(S) /\ Append(s, x) # <<>>
         /\ Len(Append(s, x)) = Len(s) + 1 /\ DOMAIN Append(s, x) = 1..(Len(s) + 1)
         /\ \A i \in DOMAIN s : i \in DOMAIN Append(s, x) /\ Append(s, x)[i] = s[i]
         /\ Append(s, x)[Len(s) + 1] = x
OBVIOUS

LEMMA SomeIsOption ==
  ASSUME NEW S, NEW x \in S
  PROVE  Some(x) \in Option(S) /\ Some(x) # None /\ Some(x)[1] = x /\ Len(Some(x)) = 1
BY DEF Some, Option, None

LEMMA NoneIsOption == \A S : None \in Option(S)
BY DEF Option, None

(* An option is nothing or one value. *)
LEMMA OptionCases ==
  ASSUME NEW S, NEW o \in Option(S)
  PROVE  \/ o = None /\ Len(o) = 0
         \/ o = Some(o[1]) /\ Len(o) = 1 /\ o[1] \in S
<1>1. o \in Seq(S) /\ Len(o) <= 1
  BY DEF Option
<1>2. Len(o) \in Nat
  BY <1>1
<1>3. CASE Len(o) = 0
  BY <1>1, <1>3 DEF None
<1>4. CASE Len(o) = 1
  BY <1>1, <1>4 DEF Some
<1>5. \A n \in Nat : n <= 1 => n = 0 \/ n = 1
  OBVIOUS
<1> QED
  BY <1>1, <1>2, <1>3, <1>4, <1>5

(* What is on the wire, by its kind. *)
LEMMA WireItem ==
  ASSUME TypeOK
  PROVE  /\ Arrived("failure") => wire[1].failure \in FailureType
         /\ Arrived("event") => wire[1].event \in Event
<1>1. wire # None => wire[1] \in Items
  BY DEF TypeOK, Option, None
<1> QED
  BY <1>1 DEF Arrived, Items

LEMMA FinishFails == FinishFailures \subseteq FailureType
BY DEF FinishFailures, FailureType, Transport

(* A failed attempt: what the wait for the next one, or giving up, leaves.  *)
LEMMA AttemptEnds ==
  ASSUME TypeOK, CountersAgree, Attempting, NEW f \in FailureType, AttemptFails(f)
  PROVE  /\ failures' = Append(failures, f) /\ failures' \in Seq(FailureType)
         /\ Len(failures') = attempt /\ failures'[attempt] = f
         /\ \A i \in DOMAIN failures : i < attempt /\ failures'[i] = failures[i]
         /\ wire' = None /\ wire' \in Option(Items)
         /\ sleepLeft' \in Nat /\ waits' \in Seq(Wait) /\ outcome' \in Outcomes
         /\ \/ /\ pc' = "waiting" /\ MayRetry(attempt, f) /\ UNCHANGED outcome
               /\ \E w \in Wait : /\ waits' = Append(waits, w)
                                  /\ w.asked = RetryAfter(f) /\ w.computed = ComputedDelay(attempt, f)
                                  /\ w.waited <= w.computed
            \/ pc' = "done" /\ ~MayRetry(attempt, f) /\ outcome' = f /\ UNCHANGED waits
<1>1. /\ attempt \in Nat \ {0} /\ Len(failures) = attempt - 1
      /\ failures \in Seq(FailureType) /\ waits \in Seq(Wait)
      /\ sleepLeft \in Nat /\ outcome \in Outcomes
  BY ModelCallAssumption DEF TypeOK, CountersAgree, Attempting
<1>2. /\ failures' = Append(failures, f) /\ failures' \in Seq(FailureType)
      /\ Len(failures') = attempt /\ failures'[attempt] = f
      /\ \A i \in DOMAIN failures : i < attempt /\ failures'[i] = failures[i]
  <2>1. failures' = Append(failures, f)
    BY DEF AttemptFails
  <2>2. DOMAIN failures = 1..Len(failures)
    BY <1>1
  <2> QED
    BY <1>1, <2>1, <2>2, AppendLength
<1>3. wire' = None /\ wire' \in Option(Items)
  BY NoneIsOption DEF AttemptFails
<1>4. CASE Retry(f)
  <2>1. PICK jittered \in 0..ComputedDelay(attempt, f) :
          /\ sleepLeft' = jittered
          /\ waits' = Append(waits, [asked    |-> RetryAfter(f),
                                     computed |-> ComputedDelay(attempt, f),
                                     waited   |-> jittered])
    BY <1>4 DEF Retry
  <2> DEFINE w == [asked    |-> RetryAfter(f),
                   computed |-> ComputedDelay(attempt, f),
                   waited   |-> jittered]
  <2>2. jittered \in Nat /\ jittered <= ComputedDelay(attempt, f) /\ w \in Wait
    BY <1>1, <2>1, DelayBounds DEF Wait
  <2>3. waits' = Append(waits, w) /\ waits' \in Seq(Wait)
    BY <1>1, <2>1, <2>2, AppendLength
  <2>4. /\ w.asked = RetryAfter(f) /\ w.computed = ComputedDelay(attempt, f)
        /\ w.waited <= w.computed
    BY <2>2
  <2>5. pc' = "waiting" /\ MayRetry(attempt, f) /\ UNCHANGED outcome
    BY <1>4 DEF Retry
  <2> QED
    BY <1>1, <1>2, <1>3, <2>1, <2>2, <2>3, <2>4, <2>5
<1>5. CASE GiveUp(f)
  BY <1>1, <1>2, <1>3, <1>5 DEF GiveUp, Outcomes
<1> QED
  BY <1>4, <1>5 DEF AttemptFails

(* A stream that fails hands the failure on. *)
LEMMA StreamEnds ==
  ASSUME TypeOK, CountersAgree, Attempting, NEW f \in FailureType, StreamFails(f)
  PROVE  /\ failures' = Append(failures, f) /\ failures' \in Seq(FailureType)
         /\ Len(failures') = attempt /\ failures'[attempt] = f
         /\ \A i \in DOMAIN failures : i < attempt /\ failures'[i] = failures[i]
         /\ pc' = "done" /\ outcome' = f /\ outcome' \in Outcomes
         /\ UNCHANGED <<wire, sleepLeft, waits>>
<1>1. Len(failures) = attempt - 1 /\ failures \in Seq(FailureType) /\ attempt \in Nat
  BY ModelCallAssumption DEF TypeOK, CountersAgree, Attempting
<1>2. failures' = Append(failures, f)
  BY DEF StreamFails
<1>3. DOMAIN failures = 1..Len(failures)
  BY <1>1
<1>4. /\ failures' \in Seq(FailureType) /\ Len(failures') = attempt /\ failures'[attempt] = f
      /\ \A i \in DOMAIN failures : i < attempt /\ failures'[i] = failures[i]
  BY <1>1, <1>2, <1>3, AppendLength
<1> QED
  BY <1>2, <1>4 DEF StreamFails, Outcomes

LEMMA CallInit == Init => TypeOK /\ CallInv
<1> SUFFICES ASSUME Init PROVE TypeOK /\ CallInv
  OBVIOUS
<1>1. TypeOK
  BY ModelCallAssumption, NoneIsOption DEF Init, TypeOK, Outcomes
<1>2. CountersAgree /\ RetriesJustified /\ CompletionWhole
  BY ModelCallAssumption DEF Init, CountersAgree, RetriesJustified, CompletionWhole, Attempting
<1>3. DelaysFollowPolicy
  BY DEF Init, DelaysFollowPolicy
<1>4. EventsConserved /\ ClosedOnce /\ ToldWhenFolded
  BY DEF Init, EventsConserved, ClosedOnce, ToldWhenFolded, InStream, None
<1> QED
  BY <1>1, <1>2, <1>3, <1>4 DEF CallInv

LEMMA TypeStep == TypeOK /\ CountersAgree /\ [Next]_vars => TypeOK'
<1> SUFFICES ASSUME TypeOK, CountersAgree, [Next]_vars PROVE TypeOK'
  OBVIOUS
<1>a. attempt \in Nat /\ MaxAttempts \in Nat \ {0}
  BY ModelCallAssumption DEF TypeOK
<1>b. None \in Option(Items) /\ None \in Option(Event) /\ None \in Option(Nat)
  BY NoneIsOption
<1>1. CASE RejectRequest
  BY <1>1 DEF RejectRequest, TypeOK, Outcomes, FailureType
<1>2. CASE Begin
  BY <1>2, <1>a, <1>b DEF Begin, OpenAttempt, TypeOK, CountersAgree
<1>3. CASE StreamOpened
  BY <1>3, <1>b DEF StreamOpened, TypeOK
<1>4. CASE AttemptRefused
  <2>1. Attempting /\ wire[1].failure \in FailureType /\ AttemptFails(wire[1].failure)
    BY <1>4, WireItem DEF AttemptRefused, Attempting
  <2> QED
    BY <1>4, <2>1, AttemptEnds DEF AttemptRefused, TypeOK
<1>5. CASE StreamEmpty
  <2>1. Attempting /\ Transport \in FailureType /\ AttemptFails(Transport)
    BY <1>5 DEF StreamEmpty, Attempting, Transport, FailureType
  <2> QED
    BY <1>5, <2>1, AttemptEnds DEF StreamEmpty, TypeOK
<1>6. CASE FirstEvent
  <2>1. Some(wire[1].event) \in Option(Event)
    BY <1>6, WireItem, SomeIsOption DEF FirstEvent
  <2> QED
    BY <1>6, <1>b, <2>1 DEF FirstEvent, TypeOK
<1>7. CASE FoldEvent
  <2>1. folded' \in Seq(Event)
    BY <1>7, WireItem, AppendLength DEF FoldEvent, TypeOK
  <2> QED
    BY <1>7, <1>b, <2>1 DEF FoldEvent, TypeOK
<1>8. CASE EndOfComplete
  <2>1. CASE Complete
    BY <1>8, <2>1 DEF EndOfComplete, Complete, TypeOK, Outcomes
  <2>2. ASSUME NEW f \in FinishFailures, AttemptFails(f) PROVE TypeOK'
    <3>1. Attempting /\ f \in FailureType
      BY <1>8, FinishFails DEF EndOfComplete, Attempting
    <3> QED
      BY <1>8, <2>2, <3>1, AttemptEnds DEF EndOfComplete, TypeOK
  <2> QED
    BY <1>8, <2>1, <2>2 DEF EndOfComplete
<1>9. CASE TakeHeld
  <2>1. held[1] \in Event
    BY <1>9 DEF TakeHeld, TypeOK, Option, None
  <2>2. told' \in Seq(Event) /\ folded' \in Seq(Event)
    BY <1>9, <2>1, AppendLength DEF TakeHeld, Consume, TypeOK
  <2> QED
    BY <1>9, <1>b, <2>2 DEF TakeHeld, TypeOK
<1>10. CASE TakeEvent
  <2>1. told' \in Seq(Event) /\ folded' \in Seq(Event)
    BY <1>10, WireItem, AppendLength DEF TakeEvent, Consume, TypeOK
  <2> QED
    BY <1>10, <1>b, <2>1 DEF TakeEvent, TypeOK
<1>11. CASE TakeFailure
  <2>1. Attempting /\ wire[1].failure \in FailureType /\ StreamFails(wire[1].failure)
    BY <1>11, WireItem DEF TakeFailure, Attempting
  <2> QED
    BY <1>11, <2>1, StreamEnds DEF TakeFailure, TypeOK
<1>12. CASE EndOfStream
  <2>1. CASE Complete
    BY <1>12, <2>1 DEF EndOfStream, Complete, TypeOK, Outcomes
  <2>2. ASSUME NEW f \in FinishFailures, StreamFails(f) PROVE TypeOK'
    <3>1. Attempting /\ f \in FailureType
      BY <1>12, FinishFails DEF EndOfStream, Attempting
    <3> QED
      BY <1>12, <2>2, <3>1, StreamEnds DEF EndOfStream, TypeOK
  <2> QED
    BY <1>12, <2>1, <2>2 DEF EndOfStream
<1>13. CASE NextAttempt
  BY <1>13, <1>a, <1>b DEF NextAttempt, OpenAttempt, TypeOK, CountersAgree
<1>14. CASE Expire
  BY <1>14 DEF Expire, TypeOK, Outcomes, FailureType, TimedOut
<1>15. CASE AnswerOpening
  <2>1. wire' \in Option(Items)
    <3>1. [kind |-> "opened"] \in Items
      BY DEF Items
    <3>2. \A f \in Failures : [kind |-> "failure", failure |-> f] \in Items
      BY ModelCallAssumption DEF Items
    <3> QED
      BY <1>15, <3>1, <3>2, SomeIsOption DEF AnswerOpening, Answer
  <2> QED
    BY <1>15, <2>1 DEF AnswerOpening, TypeOK
<1>16. ASSUME NEW kind \in EventKinds, SendEvent(kind) PROVE TypeOK'
  <2> DEFINE event == [attempt |-> attempt, index |-> Len(sent) + 1, kind |-> kind]
  <2>1. sent \in Seq(EventKinds \cup {"failure"}) /\ event \in Event
    BY <1>a DEF TypeOK, Event
  <2>2. [kind |-> "event", event |-> event] \in Items
    BY <2>1 DEF Items
  <2>3. wire' \in Option(Items) /\ sent' \in Seq(EventKinds \cup {"failure"})
    BY <1>16, <2>1, <2>2, SomeIsOption, AppendLength DEF SendEvent, Answer
  <2> QED
    BY <1>16, <2>3 DEF SendEvent, TypeOK
<1>17. ASSUME NEW f \in Failures, SendFailure(f) PROVE TypeOK'
  <2>1. [kind |-> "failure", failure |-> f] \in Items
    BY ModelCallAssumption DEF Items
  <2>2. wire' \in Option(Items) /\ sent' \in Seq(EventKinds \cup {"failure"})
    BY <1>17, <2>1, SomeIsOption, AppendLength DEF SendFailure, Answer, TypeOK
  <2> QED
    BY <1>17, <2>2 DEF SendFailure, TypeOK
<1>18. CASE EndStream
  <2>1. wire' \in Option(Items)
    BY <1>18, SomeIsOption DEF EndStream, Answer, Items
  <2> QED
    BY <1>18, <2>1 DEF EndStream, TypeOK
<1>19. CASE Tick
  <2>1. \A t \in Nat : Before(t) \in Nat
    BY DEF Before
  <2>2. timeLeft # None => timeLeft[1] \in Nat
    BY DEF TypeOK, Option, None
  <2>3. sleepLeft' \in Nat /\ timeLeft' \in Option(Nat)
    BY <1>19, <1>b, <2>1, <2>2, SomeIsOption DEF Tick, TypeOK
  <2> QED
    BY <1>19, <2>3 DEF Tick, TypeOK
<1>20. CASE UNCHANGED vars
  BY <1>20 DEF vars, TypeOK
<1> QED
  BY <1>1, <1>2, <1>3, <1>4, <1>5, <1>6, <1>7, <1>8, <1>9, <1>10, <1>11, <1>12, <1>13,
     <1>14, <1>15, <1>16, <1>17, <1>18, <1>19, <1>20 DEF Next, Call, Provider, Returned

-----------------------------------------------------------------------------
(***************************************************************************)
(* The attempts, their failures and the waits between them.                *)
(***************************************************************************)
Counting == CountersAgree /\ RetriesJustified /\ DelaysFollowPolicy

LEMMA RetriesType ==
  TypeOK /\ CountersAgree =>
    /\ attempt \in Nat /\ MaxAttempts \in Nat \ {0} /\ attempt <= MaxAttempts
    /\ failures \in Seq(FailureType) /\ waits \in Seq(Wait)
    /\ DOMAIN failures = 1..Len(failures) /\ DOMAIN waits = 1..Len(waits)
    /\ Attempting => attempt >= 1 /\ Len(failures) = attempt - 1 /\ Len(waits) = attempt - 1
BY ModelCallAssumption DEF TypeOK, CountersAgree

(* Steps within an attempt touch none of it. *)
LEMMA QuietStep ==
  ASSUME TypeOK, Counting, UNCHANGED <<attempt, failures, waits, outcome>>,
         (Attempting /\ Attempting') \/ UNCHANGED <<pc, told>>
  PROVE  Counting'
<1>1. CASE Attempting /\ Attempting'
  BY <1>1 DEF Counting, CountersAgree, RetriesJustified, DelaysFollowPolicy, Attempting
<1>2. CASE UNCHANGED <<pc, told>>
  BY <1>2 DEF Counting, CountersAgree, RetriesJustified, DelaysFollowPolicy, Attempting
<1> QED
  BY <1>1, <1>2

(* The call ends without a failure of this attempt. *)
LEMMA EndStep ==
  ASSUME TypeOK, Counting, pc' = "done", UNCHANGED <<attempt, failures, waits>>,
         outcome'.kind \in {"InvalidRequest", "TimedOut", "Completed"}
  PROVE  Counting'
BY DEF Counting, CountersAgree, RetriesJustified, DelaysFollowPolicy, Attempting

(* An attempt begins, after a wait or as the first. *)
LEMMA OpenStep ==
  ASSUME TypeOK, Counting, pc \in {"start", "waiting"}, OpenAttempt,
         UNCHANGED <<failures, waits, outcome>>
  PROVE  Counting'
<1>1. /\ attempt' = attempt + 1 /\ attempt + 1 <= MaxAttempts /\ pc' = "opening"
      /\ Len(failures) = attempt /\ Len(waits) = attempt /\ attempt \in Nat
      /\ outcome.kind = "Pending"
  BY RetriesType DEF OpenAttempt, Counting, CountersAgree
<1>2. \A i \in DOMAIN failures : IsRetryable(failures[i])
  <2>1. SUFFICES ASSUME NEW i \in DOMAIN failures PROVE IsRetryable(failures[i])
    OBVIOUS
  <2>2. i \in 1..attempt /\ pc = "waiting"
    BY <1>1, RetriesType DEF Counting, CountersAgree
  <2>3. CASE i < attempt
    BY <2>3 DEF Counting, RetriesJustified
  <2>4. CASE i = attempt
    BY <2>2, <2>4 DEF Counting, RetriesJustified
  <2> QED
    BY <1>1, <2>2, <2>3, <2>4
<1>3. CountersAgree'
  BY <1>1 DEF CountersAgree, Attempting
<1>4. RetriesJustified' /\ DelaysFollowPolicy'
  BY <1>1, <1>2 DEF Counting, RetriesJustified, DelaysFollowPolicy
<1> QED
  BY <1>3, <1>4 DEF Counting

(* An attempt fails. *)
LEMMA FailStep ==
  ASSUME TypeOK, Counting, Attempting, NEW f \in FailureType, AttemptFails(f),
         UNCHANGED <<attempt, told>>
  PROVE  Counting'
<1>c. CountersAgree
  BY DEF Counting
<1>1. /\ attempt \in Nat \ {0} /\ attempt <= MaxAttempts /\ MaxAttempts \in Nat
      /\ Len(failures) = attempt - 1 /\ Len(waits) = attempt - 1 /\ waits \in Seq(Wait)
      /\ DOMAIN failures = 1..(attempt - 1) /\ DOMAIN waits = 1..(attempt - 1)
  BY <1>c, RetriesType
<1>2. /\ Len(failures') = attempt /\ failures'[attempt] = f
      /\ \A i \in DOMAIN failures : i < attempt /\ failures'[i] = failures[i]
      /\ failures' \in Seq(FailureType)
  BY <1>c, AttemptEnds
<1>3. \A i \in DOMAIN failures' : i < attempt => IsRetryable(failures'[i])
  <2>1. DOMAIN failures' = 1..attempt
    BY <1>2
  <2> QED
    BY <1>1, <1>2, <2>1 DEF Counting, RetriesJustified
<1>4. CASE /\ pc' = "waiting" /\ MayRetry(attempt, f) /\ UNCHANGED outcome
           /\ \E w \in Wait : /\ waits' = Append(waits, w)
                              /\ w.asked = RetryAfter(f) /\ w.computed = ComputedDelay(attempt, f)
                              /\ w.waited <= w.computed
  <2>1. PICK w \in Wait : /\ waits' = Append(waits, w)
                          /\ w.asked = RetryAfter(f) /\ w.computed = ComputedDelay(attempt, f)
                          /\ w.waited <= w.computed
    BY <1>4
  <2>2. attempt < MaxAttempts /\ IsRetryable(f)
    BY <1>4 DEF MayRetry
  <2>3. outcome.kind = "Pending"
    BY <1>c DEF CountersAgree, Attempting
  <2>4. /\ Len(waits') = attempt /\ DOMAIN waits' = 1..attempt /\ waits'[attempt] = w
        /\ \A i \in DOMAIN waits : waits'[i] = waits[i]
    BY <1>1, <2>1, AppendLength
  <2>5. CountersAgree'
    BY <1>1, <1>2, <1>4, <2>2, <2>3, <2>4 DEF CountersAgree, Attempting
  <2>6. RetriesJustified'
    BY <1>1, <1>2, <1>3, <1>4, <2>2, <2>3 DEF RetriesJustified
  <2>7. DelaysFollowPolicy'
    <3>1. SUFFICES ASSUME NEW i \in 1..attempt
                   PROVE  /\ waits'[i].waited <= waits'[i].computed
                          /\ waits'[i].computed >= ExponentialBackoff(i)
                          /\ waits'[i].asked = None => waits'[i].computed = ExponentialBackoff(i)
      BY <2>4 DEF DelaysFollowPolicy
    <3>2. CASE i = attempt
      BY <1>1, <2>1, <2>4, <3>2, DelayBounds
    <3>3. CASE i < attempt
      BY <1>1, <2>4, <3>3 DEF Counting, DelaysFollowPolicy
    <3> QED
      BY <1>1, <3>2, <3>3
  <2> QED
    BY <2>5, <2>6, <2>7 DEF Counting
<1>5. CASE pc' = "done" /\ ~MayRetry(attempt, f) /\ outcome' = f /\ UNCHANGED waits
  <2>1. CountersAgree' /\ DelaysFollowPolicy'
    BY <1>5 DEF CountersAgree, Attempting, Counting, DelaysFollowPolicy
  <2>2. ~(IsRetryable(f) /\ attempt < MaxAttempts)
    BY <1>5 DEF MayRetry
  <2>3. RetriesJustified'
    BY <1>1, <1>2, <1>3, <1>5, <2>2 DEF RetriesJustified
  <2> QED
    BY <2>1, <2>3 DEF Counting
<1> QED
  BY <1>4, <1>5, <1>c, AttemptEnds

(* A stream fails after events were delivered. *)
LEMMA StreamFailStep ==
  ASSUME TypeOK, Counting, ToldWhenFolded, pc = "streaming", held = None,
         NEW f \in FailureType, StreamFails(f), UNCHANGED <<attempt, told>>
  PROVE  Counting'
<1>1. CountersAgree /\ Attempting
  BY DEF Counting, Attempting
<1>2. /\ failures' \in Seq(FailureType) /\ Len(failures') = attempt /\ failures'[attempt] = f
      /\ \A i \in DOMAIN failures : i < attempt /\ failures'[i] = failures[i]
      /\ pc' = "done" /\ outcome' = f /\ UNCHANGED waits
  BY <1>1, StreamEnds
<1>3. /\ attempt \in Nat \ {0} /\ attempt <= MaxAttempts
      /\ DOMAIN failures' = 1..attempt /\ DOMAIN failures = 1..(attempt - 1)
  BY <1>1, <1>2, RetriesType
<1>4. told' # <<>>
  BY DEF ToldWhenFolded
<1>5. RetriesJustified'
  BY <1>2, <1>3, <1>4 DEF Counting, RetriesJustified
<1> QED
  BY <1>2, <1>5 DEF Counting, CountersAgree, DelaysFollowPolicy, Attempting

LEMMA CountingStep == TypeOK /\ CallInv /\ [Next]_vars => Counting'
<1> SUFFICES ASSUME TypeOK, CallInv, [Next]_vars PROVE Counting'
  OBVIOUS
<1>a. Counting /\ ToldWhenFolded
  BY DEF CallInv, Counting
<1>1. CASE RejectRequest
  BY <1>1, <1>a, EndStep DEF RejectRequest
<1>2. CASE Begin
  BY <1>2, <1>a, OpenStep DEF Begin
<1>3. CASE StreamOpened \/ FirstEvent \/ FoldEvent \/ TakeHeld \/ TakeEvent
  BY <1>3, <1>a, QuietStep
     DEF StreamOpened, FirstEvent, FoldEvent, TakeHeld, TakeEvent, Attempting
<1>4. CASE AttemptRefused
  BY <1>4, <1>a, FailStep, WireItem DEF AttemptRefused, Attempting
<1>5. CASE StreamEmpty
  BY <1>5, <1>a, FailStep DEF StreamEmpty, Attempting, Transport, FailureType
<1>6. CASE EndOfComplete
  <2>1. Attempting
    BY <1>6 DEF EndOfComplete, Attempting
  <2>2. CASE Complete
    BY <1>6, <1>a, <2>2, EndStep DEF EndOfComplete, Complete
  <2>3. ASSUME NEW f \in FinishFailures, AttemptFails(f) PROVE Counting'
    BY <1>6, <1>a, <2>1, <2>3, FailStep, FinishFails DEF EndOfComplete
  <2> QED
    BY <1>6, <2>2, <2>3 DEF EndOfComplete
<1>7. CASE TakeFailure
  BY <1>7, <1>a, StreamFailStep, WireItem DEF TakeFailure
<1>8. CASE EndOfStream
  <2>1. CASE Complete
    BY <1>8, <1>a, <2>1, EndStep DEF EndOfStream, Complete
  <2>2. ASSUME NEW f \in FinishFailures, StreamFails(f) PROVE Counting'
    BY <1>8, <1>a, <2>2, StreamFailStep, FinishFails DEF EndOfStream
  <2> QED
    BY <1>8, <2>1, <2>2 DEF EndOfStream
<1>9. CASE NextAttempt
  BY <1>9, <1>a, OpenStep DEF NextAttempt
<1>10. CASE Expire
  BY <1>10, <1>a, EndStep DEF Expire, TimedOut
<1>11. CASE Provider \/ Tick \/ UNCHANGED vars
  <2>1. UNCHANGED <<attempt, failures, waits, outcome, pc, told>>
    BY <1>11 DEF Provider, AnswerOpening, SendEvent, SendFailure, EndStream, Tick, vars
  <2> QED
    BY <1>a, <2>1, QuietStep
<1> QED
  BY <1>1, <1>2, <1>3, <1>4, <1>5, <1>6, <1>7, <1>8, <1>9, <1>10, <1>11
     DEF Next, Call, Returned

-----------------------------------------------------------------------------
(***************************************************************************)
(* The events of an attempt, from the wire to the completion.              *)
(***************************************************************************)
Streaming == EventsConserved /\ ClosedOnce /\ ToldWhenFolded /\ CompletionWhole

LEMMA EventTypes ==
  TypeOK =>
    /\ sent \in Seq(EventKinds \cup {"failure"}) /\ DOMAIN sent = 1..Len(sent)
    /\ folded \in Seq(Event) /\ DOMAIN folded = 1..Len(folded) /\ Len(folded) \in Nat
    /\ held = None => Len(held) = 0
    /\ held # None => Len(held) = 1 /\ held = Some(held[1])
    /\ Len(sent) \in Nat
<1> SUFFICES ASSUME TypeOK
             PROVE  /\ sent \in Seq(EventKinds \cup {"failure"}) /\ DOMAIN sent = 1..Len(sent)
                    /\ folded \in Seq(Event) /\ DOMAIN folded = 1..Len(folded) /\ Len(folded) \in Nat
                    /\ held = None => Len(held) = 0
                    /\ held # None => Len(held) = 1 /\ held = Some(held[1])
                    /\ Len(sent) \in Nat
  OBVIOUS
<1>1. sent \in Seq(EventKinds \cup {"failure"}) /\ folded \in Seq(Event)
  BY DEF TypeOK
<1>2. held \in Option(Event)
  BY DEF TypeOK
<1> QED
  BY <1>1, <1>2, OptionCases DEF None, Some

(* Nothing moves: the call waits, fails, ends or is over. *)
LEMMA StillStep ==
  ASSUME TypeOK, Streaming, UNCHANGED <<mode, attempt, sent, held, folded, told>>,
         \/ UNCHANGED <<pc, wire, outcome>>
         \/ pc' \in {"waiting", "done"} /\ held = None /\ outcome'.kind # "Completed"
            /\ (pc' = "waiting" => told = <<>>)
         \/ pc' = "done" /\ held = None /\ CompletionWhole'
  PROVE  Streaming'
<1>1. CASE UNCHANGED <<pc, wire, outcome>>
  BY <1>1 DEF Streaming, EventsConserved, ClosedOnce, ToldWhenFolded, CompletionWhole,
              SentEvent, InStream, Arrived
<1>2. CASE /\ pc' \in {"waiting", "done"} /\ held = None
           /\ pc' = "waiting" => told = <<>>
           /\ CompletionWhole'
  <2>1. EventsConserved' /\ ClosedOnce'
    <3>1. ~InStream' /\ held' = None
      BY <1>2 DEF InStream
    <3>2. \A i \in DOMAIN folded' : i \in DOMAIN sent' /\ folded'[i] = SentEvent(i)'
      BY DEF Streaming, EventsConserved, SentEvent
    <3> QED
      BY <3>1, <3>2 DEF Streaming, EventsConserved, ClosedOnce
  <2>2. ToldWhenFolded'
    BY <1>2 DEF Streaming, ToldWhenFolded
  <2> QED
    BY <1>2, <2>1, <2>2 DEF Streaming
<1>3. outcome'.kind # "Completed" => CompletionWhole'
  BY DEF CompletionWhole
<1> QED
  BY <1>1, <1>2, <1>3

(* An attempt starts from nothing. *)
LEMMA FreshStep ==
  ASSUME TypeOK, Streaming, CountersAgree, pc \in {"start", "waiting"}, OpenAttempt,
         UNCHANGED <<mode, held, told, outcome>>
  PROVE  Streaming'
<1>1. /\ pc' = "opening" /\ sent' = <<>> /\ folded' = <<>> /\ held' = None /\ told' = <<>>
      /\ outcome'.kind = "Pending"
  BY DEF OpenAttempt, Streaming, EventsConserved, ToldWhenFolded, CountersAgree
<1>2. EventsConserved' /\ ClosedOnce'
  BY <1>1 DEF EventsConserved, ClosedOnce, InStream
<1>3. ToldWhenFolded' /\ CompletionWhole'
  BY <1>1 DEF Streaming, ToldWhenFolded, CompletionWhole
<1> QED
  BY <1>2, <1>3 DEF Streaming

(* An attempt fails before an event is out of the call's hands. *)
LEMMA RefusedStep ==
  ASSUME TypeOK, Streaming, CountersAgree, pc \in {"opening", "first", "reading"},
         NEW f \in FailureType, AttemptFails(f),
         UNCHANGED <<mode, attempt, sent, held, folded, told>>
  PROVE  Streaming'
<1>1. held = None
  BY DEF Streaming, EventsConserved
<1>2. pc' \in {"waiting", "done"} /\ outcome'.kind # "Completed"
  BY AttemptEnds DEF Attempting, CountersAgree, FailureType
<1>3. told = <<>>
  BY DEF Streaming, ToldWhenFolded, TypeOK
<1> QED
  BY <1>1, <1>2, <1>3, StillStep

(* The end of a stream that was finished: all its events are folded. *)
LEMMA CompleteStep ==
  ASSUME TypeOK, Streaming, InStream, held = None, Arrived("end"), Complete,
         UNCHANGED <<mode, attempt, sent, held, folded, told>>
  PROVE  Streaming'
<1>1. Len(sent) = Len(folded)
  <2>1. ~Arrived("event") /\ ~Arrived("failure")
    BY DEF Arrived
  <2>2. Len(sent) = Len(folded) + Len(held) + 0
    BY <2>1 DEF Streaming, EventsConserved
  <2> QED
    BY <2>2, EventTypes
<1>2. folded = [i \in DOMAIN sent |-> SentEvent(i)]
  <2>1. DOMAIN folded = DOMAIN sent /\ folded = [i \in DOMAIN folded |-> folded[i]]
    BY <1>1, EventTypes
  <2> QED
    BY <2>1 DEF Streaming, EventsConserved
<1>3. sent[Len(sent)] = "finished"
  <2>1. PICK i \in DOMAIN folded : folded[i].kind = "finished"
    BY DEF Complete, FinishedSeen
  <2>2. i \in DOMAIN sent /\ sent[i] = "finished"
    BY <2>1 DEF Streaming, EventsConserved, SentEvent
  <2> QED
    BY <2>2 DEF Streaming, ClosedOnce
<1>4. CompletionWhole'
  BY <1>2, <1>3 DEF CompletionWhole, SentEvent
<1> QED
  BY <1>4, StillStep DEF Complete

(* The event on the wire is the latest one sent, and nothing but the event  *)
(* held back is between it and what is folded.                              *)
LEMMA NextEvent ==
  ASSUME TypeOK, Streaming, InStream, Arrived("event")
  PROVE  /\ Len(sent) = Len(folded) + Len(held) + 1
         /\ wire[1].event = SentEvent(Len(sent)) /\ wire[1].event \in Event
         /\ Len(sent) \in DOMAIN sent
<1>1. /\ Len(sent) = Len(folded) + Len(held) + 1
      /\ wire[1].event = SentEvent(Len(sent))
  BY DEF Streaming, EventsConserved
<1>2. wire[1].event \in Event
  BY WireItem
<1>3. Len(held) \in Nat /\ Len(folded) \in Nat
  BY EventTypes
<1> QED
  BY <1>1, <1>2, <1>3, EventTypes

(* One more event is folded. *)
LEMMA FoldedGrows ==
  ASSUME TypeOK, Streaming, UNCHANGED <<attempt, sent>>,
         NEW i \in DOMAIN sent, i = Len(folded) + 1, SentEvent(i) \in Event,
         folded' = Append(folded, SentEvent(i))
  PROVE  /\ \A j \in DOMAIN folded' : j \in DOMAIN sent' /\ folded'[j] = SentEvent(j)'
         /\ Len(folded') = Len(folded) + 1 /\ folded' # <<>>
<1>1. folded \in Seq(Event) /\ DOMAIN folded = 1..Len(folded)
  BY EventTypes
<1>2. /\ Len(folded') = Len(folded) + 1 /\ folded' # <<>> /\ DOMAIN folded' = 1..(Len(folded) + 1)
      /\ folded'[i] = SentEvent(i)
      /\ \A j \in DOMAIN folded : folded'[j] = folded[j]
  BY <1>1, AppendLength
<1>3. \A j \in DOMAIN folded : j \in DOMAIN sent /\ folded[j] = SentEvent(j)
  BY DEF Streaming, EventsConserved
<1>4. \A j \in DOMAIN folded' : j = i \/ j \in DOMAIN folded
  BY <1>1, <1>2
<1>5. \A j \in DOMAIN sent : SentEvent(j)' = SentEvent(j)
  BY DEF SentEvent
<1> QED
  BY <1>2, <1>3, <1>4, <1>5

(* The events are taken off the wire, held back, and consumed. *)
LEMMA TakeStep ==
  ASSUME TypeOK, Streaming, CountersAgree,
         StreamOpened \/ FirstEvent \/ FoldEvent \/ TakeHeld \/ TakeEvent
  PROVE  Streaming'
<1>a. EventsConserved /\ ClosedOnce /\ ToldWhenFolded
  BY DEF Streaming
<1>b. UNCHANGED <<mode, attempt, sent, outcome>> /\ CompletionWhole' /\ ClosedOnce'
  <2>1. UNCHANGED <<mode, attempt, sent, outcome>> /\ pc # "done"
    BY DEF StreamOpened, FirstEvent, FoldEvent, TakeHeld, TakeEvent
  <2>2. outcome'.kind = "Pending"
    BY <2>1 DEF CountersAgree
  <2> QED
    BY <1>a, <2>1, <2>2 DEF CompletionWhole, ClosedOnce
<1>c. \A j \in DOMAIN sent : SentEvent(j)' = SentEvent(j)
  BY <1>b DEF SentEvent
<1>1. CASE StreamOpened
  <2>1. UNCHANGED <<held, folded, told>> /\ pc = "opening" /\ wire' = None
    BY <1>1 DEF StreamOpened
  <2>2. held = None /\ folded = <<>> /\ told = <<>> /\ sent = <<>>
    BY <1>a, <2>1 DEF EventsConserved, ToldWhenFolded
  <2>3. Len(sent) = 0 /\ Len(folded) = 0 /\ Len(held) = 0
    BY <2>2, EventTypes
  <2>4. ~Arrived("event")' /\ ~Arrived("failure")' /\ ~Arrived("opened")'
    BY <2>1 DEF Arrived
  <2>5. /\ pc' \in {"first", "reading"}
        /\ mode = "stream" <=> pc' = "first"
    BY <1>1 DEF StreamOpened
  <2>6. EventsConserved'
    BY <1>b, <2>1, <2>2, <2>3, <2>4, <2>5 DEF EventsConserved
  <2>7. ToldWhenFolded'
    BY <1>a, <1>b, <2>1, <2>2, <2>5 DEF ToldWhenFolded
  <2> QED
    BY <1>b, <2>6, <2>7 DEF Streaming
<1>2. CASE FirstEvent
  <2>1. /\ UNCHANGED <<folded, told>> /\ pc = "first" /\ pc' = "streaming"
        /\ wire' = None /\ held' = Some(wire[1].event) /\ Arrived("event")
    BY <1>2 DEF FirstEvent
  <2>2. held = None /\ folded = <<>> /\ told = <<>> /\ InStream
    BY <1>a, <2>1 DEF EventsConserved, ToldWhenFolded, InStream
  <2>3. Len(folded) = 0 /\ Len(held) = 0 /\ Len(sent) = 1 /\ held' = Some(SentEvent(1)')
    BY <1>c, <2>1, <2>2, NextEvent, EventTypes
  <2>4. Len(held') = 1 /\ held' # None
    BY <2>3 DEF Some, None
  <2>5. ~Arrived("event")' /\ ~Arrived("failure")'
    BY <2>1 DEF Arrived
  <2>6. EventsConserved'
    BY <1>b, <2>1, <2>2, <2>3, <2>4, <2>5 DEF EventsConserved
  <2>7. ToldWhenFolded'
    BY <1>a, <1>b, <2>1, <2>2, <2>4 DEF ToldWhenFolded
  <2> QED
    BY <1>b, <2>6, <2>7 DEF Streaming
<1>3. CASE FoldEvent
  <2>1. /\ UNCHANGED <<held, told, pc>> /\ pc = "reading" /\ wire' = None /\ Arrived("event")
        /\ folded' = Append(folded, wire[1].event)
    BY <1>3 DEF FoldEvent
  <2>2. held = None /\ InStream /\ Len(held) = 0 /\ Len(folded) \in Nat
    BY <1>a, <2>1, EventTypes DEF EventsConserved, InStream
  <2>3. /\ \A j \in DOMAIN folded' : j \in DOMAIN sent' /\ folded'[j] = SentEvent(j)'
        /\ Len(folded') = Len(folded) + 1 /\ Len(sent) = Len(folded) + 1
    BY <1>b, <2>1, <2>2, NextEvent, FoldedGrows
  <2>4. ~Arrived("event")' /\ ~Arrived("failure")'
    BY <2>1 DEF Arrived
  <2>5. EventsConserved'
    BY <1>b, <2>1, <2>2, <2>3, <2>4 DEF EventsConserved
  <2>6. ToldWhenFolded'
    BY <1>a, <1>b, <2>1 DEF ToldWhenFolded, TypeOK
  <2> QED
    BY <1>b, <2>5, <2>6 DEF Streaming
<1>4. CASE TakeHeld
  <2>1. /\ UNCHANGED <<wire, pc>> /\ pc = "streaming" /\ held' = None /\ held # None
        /\ folded' = Append(folded, held[1]) /\ told' = Append(told, held[1])
    BY <1>4 DEF TakeHeld, Consume
  <2>2. folded = <<>> /\ held = Some(SentEvent(1)) /\ InStream /\ told = folded /\ mode = "stream"
    BY <1>a, <2>1 DEF EventsConserved, ToldWhenFolded, InStream, TypeOK
  <2>3. held[1] = SentEvent(1) /\ SentEvent(1) \in Event /\ Len(held) = 1 /\ Len(folded) = 0
    BY <2>1, <2>2, EventTypes, OptionCases DEF Some, TypeOK
  <2>4. 1 \in DOMAIN sent
    <3>1. \E due \in {0, 1} : Len(sent) = Len(folded) + Len(held) + due
      BY <1>a, <2>2 DEF EventsConserved
    <3> QED
      BY <2>3, <3>1, EventTypes
  <2>5. /\ \A j \in DOMAIN folded' : j \in DOMAIN sent' /\ folded'[j] = SentEvent(j)'
        /\ Len(folded') = 1 /\ folded' # <<>>
    BY <1>b, <2>1, <2>3, <2>4, FoldedGrows
  <2>6. Len(held') = 0 /\ InStream' /\ SentEvent(Len(sent))' = SentEvent(Len(sent))
    BY <1>b, <2>1, <2>2 DEF None, InStream, SentEvent
  <2>7. Arrived("event")' = Arrived("event") /\ Arrived("failure")' = Arrived("failure")
    BY <2>1 DEF Arrived
  <2>8. EventsConserved'
    <3> DEFINE due == IF Arrived("event") \/ Arrived("failure") THEN 1 ELSE 0
    <3>1. Len(sent) = 0 + 1 + due
      BY <1>a, <2>2, <2>3 DEF EventsConserved
    <3>2. Len(sent') = Len(folded') + Len(held') + due'
      BY <1>b, <2>5, <2>6, <2>7, <3>1
    <3>3. Arrived("event")' => wire'[1].event = SentEvent(Len(sent))'
      BY <1>a, <1>b, <2>1, <2>2, <2>6, <2>7 DEF EventsConserved
    <3>4. wire' # None => wire'[1].kind # "opened"
      BY <1>a, <2>1, <2>2 DEF EventsConserved
    <3> QED
      BY <2>1, <2>5, <3>2, <3>3, <3>4 DEF EventsConserved
  <2>9. ToldWhenFolded'
    BY <1>a, <1>b, <2>1, <2>2, <2>5 DEF ToldWhenFolded
  <2> QED
    BY <1>b, <2>8, <2>9 DEF Streaming
<1>5. CASE TakeEvent
  <2>1. /\ UNCHANGED <<held, pc>> /\ pc = "streaming" /\ wire' = None /\ held = None
        /\ folded' = Append(folded, wire[1].event) /\ told' = Append(told, wire[1].event)
        /\ Arrived("event")
    BY <1>5 DEF TakeEvent, Consume
  <2>2. InStream /\ told = folded /\ mode = "stream" /\ Len(held) = 0 /\ Len(folded) \in Nat
    BY <1>a, <2>1, EventTypes DEF ToldWhenFolded, InStream, TypeOK
  <2>3. /\ \A j \in DOMAIN folded' : j \in DOMAIN sent' /\ folded'[j] = SentEvent(j)'
        /\ Len(folded') = Len(folded) + 1 /\ Len(sent) = Len(folded) + 1 /\ folded' # <<>>
    BY <1>b, <2>1, <2>2, NextEvent, FoldedGrows
  <2>4. ~Arrived("event")' /\ ~Arrived("failure")'
    BY <2>1 DEF Arrived
  <2>5. EventsConserved'
    BY <1>b, <2>1, <2>2, <2>3, <2>4 DEF EventsConserved
  <2>6. ToldWhenFolded'
    BY <1>a, <1>b, <2>1, <2>2, <2>3 DEF ToldWhenFolded
  <2> QED
    BY <1>b, <2>5, <2>6 DEF Streaming
<1> QED
  BY <1>1, <1>2, <1>3, <1>4, <1>5

(* The provider answers: at most one more item, on the wire. *)
LEMMA ProviderStep ==
  ASSUME TypeOK, Streaming, CountersAgree, Provider
  PROVE  Streaming'
<1>a. EventsConserved /\ ClosedOnce /\ ToldWhenFolded
  BY DEF Streaming
<1>b. /\ UNCHANGED <<mode, pc, attempt, held, folded, told, outcome>> /\ wire = None
      /\ pc \notin {"start", "done"}
  BY DEF Provider, AnswerOpening, SendEvent, SendFailure, EndStream, Reading
<1>c. CompletionWhole' /\ ToldWhenFolded'
  <2>1. outcome'.kind = "Pending"
    BY <1>b DEF CountersAgree
  <2> QED
    BY <1>a, <1>b, <2>1 DEF CompletionWhole, ToldWhenFolded
<1>d. ~Arrived("event") /\ ~Arrived("failure")
  BY <1>b DEF Arrived
<1>e. InStream => Len(sent) = Len(folded) + Len(held)
  <2>1. InStream => Len(sent) = Len(folded) + Len(held) + 0
    BY <1>a, <1>d DEF EventsConserved
  <2>2. Len(held) \in Nat /\ Len(folded) \in Nat
    BY EventTypes
  <2> QED
    BY <2>1, <2>2
<1>1. CASE AnswerOpening
  <2>1. pc = "opening" /\ UNCHANGED sent
    BY <1>1 DEF AnswerOpening
  <2> QED
    BY <1>a, <1>b, <1>c, <2>1 DEF Streaming, EventsConserved, ClosedOnce, InStream, SentEvent
<1>2. CASE EndStream
  <2>1. UNCHANGED sent /\ InStream /\ wire' = Some([kind |-> "end"])
    BY <1>2 DEF EndStream, Answer, Reading, InStream
  <2>2. ~Arrived("event")' /\ ~Arrived("failure")' /\ ~Arrived("opened")'
    BY <2>1 DEF Arrived, Some
  <2>3. wire' # None => wire'[1].kind # "opened"
    BY <2>2 DEF Arrived
  <2>4. Len(sent') = Len(folded') + Len(held') + 0
    BY <1>a, <1>b, <1>d, <2>1 DEF EventsConserved
  <2>5. EventsConserved'
    BY <1>a, <1>b, <2>1, <2>2, <2>3, <2>4 DEF EventsConserved, SentEvent, InStream
  <2> QED
    BY <1>a, <1>c, <2>1, <2>5 DEF Streaming, ClosedOnce
<1>3. ASSUME NEW kind \in EventKinds \cup {"failure"}, InStream, ~Closed,
             sent' = Append(sent, kind), wire' # None, wire'[1].kind \in {"event", "failure"},
             wire'[1].kind = "event" =>
               wire'[1].event = [attempt |-> attempt, index |-> Len(sent) + 1, kind |-> kind]
      PROVE  Streaming'
  <2>1. sent \in Seq(EventKinds \cup {"failure"}) /\ DOMAIN sent = 1..Len(sent) /\ Len(sent) \in Nat
    BY EventTypes
  <2>2. /\ Len(sent') = Len(sent) + 1 /\ DOMAIN sent' = 1..(Len(sent) + 1)
        /\ sent'[Len(sent) + 1] = kind
        /\ \A i \in DOMAIN sent : i \in DOMAIN sent' /\ sent'[i] = sent[i]
    BY <1>3, <2>1, AppendLength
  <2>3. \A i \in DOMAIN sent : SentEvent(i)' = SentEvent(i)
    BY <1>b, <2>2 DEF SentEvent
  <2>4. ClosedOnce'
    BY <1>3, <2>1, <2>2 DEF Closed, ClosedOnce
  <2>5. InStream' /\ pc' \notin {"start", "opening"}
    BY <1>3, <1>b DEF InStream
  <2>6. Arrived("event")' \/ Arrived("failure")'
    BY <1>3 DEF Arrived
  <2>7. Len(sent') = Len(folded') + Len(held') + 1
    BY <1>b, <1>e, <1>3, <2>2
  <2>8. Arrived("event")' => wire'[1].event = SentEvent(Len(sent))'
    BY <1>b, <1>3, <2>2 DEF Arrived, SentEvent
  <2>9. wire'[1].kind # "opened"
    BY <1>3
  <2>10. \A i \in DOMAIN folded' : i \in DOMAIN sent' /\ folded'[i] = SentEvent(i)'
    BY <1>a, <1>b, <2>2, <2>3 DEF EventsConserved
  <2>11. held' # None => pc' = "streaming" /\ folded' = <<>> /\ held' = Some(SentEvent(1)')
    <3>1. held # None => 1 \in DOMAIN sent
      BY <1>e, <1>3, <2>1, EventTypes
    <3> QED
      BY <1>a, <1>b, <2>3, <3>1 DEF EventsConserved
  <2>12. EventsConserved'
    BY <2>5, <2>6, <2>7, <2>8, <2>9, <2>10, <2>11 DEF EventsConserved
  <2> QED
    BY <1>c, <2>4, <2>12 DEF Streaming
<1>4. ASSUME NEW kind \in EventKinds, SendEvent(kind) PROVE Streaming'
  <2>1. wire' = Some([kind |-> "event",
                      event |-> [attempt |-> attempt, index |-> Len(sent) + 1, kind |-> kind]])
    BY <1>4 DEF SendEvent, Answer
  <2>2. wire' # None /\ wire'[1].kind = "event"
        /\ wire'[1].event = [attempt |-> attempt, index |-> Len(sent) + 1, kind |-> kind]
    BY <2>1 DEF Some, None
  <2>3. InStream /\ ~Closed /\ sent' = Append(sent, kind)
    BY <1>4 DEF SendEvent, Reading, InStream
  <2> QED
    BY <1>3, <2>2, <2>3
<1>5. ASSUME NEW f \in Failures, SendFailure(f) PROVE Streaming'
  <2>1. wire' = Some([kind |-> "failure", failure |-> f])
    BY <1>5 DEF SendFailure, Answer
  <2>2. wire' # None /\ wire'[1].kind = "failure"
    BY <2>1 DEF Some, None
  <2>3. InStream /\ ~Closed /\ sent' = Append(sent, "failure")
    BY <1>5 DEF SendFailure, Reading, InStream
  <2> QED
    BY <1>3, <2>2, <2>3
<1> QED
  BY <1>1, <1>2, <1>4, <1>5 DEF Provider

LEMMA StreamingStep == TypeOK /\ CallInv /\ [Next]_vars => Streaming'
<1> SUFFICES ASSUME TypeOK, CallInv, [Next]_vars PROVE Streaming'
  OBVIOUS
<1>a. Streaming /\ CountersAgree
  BY DEF CallInv, Streaming
<1>b. pc # "streaming" => held = None
  BY <1>a DEF Streaming, EventsConserved
<1>1. CASE RejectRequest
  BY <1>1, <1>a, <1>b, StillStep DEF RejectRequest
<1>2. CASE Begin
  BY <1>2, <1>a, FreshStep DEF Begin
<1>3. CASE StreamOpened \/ FirstEvent \/ FoldEvent \/ TakeHeld \/ TakeEvent
  BY <1>3, <1>a, TakeStep
<1>4. CASE AttemptRefused
  BY <1>4, <1>a, RefusedStep, WireItem DEF AttemptRefused
<1>5. CASE StreamEmpty
  BY <1>5, <1>a, RefusedStep DEF StreamEmpty, Transport, FailureType
<1>6. CASE EndOfComplete
  <2>1. CASE Complete
    BY <1>6, <1>a, <1>b, <2>1, CompleteStep DEF EndOfComplete, InStream
  <2>2. ASSUME NEW f \in FinishFailures, AttemptFails(f) PROVE Streaming'
    BY <1>6, <1>a, <2>2, RefusedStep, FinishFails DEF EndOfComplete
  <2> QED
    BY <1>6, <2>1, <2>2 DEF EndOfComplete
<1>7. ASSUME NEW f \in FailureType, StreamFails(f), pc = "streaming", held = None,
             UNCHANGED <<mode, attempt, sent, held, folded, told>>
      PROVE  Streaming'
  <2>1. pc' = "done" /\ outcome'.kind # "Completed"
    BY <1>7 DEF StreamFails, FailureType
  <2> QED
    BY <1>7, <1>a, <2>1, StillStep
<1>8. CASE TakeFailure
  BY <1>8, <1>7, WireItem DEF TakeFailure
<1>9. CASE EndOfStream
  <2>1. CASE Complete
    BY <1>9, <1>a, <2>1, CompleteStep DEF EndOfStream, InStream
  <2>2. ASSUME NEW f \in FinishFailures, StreamFails(f) PROVE Streaming'
    BY <1>9, <1>7, <2>2, FinishFails DEF EndOfStream
  <2> QED
    BY <1>9, <2>1, <2>2 DEF EndOfStream
<1>10. CASE NextAttempt
  BY <1>10, <1>a, FreshStep DEF NextAttempt
<1>11. CASE Expire
  BY <1>11, <1>a, StillStep DEF Expire, Stuck, TimedOut
<1>12. CASE Provider
  BY <1>12, <1>a, ProviderStep
<1>13. CASE Tick \/ UNCHANGED vars
  BY <1>13, <1>a, StillStep DEF Tick, vars
<1> QED
  BY <1>1, <1>2, <1>3, <1>4, <1>5, <1>6, <1>8, <1>9, <1>10, <1>11, <1>12, <1>13
     DEF Next, Call, Returned

-----------------------------------------------------------------------------
(***************************************************************************)
(* The theorems.                                                           *)
(***************************************************************************)
LEMMA CallHolds == Spec => [](TypeOK /\ CallInv)
<1>1. TypeOK /\ CallInv /\ [Next]_vars => (TypeOK /\ CallInv)'
  BY TypeStep, CountingStep, StreamingStep DEF CallInv, Counting, Streaming
<1> QED
  BY CallInit, <1>1, PTL DEF Spec

(* The values of a model call keep their types, whatever the provider does; *)
(* in particular no call makes more attempts than its policy allows.        *)
THEOREM CallTypeCorrect == Spec => []TypeOK
BY CallHolds, PTL

(* run_with_retry retries exactly what is_retryable and max_attempts allow, *)
(* and hands the failure of the last attempt back.                          *)
THEOREM RetriesJustifiedCorrect == Spec => []RetriesJustified
<1>1. CallInv => RetriesJustified
  BY DEF CallInv
<1> QED
  BY CallHolds, <1>1, PTL

(* No retry takes back an event that the observer of the run was told of.   *)
THEOREM NothingRetractedCorrect == Spec => []NothingRetracted
<1>1. CallInv => NothingRetracted
  BY DEF CallInv, EventsConserved, ToldWhenFolded, SentEvent, NothingRetracted
<1> QED
  BY CallHolds, <1>1, PTL

(* A completion is folded from all the events of one attempt.               *)
THEOREM CompletionWholeCorrect == Spec => []CompletionWhole
<1>1. CallInv => CompletionWhole
  BY DEF CallInv
<1> QED
  BY CallHolds, <1>1, PTL

(* The computed delays grow, whatever the width of the multiplier, and stay *)
(* below the cap unless the server asks for more.                           *)
THEOREM BackoffGrowsCorrect == Spec => []BackoffGrows
<1>1. TypeOK /\ CallInv => BackoffGrows
  <2> SUFFICES ASSUME TypeOK, CallInv PROVE BackoffGrows
    OBVIOUS
  <2>1. waits \in Seq(Wait) /\ DOMAIN waits = 1..Len(waits)
    BY RetriesType DEF CallInv
  <2>2. \A i \in DOMAIN waits :
          /\ waits[i].waited <= waits[i].computed /\ waits[i].computed \in Nat
          /\ waits[i].computed >= ExponentialBackoff(i)
          /\ waits[i].asked = None => waits[i].computed = ExponentialBackoff(i)
    <3>1. \A i \in DOMAIN waits : waits[i] \in Wait
      BY <2>1
    <3>2. \A i \in DOMAIN waits : waits[i].computed \in Nat
      BY <3>1 DEF Wait
    <3> QED
      BY <3>2 DEF CallInv, DelaysFollowPolicy
  <2>3. \A i \in DOMAIN waits : i \in Nat \ {0}
    BY <2>1
  <2>4. \A i \in DOMAIN waits :
          waits[i].asked = None => waits[i].computed <= BackoffCap
    BY <2>2, <2>3, BackoffNeverShrinks
  <2>5. ASSUME NEW i \in DOMAIN waits, NEW j \in DOMAIN waits, i < j, waits[i].asked = None
        PROVE  waits[i].computed <= waits[j].computed
    <3>1. ExponentialBackoff(i) <= ExponentialBackoff(j)
      BY <2>3, <2>5, BackoffNeverShrinks
    <3>2. ExponentialBackoff(i) \in Nat /\ ExponentialBackoff(j) \in Nat
      BY <2>3, BackoffNeverShrinks
    <3> QED
      BY <2>2, <2>5, <3>1, <3>2
  <2> QED
    BY <2>2, <2>4, <2>5 DEF BackoffGrows
<1> QED
  BY CallHolds, <1>1, PTL

-----------------------------------------------------------------------------
(***************************************************************************)
(* The promise.  What is folded is one stream, and only a consumer of that *)
(* stream moves what the caller has heard.                                 *)
(***************************************************************************)
FoldsOneStream == Promise!OneStream(folded)

LEMMA OneStreamFolded == TypeOK /\ CallInv => FoldsOneStream
<1> SUFFICES ASSUME TypeOK, CallInv, NEW i \in DOMAIN folded
             PROVE  /\ folded[i].index = i /\ folded[i].attempt = folded[1].attempt
                    /\ folded[i].kind = "finished" => i = Len(folded)
  BY DEF FoldsOneStream, Promise!OneStream
<1>1. \A j \in DOMAIN folded : j \in DOMAIN sent /\ folded[j] = SentEvent(j)
  BY DEF CallInv, EventsConserved
<1>2. Len(folded) \in Nat /\ DOMAIN folded = 1..Len(folded) /\ Len(sent) \in Nat /\ DOMAIN sent = 1..Len(sent)
  BY EventTypes
<1>3. 1 \in DOMAIN folded /\ Len(folded) \in DOMAIN folded
  BY <1>2
<1>4. folded[i].index = i /\ folded[i].attempt = folded[1].attempt /\ folded[i].kind = sent[i]
  BY <1>1, <1>3 DEF SentEvent
<1>5. ASSUME sent[i] = "finished" PROVE i = Len(folded)
  <2>1. i = Len(sent)
    BY <1>1, <1>5 DEF CallInv, ClosedOnce
  <2>2. Len(folded) <= Len(sent)
    BY <1>1, <1>2, <1>3
  <2>3. PICK l, m : l = Len(folded) /\ m = Len(sent)
    OBVIOUS
  <2>4. i \in 1..l /\ l \in Nat /\ m \in Nat
    BY <1>2, <2>3
  <2>5. i = m /\ l <= m
    BY <2>1, <2>2, <2>3
  <2>6. i = l
    BY <2>4, <2>5
  <2> QED
    BY <2>3, <2>6
<1> QED
  BY <1>4, <1>5

(* What the abstract specification sees of a step.                          *)
Seen == <<mode, told, outcome>>

LEMMA FailureIs ==
  ASSUME NEW f \in FailureType
  PROVE  f.kind \in {"Transport", "Decode", "Configuration", "InvalidRequest", "TimedOut", "Status"}
BY DEF FailureType

(* The call is still out and nothing it shows of itself moves. *)
LEMMA Invisible ==
  ASSUME outcome.kind = "Pending", UNCHANGED Seen
  PROVE  UNCHANGED Promise!callVars
<1>1. Verdict = "Pending" /\ Verdict' = "Pending"
  BY DEF Verdict, Seen
<1> QED
  BY <1>1 DEF Promise!callVars, Seen

LEMMA CallFails ==
  ASSUME outcome.kind = "Pending", NEW f \in FailureType, outcome' = f, UNCHANGED <<mode, told>>
  PROVE  Promise!Fail
<1>1. Verdict = "Pending" /\ Verdict' = "Failed"
  <2>1. f.kind \notin {"Pending", "Completed"}
    BY FailureIs
  <2> QED
    BY <2>1 DEF Verdict
<1> QED
  BY <1>1 DEF Promise!Fail

LEMMA CallCompletes ==
  ASSUME outcome.kind = "Pending", Complete, UNCHANGED <<mode, folded, told>>, FoldsOneStream, TypeOK,
         mode \in {"complete", "stream"}, ToldWhenFolded
  PROVE  Promise!Complete
<1>1. Verdict = "Pending" /\ Verdict' = "Completed"
  BY DEF Verdict, Complete
<1>2. Promise!Finished(folded)
  <2>1. PICK i \in DOMAIN folded : folded[i].kind = "finished"
    BY DEF Complete, FinishedSeen
  <2>2. i = Len(folded)
    BY <2>1 DEF FoldsOneStream, Promise!OneStream
  <2>3. folded # <<>>
    BY <2>1
  <2> QED
    BY <2>1, <2>2, <2>3 DEF Promise!Finished
<1>3. told = IF mode = "stream" THEN folded' ELSE <<>>
  BY DEF ToldWhenFolded
<1>4. Promise!OneStream(folded') /\ Promise!Finished(folded')
  BY <1>2 DEF FoldsOneStream, Promise!OneStream, Promise!Finished
<1> QED
  BY <1>1, <1>3, <1>4 DEF Promise!Complete, Promise!OneStream, Promise!Finished

LEMMA CallerHears ==
  ASSUME TypeOK, outcome.kind = "Pending", NEW event \in Event, Consume(event), mode = "stream",
         ToldWhenFolded, FoldsOneStream', UNCHANGED <<mode, outcome>>
  PROVE  Promise!Hear
<1>1. Verdict = "Pending" /\ Verdict' = "Pending"
  BY DEF Verdict
<1>2. told = folded /\ told' = Append(told, event) /\ told' = folded' /\ told \in Seq(Event)
  BY DEF ToldWhenFolded, Consume, TypeOK
<1>3. Len(told') = Len(told) + 1 /\ SubSeq(told', 1, Len(told)) = told
  <2>1. PICK S, s : S = Event /\ s = told
    OBVIOUS
  <2>2. s \in Seq(S) /\ event \in S
    BY <1>2, <2>1
  <2>3. Len(Append(s, event)) = Len(s) + 1 /\ SubSeq(Append(s, event), 1, Len(s)) = s
    BY <2>2
  <2> QED
    BY <1>2, <2>1, <2>3
<1>4. Promise!OneStream(told')
  BY <1>2 DEF FoldsOneStream, Promise!OneStream
<1> QED
  BY <1>1, <1>3, <1>4 DEF Promise!Hear, Promise!OneStream

(* An attempt that fails is invisible if it is retried. *)
LEMMA AttemptFailsRefines ==
  ASSUME outcome.kind = "Pending", NEW f \in FailureType, AttemptFails(f), UNCHANGED <<mode, told>>
  PROVE  Promise!Fail \/ UNCHANGED Promise!callVars
<1>1. CASE Retry(f)
  BY <1>1, Invisible DEF Retry, Seen
<1>2. CASE GiveUp(f)
  BY <1>2, CallFails DEF GiveUp
<1> QED
  BY <1>1, <1>2 DEF AttemptFails

LEMMA CallRefines ==
  ASSUME TypeOK, CallInv, FoldsOneStream, FoldsOneStream', Call
  PROVE  [Promise!Next]_Promise!callVars
<1>1. outcome.kind = "Pending"
  <2>1. pc # "done"
    BY DEF Call, RejectRequest, Begin, StreamOpened, AttemptRefused, StreamEmpty, FirstEvent, FoldEvent,
           EndOfComplete, TakeHeld, TakeEvent, TakeFailure, EndOfStream, NextAttempt, Expire, Bounded
  <2> QED
    BY <2>1 DEF CallInv, CountersAgree
<1>2. ToldWhenFolded /\ mode \in {"complete", "stream"}
  BY DEF CallInv, TypeOK
<1>3. ASSUME UNCHANGED <<mode, told, outcome>> PROVE UNCHANGED Promise!callVars
  BY <1>1, <1>3, Invisible DEF Seen
<1>4. CASE RejectRequest
  <2>1. [kind |-> "InvalidRequest"] \in FailureType
    BY DEF FailureType
  <2>2. outcome' = [kind |-> "InvalidRequest"] /\ UNCHANGED <<mode, told>>
    BY <1>4 DEF RejectRequest
  <2> QED
    BY <1>1, <2>1, <2>2, CallFails DEF Promise!Next
<1>5. CASE Expire
  <2>1. TimedOut \in FailureType
    BY DEF FailureType, TimedOut
  <2>2. outcome' = TimedOut /\ UNCHANGED <<mode, told>>
    BY <1>5 DEF Expire
  <2> QED
    BY <1>1, <2>1, <2>2, CallFails DEF Promise!Next
<1>6. CASE Begin \/ StreamOpened \/ FirstEvent \/ FoldEvent \/ NextAttempt
  BY <1>3, <1>6 DEF Begin, StreamOpened, FirstEvent, FoldEvent, NextAttempt
<1>7. CASE AttemptRefused
  <2>1. wire[1].failure \in FailureType /\ AttemptFails(wire[1].failure) /\ UNCHANGED <<mode, told>>
    BY <1>7, WireItem DEF AttemptRefused
  <2> QED
    BY <1>1, <2>1, AttemptFailsRefines DEF Promise!Next
<1>8. CASE StreamEmpty
  <2>1. Transport \in FailureType /\ AttemptFails(Transport) /\ UNCHANGED <<mode, told>>
    BY <1>8 DEF StreamEmpty, FailureType, Transport
  <2> QED
    BY <1>1, <2>1, AttemptFailsRefines DEF Promise!Next
<1>9. CASE EndOfComplete
  <2>1. UNCHANGED <<mode, folded, told>>
    BY <1>9 DEF EndOfComplete
  <2>2. CASE Complete
    BY <1>1, <1>2, <2>1, <2>2, CallCompletes DEF Promise!Next
  <2>3. ASSUME NEW f \in FinishFailures, AttemptFails(f) PROVE [Promise!Next]_Promise!callVars
    BY <1>1, <2>1, <2>3, FinishFails, AttemptFailsRefines DEF Promise!Next
  <2> QED
    BY <1>9, <2>2, <2>3 DEF EndOfComplete
<1>10. CASE TakeHeld \/ TakeEvent
  <2>1. mode = "stream" /\ UNCHANGED <<mode, outcome>>
    BY <1>2, <1>10 DEF ToldWhenFolded, TakeHeld, TakeEvent
  <2>2. PICK event \in Event : Consume(event)
    <3>1. CASE TakeHeld
      <4>1. held \in Option(Event) /\ held # None
        BY <3>1 DEF TakeHeld, TypeOK
      <4>2. held[1] \in Event
        BY <4>1, OptionCases
      <4> QED
        BY <3>1, <4>2 DEF TakeHeld
    <3>2. CASE TakeEvent
      BY <3>2, WireItem DEF TakeEvent
    <3> QED
      BY <1>10, <3>1, <3>2
  <2> QED
    BY <1>1, <1>2, <2>1, <2>2, CallerHears DEF Promise!Next
<1>11. CASE TakeFailure
  <2>1. wire[1].failure \in FailureType /\ StreamFails(wire[1].failure) /\ UNCHANGED <<mode, told>>
    BY <1>11, WireItem DEF TakeFailure
  <2> QED
    BY <1>1, <2>1, CallFails DEF StreamFails, Promise!Next
<1>12. CASE EndOfStream
  <2>1. UNCHANGED <<mode, folded, told>>
    BY <1>12 DEF EndOfStream
  <2>2. CASE Complete
    BY <1>1, <1>2, <2>1, <2>2, CallCompletes DEF Promise!Next
  <2>3. ASSUME NEW f \in FinishFailures, StreamFails(f) PROVE [Promise!Next]_Promise!callVars
    BY <1>1, <2>1, <2>3, FinishFails, CallFails DEF StreamFails, Promise!Next
  <2> QED
    BY <1>12, <2>2, <2>3 DEF EndOfStream
<1> QED
  BY <1>4, <1>5, <1>6, <1>7, <1>8, <1>9, <1>10, <1>11, <1>12 DEF Call

LEMMA StepRefines ==
  TypeOK /\ CallInv /\ FoldsOneStream /\ FoldsOneStream' /\ [Next]_vars => [Promise!Next]_Promise!callVars
<1> SUFFICES ASSUME TypeOK, CallInv, FoldsOneStream, FoldsOneStream', [Next]_vars
             PROVE  [Promise!Next]_Promise!callVars
  OBVIOUS
<1>1. CASE Call
  BY <1>1, CallRefines
<1>2. CASE Provider \/ Tick
  <2>1. UNCHANGED <<mode, told, outcome>> /\ pc # "done"
    BY <1>2 DEF Provider, AnswerOpening, SendEvent, SendFailure, EndStream, Reading, Tick
  <2>2. outcome.kind = "Pending"
    BY <2>1 DEF CallInv, CountersAgree
  <2> QED
    BY <2>1, <2>2, Invisible DEF Seen
<1>3. CASE UNCHANGED vars
  BY <1>3 DEF vars, Promise!callVars, Verdict
<1> QED
  BY <1>1, <1>2, <1>3 DEF Next, Returned

LEMMA InitRefines == Init => Promise!Init
BY DEF Init, Promise!Init, Verdict

(* A caller of Model::complete or Model::stream sees no attempts: it hears  *)
(* the events of one stream, in order and each once, and is then given the *)
(* completion of all of them, or a failure, once.                          *)
THEOREM CallPromiseKept == Spec => KeepsCallPromise
<1>1. TypeOK /\ CallInv => FoldsOneStream
  BY OneStreamFolded
<1> QED
  BY <1>1, CallHolds, InitRefines, StepRefines, PTL DEF Spec, KeepsCallPromise, Promise!Spec

=============================================================================
