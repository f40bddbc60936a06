----------------------------- MODULE EvalRunner -----------------------------
(***************************************************************************)
(* The two eval runners of grizzly-agent-eval (agent_eval/runner.rs,       *)
(* response_eval/runner.rs) with their cases, verdicts and aggregates      *)
(* (case.rs, verdict.rs, aggregate.rs, report.rs).                         *)
(*                                                                         *)
(* All repeats of all cases are one stream of futures, of which at most    *)
(* `concurrency` are in flight.  They start in order, run interleaved at   *)
(* their awaits and end in any order; their records are dealt back to      *)
(* their cases at the end.  A rate is a fraction <<n, d>>, an Option a     *)
(* sequence of at most one element.                                        *)
(***************************************************************************)
EXTENDS Integers, SequencesExt, Selection

CONSTANTS
  Suites,    (* [harness, cases, concurrency, repeats, timeout, silent]    *)
  MaxWork    (* bound: repeats of a suite                                  *)

VARIABLES
  suite,
  started,   (* repeats polled for the first time                          *)
  stage,     (* per repeat: what it is awaiting                            *)
  results,   (* collected records, in order of completion, with their case *)
  reports,   (* the returned case reports                                  *)
  returned,
  came       (* history, in order of completion: [work, how]               *)

vars == <<suite, started, stage, results, reports, returned, came>>

Option(S) == {s \in Seq(S) : Len(s) <= 1}

OrElse(option, default) == IF option = <<>> THEN default ELSE option[1]

Rate == Int \X (Nat \ {0})

CaseMeta ==
  [repeats : Option(Nat), minPassRate : Option(Rate), canary : BOOLEAN,
   timeout : {"default", "none", "custom"}]

ASSUME EvalAssumption ==
  /\ \A s \in Suites :
       /\ s.harness \in {"agent", "response"} /\ s.cases \in Seq(CaseMeta)
       /\ s.concurrency \in Nat /\ s.repeats \in Nat
  /\ MaxWork \in Nat

-----------------------------------------------------------------------------
(* CaseMeta *)

EffectiveRepeats(case) == OrElse(case.repeats, suite.repeats)

DefaultMinPassRate == <<2, 3>>
Threshold(case) ==
  IF case.canary THEN <<1, 1>> ELSE OrElse(case.minPassRate, DefaultMinPassRate)

(* CaseTimeout against the runner's default; builder floors concurrency. *)
EffectiveTimeout(case) ==
  CASE case.timeout = "default" -> suite.timeout
    [] case.timeout = "none"    -> <<>>
    [] case.timeout = "custom"  -> <<"custom">>

(* Bug: the bound is taken as it was passed. *)
ConcurrencyMutant == suite.concurrency

Concurrency == IF suite.concurrency = 0 THEN 1 ELSE suite.concurrency

Work == FlattenSeq([c \in DOMAIN suite.cases |-> [k \in 1..EffectiveRepeats(suite.cases[c]) |-> c]])

InFlight == {w \in DOMAIN stage : stage[w] \notin {"waiting", "ended"}}

-----------------------------------------------------------------------------
(***************************************************************************)
(* One repeat.  A record is its verdict's category and the evidence kept   *)
(* in the detail.                                                          *)
(***************************************************************************)
Record(category, detail) == [category |-> category, detail |-> detail]

(* score_run and score_reply: the evidence is full only on a miss. *)
Scored(category) ==
  IF suite.harness = "agent"
  THEN Record(category, IF category = "Pass" THEN "summary" ELSE "transcript")
  ELSE Record(category, IF category = "Pass" THEN "none" ELSE "raw reply")

Init ==
  /\ suite \in Suites
  /\ started = 0
  /\ stage = [w \in DOMAIN Work |-> "waiting"]
  /\ results = <<>> /\ reports = <<>> /\ returned = FALSE /\ came = <<>>

(* buffer_unordered takes the next future while the buffer has room. *)
Start ==
  /\ started < Len(Work)
  /\ Cardinality(InFlight) < Concurrency
  /\ started' = started + 1
  /\ stage' = [stage EXCEPT ![started + 1] = IF suite.harness = "agent" THEN "set up" ELSE "call"]
  /\ UNCHANGED <<suite, results, reports, returned, came>>

Ends(w, how, record) ==
  /\ stage' = [stage EXCEPT ![w] = "ended"]
  /\ results' = Append(results, [case |-> Work[w], record |-> record])
  /\ came' = Append(came, [work |-> w, how |-> how])
  /\ UNCHANGED <<suite, started, reports, returned>>

GoesOn(w, next) ==
  /\ stage' = [stage EXCEPT ![w] = next]
  /\ UNCHANGED <<suite, started, results, reports, returned, came>>

SetUp(w) ==
  /\ stage[w] = "set up"
  /\ \/ Ends(w, "set up failed", Record("Failed", "none"))
     \/ GoesOn(w, "run")

AgentRun(w) ==
  /\ stage[w] = "run"
  /\ \/ Ends(w, "provider failed", Record("Unavailable", "transcript"))
     \/ Ends(w, "invalid conversation", Record("Failed", "none"))
     \/ GoesOn(w, "check")

Check(w) ==
  /\ stage[w] = "check"
  /\ \/ Ends(w, "check failed", Record("Failed", "transcript"))
     \/ \E category \in {"Pass", "Wrong"} : Ends(w, category, Scored(category))

(* Model::complete under the case's timeout; a silent provider answers     *)
(* nothing, so that only the timeout can end the call.                     *)
Call(w) ==
  /\ stage[w] = "call"
  /\ \/ /\ EffectiveTimeout(suite.cases[Work[w]]) # <<>>
        /\ Ends(w, "timed out", Record("Unavailable", "none"))
     \/ /\ Work[w] \notin suite.silent
        /\ \/ Ends(w, "call failed", Record("Unavailable", "none"))
           \/ Ends(w, "unparseable", Record("Unparseable", "raw reply"))
           \/ \E category \in {"Pass", "Wrong"} : Ends(w, category, Scored(category))

Repeat(w) == w \in InFlight /\ (SetUp(w) \/ AgentRun(w) \/ Check(w) \/ Call(w))

-----------------------------------------------------------------------------
(* CaseAggregate and the report *)

Count(records, category) == Cardinality({k \in DOMAIN records : records[k].category = category})

(* Bug: a canary may set its own threshold. *)
MetThresholdMutant(case, records) ==
  LET t == OrElse(case.minPassRate, DefaultMinPassRate)
  IN  Len(records) > 0 /\ Count(records, "Pass") * t[2] >= t[1] * Len(records)

MetThreshold(case, records) ==
  LET t == Threshold(case)
  IN  Len(records) > 0 /\ Count(records, "Pass") * t[2] >= t[1] * Len(records)

Aggregate(case, records) ==
  [repeats |-> Len(records), passes |-> Count(records, "Pass"), wrong |-> Count(records, "Wrong"),
   unparseable |-> Count(records, "Unparseable"), unavailable |-> Count(records, "Unavailable"),
   failed |-> Count(records, "Failed"), met |-> MetThreshold(case, records)]

(* Bug: records are dealt in the order in which the repeats were listed. *)
PerCaseMutant(c) ==
  LET own == Ascending({k \in DOMAIN results : Work[k] = c}, Len(results))
  IN  [k \in DOMAIN own |-> results[own[k]].record]

(* The records dealt to case c, in the order in which they were collected. *)
PerCase(c) ==
  LET own == Ascending({k \in DOMAIN results : results[k].case = c}, Len(results))
  IN  [k \in DOMAIN own |-> results[own[k]].record]

Return ==
  /\ ~returned /\ Len(results) = Len(Work)
  /\ returned' = TRUE
  /\ reports' = [c \in DOMAIN suite.cases |->
       [aggregate |-> Aggregate(suite.cases[c], PerCase(c)), repeats |-> PerCase(c)]]
  /\ UNCHANGED <<suite, started, stage, results, came>>

(* Report::suite_result *)
AllMet == \A c \in DOMAIN reports : reports[c].aggregate.met

Stopped == returned /\ UNCHANGED vars

Next == Start \/ (\E w \in DOMAIN stage : Repeat(w)) \/ Return \/ Stopped

Spec == Init /\ [][Next]_vars

(* The executor polls the runner's one task, and so every future in it; a  *)
(* timer, a handler or a provider that answers wakes it.                   *)
Fairness ==
  /\ WF_vars(Start) /\ WF_vars(Return)
  /\ \A w \in 1..MaxWork : WF_vars(w \in DOMAIN stage /\ Repeat(w))

FairSpec == Spec /\ Fairness

-----------------------------------------------------------------------------
(* What the repeat that ended so is worth, by the runners' documentation. *)
Worth(how) ==
  CASE how = "Pass"             -> Record("Pass", IF suite.harness = "agent" THEN "summary" ELSE "none")
    [] how = "Wrong"            -> Record("Wrong", IF suite.harness = "agent" THEN "transcript" ELSE "raw reply")
    [] how \in {"set up failed", "invalid conversation"} -> Record("Failed", "none")
    [] how = "check failed"     -> Record("Failed", "transcript")
    [] how = "provider failed"  -> Record("Unavailable", "transcript")
    [] how \in {"timed out", "call failed"} -> Record("Unavailable", "none")
    [] how = "unparseable"      -> Record("Unparseable", "raw reply")

(* The repeats of case c, in the order in which they ended. *)
EndedOf(c) == At(came, Ascending({k \in DOMAIN came : Work[came[k].work] = c}, Len(came)))

(* However the repeats of all cases interleave, no more than the bound are *)
(* in flight, and the report of a case holds exactly its own repeats, as   *)
(* many as it asks for, in order of completion, each with what it came to, *)
(* and an aggregate whose categories add up to them.                       *)
ReportAccounts ==
  /\ Cardinality(InFlight) <= (IF suite.concurrency > 1 THEN suite.concurrency ELSE 1)
  /\ returned => \A c \in DOMAIN suite.cases :
       LET a == reports[c].aggregate
           e == EndedOf(c)
       IN  /\ reports[c].repeats = [k \in DOMAIN e |-> Worth(e[k].how)]
           /\ {e[k].work : k \in DOMAIN e} = {w \in DOMAIN stage : Work[w] = c}
           /\ Len(e) = a.repeats /\ a.repeats = EffectiveRepeats(suite.cases[c])
           /\ a.passes + a.wrong + a.unparseable + a.unavailable + a.failed = a.repeats

(* A suite is met only by cases that were measured: none without a repeat  *)
(* that passed (unless it asks for no positive rate) and no canary with a  *)
(* miss of any kind, be it the model's, the endpoint's or the harness's.   *)
MetMeansMeasured ==
  returned /\ AllMet => \A c \in DOMAIN suite.cases :
    LET e == EndedOf(c)
    IN  /\ e # <<>>
        /\ Threshold(suite.cases[c])[1] > 0 => \E k \in DOMAIN e : e[k].how = "Pass"
        /\ suite.cases[c].canary => \A k \in DOMAIN e : e[k].how = "Pass"

(* A suite returns if no call without a timeout waits for a silent         *)
(* provider, even when it is built with a concurrency of zero.             *)
Answerable ==
  suite.harness = "response" =>
    \A c \in suite.silent : EffectiveTimeout(suite.cases[c]) # <<>> \/ EffectiveRepeats(suite.cases[c]) = 0

SuiteReturns == Answerable => <>returned
=============================================================================
