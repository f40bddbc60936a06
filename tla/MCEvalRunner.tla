---------------------------- MODULE MCEvalRunner ----------------------------
(* Suites of two cases and up to four repeats, for TLC. *)
EXTENDS EvalRunner

Case(repeats, minPassRate, canary, timeout) ==
  [repeats |-> repeats, minPassRate |-> minPassRate, canary |-> canary, timeout |-> timeout]

Plain   == Case(<<>>, <<>>, FALSE, "default")
Canary  == Case(<<2>>, <<<<1, 2>>>>, TRUE, "none")
Lenient == Case(<<2>>, <<<<0, 1>>>>, FALSE, "custom")
Empty   == Case(<<0>>, <<<<0, 1>>>>, FALSE, "none")

Suite(harness, cases, concurrency, timeout, silent) ==
  [harness |-> harness, cases |-> cases, concurrency |-> concurrency, repeats |-> 2,
   timeout |-> timeout, silent |-> silent]

MCSuites ==
  {Suite("agent", cs, n, <<>>, {}) :
     cs \in {<<Plain, Canary>>, <<Canary, Lenient>>, <<Plain, Empty>>}, n \in 0..3}
  \cup
  {Suite("response", cs, n, t, silent) :
     cs \in {<<Plain, Canary>>, <<Lenient, Plain>>}, n \in 0..2,
     t \in {<<>>, <<"default">>}, silent \in {{}, {1}, {2}}}
=============================================================================
