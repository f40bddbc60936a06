---------------------------- MODULE MCAccumulator ----------------------------
(***************************************************************************)
(* Finite instances of Accumulator for TLC: all streams over a small set   *)
(* of events.                                                              *)
(***************************************************************************)
EXTENDS Accumulator

MCIds    == {1, 2}
MCCounts == {5, 7}

Finishes == {[kind |-> "finished", stop |-> "ToolUse"], [kind |-> "finished", stop |-> "MaxTokens"]}

Fragment(id, closes) == [kind |-> "fragment", id |-> id, closes |-> closes]

(* Blocks of every kind, a signature, and usage that supersedes usage. *)
ContentStream ==
  {[kind |-> k] : k \in {"text", "reasoning", "signature", "redacted"}}
    \cup {[kind |-> "start", id |-> 1],
          [kind |-> "usage", input |-> <<5>>, output |-> None],
          [kind |-> "usage", input |-> <<7>>, output |-> <<7>>]}

(* Two calls whose fragments interleave, and a text. *)
ToolStream ==
  Finishes
    \cup {[kind |-> "text"]}
    \cup {[kind |-> "start", id |-> id] : id \in MCIds}
    \cup {Fragment(1, FALSE), Fragment(1, TRUE), Fragment(2, TRUE)}

(* A stream mixes the events of one family: streams over both are too many. *)
MCFamilies == {ContentStream, ToolStream}
=============================================================================
