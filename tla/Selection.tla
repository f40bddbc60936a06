------------------------------ MODULE Selection ------------------------------
(***************************************************************************)
(* A loop over a list that takes some of its elements, as a list of the    *)
(* places it takes (SelectSeq of Sequences selects the elements).          *)
(***************************************************************************)
EXTENDS Naturals, Sequences

(* The members of S from 1 to n, in ascending order. *)
Ascending(S, n) ==
  LET upTo[k \in 0..n] ==
        IF k = 0 THEN <<>> ELSE IF k \in S THEN Append(upTo[k - 1], k) ELSE upTo[k - 1]
  IN  upTo[n]

(* The elements of s at these places. *)
At(s, places) == [k \in DOMAIN places |-> s[places[k]]]
=============================================================================
