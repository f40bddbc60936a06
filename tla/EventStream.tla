---------------------------- MODULE EventStream -----------------------------
(***************************************************************************)
(* What a provider promises the model call that reads it (the contract of  *)
(* Provider and CompletionStream in grizzly-agent-core, provider.rs and    *)
(* completion.rs), without saying how: either the request is refused with  *)
(* one failure, or a stream of events follows whose last item, and only    *)
(* that one, is a finished event or a failure.  A fragment of arguments    *)
(* belongs to a tool use announced before it, since the accumulator joins  *)
(* fragments by id.                                                        *)
(***************************************************************************)
EXTENDS Naturals, Sequences

VARIABLES items, over

streamVars == <<items, over>>

IsFinal(item) == item.kind \in {"finished", "failure"}

Ended == items # <<>> /\ IsFinal(items[Len(items)])

Announced(id) == \E k \in DOMAIN items : items[k].kind = "start" /\ items[k].id = id

Init == items = <<>> /\ over = FALSE

(* One more item, of which no final one has been handed out. *)
Item ==
  /\ ~over /\ ~Ended
  /\ Len(items') = Len(items) + 1
  /\ SubSeq(items', 1, Len(items)) = items
  /\ LET item == items'[Len(items')]
     IN  item.kind = "arguments" => Announced(item.id)
  /\ UNCHANGED over

(* The request is refused: there is no stream. *)
Refusal ==
  /\ ~over /\ items = <<>>
  /\ Len(items') = 1 /\ items'[1].kind = "failure"
  /\ over' = TRUE

(* The stream is over only after its final item. *)
Over == Ended /\ ~over /\ over' = TRUE /\ UNCHANGED items

Next == Item \/ Refusal \/ Over

Spec == Init /\ [][Next]_streamVars
=============================================================================
