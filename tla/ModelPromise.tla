---------------------------- MODULE ModelPromise ----------------------------
(***************************************************************************)
(* What a model call promises its caller (Model::complete, Model::stream   *)
(* in model.rs and stream_round in agent/run.rs), without attempts, waits  *)
(* or a deadline: a watching caller hears the events of one stream as they *)
(* come; then the call answers once, with the completion of exactly that   *)
(* stream, or it fails and leaves no completion behind.  TurnLoop makes    *)
(* one step of it.                                                         *)
(***************************************************************************)
EXTENDS Naturals, Sequences

VARIABLES
  watched,      (* whether the caller is told of events (Model::stream)    *)
  heard,        (* the events it was told of                               *)
  completion,   (* the events of the completion                            *)
  verdict       (* "Pending", "Completed", "Failed"                        *)

callVars == <<watched, heard, completion, verdict>>

(* Events of one attempt, from its first on, none left out, the finished   *)
(* event at the end.                                                       *)
OneStream(events) ==
  \A i \in DOMAIN events :
    /\ events[i].index = i /\ events[i].attempt = events[1].attempt
    /\ events[i].kind = "finished" => i = Len(events)

Finished(events) == events # <<>> /\ events[Len(events)].kind = "finished"

Init ==
  /\ watched \in BOOLEAN
  /\ heard = <<>> /\ completion = <<>> /\ verdict = "Pending"

Hear ==
  /\ watched /\ verdict = "Pending"
  /\ Len(heard') = Len(heard) + 1
  /\ SubSeq(heard', 1, Len(heard)) = heard
  /\ OneStream(heard')
  /\ UNCHANGED <<watched, completion, verdict>>

Complete ==
  /\ verdict = "Pending" /\ verdict' = "Completed"
  /\ OneStream(completion') /\ Finished(completion')
  /\ heard = IF watched THEN completion' ELSE <<>>
  /\ UNCHANGED <<watched, heard>>

Fail ==
  /\ verdict = "Pending" /\ verdict' = "Failed"
  /\ UNCHANGED <<watched, heard, completion>>

Next == Hear \/ Complete \/ Fail

Spec == Init /\ [][Next]_callVars
=============================================================================
