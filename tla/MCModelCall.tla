----------------------------- MODULE MCModelCall -----------------------------
(***************************************************************************)
(* Finite instances of ModelCall for TLC.                                  *)
(***************************************************************************)
EXTENDS ModelCall

Status(code, after) == [kind |-> "Status", status |-> code, retryAfter |-> after]

(* One failure for each way is_retryable and retry_after decide. *)
MCFailures ==
  {Transport, [kind |-> "Decode"],
   Status(400, None), Status(429, Some(3)), Status(503, None)}

RateLimits == {Status(503, None), Status(429, Some(3))}

NoTimeout    == {None}
SomeTimeouts == {None, Some(2)}
=============================================================================
