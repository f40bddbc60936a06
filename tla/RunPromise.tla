----------------------------- MODULE RunPromise -----------------------------
(***************************************************************************)
(* What Agent::run promises its caller (agent/run.rs, agent/trace.rs and   *)
(* RunFailure in error.rs), without saying how: a conversation is refused  *)
(* before any work, or else the transcript grows by whole rounds, each an  *)
(* assistant message with all its tool uses answered, until a final reply  *)
(* or a reason to give up; the verdict is given once, with that transcript.*)
(***************************************************************************)
EXTENDS Conversation

VARIABLES phase, transcript, verdict

promiseVars == <<phase, transcript, verdict>>

Init ==
  /\ phase = "idle"
  /\ transcript = <<>>
  /\ verdict = "Running"

Refuse ==
  /\ phase = "idle" /\ phase' = "returned"
  /\ verdict' = "InvalidConversation"
  /\ UNCHANGED transcript

Admit ==
  /\ phase = "idle" /\ phase' = "running"
  /\ UNCHANGED <<transcript, verdict>>

GrowsBy(n) ==
  /\ Len(transcript') = Len(transcript) + n
  /\ SubSeq(transcript', 1, Len(transcript)) = transcript

(* A round of tool calls: the run goes on, or ends after it. *)
ToolRound ==
  /\ phase = "running"
  /\ GrowsBy(2)
  /\ LET asked == transcript'[Len(transcript) + 1]
         answer == transcript'[Len(transcript) + 2]
     IN  asked.role = "assistant" /\ RequestsTools(asked) /\ Answers(answer, asked)
  /\ \/ phase' = "running" /\ verdict' = verdict
     \/ phase' = "returned" /\ verdict' \in {"StopRequested", "Stalled", "Cancelled"}

FinalReply ==
  /\ phase = "running"
  /\ GrowsBy(1)
  /\ LET answer == transcript'[Len(transcript) + 1]
     IN  answer.role = "assistant" /\ ~RequestsTools(answer)
  /\ phase' = "returned"
  /\ verdict' \in {"Completed", "Truncated"}

GiveUp ==
  /\ phase = "running" /\ phase' = "returned"
  /\ verdict' \in {"Cancelled", "RoundsExhausted", "Provider"}
  /\ UNCHANGED transcript

Next == Refuse \/ Admit \/ ToolRound \/ FinalReply \/ GiveUp

Spec == Init /\ [][Next]_promiseVars
=============================================================================
