---------------------------- MODULE Conversation ----------------------------
(***************************************************************************)
(* Messages, completions and the request invariants of grizzly-agent-core  *)
(* (message.rs, completion.rs, request.rs).                                *)
(*                                                                         *)
(* A message is kept as the blocks the turn loop and the validator tell    *)
(* apart: whether it has text, whether it has reasoning (signed or         *)
(* redacted), its tool uses in order and its tool results in order.  The   *)
(* wording of a block, and how text is interleaved with tool uses, decides *)
(* nothing in the code modelled here.                                      *)
(***************************************************************************)
EXTENDS Naturals, Sequences

CONSTANTS
  ToolNames,   (* names a model may ask for                                *)
  Arguments,   (* parsed JSON argument values                              *)
  UseIds       (* tool-use ids a provider may assign; they may repeat      *)

Roles       == {"system", "user", "assistant"}
StopReasons == {"EndOfTurn", "ToolUse", "MaxTokens", "Other"}
ToolUses    == [id : UseIds, name : ToolNames, input : Arguments]

(* "cancelled" is the error result of a tool use that was never dispatched. *)
(* is_error is outcome # "ok".                                              *)
ToolResults == [id : UseIds, outcome : {"ok", "failed", "cancelled"}]

Messages ==
  [role : Roles, text : BOOLEAN, reasoning : BOOLEAN,
   uses : Seq(ToolUses), results : Seq(ToolResults)]

(* The content of a finished completion, with its classified stop reason. *)
CompletionType ==
  [stop : StopReasons, text : BOOLEAN, reasoning : BOOLEAN, uses : Seq(ToolUses)]

SystemMessage ==
  [role |-> "system", text |-> TRUE, reasoning |-> FALSE, uses |-> <<>>, results |-> <<>>]

AssistantMessage(c, uses) ==
  [role |-> "assistant", text |-> c.text, reasoning |-> c.reasoning,
   uses |-> uses, results |-> <<>>]

(* Bug: the results are not a user message.  A definition named ...Mutant is *)
(* used by no specification.                                                 *)
ToolResultsMessageMutant(results) ==
  [role |-> "assistant", text |-> FALSE, reasoning |-> FALSE, uses |-> <<>>, results |-> results]

ToolResultsMessage(results) ==
  [role |-> "user", text |-> FALSE, reasoning |-> FALSE, uses |-> <<>>, results |-> results]

RequestsTools(m) == m.uses # <<>>

-----------------------------------------------------------------------------
(***************************************************************************)
(* validate_messages.  The code walks the list once, carrying a flag       *)
(* (past_system_head) and the set of tool-use ids seen on earlier          *)
(* assistant messages; both are functions of the messages before k.        *)
(***************************************************************************)
PastSystemHead(ms, k) == \E j \in 1..(k - 1) : ms[j].role # "system"

IdsOf(m) == {m.uses[i].id : i \in DOMAIN m.uses}

KnownIds(ms, k) ==
  UNION {IdsOf(ms[j]) : j \in {i \in 1..(k - 1) : ms[i].role = "assistant"}}

ValidSystemMessage(ms, k) ==
  /\ ~PastSystemHead(ms, k)
  /\ ~ms[k].reasoning /\ ms[k].uses = <<>> /\ ms[k].results = <<>>

ValidUserMessage(ms, k) ==
  /\ ~ms[k].reasoning /\ ms[k].uses = <<>>
  /\ \A i \in DOMAIN ms[k].results : ms[k].results[i].id \in KnownIds(ms, k)

ValidAssistantMessage(ms, k) == ms[k].results = <<>>

ValidMessages(ms) ==
  \A k \in DOMAIN ms :
    \/ ms[k].role = "system"    /\ ValidSystemMessage(ms, k)
    \/ ms[k].role = "user"      /\ ValidUserMessage(ms, k)
    \/ ms[k].role = "assistant" /\ ValidAssistantMessage(ms, k)

(* validate_conversation: Agent::run accepts no system message at all. *)
ValidConversation(ms) ==
  /\ \A k \in DOMAIN ms : ms[k].role # "system"
  /\ ValidMessages(ms)

-----------------------------------------------------------------------------
(***************************************************************************)
(* What providers require beyond what validate_messages checks: a message  *)
(* that asks for tools is followed at once by one that answers every tool  *)
(* use, in order and by id.                                                *)
(***************************************************************************)
Answers(r, m) ==
  /\ r.role = "user"
  /\ Len(r.results) = Len(m.uses)
  /\ \A i \in DOMAIN m.uses : r.results[i].id = m.uses[i].id

AllAnswered(ms) ==
  \A k \in DOMAIN ms :
    RequestsTools(ms[k]) => k < Len(ms) /\ Answers(ms[k + 1], ms[k])

(* No result answers anything but the message right before it.             *)
ResultsFollow(ms) ==
  \A k \in DOMAIN ms : ms[k].results # <<>> => k > 1 /\ Answers(ms[k], ms[k - 1])
=============================================================================
