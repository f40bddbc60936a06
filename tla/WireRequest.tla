---------------------------- MODULE WireRequest ----------------------------
(***************************************************************************)
(* The requests that the turn loop sends, as the two providers of          *)
(* grizzly-agent-providers put them on the wire (build_request in          *)
(* openai/wire.rs and anthropic/wire.rs).  Tools, sampling options and the *)
(* response format are copied field by field and left out.                 *)
(***************************************************************************)
EXTENDS TurnLoop, Selection

(* A message of the chat-completions wire; answers is its tool_call_id. *)
OpenAiMessage(role, text, asked, answers) ==
  [role |-> role, text |-> text, calls |-> asked, answers |-> answers]

ResultToOpenAi(result) == OpenAiMessage("tool", TRUE, <<>>, <<result.id>>)

(* Bug: the text goes first. *)
UserToOpenAiMutant(m) ==
  (IF m.text THEN <<OpenAiMessage("user", TRUE, <<>>, <<>>)>> ELSE <<>>)
    \o [i \in DOMAIN m.results |-> ResultToOpenAi(m.results[i])]

(* A user's text follows the results, as a message of its own. *)
UserToOpenAi(m) ==
  [i \in DOMAIN m.results |-> ResultToOpenAi(m.results[i])]
    \o (IF m.text THEN <<OpenAiMessage("user", TRUE, <<>>, <<>>)>> ELSE <<>>)

(* Reasoning of any kind is dropped. *)
AssistantToOpenAi(m) ==
  OpenAiMessage("assistant", m.text, [i \in DOMAIN m.uses |-> m.uses[i].id], <<>>)

MessageToOpenAi(m) ==
  CASE m.role = "system"    -> <<OpenAiMessage("system", TRUE, <<>>, <<>>)>>
    [] m.role = "user"      -> UserToOpenAi(m)
    [] m.role = "assistant" -> <<AssistantToOpenAi(m)>>

OpenAiRequest(ms) == FlattenSeq([k \in DOMAIN ms |-> MessageToOpenAi(ms[k])])

-----------------------------------------------------------------------------
(* Anthropic: the head system messages become a field of their own, blocks *)
(* map one to one.  Reasoning, sent back with its signature or redacted,   *)
(* pairs with nothing and is left out of the wire message.                 *)

SystemPrompt(ms) == \E k \in DOMAIN ms : ms[k].role = "system" /\ ~PastSystemHead(ms, k)

MessageToAnthropic(m) ==
  [role    |-> IF m.role = "user" THEN "user" ELSE "assistant",
   text    |-> m.text,
   uses    |-> [i \in DOMAIN m.uses |-> m.uses[i].id],
   results |-> [i \in DOMAIN m.results |-> [id |-> m.results[i].id, isError |-> m.results[i].outcome # "ok"]]]

AnthropicRequest(ms) ==
  LET turns == At(ms, Ascending({k \in DOMAIN ms : ms[k].role # "system"}, Len(ms)))
  IN  [system |-> SystemPrompt(ms), messages |-> [k \in DOMAIN turns |-> MessageToAnthropic(turns[k])]]

-----------------------------------------------------------------------------
(* The tool messages on the wire are, call for call, the answers that      *)
(* directly follow the message with the calls.                             *)
OpenAiPaired(wire) ==
  /\ \A k \in DOMAIN wire : \A i \in DOMAIN wire[k].calls :
       /\ k + i <= Len(wire)
       /\ wire[k + i].role = "tool" /\ wire[k + i].answers = <<wire[k].calls[i]>>
  /\ \A k \in DOMAIN wire : wire[k].role = "tool" =>
       \E j \in 1..(k - 1) : (k - j) \in DOMAIN wire[j].calls

AnthropicPaired(wire) ==
  \A k \in DOMAIN wire.messages :
    LET m == wire.messages[k]
    IN  /\ m.uses # <<>> =>
             /\ k < Len(wire.messages) /\ wire.messages[k + 1].role = "user"
             /\ [i \in DOMAIN wire.messages[k + 1].results |-> wire.messages[k + 1].results[i].id] = m.uses
        /\ m.results # <<>> => k > 1 /\ wire.messages[k - 1].uses # <<>>

(* With or without a system prompt, every request of the loop reaches both *)
(* providers in the form they accept, if the caller's conversation answers *)
(* its own tool uses, and nothing else: calls and results stay paired when *)
(* a message becomes several, or a user's text comes with the results, and *)
(* the system prompt stands first (OpenAI) or apart (Anthropic).           *)
WirePaired ==
  pc = "model" /\ AllAnswered(conversation) /\ ResultsFollow(conversation) =>
    \A head \in {<<>>, <<SystemMessage>>} :
      LET ms        == head \o Transcript
          openai    == OpenAiRequest(ms)
          anthropic == AnthropicRequest(ms)
      IN  /\ OpenAiPaired(openai)
          /\ \A k \in DOMAIN openai : openai[k].role = "system" <=> head # <<>> /\ k = 1
          /\ AnthropicPaired(anthropic)
          /\ anthropic.system = (head # <<>>)
          /\ Len(anthropic.messages) = Len(Transcript)
=============================================================================
