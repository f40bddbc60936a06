--------------------------- MODULE MCStreamReader ---------------------------
(* Bodies in both dialects, for TLC: up to MaxLines lines of any kind, and *)
(* one more if all of them matter to tool uses and the end of the stream.  *)
EXTENDS StreamReader

CONSTANT MaxLines

Line(kind) == [kind |-> kind]

Choice(index, reasoning, text, calls, finish) ==
  [index |-> index, reasoning |-> reasoning, text |-> text, calls |-> calls, finish |-> finish]
Chunk(model, usage, choices) ==
  [kind |-> "chunk", model |-> model, usage |-> usage, choices |-> choices]
Call(index, id, arguments) == [index |-> index, id |-> id, arguments |-> arguments]

OpenAiLines ==
  {Line("other"), Line("undecodable"), Line("done"), [kind |-> "error", type |-> ""],
   Chunk(TRUE, FALSE, <<Choice(1, {}, TRUE, <<>>, "stop"),
                        Choice(0, {"thinking", "reasoning"}, TRUE, <<>>, "")>>),
   Chunk(FALSE, FALSE, <<Choice(0, {}, FALSE, <<Call(0, "a", FALSE)>>, "")>>),
   Chunk(FALSE, FALSE, <<Choice(0, {}, FALSE, <<Call(1, "", TRUE), Call(0, "b", TRUE)>>, "")>>),
   Chunk(FALSE, FALSE, <<Choice(0, {}, FALSE, <<Call(1, "", TRUE)>>, "tool_calls")>>),
   Chunk(TRUE, FALSE, <<Choice(0, {}, FALSE, <<>>, "length")>>),
   Chunk(TRUE, FALSE, <<Choice(0, {}, TRUE, <<Call(1, "c", TRUE)>>, "stop"),
                        Choice(0, {}, FALSE, <<Call(1, "", TRUE), Call(0, "", TRUE)>>, "length")>>),
   Chunk(FALSE, TRUE, <<>>)}

Delta(kind, index) == [kind |-> "delta", delta |-> kind, index |-> index]
ToolUse(index, id) == [kind |-> "tool_use", index |-> index, id |-> id]

AnthropicLines ==
  {Line("other"), Line("undecodable"), Line("message_stop"), Line("ping"),
   Line("redacted_thinking"), [kind |-> "error", type |-> "overloaded_error"],
   [kind |-> "message_start", model |-> TRUE, usage |-> TRUE],
   [kind |-> "message_start", model |-> FALSE, usage |-> FALSE],
   ToolUse(0, "a"), ToolUse(0, "b"), ToolUse(1, "b"),
   Delta("arguments", 0), Delta("arguments", 1), Delta("text", 0), Delta("signature", 0),
   [kind |-> "message_delta", stop |-> "tool_use"], [kind |-> "message_delta", stop |-> ""]}

Rest == {"other", "undecodable", "ping", "redacted_thinking", "error", "message_start"}
Core(lines) == {l \in lines : l.kind \notin Rest /\ (l.kind = "delta" => l.delta = "arguments")
                                /\ (l.kind = "message_delta" => l.stop # "")
                                /\ (l.kind = "chunk" => ~l.model /\ ~l.usage)}

BodiesOf(dialect, lines) ==
  {[dialect |-> dialect, lines |-> ls] :
     ls \in SeqOf(lines, MaxLines) \cup SeqOf(Core(lines), MaxLines + 1)}

MCBodies == BodiesOf("openai", OpenAiLines) \cup BodiesOf("anthropic", AnthropicLines)
=============================================================================
