----------------------------- MODULE MCTurnLoop -----------------------------
(***************************************************************************)
(* Finite instances of TurnLoop for TLC.                                   *)
(***************************************************************************)
EXTENDS WireRequest

CONSTANTS look, hand, ghost,   (* tool names; ghost is not registered *)
          here, there          (* argument values *)

MCToolNames  == {look, hand, ghost}
MCRegistered == {look, hand}
MCArguments  == {here, there}
MCUseIds     == {1, 2, 3}

Use(i, name, input) == [id |-> i, name |-> name, input |-> input]

Answer(stop, text, asked) ==
  [stop |-> stop, text |-> text, reasoning |-> FALSE, uses |-> asked]

UserMessage ==
  [role |-> "user", text |-> TRUE, reasoning |-> FALSE, uses |-> <<>>, results |-> <<>>]

(* A new conversation, and one resumed after a round of tools. *)
Valid ==
  {<<UserMessage>>,
   <<UserMessage,
     AssistantMessage(Answer("ToolUse", TRUE, <<>>), <<Use(3, look, here)>>),
     [ToolResultsMessage(<<[id |-> 3, outcome |-> "ok"]>>) EXCEPT !.text = TRUE]>>}

(* One conversation for each rule of the upfront check. *)
Broken ==
  {<<SystemMessage, UserMessage>>,
   <<ToolResultsMessage(<<[id |-> 3, outcome |-> "ok"]>>)>>,
   <<[UserMessage EXCEPT !.uses = <<Use(3, look, here)>>]>>,
   <<[UserMessage EXCEPT !.reasoning = TRUE]>>,
   <<[AssistantMessage(Answer("ToolUse", TRUE, <<>>), <<Use(3, look, here)>>)
        EXCEPT !.results = <<[id |-> 3, outcome |-> "ok"]>>]>>}

MCConversations == Valid \cup Broken

(* Replies with and without text; one, two and three tool uses, known and   *)
(* unknown tools, equal and different arguments, ids that repeat within a   *)
(* message and across rounds; cut-off completions with and without uses.    *)
MCCompletions ==
  {Answer("EndOfTurn", TRUE, <<>>),
   Answer("Other", FALSE, <<>>),
   Answer("MaxTokens", TRUE, <<Use(1, look, here)>>),
   Answer("ToolUse", FALSE, <<Use(1, hand, here)>>),
   Answer("ToolUse", TRUE, <<Use(1, look, here), Use(2, ghost, here)>>),
   Answer("Other", FALSE, <<Use(1, look, here), Use(1, look, here), Use(2, look, there)>>)}

OneConversation == {<<UserMessage>>}

(* For stalls: one tool, two arguments, up to three calls a round. *)
StallCompletions ==
  {Answer("EndOfTurn", TRUE, <<>>)} \cup
  {Answer("ToolUse", FALSE, asked) :
     asked \in {<<Use(1, look, here)>>, <<Use(1, look, there)>>,
                <<Use(1, look, here), Use(2, look, there)>>,
                <<Use(1, look, here), Use(2, look, here)>>,
                <<Use(1, look, here), Use(2, look, here), Use(3, look, there)>>}}

NoStopRequests == {}
=============================================================================
