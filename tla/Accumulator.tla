----------------------------- MODULE Accumulator -----------------------------
(***************************************************************************)
(* CompletionAccumulator (accumulator.rs): completion events are pushed    *)
(* one by one and folded into a completion when the stream ends.           *)
(*                                                                         *)
(* An event is known by its place in the stream: a text, a signature or    *)
(* the arguments of a call are the sequence of the places of the fragments *)
(* they were put together from, so that a property can tell which fragment *)
(* went where, and in which order.                                         *)
(***************************************************************************)
EXTENDS Naturals, SequencesExt, Selection

CONSTANTS
  Ids,         (* tool-use ids a provider may assign                       *)
  Counts,      (* token counts a provider may report                       *)
  Families,    (* bound: a stream is made of the events of one of these    *)
  MaxEvents    (* bound: events of a stream                                *)

VARIABLES
  events,      (* history: the events pushed so far                        *)
  blocks,      (* CompletionAccumulator::blocks                            *)
  arguments,   (* tool_arguments: the fragments of every id it has         *)
  usage,       (* the usage merged so far                                  *)
  finished,    (* the stop reason of the latest finished event             *)
  result       (* what finish returned                                     *)

vars == <<events, blocks, arguments, usage, finished, result>>

None      == <<>>
Option(S) == {None} \cup {<<x>> : x \in S}

(* Whether a fragment closes the JSON text of its call's arguments.  A text *)
(* parses if it is closed, and by its last fragment.                        *)
Event ==
  [kind : {"text", "reasoning", "signature", "redacted"}]
    \cup [kind : {"start"}, id : Ids]
    \cup [kind : {"fragment"}, id : Ids, closes : BOOLEAN]
    \cup [kind : {"usage"}, input : Option(Counts), output : Option(Counts)]
    \cup [kind : {"finished"}, stop : {"MaxTokens", "ToolUse"}]

ASSUME AccumulatorAssumption ==
  /\ Counts \subseteq Nat
  /\ Families \subseteq SUBSET Event
  /\ MaxEvents \in Nat

(* Content.  parts and signature are places of events in the stream.        *)
Block ==
  [kind : {"text", "redacted"}, parts : Seq(Nat)]
    \cup [kind : {"reasoning"}, parts : Seq(Nat), signature : Seq(Nat)]
    \cup [kind : {"tool"}, parts : Seq(Nat), id : Ids]

(* What finish makes of a block: a tool use has its arguments.              *)
Content == [block : Block, input : Seq(Nat)]

-----------------------------------------------------------------------------
(***************************************************************************)
(* push: what one event does to the blocks and the arguments.              *)
(***************************************************************************)
Here == Len(events) + 1

OpenBlock(kind) == blocks # <<>> /\ Last(blocks).kind = kind

(* Bug: a delta always starts a block of its own. *)
PushTextMutant(place) == Append(blocks, [kind |-> "text", parts |-> <<place>>])

PushText(place) ==
  IF OpenBlock("text") THEN [blocks EXCEPT ![Len(blocks)].parts = Append(@, place)]
  ELSE Append(blocks, [kind |-> "text", parts |-> <<place>>])

PushReasoning(place) ==
  IF OpenBlock("reasoning") THEN [blocks EXCEPT ![Len(blocks)].parts = Append(@, place)]
  ELSE Append(blocks, [kind |-> "reasoning", parts |-> <<place>>, signature |-> <<>>])

(* Bug: the search for a reasoning block begins at the front. *)
PushSignatureMutant(place) ==
  LET reasoning == {i \in DOMAIN blocks : blocks[i].kind = "reasoning"}
  IN  IF reasoning = {} THEN blocks
      ELSE [blocks EXCEPT ![Min(reasoning)].signature = Append(@, place)]

(* A signature with no open reasoning block is dropped. *)
PushSignature(place) ==
  IF OpenBlock("reasoning") THEN [blocks EXCEPT ![Len(blocks)].signature = Append(@, place)]
  ELSE blocks

Pushed(event, place) ==
  CASE event.kind = "text"      -> PushText(place)
    [] event.kind = "reasoning" -> PushReasoning(place)
    [] event.kind = "signature" -> PushSignature(place)
    [] event.kind = "redacted"  -> Append(blocks, [kind |-> "redacted", parts |-> <<place>>])
    [] event.kind = "start"     ->
         Append(blocks, [kind |-> "tool", parts |-> <<place>>, id |-> event.id])
    [] OTHER                    -> blocks

(* The entry of an id, made empty if there is none. *)
Entry(args, id) == IF id \in DOMAIN args THEN args[id] ELSE <<>>

WithEntry(args, id, text) ==
  [i \in DOMAIN args \cup {id} |-> IF i = id THEN text ELSE args[i]]

(* Bug: a call without arguments has no entry. *)
ArguedLateMutant(event, place) ==
  IF event.kind = "fragment"
  THEN WithEntry(arguments, event.id, Append(Entry(arguments, event.id), place))
  ELSE arguments

(* Bug: a fragment replaces the ones before it. *)
ArguedMutant(event, place) ==
  CASE event.kind = "start"    -> WithEntry(arguments, event.id, Entry(arguments, event.id))
    [] event.kind = "fragment" -> WithEntry(arguments, event.id, <<place>>)
    [] OTHER                   -> arguments

Argued(event, place) ==
  CASE event.kind = "start"    -> WithEntry(arguments, event.id, Entry(arguments, event.id))
    [] event.kind = "fragment" ->
         WithEntry(arguments, event.id, Append(Entry(arguments, event.id), place))
    [] OTHER                   -> arguments

(* Option::or *)
Or(a, b) == IF a # None THEN a ELSE b

(* Bug: the update replaces what was reported before. *)
MergedMutant(event) ==
  IF event.kind = "usage" THEN [input |-> event.input, output |-> event.output] ELSE usage

(* Usage::merge *)
Merged(event) ==
  IF event.kind = "usage"
  THEN [input |-> Or(event.input, usage.input), output |-> Or(event.output, usage.output)]
  ELSE usage

-----------------------------------------------------------------------------
Init ==
  /\ events = <<>> /\ blocks = <<>> /\ arguments = <<>>
  /\ usage = [input |-> None, output |-> None]
  /\ finished = None
  /\ result = [kind |-> "Open"]

Push(event) ==
  /\ result.kind = "Open"
  /\ Len(events) < MaxEvents
  /\ \E family \in Families : ToSet(events) \cup {event} \subseteq family
  /\ events' = Append(events, event)
  /\ blocks' = Pushed(event, Here)
  /\ arguments' = Argued(event, Here)
  /\ usage' = Merged(event)
  /\ finished' = IF event.kind = "finished" THEN <<event.stop>> ELSE finished
  /\ UNCHANGED result

(***************************************************************************)
(* finish: resolve_tool_use takes the arguments of a call out of the map,  *)
(* so a second block with the same id finds none.                          *)
(***************************************************************************)
Closes(place) == events[place].closes

Parses(text) ==
  /\ text # <<>>
  /\ \A i \in DOMAIN text : Closes(text[i]) <=> i = Len(text)

FirstOfItsId(i) == \A j \in 1..(i - 1) : blocks[j].kind = "tool" => blocks[j].id # blocks[i].id

(* The arguments block i gets, if it is a tool use. *)
ArgumentsOf(i) == IF FirstOfItsId(i) THEN arguments[blocks[i].id] ELSE <<>>

Unparseable == {i \in DOMAIN blocks : blocks[i].kind = "tool" /\ ~Parses(ArgumentsOf(i))}

(* Bug: a call that was cut off is handed out with what there is of it. *)
KeptMutant == [i \in DOMAIN blocks |-> i]

(* The blocks of the completion: a cut-off tool use is dropped. *)
Kept == Ascending(DOMAIN blocks \ Unparseable, Len(blocks))

Resolved(i) ==
  [block |-> blocks[i], input |-> IF blocks[i].kind = "tool" THEN ArgumentsOf(i) ELSE <<>>]

FinishUnfinished ==
  /\ result.kind = "Open"
  /\ finished = None
  /\ result' = [kind |-> "Transport"]
  /\ UNCHANGED <<events, blocks, arguments, usage, finished>>

FinishUndecodable ==
  /\ result.kind = "Open"
  /\ finished # None
  /\ finished[1] # "MaxTokens" /\ Unparseable # {}
  /\ result' = [kind |-> "Decode"]
  /\ UNCHANGED <<events, blocks, arguments, usage, finished>>

FinishCompletion ==
  /\ result.kind = "Open"
  /\ finished # None
  /\ finished[1] = "MaxTokens" \/ Unparseable = {}
  /\ result' = [kind |-> "Completion", stop |-> finished[1],
                content |-> [k \in DOMAIN Kept |-> Resolved(Kept[k])]]
  /\ UNCHANGED <<events, blocks, arguments, usage, finished>>

(* finish consumes the accumulator. *)
Consumed == result.kind # "Open" /\ UNCHANGED vars

Next ==
  \/ \E event \in UNION Families : Push(event)
  \/ FinishUnfinished \/ FinishUndecodable \/ FinishCompletion
  \/ Consumed

Spec == Init /\ [][Next]_vars

-----------------------------------------------------------------------------
(***************************************************************************)
(* Properties.                                                             *)
(***************************************************************************)
(* Types; and the calls have the entries that finish looks up.              *)
TypeOK ==
  /\ events \in Seq(Event)
  /\ blocks \in Seq(Block)
  /\ DOMAIN arguments \subseteq Ids
  /\ \A id \in DOMAIN arguments : arguments[id] \in Seq(Nat)
  /\ \A i \in DOMAIN blocks : blocks[i].kind = "tool" => blocks[i].id \in DOMAIN arguments
  /\ usage \in [input : Option(Counts), output : Option(Counts)]
  /\ finished \in Option({"MaxTokens", "ToolUse"})
  /\ result.kind \in {"Open", "Transport", "Decode", "Completion"}
  /\ result.kind = "Completion" => result.content \in Seq(Content)

InStream(S) == Ascending(S, Len(events))

ShowsContent(p) == events[p].kind \in {"text", "reasoning", "redacted", "start"}

KindOf(p) == IF events[p].kind = "start" THEN "tool" ELSE events[p].kind

(* The blocks are the stream's content, in its order and nothing lost: each *)
(* block has events of its kind only, and neighbours that belong together   *)
(* are in one block, whatever came between them.                            *)
BlocksFollowStream ==
  /\ FlattenSeq([i \in DOMAIN blocks |-> blocks[i].parts])
       = InStream({p \in DOMAIN events : ShowsContent(p)})
  /\ \A i \in DOMAIN blocks :
       /\ \A k \in DOMAIN blocks[i].parts : KindOf(blocks[i].parts[k]) = blocks[i].kind
       /\ blocks[i].kind \in {"redacted", "tool"} => Len(blocks[i].parts) = 1
       /\ i > 1 /\ blocks[i].kind \in {"text", "reasoning"} => blocks[i - 1].kind # blocks[i].kind

(* The content event that was latest when p arrived; 0 if there was none. *)
LatestContent(p) ==
  LET before == {q \in 1..(p - 1) : ShowsContent(q)}
  IN  IF before = {} THEN 0 ELSE Max(before)

(* The reasoning delta that was latest when p arrived; 0 if there was none. *)
LatestReasoning(p) ==
  LET before == {q \in 1..(p - 1) : events[q].kind = "reasoning"}
  IN  IF before = {} THEN 0 ELSE Max(before)

Signatures == {p \in DOMAIN events : events[p].kind = "signature"}

(* A signature is put together, in the order of the stream, from fragments  *)
(* that followed the latest reasoning, which is in its block, and from all  *)
(* that came while that block was open.  The documentation of               *)
(* ReasoningSignatureDelta, the code and its tests agree on this, and not   *)
(* on a fragment that comes when another block has followed: it is appended *)
(* according to the documentation (completion.rs:25), dropped by the code   *)
(* and according to the tests (tests/accumulator.rs:77), and left open here.*)
SignaturesAttached ==
  \A i \in DOMAIN blocks :
    blocks[i].kind = "reasoning" =>
      LET signed == ToSet(blocks[i].signature)
          parts  == ToSet(blocks[i].parts)
      IN  /\ blocks[i].signature = InStream(signed)
          /\ {p \in Signatures : LatestContent(p) \in parts} \subseteq signed
          /\ signed \subseteq {p \in Signatures : LatestReasoning(p) \in parts}

(* However the fragments of several calls are interleaved, those of one id  *)
(* are joined in the order they arrived.                                    *)
ArgumentsReassembled ==
  \A id \in Ids :
    Entry(arguments, id) =
      InStream({p \in DOMAIN events : events[p].kind = "fragment" /\ events[p].id = id})

Reported(field) == {p \in DOMAIN events : events[p].kind = "usage" /\ events[p][field] # None}

(* A usage count is the one reported last, and unknown only if none was.    *)
UsageKnown ==
  \A field \in {"input", "output"} :
    usage[field] = IF Reported(field) = {} THEN None ELSE events[Max(Reported(field))][field]

(* A completion never hands out a tool use whose arguments were cut off or  *)
(* mixed with another's, keeps everything else in order, and leaves a tool  *)
(* use out only if the model was cut off.                                   *)
CompletionHonest ==
  result.kind = "Completion" =>
    LET content == result.content
        calls == {k \in DOMAIN content : content[k].block.kind = "tool"}
        kept == [k \in DOMAIN content |-> content[k].block]
    IN  /\ \A k \in calls :
             /\ Parses(content[k].input)
             /\ \A i \in DOMAIN content[k].input :
                  events[content[k].input[i]].id = content[k].block.id
        /\ \A k, l \in calls : k # l => ToSet(content[k].input) \cap ToSet(content[l].input) = {}
        /\ \E S \in SUBSET DOMAIN blocks :
             /\ kept = At(blocks, Ascending(S, Len(blocks)))
             /\ \A i \in DOMAIN blocks \ S : blocks[i].kind = "tool" /\ result.stop = "MaxTokens"
=============================================================================
