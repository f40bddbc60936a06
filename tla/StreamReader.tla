---------------------------- MODULE StreamReader ----------------------------
(***************************************************************************)
(* How both providers of grizzly-agent-providers turn an HTTP response     *)
(* into completion events: the line buffer (transport/line_buffer.rs), the *)
(* chunked readers (openai/stream.rs, anthropic/stream.rs) and the         *)
(* translators of the two wire dialects (openai/wire.rs,                   *)
(* anthropic/wire.rs).                                                     *)
(*                                                                         *)
(* The body is a sequence of lines.  A line travels as four bytes: three   *)
(* parts of its text and the newline, so a chunk may be cut before the     *)
(* data: prefix is whole, inside the JSON, or between text and newline.    *)
(* What an event carries is the number of the line it came from.           *)
(***************************************************************************)
EXTENDS Naturals, SequencesExt

CONSTANTS
  Bodies,    (* the bodies a server sends: [dialect, lines]                *)
  Statuses   (* the failure statuses a server answers with                 *)

VARIABLES
  body,      (* the body of this response                                  *)
  response,  (* "asked", "open" or "gone"                                  *)
  at,        (* how many of its bytes the transport has handed over        *)
  reader,    (* ChunkedReader: held, ids, model, finish, pending, done     *)
  items,     (* what the consumer has been handed                          *)
  over,      (* the stream returned None, or the request was refused       *)
  dropped    (* the transport failed after `at` bytes                      *)

vars == <<body, response, at, reader, items, over, dropped>>

(***************************************************************************)
(* What a line decodes to; "" stands for an absent string, reasoning for   *)
(* the spellings of it that are present.  The code tells an absent id or   *)
(* finish reason from an empty one, which no line here has.                *)
(***************************************************************************)
Spellings == {"reasoning_content", "reasoning", "thinking"}

CallDelta    == [index : Nat, id : STRING, arguments : BOOLEAN]
StreamChoice == [index : Nat, reasoning : SUBSET Spellings, text : BOOLEAN,
                 calls : Seq(CallDelta), finish : STRING]

OpenAiLine ==
  [kind : {"other", "undecodable", "done"}]
    \cup [kind : {"error"}, type : STRING]
    \cup [kind : {"chunk"}, model : BOOLEAN, usage : BOOLEAN, choices : Seq(StreamChoice)]

DeltaKinds == {"text", "reasoning", "signature", "arguments", "other"}

AnthropicLine ==
  [kind : {"other", "undecodable", "message_stop", "ping", "redacted_thinking"}]
    \cup [kind : {"error"}, type : STRING]
    \cup [kind : {"message_start"}, model : BOOLEAN, usage : BOOLEAN]
    \cup [kind : {"tool_use"}, index : Nat, id : STRING]
    \cup [kind : {"delta"}, delta : DeltaKinds, index : Nat]
    \cup [kind : {"message_delta"}, stop : STRING]

ASSUME StreamAssumption ==
  /\ \A b \in Bodies :
       \/ b.dialect = "openai" /\ b.lines \in Seq(OpenAiLine)
       \/ b.dialect = "anthropic" /\ b.lines \in Seq(AnthropicLine)
  /\ Statuses \subseteq Nat

-----------------------------------------------------------------------------
Event(kind, id, from)   == [kind |-> kind, id |-> id, from |-> from]
Failure(class, status)  == Event("failure", class, status)
Reading                 == body.lines

-----------------------------------------------------------------------------
(* LineBuffer *)

Newline     == 4
Parts(i)    == [p \in 1..3 |-> <<i, p>>]
BytesOf(i)  == Append(Parts(i), <<i, Newline>>)
Wire        == FlattenSeq([i \in DOMAIN Reading |-> BytesOf(i)])

TakeByte(taken, b) ==
  IF b[2] = Newline
  THEN [lines |-> Append(taken.lines, taken.held), held |-> <<>>]
  ELSE [taken EXCEPT !.held = Append(@, b)]

TakeBytes(taken, bytes) ==
  LET after[k \in 0..Len(bytes)] == IF k = 0 THEN taken ELSE TakeByte(after[k - 1], bytes[k])
  IN  after[Len(bytes)]

(* Bug: a line cut by a chunk boundary loses its beginning. *)
PushMutant(held, bytes) == TakeBytes([lines |-> <<>>, held |-> <<>>], bytes)

(* push: the lines that bytes completes, and what is held back. *)
Push(held, bytes) == TakeBytes([lines |-> <<>>, held |-> held], bytes)

(* What the text of a line decodes to: no data: prefix or no payload, JSON *)
(* cut short, or the line itself.                                          *)
Skipped == [kind |-> "other"]
Garbled == [kind |-> "undecodable"]
Decode(text) ==
  IF Len(text) < 2 \/ text[1][2] # 1 THEN Skipped
  ELSE LET line == Reading[text[1][1]]
       IN  IF line.kind = "other" THEN Skipped
           ELSE IF text = Parts(text[1][1]) THEN line ELSE Garbled

-----------------------------------------------------------------------------
(* The OpenAI-compatible translator. *)
(* The first spelling that is present, of some. *)
ReasoningText(spelled) ==
  IF "reasoning_content" \in spelled THEN "reasoning_content"
  ELSE IF "reasoning" \in spelled THEN "reasoning" ELSE "thinking"

OpenAiStop(raw) ==
  CASE raw = "stop"       -> "EndOfTurn"
    [] raw = "tool_calls" -> "ToolUse"
    [] raw = "length"     -> "MaxTokens"
    [] OTHER              -> "Other"

(* HashMap::insert *)
Insert(ids, index, id) ==
  [x \in DOMAIN ids \cup {index} |-> IF x = index THEN id ELSE ids[x]]

Queue(r, events) == [r EXCEPT !.pending = @ \o events]

(* Bug: a later delta of a call is filed under the id it carries itself. *)
AbsorbCallMutant(r, i, delta) ==
  LET isNew == delta.index \notin DOMAIN r.ids
      id    == IF delta.id # "" THEN delta.id ELSE "tool_call_" \o ToString(delta.index)
  IN  Queue([r EXCEPT !.ids = Insert(@, delta.index, id)],
            (IF isNew THEN <<Event("start", id, i)>> ELSE <<>>)
              \o (IF delta.arguments THEN <<Event("arguments", id, i)>> ELSE <<>>))

AbsorbCall(r, i, delta) ==
  LET isNew == delta.index \notin DOMAIN r.ids
      given == IF delta.id # "" THEN delta.id ELSE "tool_call_" \o ToString(delta.index)
      id    == IF isNew THEN given ELSE r.ids[delta.index]
  IN  Queue([r EXCEPT !.ids = Insert(@, delta.index, id)],
            (IF isNew THEN <<Event("start", id, i)>> ELSE <<>>)
              \o (IF delta.arguments THEN <<Event("arguments", id, i)>> ELSE <<>>))

AbsorbCalls(r, i, deltas) ==
  LET after[k \in 0..Len(deltas)] == IF k = 0 THEN r ELSE AbsorbCall(after[k - 1], i, deltas[k])
  IN  after[Len(deltas)]

AbsorbChoice(r, i, choice) ==
  LET thought  == IF choice.reasoning = {} THEN <<>>
                  ELSE <<Event("reasoning", ReasoningText(choice.reasoning), i)>>
      said     == IF choice.text THEN <<Event("text", "", i)>> ELSE <<>>
      called   == AbsorbCalls(Queue(r, thought \o said), i, choice.calls)
  IN  IF choice.finish = "" THEN called
      ELSE [called EXCEPT !.finish = OpenAiStop(choice.finish)]

(* Only the choice of index 0 is asked for. *)
AbsorbChoices(r, i, choices) ==
  LET after[k \in 0..Len(choices)] ==
        IF k = 0 THEN r
        ELSE IF choices[k].index = 0 THEN AbsorbChoice(after[k - 1], i, choices[k]) ELSE after[k - 1]
  IN  after[Len(choices)]

AbsorbChunk(r, i, chunk) ==
  AbsorbChoices(Queue([r EXCEPT !.model = IF chunk.model THEN i ELSE @],
                      IF chunk.usage THEN <<Event("usage", "", i)>> ELSE <<>>),
                i, chunk.choices)

-----------------------------------------------------------------------------
(* The Anthropic translator: one event per line, by its type. *)

AnthropicStop(raw) ==
  CASE raw = "end_turn"   -> "EndOfTurn"
    [] raw = "tool_use"   -> "ToolUse"
    [] raw = "max_tokens" -> "MaxTokens"
    [] OTHER              -> "Other"

AbsorbDelta(r, i, line) ==
  IF line.delta = "arguments"
  THEN IF line.index \in DOMAIN r.ids
       THEN Queue(r, <<Event("arguments", r.ids[line.index], i)>>) ELSE r
  ELSE IF line.delta = "other" THEN r ELSE Queue(r, <<Event(line.delta, "", i)>>)

AbsorbEvent(r, i, line) ==
  CASE line.kind = "message_start" ->
         Queue([r EXCEPT !.model = IF line.model THEN i ELSE 0],
               IF line.usage THEN <<Event("usage", "", i)>> ELSE <<>>)
    [] line.kind = "tool_use" ->
         Queue([r EXCEPT !.ids = Insert(@, line.index, line.id)], <<Event("start", line.id, i)>>)
    [] line.kind = "redacted_thinking" -> Queue(r, <<Event("redacted", "", i)>>)
    [] line.kind = "delta" -> AbsorbDelta(r, i, line)
    [] line.kind = "message_delta" ->
         Queue([r EXCEPT !.finish = AnthropicStop(line.stop)], <<Event("usage", "", i)>>)
    [] OTHER -> r     (* ping, block stop, message_stop, unknown kinds *)

(* mid_stream_error_failure: OpenAI stacks have one status for it. *)
ErrorStatus(dialect, line) ==
  CASE dialect = "openai"                      -> 400
    [] line.type = "invalid_request_error"     -> 400
    [] line.type = "authentication_error"      -> 401
    [] line.type = "billing_error"             -> 402
    [] line.type = "permission_error"          -> 403
    [] line.type = "not_found_error"           -> 404
    [] line.type = "conflict_error"            -> 409
    [] line.type = "request_too_large_error"   -> 413
    [] line.type = "rate_limit_error"          -> 429
    [] line.type = "timeout_error"             -> 504
    [] line.type = "overloaded_error"          -> 529
    [] OTHER                                   -> 500

-----------------------------------------------------------------------------
(* ChunkedReader *)

NewReader == [held |-> <<>>, ids |-> <<>>, model |-> 0, finish |-> "", pending |-> <<>>, done |-> FALSE]

Fail(r, failure) == [r EXCEPT !.pending = Append(@, failure), !.done = TRUE]

(* Bug: the finished event does not end the reader. *)
FinishMutant(r) ==
  IF r.finish = "" THEN Fail(r, Failure("transport", 0))
  ELSE [r EXCEPT !.pending = Append(@, Event("finished", r.finish, r.model))]

(* finish: the finished event that was held back, or a retryable failure. *)
Finish(r) ==
  IF r.finish = "" THEN Fail(r, Failure("transport", 0))
  ELSE [r EXCEPT !.pending = Append(@, Event("finished", r.finish, r.model)), !.done = TRUE]

(* One payload other than [DONE]. *)
AbsorbPayload(r, i, line) ==
  CASE line.kind = "other"        -> r
    [] line.kind = "undecodable"  -> Fail(r, Failure("decode", 0))
    [] line.kind = "error"        -> Fail(r, Failure("status", ErrorStatus(body.dialect, line)))
    [] line.kind = "message_stop" -> Finish(r)
    [] line.kind = "chunk"        -> AbsorbChunk(r, i, line)
    [] OTHER                      -> AbsorbEvent(r, i, line)

(* Bug: a closed connection drops the line it did not terminate. *)
EndMutant(r) == Finish([r EXCEPT !.held = <<>>])

(* end: the flushed tail is absorbed first, and may itself be the end. *)
End(r) ==
  LET flushed == [r EXCEPT !.held = <<>>]
      line    == Decode(r.held)
      last    == IF line.kind \in {"other", "done"} THEN flushed
                 ELSE AbsorbPayload(flushed, r.held[1][1], line)
  IN  IF r.done \/ last.done THEN last ELSE Finish(last)

(* One line: nothing after the one that ends the reader. *)
AbsorbLine(r, text) ==
  LET line == Decode(text)
  IN  IF r.done \/ line.kind = "other" THEN r
      ELSE IF line.kind = "done" THEN End(r)
      ELSE AbsorbPayload(r, text[1][1], line)

AbsorbLines(r, lines) ==
  LET after[k \in 0..Len(lines)] == IF k = 0 THEN r ELSE AbsorbLine(after[k - 1], lines[k])
  IN  after[Len(lines)]

AbsorbBytes(r, bytes) ==
  LET pushed == Push(r.held, bytes)
  IN  IF r.done THEN r ELSE AbsorbLines([r EXCEPT !.held = pushed.held], pushed.lines)

FailTransport(r) ==
  [r EXCEPT !.pending = <<Failure("transport", 0)>> \o @, !.done = TRUE]

IsDone(r) == r.done /\ r.pending = <<>>

-----------------------------------------------------------------------------
Init ==
  /\ body \in Bodies
  /\ response = "asked" /\ at = 0 /\ reader = NewReader
  /\ items = <<>> /\ over = FALSE /\ dropped = FALSE

(* Provider::complete: the request cannot be sent or is refused, with or   *)
(* without a Retry-After it can read, or its body is streamed.             *)
Refused(failure) ==
  /\ response = "asked" /\ response' = "gone"
  /\ items' = <<failure>> /\ over' = TRUE
  /\ UNCHANGED <<body, at, reader, dropped>>

SendFails == Refused(Failure("transport", 0))

StatusFailure ==
  \E status \in Statuses, header \in {"absent", "seconds", "date"} :
    Refused(Failure(IF header = "seconds" THEN "status, retry after" ELSE "status", status))

Opened ==
  /\ response = "asked" /\ response' = "open"
  /\ UNCHANGED <<body, at, reader, items, over, dropped>>

(* poll_next: what is queued goes first, then the end, then one read.  The *)
(* response is gone only after end() or a transport failure, and both end  *)
(* the reader (see TypeOK), so poll_next never calls end() a second time.  *)
HandOver ==
  /\ reader.pending # <<>> /\ ~over
  /\ items' = Append(items, Head(reader.pending))
  /\ reader' = [reader EXCEPT !.pending = Tail(@)]
  /\ UNCHANGED <<body, response, at, over, dropped>>

StreamOver ==
  /\ IsDone(reader) /\ ~over
  /\ over' = TRUE
  /\ UNCHANGED <<body, response, at, reader, items, dropped>>

(* Bug: the transport is polled while items are still queued. *)
ReadsMutant == response = "open" /\ ~IsDone(reader) /\ ~over

Reads == response = "open" /\ reader.pending = <<>> /\ ~IsDone(reader)

ReadChunk ==
  /\ Reads
  /\ \E n \in 1..(Len(Wire) - at) :
       /\ at' = at + n
       /\ reader' = AbsorbBytes(reader, SubSeq(Wire, at + 1, at + n))
  /\ UNCHANGED <<body, response, items, over, dropped>>

(* The server may close the connection anywhere, even inside a line. *)
Closed ==
  /\ Reads
  /\ response' = "gone"
  /\ reader' = End(reader)
  /\ UNCHANGED <<body, at, items, over, dropped>>

(* A read error, or no byte for the idle timeout. *)
Dropped ==
  /\ Reads
  /\ response' = "gone" /\ dropped' = TRUE
  /\ reader' = FailTransport(reader)
  /\ UNCHANGED <<body, at, items, over>>

Done == over /\ UNCHANGED vars

Next ==
  \/ SendFails \/ StatusFailure \/ Opened
  \/ HandOver \/ StreamOver \/ ReadChunk \/ Closed \/ Dropped
  \/ Done

(* The consumer polls on, and a read that brings nothing times out. *)
Spec == Init /\ [][Next]_vars /\ WF_vars(Next)

-----------------------------------------------------------------------------
(***************************************************************************)
(* What the bytes received mean, said without a reader: the lines that     *)
(* arrived, up to the first that ends the stream, each with the events it  *)
(* stands for, then the final item.  A tool use is known by the first      *)
(* delta of its index (OpenAI) or by the latest block start before the     *)
(* fragment (Anthropic).                                                   *)
(***************************************************************************)
Latest(S) == IF S = {} THEN 0 ELSE CHOOSE k \in S : \A j \in S : j <= k

Asked(line)   == {c \in DOMAIN line.choices : line.choices[c].index = 0}
Reasons(line) == {c \in Asked(line) : line.choices[c].finish # ""}

(* The deltas of tool uses: <<line, choice, place>>. *)
Chunks(lines)        == {k \in DOMAIN lines : lines[k].kind = "chunk"}
DeltasIn(lines, k)   == UNION {{<<k, c, j>> : j \in DOMAIN lines[k].choices[c].calls} : c \in Asked(lines[k])}
Deltas(lines)        == UNION {DeltasIn(lines, k) : k \in Chunks(lines)}
DeltaAt(lines, p)    == lines[p[1]].choices[p[2]].calls[p[3]]
DeltasOf(lines, index) == {p \in Deltas(lines) : DeltaAt(lines, p).index = index}

Sooner(p, q) == p[1] < q[1] \/ (p[1] = q[1] /\ (p[2] < q[2] \/ (p[2] = q[2] /\ p[3] < q[3])))

FirstOf(lines, index) ==
  CHOOSE p \in DeltasOf(lines, index) : \A q \in DeltasOf(lines, index) : p = q \/ Sooner(p, q)

IdOf(lines, index) ==
  LET given == DeltaAt(lines, FirstOf(lines, index)).id
  IN  IF given # "" THEN given ELSE "tool_call_" \o ToString(index)

Single(present, kind, id, k) == IF present THEN <<Event(kind, id, k)>> ELSE <<>>

CallEvents(lines, p) ==
  LET delta == DeltaAt(lines, p)
      id    == IdOf(lines, delta.index)
  IN  Single(p = FirstOf(lines, delta.index), "start", id, p[1]) \o Single(delta.arguments, "arguments", id, p[1])

ChoiceEvents(lines, k, c) ==
  LET choice == lines[k].choices[c]
  IN  Single(choice.reasoning # {}, "reasoning", ReasoningText(choice.reasoning), k)
        \o Single(choice.text, "text", "", k)
        \o FlattenSeq([j \in DOMAIN choice.calls |-> CallEvents(lines, <<k, c, j>>)])

ChunkEvents(lines, k) ==
  Single(lines[k].usage, "usage", "", k)
    \o FlattenSeq([c \in DOMAIN lines[k].choices |->
                     IF c \in Asked(lines[k]) THEN ChoiceEvents(lines, k, c) ELSE <<>>])

Starts(lines, index, m) == {k \in 1..m : lines[k].kind = "tool_use" /\ lines[k].index = index}

FragmentEvents(lines, k) ==
  LET opener == Latest(Starts(lines, lines[k].index, k - 1))
  IN  IF opener = 0 THEN <<>> ELSE <<Event("arguments", lines[opener].id, k)>>

EventsOf(lines, k) ==
  LET line == lines[k]
  IN  CASE line.kind = "chunk" -> ChunkEvents(lines, k)
        [] line.kind = "message_start" -> Single(line.usage, "usage", "", k)
        [] line.kind = "message_delta" -> <<Event("usage", "", k)>>
        [] line.kind = "tool_use" -> <<Event("start", line.id, k)>>
        [] line.kind = "redacted_thinking" -> <<Event("redacted", "", k)>>
        [] line.kind = "delta" /\ line.delta = "arguments" -> FragmentEvents(lines, k)
        [] line.kind = "delta" /\ line.delta \in {"text", "reasoning", "signature"} -> <<Event(line.delta, "", k)>>
        [] OTHER -> <<>>

Said(lines, m) == FlattenSeq([k \in 1..m |-> EventsOf(lines, k)])

(* How a stream ends of which the first m lines counted. *)
Finishers(lines, m) ==
  {k \in 1..m : lines[k].kind = "message_delta" \/ (lines[k].kind = "chunk" /\ Reasons(lines[k]) # {})}

StopOf(line) ==
  IF line.kind = "chunk" THEN OpenAiStop(line.choices[Latest(Reasons(line))].finish) ELSE AnthropicStop(line.stop)

Namers(lines, m) ==
  {k \in 1..m : lines[k].kind = "message_start" \/ (lines[k].kind = "chunk" /\ lines[k].model)}

ModelOf(lines, m) ==
  LET namer == Latest(Namers(lines, m)) IN IF namer # 0 /\ lines[namer].model THEN namer ELSE 0

Conclusion(lines, m) ==
  IF Finishers(lines, m) = {} THEN Failure("transport", 0)
  ELSE Event("finished", StopOf(lines[Latest(Finishers(lines, m))]), ModelOf(lines, m))

(* The lines that arrived: whole, or ended by a close. *)
Whole   == at \div Newline
Arrived == IF response = "gone" /\ ~dropped /\ at % Newline > 1 THEN Whole + 1 ELSE Whole

Meaning(k) == IF k > Whole /\ at % Newline < 3 /\ Reading[k].kind # "other" THEN Garbled ELSE Reading[k]

Enders  == {k \in 1..Arrived : Meaning(k).kind \in {"done", "message_stop", "error", "undecodable"}}
Ender   == CHOOSE k \in Enders : \A j \in Enders : k <= j
Content == IF Enders = {} THEN Arrived ELSE Ender - 1

(* What the line that ends the stream stands for. *)
EndOf(dialect, line, lines, m) ==
  CASE line.kind = "error"       -> Failure("status", ErrorStatus(dialect, line))
    [] line.kind = "undecodable" -> Failure("decode", 0)
    [] OTHER                     -> Conclusion(lines, m)

Final ==
  CASE Enders # {}                        -> <<EndOf(body.dialect, Meaning(Ender), Reading, Content)>>
    [] Enders = {} /\ dropped             -> <<Failure("transport", 0)>>
    [] Enders = {} /\ ~dropped /\ response = "gone" -> <<Conclusion(Reading, Content)>>
    [] OTHER                              -> <<>>

(* The server sends nothing after [DONE].  If it does, the reader drops    *)
(* the whole lines but absorbs a partial one, so that its answer depends   *)
(* on where the chunk was cut.                                             *)
DoneIsLast == \A k \in DOMAIN Reading : Reading[k].kind = "done" => k = Len(Reading)

(***************************************************************************)
(* Properties                                                              *)
(***************************************************************************)
(* The types; a response that is gone has ended the reader, so poll_next's *)
(* branch for a missing response is never taken on a live reader.          *)
TypeOK ==
  /\ response \in {"asked", "open", "gone"} /\ at \in 0..Len(Wire)
  /\ reader.done \in BOOLEAN /\ over \in BOOLEAN /\ dropped \in BOOLEAN
  /\ dropped => response = "gone"
  /\ response = "gone" /\ ~over => reader.done

(* Wherever the transport cuts its chunks, and whether the body is ended   *)
(* by its own last line, by a close or by an error, what was handed over   *)
(* and what is queued are what the bytes received mean: no line is lost,   *)
(* doubled or torn by a chunk boundary, each fragment of arguments goes to *)
(* the call of its index, and nothing after the end of the stream counts.  *)
ChunkingIrrelevant ==
  (response # "asked" /\ ~(response = "gone" /\ over /\ ~reader.done) /\ DoneIsLast) =>
    items \o reader.pending = Said(Reading, Content) \o Final

(* What the consumer is handed is what a provider promises: events, each   *)
(* fragment after the start of its tool use, then one final item, then the *)
(* end, so that a transport failure never overtakes a queued event.        *)
Promise == INSTANCE EventStream
KeepsStreamPromise == Promise!Spec

(* What the documentation of the Anthropic reader's end says: a stream that *)
(* ended without ever seeing message_stop fails (retryably).               *)
FailsWithoutStop ==
  body.dialect = "anthropic" /\ over /\ reader.done
    /\ (\A k \in 1..Arrived : Meaning(k).kind # "message_stop") =>
  items[Len(items)].kind = "failure"

(* Every response comes to its end, even when the connection falls silent  *)
(* (the idle timeout drops it) or fails while items are queued.            *)
StreamEnds == <>over
=============================================================================
