# Verification of grizzly-agent

TLA+ models of the grizzly-agent workspace, TLC runs over small instances of them, and
TLAPS proofs of what holds for all instances. File names below are relative to
`src/crates/`; `core` stands for `grizzly-agent-core/src`.

How to run: `tlc -config X.cfg M` for a run (`PROJECT.json` names the module of every
configuration), `tlapm M.tla` for the modules with theorems, whose names end in `Proofs`.

## The system

A library for building agents on language models. A caller builds an `Agent` from a
`Model` (a provider with retries and a deadline), a `ToolSet` and system prompt sections,
and calls `Agent::run` with a conversation, a cancellation token and an observer. The loop
calls the model, folds the streamed events into a completion, dispatches the tools the
completion asks for and goes on until it has a reason to stop.

| Component | State | Operations | Talks to | What is hard | Correct when |
|---|---|---|---|---|---|
| Turn loop (`core/agent/run.rs`, `trace.rs`, `observer.rs`, `core/tools/context.rs`, `set.rs`) | per run: appended messages, round records, stall streak, stop-request slot, token | `run`, `run_round`, `run_tool_round`, `dispatch_one`, `push_round`, `stopped_or_stalled`, `request_stop` | model call, tool handlers, observer, the caller's token | cancellation and stop requests at any await point; several reasons to end due at once; truncated and failed model calls | every tool use answered; records, transcript and observer agree; limits hold; the first stop request decides |
| Messages and request rules (`core/message.rs`, `request.rs`) | none | `validate_messages`, `validate_conversation` | called by loop and model | ids that repeat; resumed conversations | what the loop produces passes the rules again |
| Model call (`core/model.rs`, `retry.rs`, `error.rs`) | attempt, accumulator, deadline | `complete`, `stream`, `run_with_retry`, `decide` | provider stream, timers, observer | failures after events were delivered, silent providers, backoff arithmetic | no retry takes events back; a completion is one attempt; the deadline ends everything |
| Accumulator (`core/accumulator.rs`, `completion.rs`) | blocks, argument fragments by id, usage, finish | `push`, `finish` | fed by model call and loop | interleaved fragments, repeated ids, cut-off calls | blocks follow the stream; no call with foreign or partial arguments |
| Skill activation (`grizzly-agent-skills/src/activation.rs`) | active list behind a mutex, files on disk | `activate`, `deactivate`, `render` | tools of any run sharing it, prompt section | file read outside the lock; several runs on one state | active once, in order, with a fresh body |
| Skill index and format (`index.rs`, `format.rs`) | index, immutable after the scan | `scan`, parsing | disk | files change during and after the scan | earlier directory wins; a bad skill is reported |
| Stream readers (`grizzly-agent-providers/src/transport/line_buffer.rs`, `{openai,anthropic}/{stream,wire}.rs`) | bytes of a partial line, queue, `done`, translator's open blocks | `absorb`, `end`, `fail_transport`, `pop` | HTTP body, model call | chunk boundaries anywhere, `[DONE]` inside a chunk, errors mid-stream | the events do not depend on the chunking; exactly one final item |
| Provider requests (`provider.rs`, `http.rs`, `build_request` in both `wire.rs`) | none | `complete`, `build_request` | HTTP endpoint | one message becomes several on one wire, blocks on the other | calls and results stay paired; the system prompt stands first or apart |
| Eval runners (`grizzly-agent-eval/src/{agent_eval,response_eval}/runner.rs`, `aggregate.rs`, `verdict.rs`) | work list, results | `run`, `run_one`, `aggregate` | agent or model, the case's own code | repeats finish in any order under one bound | every repeat is counted once, in its case and category; a suite is met only if it was measured; it returns |
| Reports, case directories (`report.rs`, `dir.rs`, `check.rs`) | none | formatting, file output | disk | - | - |
| Prompt frontmatter, verification, code generation (`grizzly-agent-prompts`) | none (build time) | parse, validate, emit, verify | source tree | names that run together, schemas shared between files, sources that cannot be read | the generated module's names and types resolve; the drift of every source that can be read is reported, and no other |
| Prompt sections, tool handlers (`core/agent/section.rs`, `core/tools/handler.rs`) | none | `render`, argument parsing | turn loop | - | - |

`PROJECT.json` lists every component with its status and every hazard at its line.

## Modules

| Module | What it is |
|---|---|
| `Conversation` | messages, completions, the request rules (`validate_messages`, `validate_conversation`), and what providers require beyond them (`AllAnswered`, `ResultsFollow`) |
| `TurnLoop` | one `Agent::run`, extends `Conversation` |
| `RunPromise` | the abstract specification of `Agent::run`: refuse, or grow the transcript by whole answered rounds and give one verdict |
| `ModelCall` | one `Model::complete` or `Model::stream` with its consumer, the retry policy and the deadline |
| `ModelPromise` | the abstract specification of a model call: one stream heard, then its completion or a failure |
| `Accumulator` | `CompletionAccumulator` |
| `SkillIndex` | `SkillIndex::scan` and the rules of a `SKILL.md`, while the files are edited |
| `SkillActivation` | `SkillState` shared by several runs, extends `SkillIndex` |
| `EventStream` | the abstract specification of what a provider hands the model call: a refusal, or events and one final item |
| `StreamReader` | line buffer, stream reader and translator of both providers; implements `EventStream` |
| `WireRequest` | the loop's requests in both wire formats, extends `TurnLoop` |
| `EvalRunner` | both eval runners with their cases, verdicts and aggregates |
| `PromptTree` | prompt files: loading, validation, the generated module, the verification of annotations |
| `Selection` | the places a loop over a list takes, for the models that are proved about |
| `MC*` | the finite instances: constants and inputs |
| `TurnLoopProofs`, `ModelCallProofs`, `AccumulatorProofs`, `SkillActivationProofs`, `StreamReaderProofs`, `EvalRunnerProofs`, `PromptTreeProofs` | theorems about the module they are named after; those about `WireRequest` are in `TurnLoopProofs`, whose invariant they need |
| `SelectionProofs` | what `Ascending` and `FlattenSeq` compute, and induction |

How the modules stand for the interactions: `TurnLoop` treats a model call as one step, which
`ModelCall` opens up and `ModelPromise` states as a contract; `ModelCall` treats the provider
as an actor that sends events and then a finished event or a failure, which is what
`EventStream` says and `StreamReader` implements; `WireRequest` is evaluated on every request
of `TurnLoop`; `SkillActivation` starts from whatever index a scan of `SkillIndex` has left.

A definition whose name ends in `Mutant` is a plausible bug, written before the definition
it would replace; no specification uses it. It shows that the property it is listed with
can fail.

### TurnLoop

`pc` is the await point at which the loop is suspended, one action per stretch of code
between two of them:

| `pc` | suspended at | left by |
|---|---|---|
| `start` | entry of `run` | `RejectConversation`, `AcceptConversation` |
| `head` | head of the `for` loop | `StopCancelled`, `BeginRound`, `ExhaustRounds` |
| `model` | `stream_round` | `ModelFails`, `ReplyTruncated`, `ReplyFinal`, `ReplyWithTools` |
| `tools` | head of the loop in `run_tool_round` | `SkipTool`, `BeginDispatch`, `FinishTools` |
| `dispatch` | a handler | `RequestStop` (stays), `FinishDispatch` |
| `called` | `on_tool_call` | `EndDispatch` |
| `closing` | `on_round` in `push_round` | `EndTerminal`, `EndStopRequested`, `EndStalled`, `NextRound` |
| `done` | returned | |

`Cancel` sets the token between any two steps; the code reads it only at the head of a
round and before every tool. The model call is one step, because the run's own state does
not change during it; `ModelCall` opens it up. A handler is an actor that may record stop
requests and then succeeds or fails; an unknown name always fails. `appended`, `rounds`,
`stall`, `stopSlot` are the fields of `RunState`, `StallTracker` and `ToolContext`;
`uses`, `results`, `calls`, `skipping` are locals of `run_tool_round`; `closing` holds the
parameters of `push_round` and the outcome. `seenRounds` and `seenCalls` are what the
observer was told; `stopLog` and `cancelledAt` are history variables that no guard reads
(but the bound `MaxStopCalls`).

A message keeps whether it has text and reasoning, its tool uses and its tool results;
text content and latencies are abstracted away, usage is left to `Accumulator`.

### ModelCall

`wire` holds the provider's next answer once it is there, so that the order of "answer
arrives" and "deadline passes" is free. The provider opens or refuses, sends events, a
failure, or the end, or stays silent; after a finished event or a failure it sends nothing
but the end, which is how both event streams in the providers crate behave. `mode` chooses
between `complete` (everything is retried) and `stream` as `Agent::stream_round` consumes
it (nothing is retried after the first event; `held` is that event until it is consumed).
Time is what is left on the deadline and on the sleep; `Tick` lets both pass. tokio polls
the inner future before the timer, so `Expire` needs a call that is stuck. Jitter is any
integer from zero to the computed delay. `RejectRequest` is the upfront validation, and
whether a finished stream decodes is a free choice; `Conversation` and `Accumulator` model
what decides them.

`ModelPromise` is what remains for the caller: `Hear`, `Complete` and `Fail`. In the mapping
the caller has heard `told`, and the completion is `folded` once the call is completed; an
attempt that fails and is retried is a stutter, because nothing of it was told.

### Accumulator

An event is known by its place in the stream, and a block, a signature or an argument text
is the sequence of the places of its fragments. A JSON text parses if its last fragment,
and no other, closes it. `Push` is `push`; the three `Finish...` actions are `finish`.

Documentation and code disagree about late signature fragments. `ReasoningSignatureDelta` says
(`completion.rs:25`) that a fragment is "appended to the signature of the reasoning block most
recently opened"; `push_reasoning_signature` (`accumulator.rs:92`) appends it only while that
block is the last one, and drops it once a text, redacted or tool-use block has followed. The
tests side with the code (`tests/accumulator.rs:77`). The model does what the code does, and
`SignedWhileOpen`, which is proved, says it in full; `SignaturesAttached`, the property of the
run, says what all three agree on, and holds under either rule.

### SkillIndex and SkillActivation

The scan lists one root (`ListRoot`, `ListFails`) and loads one subdirectory (`LoadNext`)
per step, with edits of the files in between (`Edit`). A file is missing, unreadable, or a
skill with a header, which says of each field whether it is well formed or how it is not;
`Rules` is `parse_skill` as the sequence of its checks, of which the first that is broken is
the diagnostic. `seen` records what loading a directory came to.

An activation is three steps: the lookup in the index (`BeginActivate`), the file read
(`ReadFile` or `ReadFails`), and the installation under the lock (`Install`). A run is the
turn loop as this component sees it: one tool at a time. `activate` splits the file but
does not validate it again, so a file that has become an invalid skill since the scan is
still activated. A body is the directory and the number of the edit that wrote it.

### StreamReader

The body is a sequence of lines of one dialect. A line is four bytes, three parts of its
text and the newline, so that a chunk can end before the `data:` prefix is complete, within
the JSON, before the newline, or after it. `Decode` says what the text between two cuts is;
what an event carries is the number of the line it came from. `ReadChunk` takes any number
of bytes, `Closed` and `Dropped` may come after any. `reader` is `ChunkedReader` with the
translator in it. The readers of the two providers differ in how they end (`[DONE]` inside
`absorb_lines` calls `end`; `message_stop` calls `finish`) and in their translators
(`AbsorbChunk`, `AbsorbEvent`); the rest of their code is the same text.

An absent id, finish or stop reason is the string `""`; one that is present but empty, which
the code takes as a value, is not among the lines.

`ChunkingIrrelevant` compares what the reader has handed over and queued with a definition
that has neither reader nor queue (`Content`, `Said`, `Final`): the meaning of the lines that
arrived. It is a function of the lines alone: a delta of a tool use is the triple of its
line, choice and place, every choice of index 0 counts, with any number of deltas, and a call
is known by the first delta of its index, wherever that stands. The property supposes that
the server sends nothing after `[DONE]` (`DoneIsLast`): the reader drops whole lines after
it, but flushes and absorbs a partial one, so that there its answer does depend on the cut.

The loops over the bytes of a chunk and over the lines in it are recursive functions, and
`Insert` adds an entry to the translator's map of open blocks, so that they can be proved
about; `StreamAssumption` says which lines a server of a dialect sends (`OpenAiLine`,
`AnthropicLine`).

### WireRequest

Operators, no actions: what both `build_request` make of `Transcript`, the messages of the
next request. Reasoning is on neither wire message here: OpenAI drops it, Anthropic is sent
it if it is redacted, or has text and a signature, and nothing is paired with it. One user message may become several messages on the OpenAI wire. `WirePaired`
is evaluated in every state of `TurnLoop` in which the model is called.

Its condition on the caller's conversation is more than `validate_messages` asks for. Two
conversations pass the validation and are not paired on the wire: one that leaves a use
without a result (`AllAnswered` rules it out), and one whose later user message answers, a
second time, a use that already has its result (`ResultsFollow`). The proof needs both; what
the loop itself appends satisfies both, whatever the conversation.

### EvalRunner

One action per await point of a repeat: `SetUp`, `AgentRun` and `Check` (agent harness) or
`Call` (response harness); `Start` is `buffer_unordered` taking the next future; `Return`
deals the records to their cases and folds them. A case's own score is a pass or a miss;
the other categories are the runner's. `came` records in which order and how the repeats
ended. An agent's run is one step here; that it ends is what `TurnLoop` is about. A rate is
a fraction, numerator and denominator, and rates are compared by multiplying across, where
the code divides floats: no rounding is modelled. The fairness is a formula of its own,
`FairSpec`, and the theorems are about `Spec`.

### PromptTree

A fault is the name of the `PromptError`; `f ?? g` is the `?` operator: `g` is looked at only
if `f` found nothing. `ParseFile`, `ValidateFile` and the operators below them are the
functions of `parse.rs` and `validate.rs`, in their order; `CheckFiles` is the checks across
files; `EmitFile` gives the items of the generated module with the types they refer to and
the schema a tool advertises. `PromptAssumption` says that the files and sources are lists,
that a walk comes to each source path once, and that a YAML mapping has each of its keys
once. A name is a sequence of runs of letters or digits, so that an id and a suffix run
together to equal names exactly if the strings do. `ReadSource` reads one source file, or
fails to; a directory that cannot be read stands for its files. `VerifyFindsDrift` says what
`verify_annotations` reports given the sources it could read: a use of a prompt whose file is
missing or could not be read counts as a missing file, beside the report of the read itself.

## Runs

| Run | Asks | Bounds and why they are enough |
|---|---|---|
| `TurnLoop` | safety of the loop, its requests on both wires (`WirePaired`), `KeepsPromise` (refinement of `RunPromise`) and `Terminates` | 3 rounds, so that there is a first, a middle and a last one; threshold 3, reached within a round, across rounds, or broken by other arguments; rounds of 0 to 3 uses, known and unknown tools, repeated ids, two stop requests; new, resumed (with results and text in one message) and invalid conversations; cancellation everywhere. 614 k states |
| `TurnLoopDocStall` | refutes the documented reading of `stall_threshold` | threshold 2 |
| `ModelCall` | `RetriesJustified`, `NothingRetracted`, `CompletionWhole`, `BackoffGrows`, `KeepsCallPromise` (refinement of `ModelPromise`), and that calls return: `DeadlineEnds`, `Returns` | 4 attempts of 3 events, one failure per class of `is_retryable` and `retry_after`, with and without a deadline; a multiplier of 2 bits, so that attempts pass its width (with the 32 bits of the code that takes 33 failures). 389 k states |
| `ModelCallDocRetryAfter` | refutes the documented meaning of `Retry-After` | 2 attempts |
| `SkillActivation` | the scan (`ScanAccounts`), then `ActiveOnce`, `BodyReloaded`, `LoadedUntilUndone`, `OrderKept` | 2 roots with 2 directories each, both with both skills or the first with none; 2 runs (symmetric), 2 skills and an unknown name; 1 edit, anywhere between two steps of the scan or of an activation. 107 k states. With 2 edits it passes as well (2.4 M states, 4 minutes) |
| `SkillActivationDocRun` | refutes what the tool tells the model | 2 runs |
| `Accumulator` | `BlocksFollowStream`, `SignaturesAttached`, `UsageKnown`, `ArgumentsReassembled`, `CompletionHonest` | all streams of up to 6 events, of 7 that show content or usage, or of 8 that make up two calls, so that there are signatures between and after two reasoning blocks. 873 k states |
| `StreamReader` | `ChunkingIrrelevant`, `StreamEnds`, and `KeepsStreamPromise` (refinement of `EventStream`) | all bodies of up to 2 lines, of 11 kinds (OpenAI) or 17 (Anthropic), and of 3 if they bear on tool uses or the end; every cut into chunks; a close or a failure after every byte. Two indexes and three ids are enough for deltas to be mixed up, within a line and across lines and choices. 69 k states |
| `StreamReaderDocStop` | refutes what `end` of the Anthropic reader says | 1 line |
| `EvalRunner` | `ReportAccounts`, `MetMeansMeasured`, `SuiteReturns` | 2 cases of 0 to 2 repeats, so that repeats of different cases overlap and a case can have none; concurrency 0 to 3; a canary with a threshold of its own, a case that asks for a rate of zero; silent providers with and without timeouts. 245 k states |
| `PromptTree` | `ModuleResolves`, `VerifyFindsDrift` | one file for each way to break each rule, alone and after a valid file; all sequences of up to 3 of 12 valid files, whose ids are prefixes of each other, whose parameters complete them to a third id, and which share schemas; sources that can and cannot be read. 32 k states |
| `PromptTreeDocKeyword` | refutes what `is_valid_enum_value` says of keywords | 2 trees |

Every named bound is a constant: `RoundLimit` and `StallThreshold` are the program's own,
`MaxStopCalls`, `MaxEvents`,
`MaxEdits`, `MaxLines` and `MaxWork` bound what the environment does.

What the five refuting runs show is described under `findings` in `PROJECT.json`:
a stall that happens inside a round goes unnoticed; full jitter undercuts `Retry-After`;
skills are per agent and not per run; an Anthropic stream that is closed without
`message_stop` may succeed; an enum value `self` becomes a keyword.

Seen while modelling, and not a run of their own: a signature fragment after another block is
dropped, against the documentation of its event (see Accumulator above); enum values `a_b`
and `a__b` are distinct and become one variant twice; `Report` is said to list the repeats "in run order"
(`report.rs:55`) and lists them in order of completion; the head of `ident.rs` says that ids
have no runs of capitals, which `is_valid_id` does not ask for; an id is looked for as a
substring of a source file, so that a longer name hides that it is gone.

### Fairness

`TurnLoop` assumes weak fairness of the loop (an executor polls a ready future), of the
model call (it answers or fails) and of the handlers (they return). Nobody has to cancel
or ask for a stop. `ModelCall` assumes that the call is polled and time passes, and
nothing of the provider; `Returns` supposes besides that the provider does not stay silent
for ever. Without that the code indeed hangs if no timeout is configured, until the HTTP
client's idle timeout turns the silence into a transport failure, which is a provider
answering with a failure here.

`StreamReader` assumes that some step is taken while one is possible: the consumer polls
on, and a read that brings nothing ends in the idle timeout, which both clients have by
default (`DEFAULT_IDLE_TIMEOUT`). The body is finite. `EvalRunner` assumes that the one task
of the runner is polled, and with it each future in flight that can go on; a silent
provider answers nothing, and only a timeout ends such a call.

## Proofs

A theorem holds for every value of the constants, hence for conversations, streams, bodies,
suites and numbers of runs of every size. The assumptions (`TurnLoopAssumption`,
`ModelCallAssumption`, `AccumulatorAssumption`, `SkillIndexAssumption`,
`SkillActivationAssumption`, `StreamAssumption`, `EvalAssumption`, `PromptAssumption`) type
the constants and no more: limits are naturals (a call has at least one attempt, as
`RetryPolicy` has), conversations are sequences of messages, a directory lists no name twice,
nor does a mapping a key, a body is made of lines of its dialect. No proof uses fairness:
where fairness is a formula of its own (`FairSpec`) the theorems are about `Spec`, and where
`Spec` states it they do not need it.

| Theorems | State | By the inductive invariant |
|---|---|---|
| `TurnLoop`: `TypeCorrect` | `TypeOK` | itself. It holds more than types: while a tool runs there is a use it runs for, so that the code's loop index is in range |
| `RoundLimitCorrect` | `RoundLimitHolds` | `RoundsCounted`: the property does not mention the loop counter; inside a round `Len(rounds) = round - 1` and `round <= RoundLimit`, at the head it may be one past the limit |
| `CancellationCorrect` | `CancellationBoundsWork` | `WorkBounded`: the bound on the work after a cancellation depends on where the loop is; at the head, before a model call and between tools no round may have been added since, and so on for each await point |
| `TranscriptAnsweredCorrect`, `TranscriptResumableCorrect`, `RecordsCorrect` | `TranscriptAnswered`, `TranscriptResumable`, `RecordsMatchTranscript` | `TranscriptInv`: the trace alternates between assistant and answers; in the middle of a round its last message is unanswered and the answers so far are in `results` and `calls`, of which those with a call come first. Validity is kept by `ConversationGrows`, and `SystemPromptFits` puts a system message before it |
| `PromiseKept` | `KeepsPromise` (refines `RunPromise`) | the two above. One step of the mapping per action: a round becomes visible when `push_round` keeps its answers, all other steps stutter |
| `ObserverCorrect` | `ObserverSeesRun` | `ObserverInv`: a call is told of before it is recorded, so that the one `on_tool_call` is awaited for is in `record` |
| `StalledExactlyCorrect` | `StalledExactly` | `StallInv`: the tracker's streak is the length of the repetition at the end of `seenCalls`, less the call still awaited, and no longer one exists |
| `StopRequestCorrect` | `StopRequestEndsRun` | `StopInv`: a logged request is in the slot until the round is kept, and is the first one; only a cancellation that left tools out goes before it |
| `WireRequest`: `WirePairedCorrect` | `WirePaired` | `TranscriptInv`. By induction over the messages, the wire so far is paired but for the calls of its last message (`WireGood`) |
| `ModelCall`: `CallTypeCorrect`, `RetriesJustifiedCorrect`, `NothingRetractedCorrect`, `CompletionWholeCorrect`, `BackoffGrowsCorrect` | `TypeOK`, `RetriesJustified`, `NothingRetracted`, `CompletionWhole`, `BackoffGrows` | `CallInv`: failures and waits are counted by the attempt; each event of the attempt is in one place, folded, held back, or on the wire; nothing follows a closing item. That a power of two grows is derived from the cardinality of power sets |
| `CallPromiseKept` | `KeepsCallPromise` (refines `ModelPromise`) | `CallInv`, from which what is folded is always one stream (`FoldsOneStream`). Taking an event is `Hear`, the end of a finished stream `Complete`, a failure that is not retried, a refusal or the deadline `Fail`; everything else stutters |
| `SkillActivation`: `SkillTypeCorrect`, `ActiveOnceCorrect`, `BodyReloadedCorrect`, `LoadedUntilUndoneCorrect`, `OrderKeptCorrect` | `TypeOK`, `ActiveOnce`, `BodyReloaded`, `LoadedUntilUndone`, and the action property `OrderKept` | `ActivationInv`: a body that a run has read, but not installed, is as fresh as its activation and of the root that won; nothing is looked up before the index is complete |
| `ScanAccountsCorrect` | `ScanAccounts` | `ScanInv`: what is queued has not been loaded, and of the valid skills loaded so far the earliest is kept and the others are diagnosed once each |
| `Accumulator`: `AccumulatorTypeCorrect`, `BlocksFollowStreamCorrect`, `SignaturesAttachedCorrect`, `SignedWhileOpenCorrect`, `ArgumentsReassembledCorrect`, `UsageKnownCorrect`, `CompletionHonestCorrect` | all its invariants, and `SignedWhileOpen` | `AccumulatorInv`: no event is in two blocks, and the latest content is in the last one (`PartsApart`); the lemmas say what one more event does to the blocks joined, and to the places of a kind. `SignaturesAttached` is not inductive, because a part of what it bounds is left open; it follows from `SignedWhileOpen` (`RuleAttaches`) |
| `StreamReader`: `StreamTypeCorrect`, `StreamPromiseKept` | `TypeOK`, `KeepsStreamPromise` (refines `EventStream`) | `StreamInv`: nothing is handed over before a response is there (`NothingBefore`); what was handed over, then queued, and then what the translator can still make of the lines is in the order `EventStream` wants (`InOrder`); after the final item the reader is done (`OverIsStill`). It holds through every turn of the loops over bytes and lines |
| `ChunkingIrrelevantCorrect` | `ChunkingIrrelevant` | `ReadInv`: `StreamInv`, and `ReadSoFar`: a reader that goes on has told of the whole lines that arrived (`Told`) and holds the bytes of the next one (`Partial`); a reader that is done has told what all of them mean (`Complete`). See below |
| `EvalRunner`: `ReportAccountsCorrect`, `MetMeansMeasuredCorrect` | `ReportAccounts`, `MetMeansMeasured` | `EvalInv`: what has not started waits and what is in flight fits the buffer (`Flight`); each record belongs to a repeat of its own that has ended (`Collected`). By counting, a suite returns with every repeat ended (`AllEnded`), and the deal gives each case its own (`CaseReported`, `CaseAddsUp`) |
| `PromptTree`: `LoadHolds`, `ModuleResolvesCorrect` | `ModuleResolves` | `LoadInv`: each file loaded so far broke no rule of its own, and once all are loaded the checks across files found nothing. The names of a file's items are the names the check across files compares, so that they stay distinct in the joined module; a tool's parameters have the fields of its schema because the check of parameters compares the two |
| `VerifyFindsDriftCorrect` | `VerifyFindsDrift` | `VerifyInv`: a source that was looked at is read or reported, and nothing else is reported before the comparison |

`ScanAccountsCorrect` has a hypothesis, `DistinctRoots`: `scan` takes the roots as they come
and does not notice one given twice, in which case it reports each of its skills as a
duplicate of itself; `seen` in the model keeps one entry per directory.

`ChunkingIrrelevantCorrect` follows two definitions of what bytes mean through a cut
anywhere. Its lemmas, in order: a map of ids in the translator holds exactly the indexes of
the deltas sooner than the place it has come to (`Known`), or the latest block start of each
index (`OpenedBy`), so that one more delta, choice or line adds the events it stands for
(`ToldNext`); the wire is four bytes a line, so that the bytes at hand are always a number of
whole lines and a part of the next one; taking one more byte leads from one such state to the
next, whatever chunk it came in; and the text that a close leaves behind decodes to the
line, to a garbled one, or to nothing. `DoneIsLast` is needed where `[DONE]` flushes what is
held: with a line after it, that may be a part of a line which other cuts would drop.

Induction over data: the library's induction theorems have an operator for a parameter, which
the provers cannot instantiate. `InductionUpTo` (`SelectionProofs`) does it for a set of
numbers instead, from `WFMin`: of the numbers for which a claim fails there would be a least
one. From it come the facts about `Ascending`, about `FlattenSeq` (`FlattenAppend`,
`FlattenExtend`), about the loops of the stream reader, about the conversations on the wire
and about the items of a generated module. `SelectSeq` and the `@@` of `TLC` cannot be
expanded in a proof, which is why the models that are proved about select by `Ascending` and
`At`, and extend a map with a definition of their own.

In `StreamReaderProofs` the literals of the model are listed (`Literals`): the provers do not
know that one written in a module is in `STRING`.

Every invariant, action property and refinement of the passing runs has a theorem; `TypeOK`
of `ModelCall` is proved and not listed with its run, whose `RetriesJustified` bounds the
attempts as well. Only model-checked:

* Liveness: `Terminates`, `Returns`, `DeadlineEnds`, `StreamEnds`, `SuiteReturns`. The prover
  has neither fairness nor ENABLED.
* What the refuting runs refute.

## Plan

All modules and proofs that were planned are there. What would come next: in `TurnLoop`, the
steps of `ModelPromise` in place of the one step of a model call, so that the observer's
events are part of a run's trace.

## Not modelled

* Building clients and providers (`builder`s, headers, base URLs) and the fields of a
  request that are copied one by one: no control.
* The rendering of reports, `check.rs` and `dir.rs`: formatting, plain data and files.
* Splitting a file at its frontmatter delimiters (`frontmatter.rs`) and a body at its
  placeholders (`tokenize_body`): scans of characters; the models keep their verdict.
* The text of generated items and of errors (`emit/rust.rs`, `error.rs`): formatting.
* The rendering of prompt sections, the deserialisation of tool arguments, the facade and
  the test support: pure functions, re-exports and test doubles.
* Latencies, means of token counts, model names and raw stop reasons decide nothing and
  are left out everywhere.
