-------------------------- MODULE AccumulatorProofs --------------------------
(***************************************************************************)
(* Proofs about Accumulator.                                               *)
(***************************************************************************)
EXTENDS Accumulator, SelectionProofs

LEMMA EventFacts ==
  ASSUME NEW event \in Event
  PROVE  /\ event.kind \in {"text", "reasoning", "signature", "redacted", "start", "fragment",
                            "usage", "finished"}
         /\ event.kind \in {"start", "fragment"} => event.id \in Ids
         /\ event.kind = "usage" => event.input \in Option(Counts) /\ event.output \in Option(Counts)
         /\ event.kind = "finished" => event.stop \in {"MaxTokens", "ToolUse"}
BY DEF Event

LEMMA BlockFacts ==
  ASSUME NEW b \in Block
  PROVE  /\ b.kind \in {"text", "redacted", "reasoning", "tool"} /\ b.parts \in Seq(Nat)
         /\ b.kind = "reasoning" => b.signature \in Seq(Nat)
         /\ b.kind = "tool" => b.id \in Ids
BY DEF Block

(* A block with one more part, or one more fragment of a signature. *)
LEMMA LongerBlock ==
  ASSUME NEW b \in Block, NEW p \in Nat
  PROVE  /\ b.kind \in {"text", "reasoning"} =>
              LET c == [b EXCEPT !.parts = Append(@, p)]
              IN  /\ c \in Block /\ c.kind = b.kind /\ c.parts = Append(b.parts, p)
                  /\ b.kind = "reasoning" => c.signature = b.signature
         /\ b.kind = "reasoning" =>
              LET c == [b EXCEPT !.signature = Append(@, p)]
              IN  /\ c \in Block /\ c.kind = b.kind /\ c.parts = b.parts
                  /\ c.signature = Append(b.signature, p)
<1>1. b.parts \in Seq(Nat) /\ Append(b.parts, p) \in Seq(Nat)
  BY BlockFacts
<1>2. CASE b.kind = "text"
  <2> DEFINE c == [b EXCEPT !.parts = Append(@, p)]
  <2>1. b \in [kind : {"text", "redacted"}, parts : Seq(Nat)]
    BY <1>2 DEF Block
  <2>2. c \in [kind : {"text", "redacted"}, parts : Seq(Nat)]
    BY <1>1, <2>1
  <2>3. c.kind = b.kind /\ c.parts = Append(b.parts, p)
    BY <2>1
  <2> QED
    BY <1>2, <2>2, <2>3 DEF Block
<1>3. CASE b.kind = "reasoning"
  <2> DEFINE c == [b EXCEPT !.parts = Append(@, p)]
             d == [b EXCEPT !.signature = Append(@, p)]
             R == [kind : {"reasoning"}, parts : Seq(Nat), signature : Seq(Nat)]
  <2>1. b \in R
    BY <1>3 DEF Block
  <2>2. Append(b.signature, p) \in Seq(Nat)
    BY <2>1
  <2>3. c \in R /\ d \in R
    BY <1>1, <2>1, <2>2
  <2>4. /\ c.kind = b.kind /\ c.parts = Append(b.parts, p) /\ c.signature = b.signature
        /\ d.kind = b.kind /\ d.parts = b.parts /\ d.signature = Append(b.signature, p)
    BY <2>1
  <2>5. c \in Block /\ d \in Block
    BY <2>3 DEF Block
  <2> QED
    BY <1>3, <2>4, <2>5
<1> QED
  BY <1>2, <1>3

(* One event more. *)
LEMMA Grown ==
  ASSUME events \in Seq(Event), NEW event, Push(event)
  PROVE  /\ event \in Event /\ Len(events) \in Nat /\ DOMAIN events = 1..Len(events)
         /\ Here = Len(events) + 1 /\ Len(events') = Here /\ DOMAIN events' = 1..Here
         /\ events' \in Seq(Event) /\ events'[Here] = event
         /\ \A p \in 1..Len(events) : events'[p] = events[p]
<1>1. event \in Event
  <2>1. PICK family \in Families : ToSet(events) \cup {event} \subseteq family
    BY DEF Push
  <2>2. family \subseteq Event
    BY AccumulatorAssumption
  <2> QED
    BY <2>1, <2>2
<1>2. events' = Append(events, event)
  BY DEF Push
<1>3. Len(events) \in Nat /\ DOMAIN events = 1..Len(events)
  OBVIOUS
<1>4. /\ events' \in Seq(Event) /\ Len(events') = Len(events) + 1
      /\ events'[Len(events) + 1] = event
      /\ \A p \in 1..Len(events) : events'[p] = events[p]
  BY <1>1, <1>2, AppendProperties
<1>5. DOMAIN events' = 1..Len(events')
  BY <1>4
<1> QED
  BY <1>1, <1>3, <1>4, <1>5 DEF Here

LEMMA MaxFacts ==
  ASSUME NEW n \in Nat, NEW T, T \subseteq 0..n, T # {}
  PROVE  /\ Max(T) \in T /\ \A y \in T : y <= Max(T)
         /\ \A x \in T : (\A y \in T : y <= x) => Max(T) = x
<1>1. PICK x \in T : \A y \in T : y <= x
  BY GreatestNat
<1>2. \A y \in T : x >= y
  BY <1>1
<1>3. Max(T) \in T /\ \A y \in T : Max(T) >= y
  BY <1>2 DEF Max
<1>4. ASSUME NEW z \in T, \A y \in T : y <= z PROVE Max(T) = z
  <2>1. z <= Max(T) /\ Max(T) <= z /\ z \in 0..n /\ Max(T) \in 0..n
    BY <1>3, <1>4
  <2> QED
    BY <2>1
<1>5. \A y \in T : y <= Max(T)
  BY <1>3
<1> QED
  BY <1>3, <1>4, <1>5

(* What was latest content stays so, and after a new event it is that event *)
(* if it shows content.                                                     *)
LEMMA LatestFacts ==
  ASSUME events \in Seq(Event), NEW event, Push(event), NEW n, n = Len(events)
  PROVE  /\ \A p \in 1..n : ShowsContent(p)' = ShowsContent(p) /\ KindOf(p)' = KindOf(p)
         /\ \A p \in 1..(n + 1) : LatestContent(p)' = LatestContent(p)
         /\ \A p \in 1..(n + 1) : LatestContent(p) \in 0..(p - 1)
         /\ LatestContent(n + 2)' = IF ShowsContent(n + 1)' THEN n + 1 ELSE LatestContent(n + 1)
<1> DEFINE Before(p) == {q \in 1..(p - 1) : ShowsContent(q)}
<1>1. n \in Nat /\ Here = n + 1 /\ \A p \in 1..n : events'[p] = events[p]
  BY Grown
<1>2. \A p \in 1..n : ShowsContent(p)' = ShowsContent(p) /\ KindOf(p)' = KindOf(p)
  BY <1>1 DEF ShowsContent, KindOf
<1>3. \A p : LatestContent(p) = IF Before(p) = {} THEN 0 ELSE Max(Before(p))
  BY DEF LatestContent
<1>4. \A p : LatestContent(p)' = IF Before(p)' = {} THEN 0 ELSE Max(Before(p)')
  BY DEF LatestContent, Max
<1>5. \A p \in 1..(n + 1) : Before(p)' = Before(p)
  <2>1. \A p \in 1..(n + 1) : \A q \in 1..(p - 1) : q \in 1..n
    BY <1>1
  <2> QED
    BY <1>2, <2>1
<1>6. \A p \in 1..(n + 1) : Before(p) # {} => Max(Before(p)) \in Before(p)
  <2>1. \A p \in 1..(n + 1) : Before(p) \subseteq 0..(n + 1)
    BY <1>1
  <2>2. n + 1 \in Nat
    BY <1>1
  <2> HIDE DEF Before
  <2> QED
    BY <2>1, <2>2, MaxFacts
<1>7. Before(n + 2)' = IF ShowsContent(n + 1)' THEN Before(n + 1) \cup {n + 1} ELSE Before(n + 1)
  <2>1. \A q \in 1..((n + 2) - 1) : q \in 1..((n + 1) - 1) \/ q = n + 1
    BY <1>1
  <2>2. \A q \in 1..((n + 1) - 1) : q \in 1..((n + 2) - 1) /\ q \in 1..n
    BY <1>1
  <2>3. n + 1 \in 1..((n + 2) - 1)
    BY <1>1
  <2> QED
    BY <1>2, <2>1, <2>2, <2>3
<1>8. ShowsContent(n + 1)' => Max(Before(n + 1) \cup {n + 1}) = n + 1
  <2> DEFINE T == Before(n + 1) \cup {n + 1}
  <2>1. T \subseteq 0..(n + 1) /\ n + 1 \in T /\ n + 1 \in Nat /\ \A y \in T : y <= n + 1
    BY <1>1
  <2> HIDE DEF T
  <2>2. Max(T) = n + 1
    BY <2>1, MaxFacts
  <2> QED
    BY <2>2 DEF T
<1>9. \A p \in 1..(n + 1) : LatestContent(p) \in 0..(p - 1)
  <2>1. ASSUME NEW p \in 1..(n + 1) PROVE LatestContent(p) \in 0..(p - 1)
    <3>1. CASE Before(p) = {}
      <4>1. 0 \in 0..(p - 1)
        BY <1>1
      <4> QED
        BY <1>3, <3>1, <4>1
    <3>2. CASE Before(p) # {}
      <4>1. LatestContent(p) \in 1..(p - 1)
        BY <1>3, <1>6, <3>2
      <4> QED
        BY <4>1
    <3> QED
      BY <3>1, <3>2
  <2> QED
    BY <2>1
<1>10. \A p \in 1..(n + 1) : LatestContent(p)' = LatestContent(p)
  <2> HIDE DEF Before
  <2> QED
    BY <1>3, <1>4, <1>5
<1>11. LatestContent(n + 2)' = IF ShowsContent(n + 1)' THEN n + 1 ELSE LatestContent(n + 1)
  <2> HIDE DEF Before
  <2> QED
    BY <1>3, <1>4, <1>7, <1>8
<1> QED
  BY <1>2, <1>9, <1>10, <1>11

-----------------------------------------------------------------------------
(***************************************************************************)
(* What a push does to the blocks: nothing, or it signs the last one,      *)
(* extends it, or adds one.  n and l are the events and blocks before.     *)
(***************************************************************************)
AllButLast(l) ==
  /\ l \in 1..l /\ Len(blocks') = l
  /\ \A i \in 1..l : i # l => blocks'[i] = blocks[i]
  /\ blocks'[l].kind = blocks[l].kind
  /\ blocks[l].kind = "tool" => blocks'[l].id = blocks[l].id

LeavesBlocks(event, n, l) ==
  /\ event.kind \in {"signature", "fragment", "usage", "finished"}
  /\ event.kind = "signature" => ~OpenBlock("reasoning")
  /\ blocks' = blocks

SignsBlock(event, n, l) ==
  /\ event.kind = "signature" /\ OpenBlock("reasoning") /\ AllButLast(l)
  /\ blocks'[l].parts = blocks[l].parts
  /\ blocks'[l].signature = Append(blocks[l].signature, n + 1)

ExtendsBlock(event, n, l) ==
  /\ event.kind \in {"text", "reasoning"} /\ OpenBlock(event.kind) /\ AllButLast(l)
  /\ blocks'[l].parts = Append(blocks[l].parts, n + 1)
  /\ event.kind = "reasoning" => blocks'[l].signature = blocks[l].signature

AddsBlock(event, n, l) ==
  /\ event.kind \in {"text", "reasoning", "redacted", "start"}
  /\ event.kind \in {"text", "reasoning"} => ~OpenBlock(event.kind)
  /\ Len(blocks') = l + 1
  /\ \A i \in 1..l : blocks'[i] = blocks[i]
  /\ blocks'[l + 1].parts = <<n + 1>>
  /\ blocks'[l + 1].kind = (IF event.kind = "start" THEN "tool" ELSE event.kind)
  /\ event.kind = "reasoning" => blocks'[l + 1].signature = <<>>
  /\ event.kind = "start" => blocks'[l + 1].id = event.id

LEMMA PushOnBlocks ==
  ASSUME TypeOK, NEW event, Push(event), NEW n, n = Len(events), NEW l, l = Len(blocks)
  PROVE  /\ blocks' \in Seq(Block) /\ DOMAIN blocks = 1..l /\ l \in Nat /\ n \in Nat
         /\ \/ LeavesBlocks(event, n, l) \/ SignsBlock(event, n, l)
            \/ ExtendsBlock(event, n, l) \/ AddsBlock(event, n, l)
<1>1. /\ event \in Event /\ n \in Nat /\ Here = n + 1 /\ n + 1 \in Nat
      /\ blocks' = Pushed(event, n + 1)
  <2>1. events \in Seq(Event)
    BY DEF TypeOK
  <2>2. Here = n + 1
    BY DEF Here
  <2> QED
    BY <2>1, <2>2, Grown DEF Push
<1>2. blocks \in Seq(Block) /\ l \in Nat /\ DOMAIN blocks = 1..l
  BY DEF TypeOK
<1>3. ASSUME NEW kind, OpenBlock(kind)
      PROVE  /\ l \in 1..l /\ blocks[l].kind = kind /\ blocks[l] \in Block /\ l = Len(blocks)
             /\ \A b \in Block : LET bs == [blocks EXCEPT ![l] = b]
                                 IN  /\ bs \in Seq(Block) /\ Len(bs) = l /\ bs[l] = b
                                     /\ \A i \in 1..l : i # l => bs[i] = blocks[i]
  <2>1. blocks # <<>> /\ blocks[l].kind = kind
    BY <1>3 DEF OpenBlock, Last
  <2>2. l \in 1..l
    BY <1>2, <2>1
  <2>3. \A b \in Block : LET bs == [blocks EXCEPT ![l] = b]
                         IN  /\ bs \in Seq(Block) /\ Len(bs) = l
                             /\ \A i \in 1..l : bs[i] = IF i = l THEN b ELSE blocks[i]
    BY <1>2, <2>2, ExceptSeq
  <2>4. blocks[l] \in Block
    BY <1>2, <2>2
  <2> QED
    BY <2>1, <2>2, <2>3, <2>4
<1>4. ASSUME NEW b \in Block
      PROVE  LET bs == Append(blocks, b)
             IN  /\ bs \in Seq(Block) /\ Len(bs) = l + 1 /\ bs[l + 1] = b
                 /\ \A i \in 1..l : bs[i] = blocks[i]
  BY <1>2, AppendProperties
<1>5. CASE event.kind = "text"
  <2>1. blocks' = PushText(n + 1)
    BY <1>1, <1>5 DEF Pushed
  <2>2. CASE OpenBlock("text")
    <3> DEFINE b == [blocks[l] EXCEPT !.parts = Append(@, n + 1)]
    <3>1. blocks[l] \in Block /\ blocks[l].kind = "text" /\ l \in 1..l
      BY <1>3, <2>2
    <3>2. b \in Block /\ b.kind = "text" /\ b.parts = Append(blocks[l].parts, n + 1)
      BY <1>1, <3>1, LongerBlock
    <3>3. blocks' = [blocks EXCEPT ![l] = b]
      BY <2>1, <2>2 DEF PushText
    <3> HIDE DEF b
    <3>4. /\ blocks' \in Seq(Block) /\ Len(blocks') = l /\ blocks'[l] = b
          /\ \A i \in 1..l : i # l => blocks'[i] = blocks[i]
      BY <1>3, <2>2, <3>2, <3>3
    <3> QED
      BY <1>1, <1>2, <1>5, <2>2, <3>1, <3>2, <3>4 DEF ExtendsBlock, AllButLast
  <2>3. CASE ~OpenBlock("text")
    <3> DEFINE b == [kind |-> "text", parts |-> <<n + 1>>]
    <3>1. b \in Block
      BY <1>1 DEF Block
    <3>2. blocks' = Append(blocks, b) /\ b.kind = "text" /\ b.parts = <<n + 1>>
      BY <2>1, <2>3 DEF PushText
    <3> HIDE DEF b
    <3> QED
      BY <1>1, <1>2, <1>4, <1>5, <2>3, <3>1, <3>2, SMTT(30) DEF AddsBlock
  <2> QED
    BY <2>2, <2>3
<1>6. CASE event.kind = "reasoning"
  <2>1. blocks' = PushReasoning(n + 1)
    BY <1>1, <1>6 DEF Pushed
  <2>2. CASE OpenBlock("reasoning")
    <3> DEFINE b == [blocks[l] EXCEPT !.parts = Append(@, n + 1)]
    <3>1. blocks[l] \in Block /\ blocks[l].kind = "reasoning" /\ l \in 1..l
      BY <1>3, <2>2
    <3>2. /\ b \in Block /\ b.kind = "reasoning" /\ b.parts = Append(blocks[l].parts, n + 1)
          /\ b.signature = blocks[l].signature
      BY <1>1, <3>1, LongerBlock
    <3>3. blocks' = [blocks EXCEPT ![l] = b]
      BY <2>1, <2>2 DEF PushReasoning
    <3> HIDE DEF b
    <3>4. /\ blocks' \in Seq(Block) /\ Len(blocks') = l /\ blocks'[l] = b
          /\ \A i \in 1..l : i # l => blocks'[i] = blocks[i]
      BY <1>3, <2>2, <3>2, <3>3
    <3> QED
      BY <1>1, <1>2, <1>6, <2>2, <3>1, <3>2, <3>4 DEF ExtendsBlock, AllButLast
  <2>3. CASE ~OpenBlock("reasoning")
    <3> DEFINE b == [kind |-> "reasoning", parts |-> <<n + 1>>, signature |-> <<>>]
    <3>1. b \in Block
      BY <1>1 DEF Block
    <3>2. blocks' = Append(blocks, b) /\ b.kind = "reasoning" /\ b.parts = <<n + 1>> /\ b.signature = <<>>
      BY <2>1, <2>3 DEF PushReasoning
    <3> HIDE DEF b
    <3> QED
      BY <1>1, <1>2, <1>4, <1>6, <2>3, <3>1, <3>2 DEF AddsBlock
  <2> QED
    BY <2>2, <2>3
<1>7. CASE event.kind = "signature"
  <2>1. blocks' = PushSignature(n + 1)
    BY <1>1, <1>7 DEF Pushed
  <2>2. CASE OpenBlock("reasoning")
    <3> DEFINE b == [blocks[l] EXCEPT !.signature = Append(@, n + 1)]
    <3>1. blocks[l] \in Block /\ blocks[l].kind = "reasoning" /\ l \in 1..l
      BY <1>3, <2>2
    <3>2. /\ b \in Block /\ b.kind = "reasoning" /\ b.parts = blocks[l].parts
          /\ b.signature = Append(blocks[l].signature, n + 1)
      BY <1>1, <3>1, LongerBlock
    <3>3. blocks' = [blocks EXCEPT ![l] = b]
      BY <2>1, <2>2 DEF PushSignature
    <3> HIDE DEF b
    <3>4. /\ blocks' \in Seq(Block) /\ Len(blocks') = l /\ blocks'[l] = b
          /\ \A i \in 1..l : i # l => blocks'[i] = blocks[i]
      BY <1>3, <2>2, <3>2, <3>3
    <3> QED
      BY <1>1, <1>2, <1>7, <2>2, <3>1, <3>2, <3>4 DEF SignsBlock, AllButLast
  <2>3. CASE ~OpenBlock("reasoning")
    BY <1>1, <1>2, <1>7, <2>1, <2>3 DEF PushSignature, LeavesBlocks
  <2> QED
    BY <2>2, <2>3
<1>8. CASE event.kind = "redacted"
  <2> DEFINE b == [kind |-> "redacted", parts |-> <<n + 1>>]
  <2>1. b \in Block
    BY <1>1 DEF Block
  <2>2. blocks' = Append(blocks, b) /\ b.kind = "redacted" /\ b.parts = <<n + 1>>
    BY <1>1, <1>8 DEF Pushed
  <2> HIDE DEF b
  <2> QED
    BY <1>1, <1>2, <1>4, <1>8, <2>1, <2>2 DEF AddsBlock
<1>9. CASE event.kind = "start"
  <2> DEFINE b == [kind |-> "tool", parts |-> <<n + 1>>, id |-> event.id]
  <2>1. b \in Block
    BY <1>1, <1>9, EventFacts DEF Block
  <2>2. blocks' = Append(blocks, b) /\ b.kind = "tool" /\ b.parts = <<n + 1>> /\ b.id = event.id
    BY <1>1, <1>9 DEF Pushed
  <2> HIDE DEF b
  <2> QED
    BY <1>1, <1>2, <1>4, <1>9, <2>1, <2>2, SMTT(30) DEF AddsBlock
<1>10. CASE event.kind \in {"fragment", "usage", "finished"}
  <2>1. blocks' = blocks
    BY <1>1, <1>10 DEF Pushed
  <2> QED
    BY <1>1, <1>2, <1>10, <2>1 DEF LeavesBlocks
<1> QED
  BY <1>1, <1>5, <1>6, <1>7, <1>8, <1>9, <1>10, EventFacts

-----------------------------------------------------------------------------
(***************************************************************************)
(* Types.                                                                  *)
(***************************************************************************)
(* A fragment is joined to those of its id; the entry of an id that a call *)
(* starts with or a fragment brings is there.                              *)
LEMMA PushOnArguments ==
  ASSUME TypeOK, NEW event, Push(event), NEW n, n = Len(events)
  PROVE  /\ DOMAIN arguments' = DOMAIN arguments
                                  \cup (IF event.kind \in {"start", "fragment"} THEN {event.id} ELSE {})
         /\ DOMAIN arguments' \subseteq Ids
         /\ \A id \in Ids : Entry(arguments', id) =
              IF event.kind = "fragment" /\ event.id = id THEN Append(Entry(arguments, id), n + 1)
              ELSE Entry(arguments, id)
         /\ \A id \in DOMAIN arguments' : arguments'[id] \in Seq(Nat)
<1>1. /\ event \in Event /\ n \in Nat /\ arguments' = Argued(event, n + 1)
      /\ n + 1 \in Nat
  <2>1. events \in Seq(Event) /\ Here = n + 1
    BY DEF TypeOK, Here
  <2> QED
    BY <2>1, Grown DEF Push
<1>2. DOMAIN arguments \subseteq Ids /\ \A id \in DOMAIN arguments : arguments[id] \in Seq(Nat)
  BY DEF TypeOK
<1>3. \A id : Entry(arguments, id) \in Seq(Nat)
  BY <1>2 DEF Entry
<1>4. ASSUME event.kind \in {"start", "fragment"}, NEW text \in Seq(Nat),
             arguments' = WithEntry(arguments, event.id, text)
      PROVE  /\ DOMAIN arguments' = DOMAIN arguments \cup {event.id}
             /\ DOMAIN arguments' \subseteq Ids
             /\ \A id \in Ids : Entry(arguments', id) = IF event.id = id THEN text
                                                        ELSE Entry(arguments, id)
             /\ \A id \in DOMAIN arguments' : arguments'[id] \in Seq(Nat)
  <2>1. event.id \in Ids
    BY <1>1, <1>4, EventFacts
  <2> QED
    BY <1>2, <1>4, <2>1 DEF WithEntry, Entry
<1>5. CASE event.kind = "start"
  BY <1>1, <1>3, <1>4, <1>5 DEF Argued
<1>6. CASE event.kind = "fragment"
  <2>1. Append(Entry(arguments, event.id), n + 1) \in Seq(Nat)
    BY <1>1, <1>3
  <2>2. arguments' = WithEntry(arguments, event.id, Append(Entry(arguments, event.id), n + 1))
    BY <1>1, <1>6 DEF Argued
  <2> QED
    BY <1>4, <1>6, <2>1, <2>2
<1>7. CASE event.kind \notin {"start", "fragment"}
  <2>1. arguments' = arguments
    BY <1>1, <1>7 DEF Argued
  <2> QED
    BY <1>2, <1>7, <2>1
<1> QED
  BY <1>5, <1>6, <1>7

LEMMA PushTypes ==
  ASSUME TypeOK, NEW event, Push(event)
  PROVE  TypeOK'
<1>1. PICK n, l : n = Len(events) /\ l = Len(blocks)
  OBVIOUS
<1>2. event \in Event /\ events' \in Seq(Event)
  <2>1. events \in Seq(Event)
    BY DEF TypeOK
  <2> QED
    BY <2>1, Grown
<1>3. /\ blocks' \in Seq(Block) /\ DOMAIN blocks = 1..l /\ l \in Nat
      /\ \/ LeavesBlocks(event, n, l) \/ SignsBlock(event, n, l)
         \/ ExtendsBlock(event, n, l) \/ AddsBlock(event, n, l)
  BY <1>1, PushOnBlocks
<1>4. /\ DOMAIN arguments' = DOMAIN arguments
                               \cup (IF event.kind \in {"start", "fragment"} THEN {event.id} ELSE {})
      /\ DOMAIN arguments' \subseteq Ids
      /\ \A id \in DOMAIN arguments' : arguments'[id] \in Seq(Nat)
  BY <1>1, PushOnArguments
<1>5. ASSUME NEW i \in DOMAIN blocks', blocks'[i].kind = "tool"
      PROVE  blocks'[i].id \in DOMAIN arguments'
  <2>1. \A j \in 1..l : blocks[j].kind = "tool" => blocks[j].id \in DOMAIN arguments'
    BY <1>3, <1>4 DEF TypeOK
  <2>2. DOMAIN blocks' = 1..Len(blocks')
    BY <1>3
  <2>3. CASE LeavesBlocks(event, n, l)
    BY <1>3, <1>5, <2>1, <2>3 DEF LeavesBlocks
  <2>4. CASE SignsBlock(event, n, l) \/ ExtendsBlock(event, n, l)
    BY <1>5, <2>1, <2>2, <2>4 DEF SignsBlock, ExtendsBlock, AllButLast
  <2>5. CASE AddsBlock(event, n, l)
    <3>1. i \in 1..l \/ i = l + 1
      BY <1>3, <2>2, <2>5 DEF AddsBlock
    <3>2. CASE i \in 1..l
      BY <1>5, <2>1, <2>5, <3>2 DEF AddsBlock
    <3>3. CASE i = l + 1
      <4>1. event.kind = "start" /\ blocks'[i].id = event.id
        BY <1>5, <2>5, <3>3 DEF AddsBlock
      <4> QED
        BY <1>4, <4>1
    <3> QED
      BY <3>1, <3>2, <3>3
  <2> QED
    BY <1>3, <2>3, <2>4, <2>5
<1>6. usage' \in [input : Option(Counts), output : Option(Counts)]
  <2>1. usage \in [input : Option(Counts), output : Option(Counts)] /\ usage' = Merged(event)
    BY DEF TypeOK, Push
  <2>2. CASE event.kind = "usage"
    <3>1. event.input \in Option(Counts) /\ event.output \in Option(Counts)
      BY <1>2, <2>2, EventFacts
    <3>2. Or(event.input, usage.input) \in Option(Counts) /\ Or(event.output, usage.output) \in Option(Counts)
      BY <2>1, <3>1 DEF Or
    <3> QED
      BY <2>1, <2>2, <3>2 DEF Merged
  <2>3. CASE event.kind # "usage"
    BY <2>1, <2>3 DEF Merged
  <2> QED
    BY <2>2, <2>3
<1>7. finished' \in Option({"MaxTokens", "ToolUse"})
  <2>1. finished \in Option({"MaxTokens", "ToolUse"})
    BY DEF TypeOK
  <2>2. event.kind = "finished" => <<event.stop>> \in Option({"MaxTokens", "ToolUse"})
    BY <1>2, EventFacts DEF Option
  <2> QED
    BY <2>1, <2>2 DEF Push
<1>8. result' = result /\ result.kind = "Open"
  BY DEF Push
<1> QED
  BY <1>2, <1>3, <1>4, <1>5, <1>6, <1>7, <1>8 DEF TypeOK

(* The blocks that finish keeps, and what it makes of them. *)
LEMMA FinishFacts ==
  ASSUME TypeOK
  PROVE  /\ DOMAIN Kept = 1..Len(Kept) /\ Len(Kept) \in Nat
         /\ \A k \in DOMAIN Kept : Kept[k] \in DOMAIN blocks /\ Kept[k] \notin Unparseable
         /\ \A k, l \in DOMAIN Kept : k # l => Kept[k] # Kept[l]
         /\ \A i \in DOMAIN blocks : Resolved(i) \in Content
<1>1. Len(blocks) \in Nat /\ DOMAIN blocks = 1..Len(blocks)
  BY DEF TypeOK
<1>2. /\ DOMAIN Kept = 1..Len(Kept) /\ Len(Kept) \in Nat
      /\ \A k \in DOMAIN Kept : Kept[k] \in (DOMAIN blocks \ Unparseable) \cap (1..Len(blocks))
      /\ \A k, l \in DOMAIN Kept : k < l => Kept[k] < Kept[l]
  BY <1>1, AscendingFacts DEF Kept
<1>3. ASSUME NEW k \in DOMAIN Kept, NEW l \in DOMAIN Kept, k # l PROVE Kept[k] # Kept[l]
  <2>1. k < l \/ l < k
    BY <1>2, <1>3
  <2>2. Kept[k] \in Nat /\ Kept[l] \in Nat
    BY <1>2
  <2> QED
    BY <1>2, <2>1, <2>2
<1>4. ASSUME NEW i \in DOMAIN blocks PROVE Resolved(i) \in Content
  <2>1. blocks[i] \in Block
    BY <1>4 DEF TypeOK
  <2>2. blocks[i].kind = "tool" => ArgumentsOf(i) \in Seq(Nat)
    BY <1>4 DEF TypeOK, ArgumentsOf
  <2> QED
    BY <2>1, <2>2 DEF Resolved, Content
<1> QED
  BY <1>2, <1>3, <1>4

LEMMA FinishTypes ==
  ASSUME TypeOK, FinishCompletion
  PROVE  TypeOK'
<1>1. /\ result' = [kind |-> "Completion", stop |-> finished[1],
                    content |-> [k \in DOMAIN Kept |-> Resolved(Kept[k])]]
      /\ UNCHANGED <<events, blocks, arguments, usage, finished>>
  BY DEF FinishCompletion
<1>2. result'.kind = "Completion" /\ result'.content = [k \in DOMAIN Kept |-> Resolved(Kept[k])]
  BY <1>1
<1>3. [k \in DOMAIN Kept |-> Resolved(Kept[k])] \in Seq(Content)
  <2>1. \A k \in DOMAIN Kept : Resolved(Kept[k]) \in Content
    BY FinishFacts
  <2>2. DOMAIN Kept = 1..Len(Kept) /\ Len(Kept) \in Nat
    BY FinishFacts
  <2> QED
    BY <2>1, <2>2
<1> QED
  BY <1>1, <1>2, <1>3 DEF TypeOK

LEMMA AccumulatorTypes == TypeOK /\ [Next]_vars => TypeOK'
<1> SUFFICES ASSUME TypeOK, [Next]_vars PROVE TypeOK'
  OBVIOUS
<1>1. CASE FinishUnfinished \/ FinishUndecodable
  <2>1. /\ UNCHANGED <<events, blocks, arguments, usage, finished>>
        /\ result'.kind \in {"Transport", "Decode"}
    BY <1>1 DEF FinishUnfinished, FinishUndecodable
  <2> QED
    BY <2>1 DEF TypeOK
<1>2. CASE UNCHANGED vars
  BY <1>2 DEF vars, TypeOK
<1> QED
  BY <1>1, <1>2, PushTypes, FinishTypes DEF Next, Consumed

-----------------------------------------------------------------------------
(***************************************************************************)
(* Where the content went.                                                 *)
(***************************************************************************)
PartsOf(i) == ToSet(blocks[i].parts)

(* A part is a place of the stream, in one block only; the latest content   *)
(* is a part of the last block.                                             *)
PartsApart ==
  /\ \A i \in DOMAIN blocks : PartsOf(i) \subseteq 1..Len(events)
  /\ \A i, j \in DOMAIN blocks : i # j => PartsOf(i) \cap PartsOf(j) = {}
  /\ blocks # <<>> => LatestContent(Len(events) + 1) \in PartsOf(Len(blocks))

LEMMA ToSetFacts ==
  ASSUME NEW s \in Seq(Nat), NEW x \in Nat
  PROVE  ToSet(Append(s, x)) = ToSet(s) \cup {x} /\ ToSet(<<x>>) = {x}
<1>1. Len(s) \in Nat /\ DOMAIN s = 1..Len(s)
  OBVIOUS
<1>2. /\ DOMAIN Append(s, x) = 1..(Len(s) + 1) /\ Append(s, x)[Len(s) + 1] = x
      /\ \A k \in 1..Len(s) : Append(s, x)[k] = s[k]
  BY <1>1
<1>3. /\ \A k \in 1..(Len(s) + 1) : k \in 1..Len(s) \/ k = Len(s) + 1
      /\ \A k \in 1..Len(s) : k \in 1..(Len(s) + 1)
      /\ Len(s) + 1 \in 1..(Len(s) + 1)
  BY <1>1
<1>4. ToSet(Append(s, x)) = ToSet(s) \cup {x}
  BY <1>1, <1>2, <1>3 DEF ToSet
<1>5. ToSet(<<x>>) = {x}
  BY DEF ToSet
<1> QED
  BY <1>4, <1>5

(* Whether the event shows content, and which kind. *)
LEMMA ShownBy ==
  ASSUME TypeOK, NEW event, Push(event), NEW n, n = Len(events)
  PROVE  /\ ShowsContent(n + 1)' <=> event.kind \in {"text", "reasoning", "redacted", "start"}
         /\ KindOf(n + 1)' = IF event.kind = "start" THEN "tool" ELSE event.kind
         /\ n \in Nat /\ Len(events') = n + 1 /\ DOMAIN events = 1..n /\ DOMAIN events' = 1..(n + 1)
         /\ events'[n + 1] = event /\ \A p \in 1..n : events'[p] = events[p]
<1>1. /\ events'[n + 1] = event /\ n \in Nat /\ Len(events') = n + 1 /\ DOMAIN events = 1..n
      /\ DOMAIN events' = 1..(n + 1) /\ \A p \in 1..n : events'[p] = events[p]
  <2>1. events \in Seq(Event) /\ Here = n + 1
    BY DEF TypeOK, Here
  <2> QED
    BY <2>1, Grown
<1> QED
  BY <1>1 DEF ShowsContent, KindOf

(* The parts of the blocks after a push. *)
LEMMA PartsAfter ==
  ASSUME TypeOK, NEW event, Push(event), NEW n, n = Len(events), NEW l, l = Len(blocks)
  PROVE  /\ DOMAIN blocks' = 1..Len(blocks') /\ Len(blocks') \in {l, l + 1}
         /\ ShowsContent(n + 1)' => Len(blocks') \in 1..Len(blocks')
         /\ ~ShowsContent(n + 1)' => Len(blocks') = l
         /\ \A i \in DOMAIN blocks' :
              PartsOf(i)' = (IF i \in 1..l THEN PartsOf(i) ELSE {})
                              \cup (IF ShowsContent(n + 1)' /\ i = Len(blocks') THEN {n + 1} ELSE {})
<1>1. /\ blocks' \in Seq(Block) /\ DOMAIN blocks = 1..l /\ l \in Nat /\ n \in Nat
      /\ \/ LeavesBlocks(event, n, l) \/ SignsBlock(event, n, l)
         \/ ExtendsBlock(event, n, l) \/ AddsBlock(event, n, l)
  BY PushOnBlocks
<1>2. ShowsContent(n + 1)' <=> event.kind \in {"text", "reasoning", "redacted", "start"}
  BY ShownBy
<1>3. DOMAIN blocks' = 1..Len(blocks')
  BY <1>1
<1>4. CASE LeavesBlocks(event, n, l)
  BY <1>1, <1>2, <1>3, <1>4 DEF LeavesBlocks, PartsOf
<1>5. CASE SignsBlock(event, n, l)
  <2>1. Len(blocks') = l /\ ~ShowsContent(n + 1)'
    BY <1>2, <1>5 DEF SignsBlock, AllButLast
  <2>2. \A i \in 1..l : blocks'[i].parts = blocks[i].parts
    BY <1>5 DEF SignsBlock, AllButLast
  <2> QED
    BY <1>3, <2>1, <2>2 DEF PartsOf
<1>6. CASE ExtendsBlock(event, n, l)
  <2>1. Len(blocks') = l /\ ShowsContent(n + 1)' /\ l \in 1..l
    BY <1>2, <1>6 DEF ExtendsBlock, AllButLast
  <2>2. \A i \in 1..l : i # l => blocks'[i].parts = blocks[i].parts
    BY <1>6 DEF ExtendsBlock, AllButLast
  <2>3. ToSet(blocks'[l].parts) = ToSet(blocks[l].parts) \cup {n + 1}
    <3>1. blocks[l].parts \in Seq(Nat) /\ n + 1 \in Nat
      <4>1. blocks[l] \in Block
        BY <1>1, <2>1 DEF TypeOK
      <4> QED
        BY <1>1, <4>1, BlockFacts
    <3>2. ToSet(Append(blocks[l].parts, n + 1)) = ToSet(blocks[l].parts) \cup {n + 1}
      BY <3>1, ToSetFacts
    <3> QED
      BY <1>6, <3>2 DEF ExtendsBlock
  <2> QED
    BY <1>3, <2>1, <2>2, <2>3 DEF PartsOf
<1>7. CASE AddsBlock(event, n, l)
  <2>1. /\ Len(blocks') = l + 1 /\ ShowsContent(n + 1)' /\ l + 1 \in 1..(l + 1) /\ l + 1 \notin 1..l
        /\ \A i \in 1..(l + 1) : i \in 1..l \/ i = l + 1
        /\ \A i \in 1..l : i # l + 1
    BY <1>1, <1>2, <1>7 DEF AddsBlock
  <2>2. \A i \in 1..l : blocks'[i].parts = blocks[i].parts
    BY <1>7 DEF AddsBlock
  <2>3. ToSet(blocks'[l + 1].parts) = {n + 1}
    <3>1. n + 1 \in Nat /\ <<>> \in Seq(Nat)
      BY <1>1
    <3> QED
      BY <1>7, <3>1, ToSetFacts DEF AddsBlock
  <2> QED
    BY <1>3, <2>1, <2>2, <2>3 DEF PartsOf
<1> QED
  BY <1>1, <1>4, <1>5, <1>6, <1>7

LEMMA PartsStep ==
  ASSUME TypeOK, PartsApart, NEW event, Push(event)
  PROVE  PartsApart'
<1>1. PICK n, l : n = Len(events) /\ l = Len(blocks)
  OBVIOUS
<1>2. /\ n \in Nat /\ Len(events') = n + 1 /\ events \in Seq(Event)
      /\ DOMAIN blocks = 1..l /\ l \in Nat
  <2>1. n \in Nat /\ Len(events') = n + 1
    BY <1>1, ShownBy
  <2> QED
    BY <1>1, <2>1 DEF TypeOK
<1>3. /\ DOMAIN blocks' = 1..Len(blocks') /\ Len(blocks') \in {l, l + 1}
      /\ ShowsContent(n + 1)' => Len(blocks') \in 1..Len(blocks')
      /\ ~ShowsContent(n + 1)' => Len(blocks') = l
      /\ \A i \in DOMAIN blocks' :
           PartsOf(i)' = (IF i \in 1..l THEN PartsOf(i) ELSE {})
                           \cup (IF ShowsContent(n + 1)' /\ i = Len(blocks') THEN {n + 1} ELSE {})
  BY <1>1, PartsAfter
<1>4. /\ \A i \in 1..l : PartsOf(i) \subseteq 1..n
      /\ \A i, j \in 1..l : i # j => PartsOf(i) \cap PartsOf(j) = {}
      /\ l # 0 => LatestContent(n + 1) \in PartsOf(l)
  BY <1>1, <1>2 DEF PartsApart, TypeOK
<1>5. 1..n \subseteq 1..(n + 1) /\ n + 1 \in 1..(n + 1) /\ n + 1 \notin 1..n
  BY <1>2
<1>6. \A i \in DOMAIN blocks' : PartsOf(i)' \subseteq 1..(n + 1)
  BY <1>3, <1>4, <1>5
<1>7. \A i, j \in DOMAIN blocks' : i # j => PartsOf(i)' \cap PartsOf(j)' = {}
  BY <1>3, <1>4, <1>5
<1>8. LatestContent(n + 2)' = IF ShowsContent(n + 1)' THEN n + 1 ELSE LatestContent(n + 1)
  BY <1>1, <1>2, LatestFacts
<1>9. blocks' # <<>> => (LatestContent(Len(events) + 1) \in PartsOf(Len(blocks)))'
  <2>1. PICK m : m = Len(blocks')
    OBVIOUS
  <2>2. ASSUME blocks' # <<>> PROVE m \in DOMAIN blocks'
    <3>1. m \in Nat \ {0}
      <4>1. blocks' \in Seq(Block)
        BY <1>1, PushOnBlocks
      <4> QED
        BY <2>1, <2>2, <4>1
    <3> QED
      BY <1>3, <2>1, <3>1
  <2>3. ASSUME blocks' # <<>> PROVE LatestContent(n + 2)' \in PartsOf(m)'
    <3>1. m \in DOMAIN blocks'
      BY <2>2, <2>3
    <3>2. CASE ShowsContent(n + 1)'
      <4>1. PartsOf(m)' = (IF m \in 1..l THEN PartsOf(m) ELSE {}) \cup {n + 1}
        BY <1>3, <2>1, <3>1, <3>2
      <4> QED
        BY <1>8, <3>2, <4>1
    <3>3. CASE ~ShowsContent(n + 1)'
      <4>1. m = l /\ l \in 1..l /\ l # 0
        BY <1>2, <1>3, <2>1, <3>1, <3>3
      <4>2. PartsOf(m)' = PartsOf(l)
        BY <1>3, <3>1, <3>3, <4>1
      <4> QED
        BY <1>4, <1>8, <3>3, <4>1, <4>2
    <3> QED
      BY <3>2, <3>3
  <2>4. (LatestContent(Len(events) + 1))' = LatestContent(n + 2)'
    <3>1. Len(events') + 1 = n + 2
      BY <1>2
    <3> QED
      BY <3>1 DEF LatestContent
  <2>5. PartsOf(Len(blocks))' = PartsOf(m)'
    BY <2>1 DEF PartsOf
  <2> QED
    BY <2>3, <2>4, <2>5
<1> QED
  BY <1>2, <1>6, <1>7, <1>9 DEF PartsApart

-----------------------------------------------------------------------------
(***************************************************************************)
(* The blocks follow the stream.                                           *)
(***************************************************************************)
Parts == [i \in DOMAIN blocks |-> blocks[i].parts]

Shown == {p \in DOMAIN events : ShowsContent(p)}

BlocksWellFormed ==
  \A i \in DOMAIN blocks :
    /\ \A k \in DOMAIN blocks[i].parts : KindOf(blocks[i].parts[k]) = blocks[i].kind
    /\ blocks[i].kind \in {"redacted", "tool"} => Len(blocks[i].parts) = 1
    /\ i > 1 /\ blocks[i].kind \in {"text", "reasoning"} => blocks[i - 1].kind # blocks[i].kind

LEMMA StreamFollowed ==
  BlocksFollowStream <=> FlattenSeq(Parts) = Ascending(Shown, Len(events)) /\ BlocksWellFormed
BY DEF BlocksFollowStream, BlocksWellFormed, Parts, Shown, InStream

LEMMA StreamFollowedNext ==
  BlocksFollowStream'
    <=> FlattenSeq(Parts') = Ascending(Shown', Len(events')) /\ BlocksWellFormed'
BY DEF BlocksFollowStream, BlocksWellFormed, Parts, Shown, InStream

LEMMA PartsType ==
  ASSUME TypeOK
  PROVE  Parts \in Seq(Seq(Nat)) /\ Len(Parts) = Len(blocks)
<1>1. DOMAIN blocks = 1..Len(blocks) /\ Len(blocks) \in Nat
  BY DEF TypeOK
<1>2. \A i \in 1..Len(blocks) : blocks[i].parts \in Seq(Nat)
  BY <1>1, BlockFacts DEF TypeOK
<1> QED
  BY <1>1, <1>2 DEF Parts

(* What is joined is the places of content so far, and then the new one. *)
LEMMA FlattenedNext ==
  ASSUME TypeOK, NEW event, Push(event), NEW n, n = Len(events)
  PROVE  FlattenSeq(Parts') = IF ShowsContent(n + 1)' THEN Append(FlattenSeq(Parts), n + 1)
                              ELSE FlattenSeq(Parts)
<1>1. PICK l : l = Len(blocks)
  OBVIOUS
<1>2. /\ blocks' \in Seq(Block) /\ DOMAIN blocks = 1..l /\ l \in Nat /\ n \in Nat
      /\ \/ LeavesBlocks(event, n, l) \/ SignsBlock(event, n, l)
         \/ ExtendsBlock(event, n, l) \/ AddsBlock(event, n, l)
  BY <1>1, PushOnBlocks
<1>3. ShowsContent(n + 1)' <=> event.kind \in {"text", "reasoning", "redacted", "start"}
  BY ShownBy
<1>4. /\ Parts \in Seq(Seq(Nat)) /\ Len(Parts) = l /\ DOMAIN Parts = 1..l
      /\ \A i \in 1..l : Parts[i] = blocks[i].parts
  BY <1>1, <1>2, PartsType DEF Parts
<1>5. /\ Parts' = [i \in 1..Len(blocks') |-> Parts'[i]]
      /\ \A i \in 1..Len(blocks') : Parts'[i] = blocks'[i].parts
  BY <1>2 DEF Parts
<1>6. Parts = [i \in 1..l |-> Parts[i]]
  BY <1>4
<1>7. CASE LeavesBlocks(event, n, l)
  BY <1>3, <1>7 DEF LeavesBlocks, Parts
<1>8. CASE SignsBlock(event, n, l)
  <2>1. Len(blocks') = l /\ ~ShowsContent(n + 1)'
    BY <1>3, <1>8 DEF SignsBlock, AllButLast
  <2>2. \A i \in 1..l : blocks'[i].parts = blocks[i].parts
    BY <1>8 DEF SignsBlock, AllButLast
  <2>3. Parts' = Parts
    <3>1. \A i \in 1..l : Parts'[i] = Parts[i]
      BY <1>4, <1>5, <2>1, <2>2
    <3> QED
      BY <1>5, <1>6, <2>1, <3>1
  <2> QED
    BY <2>1, <2>3
<1>9. CASE ExtendsBlock(event, n, l)
  <2>1. Len(blocks') = l /\ ShowsContent(n + 1)' /\ l \in 1..l /\ Parts # <<>> /\ n + 1 \in Nat
    BY <1>2, <1>3, <1>4, <1>9 DEF ExtendsBlock, AllButLast
  <2> DEFINE longer == [Parts EXCEPT ![l] = Append(@, n + 1)]
  <2>2. /\ \A i \in 1..l : i # l => Parts'[i] = Parts[i]
        /\ Parts'[l] = Append(Parts[l], n + 1)
    BY <1>4, <1>5, <1>9, <2>1 DEF ExtendsBlock, AllButLast
  <2>3. longer = [i \in 1..l |-> IF i = l THEN Append(Parts[l], n + 1) ELSE Parts[i]]
    BY <1>4, <1>6, <2>1
  <2>4. Parts' = longer
    <3> HIDE DEF longer
    <3>1. \A i \in 1..l : Parts'[i] = longer[i]
      BY <2>2, <2>3
    <3>2. longer = [i \in 1..l |-> longer[i]]
      BY <2>3
    <3> QED
      BY <1>5, <2>1, <3>1, <3>2
  <2>5. FlattenSeq(longer) = Append(FlattenSeq(Parts), n + 1)
    BY <1>4, <2>1, FlattenExtend
  <2> QED
    BY <2>1, <2>4, <2>5
<1>10. CASE AddsBlock(event, n, l)
  <2> DEFINE longer == Append(Parts, <<n + 1>>)
  <2>1. /\ Len(blocks') = l + 1 /\ ShowsContent(n + 1)' /\ n + 1 \in Nat /\ <<n + 1>> \in Seq(Nat)
        /\ \A i \in 1..(l + 1) : i \in 1..l \/ i = l + 1
        /\ l + 1 \in 1..(l + 1) /\ \A i \in 1..l : i \in 1..(l + 1)
    BY <1>2, <1>3, <1>10 DEF AddsBlock
  <2>2. (\A i \in 1..l : Parts'[i] = Parts[i]) /\ Parts'[l + 1] = <<n + 1>>
    BY <1>4, <1>5, <1>10, <2>1, SMTT(30) DEF AddsBlock
  <2>3. /\ Len(longer) = l + 1 /\ longer \in Seq(Seq(Nat)) /\ longer[l + 1] = <<n + 1>>
        /\ \A i \in 1..l : longer[i] = Parts[i]
    BY <1>4, <2>1, AppendProperties
  <2>4. Parts' = longer
    <3> HIDE DEF longer
    <3>1. \A i \in 1..(l + 1) : Parts'[i] = longer[i]
      BY <2>1, <2>2, <2>3
    <3>2. longer = [i \in 1..(l + 1) |-> longer[i]]
      BY <2>3
    <3> QED
      BY <1>5, <2>1, <3>1, <3>2
  <2>5. FlattenSeq(longer) = FlattenSeq(Parts) \o <<n + 1>>
    BY <1>4, <2>1, FlattenAppend
  <2>6. FlattenSeq(Parts) \in Seq(Nat)
    BY <1>4, FlattenType
  <2>7. FlattenSeq(Parts) \o <<n + 1>> = Append(FlattenSeq(Parts), n + 1)
    BY <2>1, <2>6, AppendIsConcat
  <2> QED
    BY <2>1, <2>4, <2>5, <2>7
<1> QED
  BY <1>2, <1>7, <1>8, <1>9, <1>10

LEMMA ShownNext ==
  ASSUME TypeOK, NEW event, Push(event), NEW n, n = Len(events)
  PROVE  Ascending(Shown', Len(events')) = IF ShowsContent(n + 1)'
                                           THEN Append(Ascending(Shown, n), n + 1)
                                           ELSE Ascending(Shown, n)
<1>1. n \in Nat /\ Len(events') = n + 1 /\ DOMAIN events = 1..n /\ DOMAIN events' = 1..(n + 1)
  BY ShownBy
<1>2. \A p \in 1..n : ShowsContent(p)' = ShowsContent(p)
  BY LatestFacts DEF TypeOK
<1>3. n + 1 \in 1..(n + 1) /\ \A p \in 1..n : p \in 1..(n + 1)
  BY <1>1
<1>4. \A p \in 1..n : p \in Shown <=> p \in Shown'
  BY <1>1, <1>2, <1>3 DEF Shown
<1>5. n + 1 \in Shown' <=> ShowsContent(n + 1)'
  BY <1>1, <1>3 DEF Shown
<1>6. PICK S, T : S = Shown /\ T = Shown'
  OBVIOUS
<1>7. Ascending(T, n + 1) = IF n + 1 \in T THEN Append(Ascending(S, n), n + 1) ELSE Ascending(S, n)
  BY <1>1, <1>4, <1>6, AscendingGrows
<1> QED
  BY <1>1, <1>5, <1>6, <1>7

LEMMA WellFormedStep ==
  ASSUME TypeOK, PartsApart, BlocksWellFormed, NEW event, Push(event)
  PROVE  BlocksWellFormed'
<1>1. PICK n, l : n = Len(events) /\ l = Len(blocks)
  OBVIOUS
<1>2. /\ blocks' \in Seq(Block) /\ DOMAIN blocks = 1..l /\ l \in Nat /\ n \in Nat
      /\ \/ LeavesBlocks(event, n, l) \/ SignsBlock(event, n, l)
         \/ ExtendsBlock(event, n, l) \/ AddsBlock(event, n, l)
  BY <1>1, PushOnBlocks
<1>3. DOMAIN blocks' = 1..Len(blocks')
  BY <1>2
<1>4. /\ KindOf(n + 1)' = IF event.kind = "start" THEN "tool" ELSE event.kind
      /\ \A p \in 1..n : KindOf(p)' = KindOf(p)
  <2>1. \A p \in 1..n : KindOf(p)' = KindOf(p)
    BY <1>1, LatestFacts DEF TypeOK
  <2> QED
    BY <1>1, <2>1, ShownBy
<1>5. \A i \in 1..l : \A k \in DOMAIN blocks[i].parts : blocks[i].parts[k] \in 1..n
  BY <1>1, <1>2 DEF PartsApart, PartsOf, ToSet
<1>6. \A i \in 1..l : blocks[i] \in Block /\ blocks[i].parts \in Seq(Nat)
  BY <1>2, BlockFacts DEF TypeOK
<1>7. ASSUME NEW i \in 1..l, blocks'[i].parts = blocks[i].parts, blocks'[i].kind = blocks[i].kind
      PROVE  /\ \A k \in DOMAIN blocks'[i].parts : (KindOf(blocks[i].parts[k]))' = blocks'[i].kind
             /\ blocks'[i].kind \in {"redacted", "tool"} => Len(blocks'[i].parts) = 1
  <2>1. ASSUME NEW k \in DOMAIN blocks'[i].parts PROVE (KindOf(blocks[i].parts[k]))' = blocks'[i].kind
    <3>1. PICK p : p = blocks[i].parts[k]
      OBVIOUS
    <3>2. p \in 1..n /\ KindOf(p) = blocks[i].kind
      BY <1>2, <1>5, <1>7, <2>1, <3>1 DEF BlocksWellFormed
    <3>3. KindOf(p)' = blocks'[i].kind
      BY <1>4, <1>7, <3>2
    <3> QED
      BY <1>7, <3>1, <3>3 DEF KindOf
  <2>2. blocks'[i].kind \in {"redacted", "tool"} => Len(blocks'[i].parts) = 1
    BY <1>2, <1>7 DEF BlocksWellFormed
  <2> QED
    BY <2>1, <2>2
<1>8. ASSUME NEW m \in Nat, Len(blocks') = m,
             \A i \in 1..m :
               /\ \A k \in DOMAIN blocks'[i].parts : (KindOf(blocks[i].parts[k]))' = blocks'[i].kind
               /\ blocks'[i].kind \in {"redacted", "tool"} => Len(blocks'[i].parts) = 1
               /\ i > 1 /\ blocks'[i].kind \in {"text", "reasoning"} => blocks'[i - 1].kind # blocks'[i].kind
      PROVE  BlocksWellFormed'
  BY <1>3, <1>8 DEF BlocksWellFormed
<1>9. \A i \in 1..l : i > 1 => i - 1 \in 1..l
  BY <1>2
<1>10. CASE LeavesBlocks(event, n, l) \/ SignsBlock(event, n, l)
  <2>1. /\ Len(blocks') = l
        /\ \A i \in 1..l : blocks'[i].parts = blocks[i].parts /\ blocks'[i].kind = blocks[i].kind
    BY <1>1, <1>10 DEF LeavesBlocks, SignsBlock, AllButLast
  <2>2. ASSUME NEW i \in 1..l, i > 1, blocks'[i].kind \in {"text", "reasoning"}
        PROVE  blocks'[i - 1].kind # blocks'[i].kind
    BY <1>2, <1>9, <2>1, <2>2 DEF BlocksWellFormed
  <2> QED
    BY <1>2, <1>7, <1>8, <2>1, <2>2
<1>11. CASE ExtendsBlock(event, n, l)
  <2>1. /\ Len(blocks') = l /\ l \in 1..l
        /\ \A i \in 1..l : i # l => blocks'[i] = blocks[i]
        /\ blocks'[l].kind = blocks[l].kind /\ blocks'[l].parts = Append(blocks[l].parts, n + 1)
        /\ event.kind \in {"text", "reasoning"} /\ blocks[l].kind = event.kind
    BY <1>1, <1>11 DEF ExtendsBlock, AllButLast, OpenBlock, Last
  <2>2. ASSUME NEW i \in 1..l, i > 1, blocks'[i].kind \in {"text", "reasoning"}
        PROVE  blocks'[i - 1].kind # blocks'[i].kind
    <3>1. \A j \in 1..l : blocks'[j].kind = blocks[j].kind
      BY <2>1
    <3> QED
      BY <1>2, <1>9, <2>2, <3>1 DEF BlocksWellFormed
  <2>3. ASSUME NEW k \in DOMAIN blocks'[l].parts PROVE (KindOf(blocks[l].parts[k]))' = blocks'[l].kind
    <3>1. PICK s : s = blocks[l].parts
      OBVIOUS
    <3>2. s \in Seq(Nat) /\ n + 1 \in Nat /\ blocks'[l].parts = Append(s, n + 1)
      BY <1>2, <1>6, <2>1, <3>1
    <3>3. /\ k \in 1..Len(s) \/ k = Len(s) + 1
          /\ k \in 1..Len(s) => blocks'[l].parts[k] = s[k]
          /\ blocks'[l].parts[Len(s) + 1] = n + 1
      BY <2>3, <3>2
    <3>4. CASE k \in 1..Len(s)
      <4>1. PICK p : p = s[k]
        OBVIOUS
      <4>2. k \in DOMAIN blocks[l].parts
        BY <3>1, <3>2, <3>4
      <4>3. p \in 1..n /\ KindOf(p) = blocks[l].kind
        BY <1>2, <1>5, <2>1, <3>1, <4>1, <4>2 DEF BlocksWellFormed
      <4>4. KindOf(p)' = blocks'[l].kind
        BY <1>4, <2>1, <4>3
      <4> QED
        BY <3>3, <3>4, <4>1, <4>4 DEF KindOf
    <3>5. CASE k = Len(s) + 1
      <4>1. KindOf(n + 1)' = blocks'[l].kind
        BY <1>4, <2>1
      <4> QED
        BY <3>3, <3>5, <4>1 DEF KindOf
    <3> QED
      BY <3>3, <3>4, <3>5
  <2>4. ASSUME NEW i \in 1..l
        PROVE  /\ \A k \in DOMAIN blocks'[i].parts : (KindOf(blocks[i].parts[k]))' = blocks'[i].kind
               /\ blocks'[i].kind \in {"redacted", "tool"} => Len(blocks'[i].parts) = 1
    <3>1. CASE i = l
      BY <2>1, <2>3, <3>1
    <3>2. CASE i # l
      BY <1>7, <2>1, <3>2
    <3> QED
      BY <3>1, <3>2
  <2> QED
    BY <1>2, <1>8, <2>1, <2>2, <2>4
<1>12. CASE AddsBlock(event, n, l)
  <2>1. /\ Len(blocks') = l + 1
        /\ \A i \in 1..l : blocks'[i] = blocks[i]
        /\ blocks'[l + 1].parts = <<n + 1>>
        /\ blocks'[l + 1].kind = (IF event.kind = "start" THEN "tool" ELSE event.kind)
        /\ event.kind \in {"text", "reasoning"} => ~OpenBlock(event.kind)
    BY <1>12 DEF AddsBlock
  <2>2. \A i \in 1..(l + 1) : i \in 1..l \/ i = l + 1
    BY <1>2
  <2>3. ASSUME NEW i \in 1..(l + 1), i > 1, blocks'[i].kind \in {"text", "reasoning"}
        PROVE  blocks'[i - 1].kind # blocks'[i].kind
    <3>1. CASE i \in 1..l
      <4>1. i - 1 \in 1..l /\ blocks'[i] = blocks[i] /\ blocks'[i - 1] = blocks[i - 1]
        BY <1>9, <2>1, <2>3, <3>1
      <4> QED
        BY <1>2, <2>3, <3>1, <4>1 DEF BlocksWellFormed
    <3>2. CASE i = l + 1
      <4>1. l \in 1..l /\ i - 1 = l /\ blocks # <<>>
        BY <1>1, <1>2, <2>3, <3>2
      <4>2. event.kind \in {"text", "reasoning"} /\ blocks'[i].kind = event.kind
        BY <2>1, <2>3, <3>2, <1>2, <1>12 DEF AddsBlock
      <4>3. blocks[l].kind # event.kind
        BY <1>1, <2>1, <4>1, <4>2 DEF OpenBlock, Last
      <4> QED
        BY <2>1, <4>1, <4>2, <4>3
    <3> QED
      BY <2>2, <3>1, <3>2
  <2>4. ASSUME NEW k \in DOMAIN blocks'[l + 1].parts
        PROVE  (KindOf(blocks[l + 1].parts[k]))' = blocks'[l + 1].kind
    <3>1. blocks'[l + 1].parts[k] = n + 1
      BY <2>1, <2>4
    <3>2. KindOf(n + 1)' = blocks'[l + 1].kind
      BY <1>4, <2>1
    <3> QED
      BY <3>1, <3>2 DEF KindOf
  <2>5. Len(blocks'[l + 1].parts) = 1
    BY <2>1
  <2>6. ASSUME NEW i \in 1..(l + 1)
        PROVE  /\ \A k \in DOMAIN blocks'[i].parts : (KindOf(blocks[i].parts[k]))' = blocks'[i].kind
               /\ blocks'[i].kind \in {"redacted", "tool"} => Len(blocks'[i].parts) = 1
    <3>1. CASE i = l + 1
      BY <2>4, <2>5, <3>1
    <3>2. CASE i \in 1..l
      BY <1>7, <2>1, <3>2
    <3> QED
      BY <2>2, <3>1, <3>2
  <2>7. l + 1 \in Nat
    BY <1>2
  <2> QED
    BY <1>8, <2>1, <2>3, <2>6, <2>7
<1> QED
  BY <1>2, <1>10, <1>11, <1>12

LEMMA StreamStep ==
  ASSUME TypeOK, PartsApart, BlocksFollowStream, NEW event, Push(event)
  PROVE  BlocksFollowStream'
<1>1. PICK n : n = Len(events)
  OBVIOUS
<1>2. FlattenSeq(Parts) = Ascending(Shown, n) /\ BlocksWellFormed
  BY <1>1, StreamFollowed
<1>3. FlattenSeq(Parts') = Ascending(Shown', Len(events'))
  BY <1>1, <1>2, FlattenedNext, ShownNext, SMTT(30)
<1>4. BlocksWellFormed'
  BY <1>2, WellFormedStep
<1> QED
  BY <1>3, <1>4, StreamFollowedNext

-----------------------------------------------------------------------------
(***************************************************************************)
(* The signatures.                                                         *)
(***************************************************************************)
Signing(i) == {p \in DOMAIN events : events[p].kind = "signature" /\ LatestContent(p) \in PartsOf(i)}

(* The whole rule, which decides about late fragments as well.              *)
SignedWhileOpen ==
  \A i \in DOMAIN blocks :
    blocks[i].kind = "reasoning" => blocks[i].signature = InStream(Signing(i))

LEMMA SignaturesAre ==
  SignedWhileOpen
    <=> \A i \in DOMAIN blocks : blocks[i].kind = "reasoning" =>
                                   blocks[i].signature = Ascending(Signing(i), Len(events))
BY DEF SignedWhileOpen, InStream

LEMMA SignaturesAreNext ==
  ASSUME NEW m, m = Len(events'), NEW bs, bs = blocks',
         \A i \in DOMAIN bs : bs[i].kind = "reasoning" => bs[i].signature = Ascending(Signing(i)', m)
  PROVE  SignedWhileOpen'
BY DEF SignedWhileOpen, InStream

(* The fragments that sign a block after a push: the new one if it is a     *)
(* fragment of a signature and the block the last; a new block has none.    *)
LEMMA SigningNext ==
  ASSUME TypeOK, PartsApart, NEW event, Push(event),
         NEW n, n = Len(events), NEW l, l = Len(blocks)
  PROVE  /\ \A i \in 1..l : \A p \in 1..n : p \in Signing(i) <=> p \in Signing(i)'
         /\ \A i \in 1..l : n + 1 \in Signing(i)' <=> event.kind = "signature" /\ i = l
         /\ l + 1 \in DOMAIN blocks' => \A p \in 1..(n + 1) : p \notin Signing(l + 1)'
<1>1. /\ ShowsContent(n + 1)' <=> event.kind \in {"text", "reasoning", "redacted", "start"}
      /\ n \in Nat /\ Len(events') = n + 1 /\ DOMAIN events = 1..n /\ DOMAIN events' = 1..(n + 1)
      /\ events'[n + 1] = event /\ \A p \in 1..n : events'[p] = events[p]
  BY ShownBy
<1>2. /\ DOMAIN blocks' = 1..Len(blocks') /\ Len(blocks') \in {l, l + 1}
      /\ ~ShowsContent(n + 1)' => Len(blocks') = l
      /\ \A i \in DOMAIN blocks' :
           PartsOf(i)' = (IF i \in 1..l THEN PartsOf(i) ELSE {})
                           \cup (IF ShowsContent(n + 1)' /\ i = Len(blocks') THEN {n + 1} ELSE {})
  BY PartsAfter
<1>3. DOMAIN blocks = 1..l /\ l \in Nat /\ events \in Seq(Event)
  BY DEF TypeOK
<1>4. \A i \in 1..l : i \in DOMAIN blocks'
  <2>1. PICK m : m = Len(blocks')
    OBVIOUS
  <2>2. m \in {l, l + 1} /\ DOMAIN blocks' = 1..m
    BY <1>2, <2>1
  <2>3. \A i \in 1..l : i \in 1..m
    BY <1>3, <2>2
  <2> QED
    BY <2>2, <2>3
<1>5. \A p \in 1..(n + 1) : LatestContent(p)' = LatestContent(p) /\ LatestContent(p) \in 0..(p - 1)
  BY <1>3, LatestFacts
<1>6. \A p \in 1..(n + 1) : LatestContent(p) # n + 1
  BY <1>1, <1>5
<1>7. \A i \in 1..l : \A p \in 1..(n + 1) :
        LatestContent(p)' \in PartsOf(i)' <=> LatestContent(p) \in PartsOf(i)
  <2>1. ASSUME NEW i \in 1..l, NEW q, q # n + 1 PROVE q \in PartsOf(i)' <=> q \in PartsOf(i)
    BY <1>2, <1>4, <2>1
  <2>2. ASSUME NEW i \in 1..l, NEW p \in 1..(n + 1)
        PROVE  LatestContent(p)' \in PartsOf(i)' <=> LatestContent(p) \in PartsOf(i)
    <3>1. PICK q : q = LatestContent(p)
      OBVIOUS
    <3> QED
      BY <1>5, <1>6, <2>1, <3>1
  <2> QED
    BY <2>2
<1>8. \A i \in 1..l : \A p \in 1..n : p \in Signing(i) <=> p \in Signing(i)'
  <2>1. \A p \in 1..n : p \in 1..(n + 1)
    BY <1>1
  <2> QED
    BY <1>1, <1>7, <2>1 DEF Signing
<1>9. \A i \in 1..l : LatestContent(n + 1) \in PartsOf(i) <=> i = l
  <2>1. /\ \A i, j \in 1..l : i # j => PartsOf(i) \cap PartsOf(j) = {}
        /\ l # 0 => LatestContent(n + 1) \in PartsOf(l)
    BY <1>3 DEF PartsApart, TypeOK
  <2>2. ASSUME NEW i \in 1..l PROVE l # 0 /\ l \in 1..l
    BY <1>3
  <2> QED
    BY <2>1, <2>2
<1>10. \A i \in 1..l : n + 1 \in Signing(i)' <=> event.kind = "signature" /\ i = l
  <2>1. n + 1 \in 1..(n + 1)
    BY <1>1
  <2> QED
    BY <1>1, <1>7, <1>9, <2>1 DEF Signing
<1>11. ASSUME l + 1 \in DOMAIN blocks', NEW p \in 1..(n + 1) PROVE p \notin Signing(l + 1)'
  <2>1. l + 1 \notin 1..l
    BY <1>3
  <2>2. PartsOf(l + 1)' \subseteq {n + 1}
    BY <1>2, <1>11, <2>1
  <2> QED
    BY <1>5, <1>6, <2>2 DEF Signing
<1> QED
  BY <1>8, <1>10, <1>11

LEMMA SignaturesStep ==
  ASSUME TypeOK, PartsApart, SignedWhileOpen, NEW event, Push(event)
  PROVE  SignedWhileOpen'
<1>1. PICK n, l : n = Len(events) /\ l = Len(blocks)
  OBVIOUS
<1>2. /\ blocks' \in Seq(Block) /\ DOMAIN blocks = 1..l /\ l \in Nat /\ n \in Nat
      /\ \/ LeavesBlocks(event, n, l) \/ SignsBlock(event, n, l)
         \/ ExtendsBlock(event, n, l) \/ AddsBlock(event, n, l)
  BY <1>1, PushOnBlocks
<1>3. Len(events') = n + 1
  BY <1>1, ShownBy
<1>4. \A i \in 1..l : blocks[i].kind = "reasoning" => blocks[i].signature = Ascending(Signing(i), n)
  BY <1>1, <1>2, SignaturesAre
<1>5. /\ \A i \in 1..l : \A p \in 1..n : p \in Signing(i) <=> p \in Signing(i)'
      /\ \A i \in 1..l : n + 1 \in Signing(i)' <=> event.kind = "signature" /\ i = l
      /\ l + 1 \in DOMAIN blocks' => \A p \in 1..(n + 1) : p \notin Signing(l + 1)'
  BY <1>1, SigningNext
<1>6. ASSUME NEW i \in 1..l
      PROVE  Ascending(Signing(i)', n + 1) = IF event.kind = "signature" /\ i = l
                                             THEN Append(Ascending(Signing(i), n), n + 1)
                                             ELSE Ascending(Signing(i), n)
  <2>1. PICK S, T : S = Signing(i) /\ T = Signing(i)'
    OBVIOUS
  <2>2. Ascending(T, n + 1) = IF n + 1 \in T THEN Append(Ascending(S, n), n + 1) ELSE Ascending(S, n)
    BY <1>2, <1>5, <2>1, AscendingGrows
  <2> QED
    BY <1>5, <2>1, <2>2
<1>7. ASSUME NEW i \in DOMAIN blocks', blocks'[i].kind = "reasoning"
      PROVE  blocks'[i].signature = Ascending(Signing(i)', n + 1)
  <2>1. CASE i \in 1..l
    <3>1. CASE LeavesBlocks(event, n, l)
      <4>1. blocks'[i] = blocks[i] /\ ~(event.kind = "signature" /\ i = l)
        BY <1>1, <1>2, <1>7, <2>1, <3>1 DEF LeavesBlocks, OpenBlock, Last
      <4> QED
        BY <1>4, <1>6, <1>7, <2>1, <4>1
    <3>2. CASE SignsBlock(event, n, l)
      <4>1. blocks[i].kind = "reasoning"
        BY <1>7, <2>1, <3>2 DEF SignsBlock, AllButLast
      <4>2. blocks'[i].signature = IF i = l THEN Append(blocks[i].signature, n + 1)
                                   ELSE blocks[i].signature
        BY <2>1, <3>2 DEF SignsBlock, AllButLast
      <4> QED
        BY <1>4, <1>6, <2>1, <3>2, <4>1, <4>2 DEF SignsBlock
    <3>3. CASE ExtendsBlock(event, n, l)
      <4>1. /\ blocks[i].kind = "reasoning" /\ blocks[l].kind = event.kind
            /\ event.kind # "signature"
        BY <1>1, <1>7, <2>1, <3>3 DEF ExtendsBlock, AllButLast, OpenBlock, Last
      <4>2. blocks'[i].signature = blocks[i].signature
        BY <2>1, <3>3, <4>1 DEF ExtendsBlock, AllButLast
      <4> QED
        BY <1>4, <1>6, <2>1, <4>1, <4>2
    <3>4. CASE AddsBlock(event, n, l)
      <4>1. blocks'[i] = blocks[i] /\ event.kind # "signature"
        BY <2>1, <3>4 DEF AddsBlock
      <4> QED
        BY <1>4, <1>6, <1>7, <2>1, <4>1
    <3> QED
      BY <1>2, <3>1, <3>2, <3>3, <3>4
  <2>2. CASE i \notin 1..l
    <3>1. i = l + 1 /\ AddsBlock(event, n, l)
      <4>1. i \in 1..Len(blocks')
        BY <1>2, <1>7
      <4> QED
        BY <1>1, <1>2, <2>2, <4>1 DEF LeavesBlocks, SignsBlock, ExtendsBlock, AddsBlock, AllButLast
    <3>2. blocks'[i].signature = <<>>
      BY <1>7, <3>1 DEF AddsBlock
    <3>3. \A p \in 1..(n + 1) : p \notin Signing(i)'
      BY <1>5, <1>7, <3>1
    <3>4. PICK T : T = Signing(i)'
      OBVIOUS
    <3>5. n + 1 \in Nat
      BY <1>2
    <3>6. Ascending(T, n + 1) = <<>>
      BY <3>3, <3>4, <3>5, AscendingNone
    <3> QED
      BY <3>2, <3>4, <3>6
  <2> QED
    BY <2>1, <2>2
<1>8. PICK m, bs : m = Len(events') /\ bs = blocks'
  OBVIOUS
<1>9. \A i \in DOMAIN bs : bs[i].kind = "reasoning" => bs[i].signature = Ascending(Signing(i)', m)
  BY <1>3, <1>7, <1>8
<1> QED
  BY <1>8, <1>9, SignaturesAreNext

(* If the latest content is reasoning, it is the latest reasoning too. *)
LEMMA ContentIsReasoning ==
  ASSUME events \in Seq(Event), NEW p \in DOMAIN events,
         LatestContent(p) \in DOMAIN events, events[LatestContent(p)].kind = "reasoning"
  PROVE  LatestReasoning(p) = LatestContent(p)
<1> DEFINE Shows     == {q \in 1..(p - 1) : ShowsContent(q)}
           Reasoning == {q \in 1..(p - 1) : events[q].kind = "reasoning"}
<1>1. p \in Nat /\ Shows \subseteq 0..p /\ Reasoning \subseteq 0..p /\ 0 \notin DOMAIN events
  OBVIOUS
<1>2. Reasoning \subseteq Shows
  BY DEF ShowsContent
<1>3. LatestContent(p) = IF Shows = {} THEN 0 ELSE Max(Shows)
  BY DEF LatestContent
<1>4. LatestReasoning(p) = IF Reasoning = {} THEN 0 ELSE Max(Reasoning)
  BY DEF LatestReasoning
<1>5. Shows # {} /\ LatestContent(p) = Max(Shows)
  BY <1>1, <1>3
<1>6. Max(Shows) \in Shows /\ \A q \in Shows : q <= Max(Shows)
  <2> HIDE DEF Shows
  <2> QED
    BY <1>1, <1>5, MaxFacts
<1>7. Max(Shows) \in Reasoning
  BY <1>5, <1>6
<1>8. Max(Reasoning) = Max(Shows)
  <2>1. \A q \in Reasoning : q <= Max(Shows)
    BY <1>2, <1>6
  <2> HIDE DEF Shows, Reasoning
  <2> QED
    BY <1>1, <1>7, <2>1, MaxFacts
<1> QED
  BY <1>4, <1>5, <1>7, <1>8

LEMMA RuleAttaches ==
  ASSUME TypeOK, PartsApart, BlocksFollowStream, SignedWhileOpen
  PROVE  SignaturesAttached
<1>1. events \in Seq(Event) /\ DOMAIN events = 1..Len(events) /\ Len(events) \in Nat
  BY DEF TypeOK
<1>2. SUFFICES ASSUME NEW i \in DOMAIN blocks, blocks[i].kind = "reasoning",
                      NEW signed, signed = ToSet(blocks[i].signature)
               PROVE  /\ blocks[i].signature = InStream(signed)
                      /\ {p \in Signatures : LatestContent(p) \in PartsOf(i)} \subseteq signed
                      /\ signed \subseteq {p \in Signatures : LatestReasoning(p) \in PartsOf(i)}
  BY DEF SignaturesAttached, PartsOf
<1>3. PICK S : S = Signing(i)
  OBVIOUS
<1>4. blocks[i].signature = Ascending(S, Len(events)) /\ S \subseteq DOMAIN events
  BY <1>2, <1>3 DEF SignedWhileOpen, InStream, Signing
<1>5. signed = S
  <2>1. PICK s : s = Ascending(S, Len(events))
    OBVIOUS
  <2>2. /\ \A k \in DOMAIN s : s[k] \in S \cap (1..Len(events))
        /\ \A p \in S \cap (1..Len(events)) : \E k \in DOMAIN s : s[k] = p
    BY <1>1, <2>1, AscendingFacts
  <2>3. ToSet(s) = {s[k] : k \in DOMAIN s}
    BY DEF ToSet
  <2> QED
    BY <1>1, <1>2, <1>4, <2>1, <2>2, <2>3
<1>6. S = {p \in Signatures : LatestContent(p) \in PartsOf(i)}
  BY <1>3 DEF Signing, Signatures
<1>7. ASSUME NEW p \in S PROVE p \in Signatures /\ LatestReasoning(p) \in PartsOf(i)
  <2>1. p \in Signatures /\ p \in DOMAIN events /\ LatestContent(p) \in PartsOf(i)
    BY <1>6 DEF Signatures
  <2>2. LatestContent(p) \in DOMAIN events
    BY <1>1, <2>1 DEF PartsApart
  <2>3. KindOf(LatestContent(p)) = "reasoning"
    BY <1>2, <2>1 DEF BlocksFollowStream, PartsOf, ToSet
  <2>4. events[LatestContent(p)].kind = "reasoning"
    BY <2>3 DEF KindOf
  <2> QED
    BY <1>1, <2>1, <2>2, <2>4, ContentIsReasoning
<1> QED
  BY <1>4, <1>5, <1>6, <1>7 DEF InStream

-----------------------------------------------------------------------------
(***************************************************************************)
(* The arguments.                                                          *)
(***************************************************************************)
Fragments(id) == {p \in DOMAIN events : events[p].kind = "fragment" /\ events[p].id = id}

LEMMA ArgumentsAre ==
  ArgumentsReassembled <=> \A id \in Ids : Entry(arguments, id) = Ascending(Fragments(id), Len(events))
BY DEF ArgumentsReassembled, Fragments, InStream

LEMMA ArgumentsAreNext ==
  ASSUME NEW m, m = Len(events'),
         \A id \in Ids : Entry(arguments', id) = Ascending(Fragments(id)', m)
  PROVE  ArgumentsReassembled'
BY DEF ArgumentsReassembled, Fragments, InStream, Entry

LEMMA ArgumentsStep ==
  ASSUME TypeOK, ArgumentsReassembled, NEW event, Push(event)
  PROVE  ArgumentsReassembled'
<1>1. PICK n : n = Len(events)
  OBVIOUS
<1>2. /\ n \in Nat /\ Len(events') = n + 1 /\ DOMAIN events = 1..n /\ DOMAIN events' = 1..(n + 1)
      /\ events'[n + 1] = event /\ \A p \in 1..n : events'[p] = events[p]
  BY <1>1, ShownBy
<1>3. n + 1 \in 1..(n + 1) /\ \A p \in 1..n : p \in 1..(n + 1)
  BY <1>2
<1>4. ASSUME NEW id \in Ids
      PROVE  Entry(arguments', id) = Ascending(Fragments(id)', n + 1)
  <2>1. PICK S, T : S = Fragments(id) /\ T = Fragments(id)'
    OBVIOUS
  <2>2. \A p \in 1..n : p \in S <=> p \in T
    BY <1>2, <1>3, <2>1 DEF Fragments
  <2>3. n + 1 \in T <=> event.kind = "fragment" /\ event.id = id
    BY <1>2, <1>3, <2>1 DEF Fragments
  <2>4. Ascending(T, n + 1) = IF n + 1 \in T THEN Append(Ascending(S, n), n + 1) ELSE Ascending(S, n)
    BY <1>2, <2>2, AscendingGrows
  <2>5. Entry(arguments, id) = Ascending(S, n)
    BY <1>1, <2>1, ArgumentsAre
  <2>6. Entry(arguments', id) = IF event.kind = "fragment" /\ event.id = id
                                THEN Append(Entry(arguments, id), n + 1) ELSE Entry(arguments, id)
    BY <1>1, PushOnArguments
  <2> QED
    BY <2>1, <2>3, <2>4, <2>5, <2>6
<1> QED
  BY <1>2, <1>4, ArgumentsAreNext

-----------------------------------------------------------------------------
(***************************************************************************)
(* The usage.                                                              *)
(***************************************************************************)
LEMMA MergedField ==
  ASSUME TypeOK, NEW event \in Event, Push(event), NEW field \in {"input", "output"}
  PROVE  usage'[field] = IF event.kind = "usage" /\ event[field] # None THEN event[field]
                         ELSE usage[field]
<1>1. usage' = Merged(event) /\ usage \in [input : Option(Counts), output : Option(Counts)]
  BY DEF Push, TypeOK
<1>2. CASE event.kind = "usage"
  <2>1. usage' = [input |-> Or(event.input, usage.input), output |-> Or(event.output, usage.output)]
    BY <1>1, <1>2 DEF Merged
  <2>2. CASE field = "input"
    BY <1>2, <2>1, <2>2 DEF Or
  <2>3. CASE field = "output"
    BY <1>2, <2>1, <2>3 DEF Or
  <2> QED
    BY <2>2, <2>3
<1>3. CASE event.kind # "usage"
  BY <1>1, <1>3 DEF Merged
<1> QED
  BY <1>2, <1>3

LEMMA UsageStep ==
  ASSUME TypeOK, UsageKnown, NEW event, Push(event)
  PROVE  UsageKnown'
<1>1. PICK n : n = Len(events)
  OBVIOUS
<1>2. /\ n \in Nat /\ Len(events') = n + 1 /\ DOMAIN events = 1..n /\ DOMAIN events' = 1..(n + 1)
      /\ events'[n + 1] = event /\ \A p \in 1..n : events'[p] = events[p]
  BY <1>1, ShownBy
<1>3. /\ n + 1 \in 1..(n + 1) /\ \A p \in 1..n : p \in 1..(n + 1)
      /\ \A p \in 1..(n + 1) : p \in 1..n \/ p = n + 1
  BY <1>2
<1>4. event \in Event
  BY Grown DEF TypeOK
<1>5. ASSUME NEW field \in {"input", "output"}, NEW T, T = Reported(field)'
      PROVE  usage'[field] = IF T = {} THEN None ELSE (events'[Max(T)])[field]
  <2>1. PICK S : S = Reported(field)
    OBVIOUS
  <2>2. S \subseteq 1..n /\ T = IF event.kind = "usage" /\ event[field] # None THEN S \cup {n + 1} ELSE S
    BY <1>2, <1>3, <1>5, <2>1 DEF Reported
  <2>3. usage[field] = IF S = {} THEN None ELSE events[Max(S)][field]
    BY <2>1 DEF UsageKnown
  <2>4. usage'[field] = IF event.kind = "usage" /\ event[field] # None THEN event[field] ELSE usage[field]
    BY <1>4, MergedField
  <2>5. CASE event.kind = "usage" /\ event[field] # None
    <3>1. T \subseteq 0..(n + 1) /\ n + 1 \in T /\ n + 1 \in Nat /\ \A y \in T : y <= n + 1
      BY <1>2, <2>2, <2>5
    <3>2. Max(T) = n + 1
      BY <3>1, MaxFacts
    <3> QED
      BY <1>2, <2>4, <2>5, <3>1, <3>2
  <2>6. CASE ~(event.kind = "usage" /\ event[field] # None)
    <3>1. T = S /\ usage'[field] = usage[field]
      BY <2>2, <2>4, <2>6
    <3>2. S # {} => Max(S) \in 1..n
      <4>1. S \subseteq 0..n
        BY <2>2
      <4>2. S # {} => Max(S) \in S
        BY <1>2, <4>1, MaxFacts
      <4> QED
        BY <2>2, <4>2
    <3> QED
      BY <1>2, <2>3, <3>1, <3>2
  <2> QED
    BY <2>5, <2>6
<1>6. ASSUME NEW field \in {"input", "output"}
      PROVE  usage'[field] = IF Reported(field)' = {} THEN None
                             ELSE (events'[Max(Reported(field)')])[field]
  BY <1>5
<1> QED
  BY <1>6 DEF UsageKnown, Reported, Max

-----------------------------------------------------------------------------
(***************************************************************************)
(* The completion.                                                         *)
(***************************************************************************)
CallsHonest(content) ==
  \A k \in DOMAIN content : content[k].block.kind = "tool" =>
    /\ Parses(content[k].input)
    /\ \A i \in DOMAIN content[k].input :
         events[content[k].input[i]].id = content[k].block.id

CallsApart(content) ==
  \A k, l \in DOMAIN content :
    content[k].block.kind = "tool" /\ content[l].block.kind = "tool" /\ k # l =>
      ToSet(content[k].input) \cap ToSet(content[l].input) = {}

KeepsTheRest(content, stop) ==
  \E S \in SUBSET DOMAIN blocks :
    /\ [k \in DOMAIN content |-> content[k].block] = At(blocks, Ascending(S, Len(blocks)))
    /\ \A i \in DOMAIN blocks \ S : blocks[i].kind = "tool" /\ stop = "MaxTokens"

LEMMA HonestIs ==
  CompletionHonest
    <=> (result.kind = "Completion" =>
           CallsHonest(result.content) /\ CallsApart(result.content)
             /\ KeepsTheRest(result.content, result.stop))
BY DEF CompletionHonest, CallsHonest, CallsApart, KeepsTheRest

LEMMA HonestNext ==
  ASSUME NEW content, content = result'.content, NEW stop, stop = result'.stop,
         events' = events, blocks' = blocks,
         CallsHonest(content) /\ CallsApart(content) /\ KeepsTheRest(content, stop)
  PROVE  CompletionHonest'
<1>1. \A p : Closes(p)' = Closes(p)
  BY DEF Closes
<1>2. \A text : Parses(text)' = Parses(text)
  BY <1>1 DEF Parses
<1>3. CallsHonest(result.content)'
  <2>1. \A k \in DOMAIN content : content[k].block.kind = "tool" =>
          /\ Parses(content[k].input)
          /\ \A i \in DOMAIN content[k].input :
               events[content[k].input[i]].id = content[k].block.id
    BY DEF CallsHonest
  <2>2. \A k \in DOMAIN content : content[k].block.kind = "tool" =>
          /\ (Parses(content[k].input))'
          /\ \A i \in DOMAIN content[k].input :
               (events[content[k].input[i]].id)' = content[k].block.id
    BY <1>2, <2>1
  <2> QED
    BY <2>2 DEF CallsHonest, Parses, Closes
<1>4. CallsApart(result.content)'
  BY DEF CallsApart
<1>5. KeepsTheRest(result.content, result.stop)'
  BY DEF KeepsTheRest
<1> QED
  BY <1>3, <1>4, <1>5 DEF CompletionHonest, CallsHonest, CallsApart, KeepsTheRest

(* A call that is kept is the first of its id, and its arguments are the    *)
(* fragments of its id.                                                     *)
LEMMA KeptCall ==
  ASSUME TypeOK, ArgumentsReassembled, NEW i \in DOMAIN blocks,
         blocks[i].kind = "tool", i \notin Unparseable
  PROVE  /\ FirstOfItsId(i) /\ Parses(ArgumentsOf(i))
         /\ \A k \in DOMAIN ArgumentsOf(i) : ArgumentsOf(i)[k] \in Fragments(blocks[i].id)
<1>1. Parses(ArgumentsOf(i))
  BY DEF Unparseable
<1>2. FirstOfItsId(i) /\ ArgumentsOf(i) = arguments[blocks[i].id]
  BY <1>1 DEF Parses, ArgumentsOf
<1>3. PICK id, n, S : id = blocks[i].id /\ n = Len(events) /\ S = Fragments(id)
  OBVIOUS
<1>4. id \in DOMAIN arguments /\ id \in Ids /\ n \in Nat
  BY <1>3 DEF TypeOK
<1>5. ArgumentsOf(i) = Ascending(S, n)
  BY <1>2, <1>3, <1>4, ArgumentsAre DEF Entry
<1>6. \A k \in DOMAIN Ascending(S, n) : Ascending(S, n)[k] \in S
  BY <1>4, AscendingFacts
<1> QED
  BY <1>1, <1>2, <1>3, <1>5, <1>6

LEMMA FinishHonest ==
  ASSUME TypeOK, ArgumentsReassembled, FinishCompletion
  PROVE  CompletionHonest'
<1>1. PICK places, content, stop :
        /\ places = Kept /\ content = [k \in DOMAIN places |-> Resolved(places[k])]
        /\ stop = finished[1]
  OBVIOUS
<1>2. /\ content = result'.content /\ stop = result'.stop /\ events' = events /\ blocks' = blocks
      /\ stop = "MaxTokens" \/ Unparseable = {}
  BY <1>1 DEF FinishCompletion
<1>3. /\ \A k \in DOMAIN places : places[k] \in DOMAIN blocks /\ places[k] \notin Unparseable
      /\ \A k, l \in DOMAIN places : k # l => places[k] # places[l]
      /\ DOMAIN places = 1..Len(places)
  BY <1>1, FinishFacts
<1>4. /\ DOMAIN content = DOMAIN places
      /\ \A k \in DOMAIN places :
           /\ content[k].block = blocks[places[k]]
           /\ blocks[places[k]].kind = "tool" => content[k].input = ArgumentsOf(places[k])
  BY <1>1 DEF Resolved
<1>5. ASSUME NEW k \in DOMAIN places, content[k].block.kind = "tool"
      PROVE  /\ FirstOfItsId(places[k]) /\ Parses(content[k].input)
             /\ \A i \in DOMAIN content[k].input :
                  content[k].input[i] \in Fragments(blocks[places[k]].id)
  BY <1>3, <1>4, <1>5, KeptCall
<1>6. CallsHonest(content)
  BY <1>4, <1>5 DEF CallsHonest, Fragments
<1>7. CallsApart(content)
  <2>1. ASSUME NEW k \in DOMAIN places, NEW l \in DOMAIN places, places[k] < places[l],
               content[k].block.kind = "tool", content[l].block.kind = "tool"
        PROVE  blocks[places[k]].id # blocks[places[l]].id
    <3>1. places[k] \in 1..Len(blocks) /\ places[l] \in 1..Len(blocks) /\ Len(blocks) \in Nat
      BY <1>3 DEF TypeOK
    <3>2. places[k] \in 1..(places[l] - 1)
      BY <2>1, <3>1
    <3> QED
      BY <1>4, <1>5, <2>1, <3>2 DEF FirstOfItsId
  <2>2. ASSUME NEW k \in DOMAIN places, NEW l \in DOMAIN places, k # l,
               content[k].block.kind = "tool", content[l].block.kind = "tool"
        PROVE  blocks[places[k]].id # blocks[places[l]].id
    <3>1. places[k] \in 1..Len(blocks) /\ places[l] \in 1..Len(blocks) /\ Len(blocks) \in Nat
      BY <1>3 DEF TypeOK
    <3>2. places[k] < places[l] \/ places[l] < places[k]
      BY <1>3, <2>2, <3>1
    <3> QED
      BY <2>1, <2>2, <3>2
  <2>3. ASSUME NEW k \in DOMAIN places, content[k].block.kind = "tool", NEW p \in ToSet(content[k].input)
        PROVE  events[p].id = blocks[places[k]].id
    BY <1>5, <2>3 DEF ToSet, Fragments
  <2> QED
    BY <1>4, <2>2, <2>3 DEF CallsApart
<1>8. KeepsTheRest(content, stop)
  <2>1. PICK S : S = DOMAIN blocks \ Unparseable
    OBVIOUS
  <2>2. places = Ascending(S, Len(blocks))
    BY <1>1, <2>1 DEF Kept
  <2>3. [k \in DOMAIN content |-> content[k].block] = At(blocks, Ascending(S, Len(blocks)))
    BY <1>4, <2>2 DEF At
  <2>4. \A i \in DOMAIN blocks \ S : blocks[i].kind = "tool" /\ stop = "MaxTokens"
    BY <1>2, <2>1 DEF Unparseable
  <2>5. S \in SUBSET DOMAIN blocks
    BY <2>1
  <2> QED
    BY <2>3, <2>4, <2>5 DEF KeepsTheRest
<1> QED
  BY <1>2, <1>6, <1>7, <1>8, HonestNext

-----------------------------------------------------------------------------
(***************************************************************************)
(* The theorems.  AccumulatorInv is inductive.                             *)
(***************************************************************************)
AccumulatorInv ==
  /\ TypeOK
  /\ PartsApart
  /\ BlocksFollowStream
  /\ SignedWhileOpen
  /\ ArgumentsReassembled
  /\ UsageKnown
  /\ CompletionHonest

LEMMA AccumulatorInit == Init => AccumulatorInv
<1> SUFFICES ASSUME Init PROVE AccumulatorInv
  OBVIOUS
<1>1. /\ events = <<>> /\ blocks = <<>> /\ arguments = <<>> /\ finished = None
      /\ usage = [input |-> None, output |-> None] /\ result = [kind |-> "Open"]
      /\ DOMAIN events = {} /\ DOMAIN blocks = {} /\ DOMAIN arguments = {} /\ Len(events) = 0
  BY DEF Init
<1>2. result.kind = "Open"
  BY <1>1
<1>3. TypeOK
  <2>1. events \in Seq(Event) /\ blocks \in Seq(Block)
    BY <1>1
  <2>2. None \in Option(Counts) /\ None \in Option({"MaxTokens", "ToolUse"})
    BY DEF Option
  <2> QED
    BY <1>1, <1>2, <2>1, <2>2 DEF TypeOK
<1>4. \A S : Ascending(S, 0) = <<>>
  BY AscendingNext
<1>5. PartsApart /\ SignedWhileOpen /\ CompletionHonest
  BY <1>1, <1>2 DEF PartsApart, SignedWhileOpen, CompletionHonest
<1>6. BlocksFollowStream
  <2>1. Parts = <<>>
    BY <1>1 DEF Parts
  <2>2. FlattenSeq(Parts) = Ascending(Shown, Len(events))
    BY <1>1, <1>4, <2>1, FlattenEmpty
  <2>3. BlocksWellFormed
    BY <1>1 DEF BlocksWellFormed
  <2> QED
    BY <2>2, <2>3, StreamFollowed
<1>7. ArgumentsReassembled
  <2>1. \A id \in Ids : Entry(arguments, id) = <<>>
    BY <1>1 DEF Entry
  <2> QED
    BY <1>1, <1>4, <2>1, ArgumentsAre
<1>8. UsageKnown
  <2>1. \A field \in {"input", "output"} : Reported(field) = {} /\ usage[field] = None
    BY <1>1 DEF Reported
  <2> QED
    BY <2>1 DEF UsageKnown
<1> QED
  BY <1>3, <1>5, <1>6, <1>7, <1>8 DEF AccumulatorInv

LEMMA AccumulatorStep == AccumulatorInv /\ [Next]_vars => AccumulatorInv'
<1> SUFFICES ASSUME AccumulatorInv, [Next]_vars PROVE AccumulatorInv'
  OBVIOUS
<1>1. TypeOK'
  BY AccumulatorTypes DEF AccumulatorInv
<1>2. ASSUME NEW event, Push(event) PROVE AccumulatorInv'
  <2>1. PartsApart' /\ BlocksFollowStream' /\ SignedWhileOpen' /\ ArgumentsReassembled' /\ UsageKnown'
    BY <1>2, PartsStep, StreamStep, SignaturesStep, ArgumentsStep, UsageStep DEF AccumulatorInv
  <2>2. CompletionHonest'
    BY <1>2 DEF Push, CompletionHonest
  <2> QED
    BY <1>1, <2>1, <2>2 DEF AccumulatorInv
<1>3. ASSUME UNCHANGED <<events, blocks, arguments, usage, finished>>
      PROVE  PartsApart' /\ BlocksFollowStream' /\ SignedWhileOpen' /\ ArgumentsReassembled' /\ UsageKnown'
  <2>1. PartsApart'
    BY <1>3 DEF AccumulatorInv, PartsApart, PartsOf, LatestContent, ShowsContent
  <2>2. BlocksFollowStream'
    BY <1>3 DEF AccumulatorInv, BlocksFollowStream, InStream, ShowsContent, KindOf
  <2>3. SignedWhileOpen'
    BY <1>3 DEF AccumulatorInv, SignedWhileOpen, Signing, PartsOf, InStream, LatestContent, ShowsContent
  <2>4. ArgumentsReassembled'
    BY <1>3 DEF AccumulatorInv, ArgumentsReassembled, InStream, Entry
  <2>5. UsageKnown'
    BY <1>3 DEF AccumulatorInv, UsageKnown, Reported
  <2> QED
    BY <2>1, <2>2, <2>3, <2>4, <2>5
<1>4. CASE FinishUnfinished \/ FinishUndecodable
  <2>1. /\ UNCHANGED <<events, blocks, arguments, usage, finished>>
        /\ result'.kind # "Completion"
    BY <1>4 DEF FinishUnfinished, FinishUndecodable
  <2> QED
    BY <1>1, <1>3, <2>1 DEF AccumulatorInv, CompletionHonest
<1>5. CASE FinishCompletion
  <2>1. CompletionHonest'
    BY <1>5, FinishHonest DEF AccumulatorInv
  <2>2. UNCHANGED <<events, blocks, arguments, usage, finished>>
    BY <1>5 DEF FinishCompletion
  <2> QED
    BY <1>1, <1>3, <2>1, <2>2 DEF AccumulatorInv
<1>6. CASE UNCHANGED vars
  <2>1. UNCHANGED <<events, blocks, arguments, usage, finished>> /\ result' = result
    BY <1>6 DEF vars
  <2>2. CompletionHonest'
    <3>1. CASE result.kind = "Completion"
      <4>1. PICK content, stop : content = result.content /\ stop = result.stop
        OBVIOUS
      <4>2. CallsHonest(content) /\ CallsApart(content) /\ KeepsTheRest(content, stop)
        BY <3>1, <4>1, HonestIs DEF AccumulatorInv
      <4> QED
        BY <2>1, <4>1, <4>2, HonestNext
    <3>2. CASE result.kind # "Completion"
      BY <2>1, <3>2 DEF CompletionHonest
    <3> QED
      BY <3>1, <3>2
  <2> QED
    BY <1>1, <1>3, <2>1, <2>2 DEF AccumulatorInv
<1> QED
  BY <1>2, <1>4, <1>5, <1>6 DEF Next, Consumed

LEMMA AccumulatorInvariant == Spec => []AccumulatorInv
<1> QED
  BY AccumulatorInit, AccumulatorStep, PTL DEF Spec

(* CompletionAccumulator keeps its types, and every tool use among its      *)
(* blocks has the entry in tool_arguments that resolve_tool_use looks up.   *)
THEOREM AccumulatorTypeCorrect == Spec => []TypeOK
<1>1. AccumulatorInv => TypeOK
  BY DEF AccumulatorInv
<1> QED
  BY <1>1, AccumulatorInvariant, PTL

(* push loses no content and keeps its order: the blocks, joined, are the   *)
(* content of the stream, deltas of one kind that follow each other in one  *)
(* block and nothing else in it.                                            *)
THEOREM BlocksFollowStreamCorrect == Spec => []BlocksFollowStream
<1>1. AccumulatorInv => BlocksFollowStream
  BY DEF AccumulatorInv
<1> QED
  BY <1>1, AccumulatorInvariant, PTL

(* push gives the fragments of a signature to the reasoning block that is   *)
(* open when they arrive, in their order, and drops those that find none,   *)
(* as the tests of the accumulator expect.                                  *)
THEOREM SignedWhileOpenCorrect == Spec => []SignedWhileOpen
<1>1. AccumulatorInv => SignedWhileOpen
  BY DEF AccumulatorInv
<1> QED
  BY <1>1, AccumulatorInvariant, PTL

(* The signature of a block is made, in their order, of fragments that      *)
(* followed its reasoning, and of all that push was given while the block   *)
(* was the last.                                                            *)
THEOREM SignaturesAttachedCorrect == Spec => []SignaturesAttached
<1>1. AccumulatorInv => SignaturesAttached
  BY RuleAttaches DEF AccumulatorInv
<1> QED
  BY <1>1, AccumulatorInvariant, PTL

(* push joins the fragments of a call's arguments in their order, however   *)
(* those of several calls are interleaved.                                  *)
THEOREM ArgumentsReassembledCorrect == Spec => []ArgumentsReassembled
<1>1. AccumulatorInv => ArgumentsReassembled
  BY DEF AccumulatorInv
<1> QED
  BY <1>1, AccumulatorInvariant, PTL

(* Usage::merge keeps for each count the one reported last.                 *)
THEOREM UsageKnownCorrect == Spec => []UsageKnown
<1>1. AccumulatorInv => UsageKnown
  BY DEF AccumulatorInv
<1> QED
  BY <1>1, AccumulatorInvariant, PTL

(* finish hands out no tool use with arguments that were cut off or belong  *)
(* to another, and leaves out nothing but tool uses of a cut-off reply.     *)
THEOREM CompletionHonestCorrect == Spec => []CompletionHonest
<1>1. AccumulatorInv => CompletionHonest
  BY DEF AccumulatorInv
<1> QED
  BY <1>1, AccumulatorInvariant, PTL
=============================================================================
