-------------------------- MODULE StreamReaderProofs --------------------------
(***************************************************************************)
(* Both stream readers keep what EventStream promises the model call, and  *)
(* hand over exactly what the bytes received mean, for every body, every   *)
(* cut into chunks, and every close and failure.                           *)
(***************************************************************************)
EXTENDS StreamReader, SelectionProofs

-----------------------------------------------------------------------------
(***************************************************************************)
(* The loops of the reader.  A recursive function is the one that is       *)
(* chosen, so that each loop begins with a proof that there is one.        *)
(***************************************************************************)
Bytes(f, taken, bytes, n) == f = [k \in 0..n |-> IF k = 0 THEN taken ELSE TakeByte(f[k - 1], bytes[k])]

LEMMA BytesExists ==
  ASSUME NEW taken, NEW bytes, NEW n \in Nat
  PROVE  \E f : Bytes(f, taken, bytes, n)
<1> DEFINE Holds == {m \in Nat : \E f : Bytes(f, taken, bytes, m)}
<1>1. 0 \in Holds
  <2> DEFINE f == [k \in 0..0 |-> taken]
  <2>1. Bytes(f, taken, bytes, 0)
    BY DEF Bytes
  <2> QED
    BY <2>1
<1>2. ASSUME NEW m \in Nat, m \in Holds PROVE m + 1 \in Holds
  <2>1. PICK g : Bytes(g, taken, bytes, m)
    BY <1>2
  <2> DEFINE f == [k \in 0..(m + 1) |-> IF k = m + 1 THEN TakeByte(g[m], bytes[k]) ELSE g[k]]
  <2>2. ASSUME NEW k \in 0..(m + 1)
        PROVE  f[k] = IF k = 0 THEN taken ELSE TakeByte(f[k - 1], bytes[k])
    <3>1. CASE k = m + 1
      <4>1. k # 0 /\ k - 1 = m /\ m \in 0..(m + 1) /\ m # m + 1
        BY <3>1
      <4>2. f[m] = g[m] /\ f[k] = TakeByte(g[m], bytes[k])
        BY <3>1, <4>1
      <4> QED
        BY <4>1, <4>2
    <3>2. CASE k = 0
      BY <2>1, <3>2 DEF Bytes
    <3>3. CASE k \in 1..m
      <4>1. k \in 0..m /\ k # 0 /\ k # m + 1 /\ k - 1 \in 0..(m + 1) /\ k - 1 # m + 1
        BY <3>3
      <4>2. f[k] = g[k] /\ f[k - 1] = g[k - 1]
        BY <4>1
      <4>3. g[k] = TakeByte(g[k - 1], bytes[k])
        BY <2>1, <4>1 DEF Bytes
      <4> QED
        BY <4>1, <4>2, <4>3
    <3> QED
      BY <3>1, <3>2, <3>3
  <2>3. f = [k \in 0..(m + 1) |-> f[k]]
    OBVIOUS
  <2> HIDE DEF f
  <2>4. Bytes(f, taken, bytes, m + 1)
    BY <2>2, <2>3 DEF Bytes
  <2> QED
    BY <2>4
<1> HIDE DEF Holds
<1>3. n \in Holds
  BY <1>1, <1>2, InductionUpTo
<1> QED
  BY <1>3 DEF Holds

(* push, byte by byte. *)
ByteSteps(f, taken, bytes, n) ==
  /\ f[0] = taken /\ f[n] = TakeBytes(taken, bytes)
  /\ \A k \in 1..n : f[k] = TakeByte(f[k - 1], bytes[k])

LEMMA TakeBytesSteps ==
  ASSUME NEW taken, NEW bytes, NEW n \in Nat, Len(bytes) = n
  PROVE  \E f : ByteSteps(f, taken, bytes, n)
<1>1. Bytes(CHOOSE f : Bytes(f, taken, bytes, n), taken, bytes, n)
  BY BytesExists
<1>2. PICK f : f = CHOOSE g : Bytes(g, taken, bytes, n)
  OBVIOUS
<1>3. TakeBytes(taken, bytes) = f[n]
  BY <1>2 DEF TakeBytes, Bytes
<1>4. Bytes(f, taken, bytes, n)
  BY <1>1, <1>2
<1>5. f[0] = taken
  BY <1>4 DEF Bytes
<1>6. \A k \in 1..n : f[k] = TakeByte(f[k - 1], bytes[k])
  <2>1. \A k \in 1..n : k \in 0..n /\ k # 0
    OBVIOUS
  <2> QED
    BY <1>4, <2>1 DEF Bytes
<1> QED
  BY <1>3, <1>5, <1>6 DEF ByteSteps

Calls(f, r, i, deltas, n) == f = [k \in 0..n |-> IF k = 0 THEN r ELSE AbsorbCall(f[k - 1], i, deltas[k])]

LEMMA CallsExists ==
  ASSUME NEW r, NEW i, NEW deltas, NEW n \in Nat
  PROVE  \E f : Calls(f, r, i, deltas, n)
<1> DEFINE Holds == {m \in Nat : \E f : Calls(f, r, i, deltas, m)}
<1>1. 0 \in Holds
  <2> DEFINE f == [k \in 0..0 |-> r]
  <2>1. Calls(f, r, i, deltas, 0)
    BY DEF Calls
  <2> QED
    BY <2>1
<1>2. ASSUME NEW m \in Nat, m \in Holds PROVE m + 1 \in Holds
  <2>1. PICK g : Calls(g, r, i, deltas, m)
    BY <1>2
  <2> DEFINE f == [k \in 0..(m + 1) |-> IF k = m + 1 THEN AbsorbCall(g[m], i, deltas[k]) ELSE g[k]]
  <2>2. ASSUME NEW k \in 0..(m + 1)
        PROVE  f[k] = IF k = 0 THEN r ELSE AbsorbCall(f[k - 1], i, deltas[k])
    <3>1. CASE k = m + 1
      <4>1. k # 0 /\ k - 1 = m /\ m \in 0..(m + 1) /\ m # m + 1
        BY <3>1
      <4>2. f[m] = g[m] /\ f[k] = AbsorbCall(g[m], i, deltas[k])
        BY <3>1, <4>1
      <4> QED
        BY <4>1, <4>2
    <3>2. CASE k = 0
      BY <2>1, <3>2 DEF Calls
    <3>3. CASE k \in 1..m
      <4>1. k \in 0..m /\ k # 0 /\ k # m + 1 /\ k - 1 \in 0..(m + 1) /\ k - 1 # m + 1
        BY <3>3
      <4>2. f[k] = g[k] /\ f[k - 1] = g[k - 1]
        BY <4>1
      <4>3. g[k] = AbsorbCall(g[k - 1], i, deltas[k])
        BY <2>1, <4>1 DEF Calls
      <4> QED
        BY <4>1, <4>2, <4>3
    <3> QED
      BY <3>1, <3>2, <3>3
  <2>3. f = [k \in 0..(m + 1) |-> f[k]]
    OBVIOUS
  <2> HIDE DEF f
  <2>4. Calls(f, r, i, deltas, m + 1)
    BY <2>2, <2>3 DEF Calls
  <2> QED
    BY <2>4
<1> HIDE DEF Holds
<1>3. n \in Holds
  BY <1>1, <1>2, InductionUpTo
<1> QED
  BY <1>3 DEF Holds

(* The deltas of a choice, one by one. *)
LEMMA AbsorbCallsSteps ==
  ASSUME NEW r, NEW i, NEW deltas, NEW n \in Nat, Len(deltas) = n
  PROVE  \E f : /\ f[0] = r /\ f[n] = AbsorbCalls(r, i, deltas)
               /\ \A k \in 1..n : f[k] = AbsorbCall(f[k - 1], i, deltas[k])
<1>1. Calls(CHOOSE f : Calls(f, r, i, deltas, n), r, i, deltas, n)
  BY CallsExists
<1>2. PICK f : f = CHOOSE g : Calls(g, r, i, deltas, n)
  OBVIOUS
<1>3. AbsorbCalls(r, i, deltas) = f[n]
  BY <1>2 DEF AbsorbCalls, Calls
<1>4. Calls(f, r, i, deltas, n)
  BY <1>1, <1>2
<1>5. f[0] = r
  BY <1>4 DEF Calls
<1>6. \A k \in 1..n : f[k] = AbsorbCall(f[k - 1], i, deltas[k])
  <2>1. \A k \in 1..n : k \in 0..n /\ k # 0
    OBVIOUS
  <2> QED
    BY <1>4, <2>1 DEF Calls
<1> QED
  BY <1>3, <1>5, <1>6

ChoiceLoop(f, r, i, choices, n) == f = [k \in 0..n |-> IF k = 0 THEN r ELSE IF choices[k].index = 0 THEN AbsorbChoice(f[k - 1], i, choices[k]) ELSE f[k - 1]]

LEMMA ChoiceLoopExists ==
  ASSUME NEW r, NEW i, NEW choices, NEW n \in Nat
  PROVE  \E f : ChoiceLoop(f, r, i, choices, n)
<1> DEFINE Holds == {m \in Nat : \E f : ChoiceLoop(f, r, i, choices, m)}
<1>1. 0 \in Holds
  <2> DEFINE f == [k \in 0..0 |-> r]
  <2>1. ChoiceLoop(f, r, i, choices, 0)
    BY DEF ChoiceLoop
  <2> QED
    BY <2>1
<1>2. ASSUME NEW m \in Nat, m \in Holds PROVE m + 1 \in Holds
  <2>1. PICK g : ChoiceLoop(g, r, i, choices, m)
    BY <1>2
  <2> DEFINE f == [k \in 0..(m + 1) |-> IF k = m + 1 THEN IF choices[k].index = 0 THEN AbsorbChoice(g[m], i, choices[k]) ELSE g[m] ELSE g[k]]
  <2>2. ASSUME NEW k \in 0..(m + 1)
        PROVE  f[k] = IF k = 0 THEN r ELSE IF choices[k].index = 0 THEN AbsorbChoice(f[k - 1], i, choices[k]) ELSE f[k - 1]
    <3>1. CASE k = m + 1
      <4>1. k # 0 /\ k - 1 = m /\ m \in 0..(m + 1) /\ m # m + 1
        BY <3>1
      <4>2. f[m] = g[m] /\ f[k] = IF choices[k].index = 0 THEN AbsorbChoice(g[m], i, choices[k]) ELSE g[m]
        BY <3>1, <4>1
      <4> QED
        BY <4>1, <4>2
    <3>2. CASE k = 0
      BY <2>1, <3>2 DEF ChoiceLoop
    <3>3. CASE k \in 1..m
      <4>1. k \in 0..m /\ k # 0 /\ k # m + 1 /\ k - 1 \in 0..(m + 1) /\ k - 1 # m + 1
        BY <3>3
      <4>2. f[k] = g[k] /\ f[k - 1] = g[k - 1]
        BY <4>1
      <4>3. g[k] = IF choices[k].index = 0 THEN AbsorbChoice(g[k - 1], i, choices[k]) ELSE g[k - 1]
        BY <2>1, <4>1 DEF ChoiceLoop
      <4> QED
        BY <4>1, <4>2, <4>3
    <3> QED
      BY <3>1, <3>2, <3>3
  <2>3. f = [k \in 0..(m + 1) |-> f[k]]
    OBVIOUS
  <2> HIDE DEF f
  <2>4. ChoiceLoop(f, r, i, choices, m + 1)
    BY <2>2, <2>3 DEF ChoiceLoop
  <2> QED
    BY <2>4
<1> HIDE DEF Holds
<1>3. n \in Holds
  BY <1>1, <1>2, InductionUpTo
<1> QED
  BY <1>3 DEF Holds

(* The choices of a chunk, one by one. *)
LEMMA AbsorbChoicesSteps ==
  ASSUME NEW r, NEW i, NEW choices, NEW n \in Nat, Len(choices) = n
  PROVE  \E f : /\ f[0] = r /\ f[n] = AbsorbChoices(r, i, choices)
               /\ \A k \in 1..n : f[k] = IF choices[k].index = 0 THEN AbsorbChoice(f[k - 1], i, choices[k]) ELSE f[k - 1]
<1>1. ChoiceLoop(CHOOSE f : ChoiceLoop(f, r, i, choices, n), r, i, choices, n)
  BY ChoiceLoopExists
<1>2. PICK f : f = CHOOSE g : ChoiceLoop(g, r, i, choices, n)
  OBVIOUS
<1>3. AbsorbChoices(r, i, choices) = f[n]
  BY <1>2 DEF AbsorbChoices, ChoiceLoop
<1>4. ChoiceLoop(f, r, i, choices, n)
  BY <1>1, <1>2
<1>5. f[0] = r
  BY <1>4 DEF ChoiceLoop
<1>6. \A k \in 1..n : f[k] = IF choices[k].index = 0 THEN AbsorbChoice(f[k - 1], i, choices[k]) ELSE f[k - 1]
  <2>1. \A k \in 1..n : k \in 0..n /\ k # 0
    OBVIOUS
  <2> QED
    BY <1>4, <2>1 DEF ChoiceLoop
<1> QED
  BY <1>3, <1>5, <1>6

LineLoop(f, r, lines, n) == f = [k \in 0..n |-> IF k = 0 THEN r ELSE AbsorbLine(f[k - 1], lines[k])]

LEMMA LineLoopExists ==
  ASSUME NEW r, NEW lines, NEW n \in Nat
  PROVE  \E f : LineLoop(f, r, lines, n)
<1> DEFINE Holds == {m \in Nat : \E f : LineLoop(f, r, lines, m)}
<1>1. 0 \in Holds
  <2> DEFINE f == [k \in 0..0 |-> r]
  <2>1. LineLoop(f, r, lines, 0)
    BY DEF LineLoop
  <2> QED
    BY <2>1
<1>2. ASSUME NEW m \in Nat, m \in Holds PROVE m + 1 \in Holds
  <2>1. PICK g : LineLoop(g, r, lines, m)
    BY <1>2
  <2> DEFINE f == [k \in 0..(m + 1) |-> IF k = m + 1 THEN AbsorbLine(g[m], lines[k]) ELSE g[k]]
  <2>2. ASSUME NEW k \in 0..(m + 1)
        PROVE  f[k] = IF k = 0 THEN r ELSE AbsorbLine(f[k - 1], lines[k])
    <3>1. CASE k = m + 1
      <4>1. k # 0 /\ k - 1 = m /\ m \in 0..(m + 1) /\ m # m + 1
        BY <3>1
      <4>2. f[m] = g[m] /\ f[k] = AbsorbLine(g[m], lines[k])
        BY <3>1, <4>1
      <4> QED
        BY <4>1, <4>2
    <3>2. CASE k = 0
      BY <2>1, <3>2 DEF LineLoop
    <3>3. CASE k \in 1..m
      <4>1. k \in 0..m /\ k # 0 /\ k # m + 1 /\ k - 1 \in 0..(m + 1) /\ k - 1 # m + 1
        BY <3>3
      <4>2. f[k] = g[k] /\ f[k - 1] = g[k - 1]
        BY <4>1
      <4>3. g[k] = AbsorbLine(g[k - 1], lines[k])
        BY <2>1, <4>1 DEF LineLoop
      <4> QED
        BY <4>1, <4>2, <4>3
    <3> QED
      BY <3>1, <3>2, <3>3
  <2>3. f = [k \in 0..(m + 1) |-> f[k]]
    OBVIOUS
  <2> HIDE DEF f
  <2>4. LineLoop(f, r, lines, m + 1)
    BY <2>2, <2>3 DEF LineLoop
  <2> QED
    BY <2>4
<1> HIDE DEF Holds
<1>3. n \in Holds
  BY <1>1, <1>2, InductionUpTo
<1> QED
  BY <1>3 DEF Holds

(* The lines of a chunk, one by one. *)
LineSteps(f, r, lines, n) ==
  /\ f[0] = r /\ f[n] = AbsorbLines(r, lines)
  /\ \A k \in 1..n : f[k] = AbsorbLine(f[k - 1], lines[k])

LEMMA AbsorbLinesSteps ==
  ASSUME NEW r, NEW lines, NEW n \in Nat, Len(lines) = n
  PROVE  \E f : LineSteps(f, r, lines, n)
<1>1. LineLoop(CHOOSE f : LineLoop(f, r, lines, n), r, lines, n)
  BY LineLoopExists
<1>2. PICK f : f = CHOOSE g : LineLoop(g, r, lines, n)
  OBVIOUS
<1>3. AbsorbLines(r, lines) = f[n]
  BY <1>2 DEF AbsorbLines, LineLoop
<1>4. LineLoop(f, r, lines, n)
  BY <1>1, <1>2
<1>5. f[0] = r
  BY <1>4 DEF LineLoop
<1>6. \A k \in 1..n : f[k] = AbsorbLine(f[k - 1], lines[k])
  <2>1. \A k \in 1..n : k \in 0..n /\ k # 0
    OBVIOUS
  <2> QED
    BY <1>4, <2>1 DEF LineLoop
<1> QED
  BY <1>3, <1>5, <1>6 DEF LineSteps

-----------------------------------------------------------------------------
(***************************************************************************)
(* Types.                                                                  *)
(***************************************************************************)
Kinds == {"start", "arguments", "reasoning", "text", "usage", "redacted", "signature",
          "finished", "failure"}
(* The literals of the module are strings too, which the provers do not know. *)
Literals == {"", "reasoning_content", "reasoning", "thinking", "EndOfTurn", "ToolUse", "MaxTokens",
             "Other", "transport", "decode", "status"}
Texts == STRING \cup Literals
Ids   == Texts \cup {"tool_call_" \o ToString(n) : n \in Nat}
Sent  == [kind : Kinds, id : Ids, from : Nat]
Held(n) == Seq((1..n) \X (1..3))

ReaderType(r, n) ==
  /\ r = [held |-> r.held, ids |-> r.ids, model |-> r.model, finish |-> r.finish,
          pending |-> r.pending, done |-> r.done]
  /\ r.held \in Held(n) /\ r.pending \in Seq(Sent) /\ r.done \in BOOLEAN
  /\ r.model \in Nat /\ r.finish \in Ids
  /\ r.ids = [x \in DOMAIN r.ids |-> r.ids[x]] /\ \A x \in DOMAIN r.ids : r.ids[x] \in Ids

LEMMA EventType ==
  ASSUME NEW kind \in Kinds, NEW id \in Ids, NEW from \in Nat
  PROVE  /\ Event(kind, id, from) \in Sent
         /\ Event(kind, id, from).kind = kind /\ Event(kind, id, from).id = id
BY DEF Event, Sent

LEMMA InsertFacts ==
  ASSUME NEW ids, NEW index, NEW id, ids = [x \in DOMAIN ids |-> ids[x]]
  PROVE  LET with == Insert(ids, index, id)
         IN  /\ with = [x \in DOMAIN with |-> with[x]] /\ index \in DOMAIN with /\ with[index] = id
             /\ \A x \in DOMAIN with : x = index \/ (x \in DOMAIN ids /\ with[x] = ids[x])
             /\ index \in DOMAIN ids /\ ids[index] = id => with = ids
BY DEF Insert

-----------------------------------------------------------------------------
(***************************************************************************)
(* What has been handed over and what is queued, as one history: nothing   *)
(* follows a final item, the reader is done exactly if there is one, and a *)
(* fragment of arguments has had its start.                                *)
(***************************************************************************)
FinalItem(item) == item.kind \in {"finished", "failure"}

StartedIn(h, id, n) == \E j \in 1..n : h[j].kind = "start" /\ h[j].id = id

Orderly(h, ids, done) ==
  /\ h \in Seq(Sent)
  /\ \A k \in 1..Len(h) : FinalItem(h[k]) => k = Len(h)
  /\ done <=> h # <<>> /\ FinalItem(h[Len(h)])
  /\ \A k \in 1..Len(h) : h[k].kind = "arguments" => StartedIn(h, h[k].id, k - 1)
  /\ \A x \in DOMAIN ids : StartedIn(h, ids[x], Len(h))

(* One item more. *)
LEMMA OrderlyAppend ==
  ASSUME NEW h, NEW ids, Orderly(h, ids, FALSE), NEW e \in Sent, NEW more,
         e.kind = "arguments" => StartedIn(h, e.id, Len(h)),
         \A x \in DOMAIN more : (x \in DOMAIN ids /\ more[x] = ids[x])
                                \/ (e.kind = "start" /\ more[x] = e.id)
  PROVE  Orderly(Append(h, e), more, FinalItem(e))
<1>1. PICK n, g : n = Len(h) /\ g = Append(h, e)
  OBVIOUS
<1>2. h \in Seq(Sent) /\ n \in Nat
  BY <1>1 DEF Orderly
<1>3. g \in Seq(Sent) /\ Len(g) = n + 1 /\ g[n + 1] = e /\ \A k \in 1..n : g[k] = h[k]
  BY <1>1, <1>2, AppendProperties
<1>4. \A k \in 1..(n + 1) : k = n + 1 \/ (k \in 1..n /\ k # n + 1)
  BY <1>2
<1>5. \A k \in 1..n : ~FinalItem(h[k])
  <2>1. ASSUME NEW k \in 1..n, FinalItem(h[k]) PROVE FALSE
    <3>1. k = n
      BY <1>1, <2>1 DEF Orderly
    <3>2. h # <<>> /\ FinalItem(h[Len(h)])
      BY <1>1, <1>2, <2>1, <3>1
    <3> QED
      BY <3>2 DEF Orderly
  <2> QED
    BY <2>1
<1>6. \A k \in 1..(n + 1) : FinalItem(g[k]) => k = n + 1
  BY <1>3, <1>4, <1>5
<1>7. ASSUME NEW m \in 0..n, NEW id, StartedIn(h, id, m) PROVE StartedIn(g, id, m)
  BY <1>2, <1>3, <1>7 DEF StartedIn
<1>8. ASSUME NEW m \in 0..n, NEW id, StartedIn(g, id, m) PROVE StartedIn(g, id, n + 1)
  BY <1>2, <1>8 DEF StartedIn
<1>9. ASSUME NEW k \in 1..(n + 1), g[k].kind = "arguments" PROVE StartedIn(g, g[k].id, k - 1)
  <2>1. CASE k = n + 1
    <3>1. StartedIn(h, e.id, n) /\ n \in 0..n
      BY <1>1, <1>2, <1>3, <1>9, <2>1
    <3>2. StartedIn(g, e.id, n)
      BY <1>7, <3>1
    <3>3. k - 1 = n
      BY <1>2, <2>1
    <3> QED
      BY <1>3, <2>1, <3>2, <3>3
  <2>2. CASE k \in 1..n
    <3>1. StartedIn(h, h[k].id, k - 1) /\ k - 1 \in 0..n
      BY <1>1, <1>3, <1>9, <2>2 DEF Orderly
    <3> QED
      BY <1>3, <1>7, <2>2, <3>1
  <2> QED
    BY <1>4, <2>1, <2>2
<1>10. ASSUME NEW x \in DOMAIN more PROVE StartedIn(g, more[x], n + 1)
  <2>1. CASE x \in DOMAIN ids /\ more[x] = ids[x]
    <3>1. StartedIn(h, more[x], n) /\ n \in 0..n
      BY <1>1, <1>2, <2>1 DEF Orderly
    <3> QED
      BY <1>7, <1>8, <3>1
  <2>2. CASE e.kind = "start" /\ more[x] = e.id
    <3>1. n + 1 \in 1..(n + 1)
      BY <1>2
    <3> QED
      BY <1>3, <2>2, <3>1 DEF StartedIn
  <2> QED
    BY <2>1, <2>2
<1>11. g # <<>>
  BY <1>2, <1>3
<1> QED
  BY <1>1, <1>3, <1>6, <1>9, <1>10, <1>11 DEF Orderly

(* A reader that is in order after `before`. *)
Good(r, before, n) == ReaderType(r, n) /\ before \in Seq(Sent) /\ Orderly(before \o r.pending, r.ids, r.done)

LEMMA QueueParts ==
  ASSUME NEW r, NEW n, ReaderType(r, n)
  PROVE  /\ Queue(r, <<>>) = r
         /\ \A s, t \in Seq(Sent) : Queue(r, s \o t) = Queue(Queue(r, s), t)
<1>1. r.pending \in Seq(Sent) /\ r.pending \o <<>> = r.pending
  BY DEF ReaderType
<1>2. Queue(r, <<>>) = r
  <2>1. [r EXCEPT !.pending = r.pending] = r
    BY DEF ReaderType
  <2> QED
    BY <1>1, <2>1 DEF Queue
<1>3. ASSUME NEW s \in Seq(Sent), NEW t \in Seq(Sent)
      PROVE  Queue(r, s \o t) = Queue(Queue(r, s), t)
  <2>1. PICK p, a, b : p = r.pending /\ a = p \o s /\ b = p \o (s \o t)
    OBVIOUS
  <2>2. b = a \o t
    <3>1. PICK S : S = Sent
      OBVIOUS
    <3>2. p \in Seq(S) /\ s \in Seq(S) /\ t \in Seq(S)
      BY <1>1, <2>1, <3>1
    <3>3. p \o (s \o t) = (p \o s) \o t
      BY <3>2
    <3> QED
      BY <2>1, <3>3
  <2>3. Queue(r, s).pending = a /\ Queue(r, s) = [r EXCEPT !.pending = a]
    BY <2>1 DEF Queue, ReaderType
  <2>4. Queue(Queue(r, s), t) = [r EXCEPT !.pending = a \o t]
    BY <2>3 DEF Queue, ReaderType
  <2> QED
    BY <2>1, <2>2, <2>4 DEF Queue
<1> QED
  BY <1>2, <1>3

(* A reader that is in order and has not ended. *)
Live(r, before, n) == Good(r, before, n) /\ ~r.done

LEMMA ConcatOne ==
  ASSUME NEW S, NEW s \in Seq(S), NEW t \in Seq(S), NEW e \in S
  PROVE  /\ t \o <<e>> = Append(t, e) /\ s \o Append(t, e) = Append(s \o t, e)
         /\ s \o t \in Seq(S) /\ Append(t, e) \in Seq(S)
OBVIOUS

(* One item more is queued, and perhaps a tool use is known by it. *)
LEMMA QueueOne ==
  ASSUME NEW r, NEW before, NEW n, Live(r, before, n), NEW e \in Sent, NEW more, NEW done,
         done = FinalItem(e),
         e.kind = "arguments" => StartedIn(before \o r.pending, e.id, Len(before \o r.pending)),
         more = [x \in DOMAIN more |-> more[x]],
         \A x \in DOMAIN more : (x \in DOMAIN r.ids /\ more[x] = r.ids[x])
                                \/ (e.kind = "start" /\ more[x] = e.id)
  PROVE  Good([r EXCEPT !.ids = more, !.pending = Append(@, e), !.done = done], before, n)
<1>1. PICK q : q = [r EXCEPT !.ids = more, !.pending = Append(@, e), !.done = done]
  OBVIOUS
<1>2. PICK S, p : S = Sent /\ p = r.pending
  OBVIOUS
<1>3. ReaderType(r, n) /\ before \in Seq(S) /\ p \in Seq(S) /\ e \in S
  BY <1>2 DEF Live, Good, ReaderType
<1>4. before \o Append(p, e) = Append(before \o p, e) /\ Append(p, e) \in Seq(S)
  BY <1>3, ConcatOne
<1>5. Orderly(before \o p, r.ids, FALSE)
  <2>1. r.done = FALSE
    BY DEF Live, Good, ReaderType
  <2> QED
    BY <1>2, <2>1 DEF Live, Good
<1>6. Orderly(Append(before \o p, e), more, FinalItem(e))
  BY <1>2, <1>5, OrderlyAppend
<1>7. /\ q = [held |-> r.held, ids |-> more, model |-> r.model, finish |-> r.finish,
              pending |-> Append(p, e), done |-> done]
  BY <1>1, <1>2, <1>3 DEF ReaderType
<1>8. \A x \in DOMAIN more : more[x] \in Ids
  BY <1>3 DEF ReaderType, Sent
<1>9. done \in BOOLEAN
  BY DEF FinalItem
<1>10. ReaderType(q, n)
  BY <1>2, <1>3, <1>4, <1>7, <1>8, <1>9 DEF ReaderType
<1> QED
  BY <1>1, <1>2, <1>3, <1>4, <1>6, <1>7, <1>10 DEF Good

(* An event that is not about a tool use. *)
LEMMA QueueEvent ==
  ASSUME NEW r, NEW before, NEW n, Live(r, before, n), NEW e \in Sent,
         e.kind \notin {"start", "arguments", "finished", "failure"}
  PROVE  Live(Queue(r, <<e>>), before, n) /\ Queue(r, <<e>>).ids = r.ids
<1>1. ReaderType(r, n) /\ r.done = FALSE
  BY DEF Live, Good, ReaderType
<1>2. PICK p, S : p = r.pending /\ S = Sent
  OBVIOUS
<1>3. p \in Seq(S) /\ e \in S
  BY <1>1, <1>2 DEF ReaderType
<1>4. p \o <<e>> = Append(p, e)
  BY <1>3
<1>5. Queue(r, <<e>>) = [r EXCEPT !.ids = r.ids, !.pending = Append(@, e), !.done = FALSE]
  BY <1>1, <1>2, <1>4 DEF ReaderType, Queue
<1>6. FinalItem(e) = FALSE
  BY DEF FinalItem
<1>7. r.ids = [x \in DOMAIN r.ids |-> r.ids[x]]
  BY <1>1 DEF ReaderType
<1>8. Good([r EXCEPT !.ids = r.ids, !.pending = Append(@, e), !.done = FALSE], before, n)
  BY <1>6, <1>7, QueueOne
<1>9. Queue(r, <<e>>).ids = r.ids /\ Queue(r, <<e>>).done = FALSE
  BY <1>1, <1>5 DEF ReaderType
<1> QED
  BY <1>5, <1>8, <1>9 DEF Live

(* A fragment of a tool use that is known. *)
LEMMA QueueArguments ==
  ASSUME NEW r, NEW before, NEW n, Live(r, before, n), NEW index \in DOMAIN r.ids, NEW i \in Nat
  PROVE  /\ Live(Queue(r, <<Event("arguments", r.ids[index], i)>>), before, n)
         /\ Queue(r, <<Event("arguments", r.ids[index], i)>>).ids = r.ids
<1>1. ReaderType(r, n) /\ r.done = FALSE
  BY DEF Live, Good, ReaderType
<1>2. PICK p, S, e : p = r.pending /\ S = Sent /\ e = Event("arguments", r.ids[index], i)
  OBVIOUS
<1>3. r.ids[index] \in Ids
  BY <1>1 DEF ReaderType
<1>4. p \in Seq(S) /\ e \in S /\ e.kind = "arguments" /\ e.id = r.ids[index] /\ e \in Sent
  BY <1>1, <1>2, <1>3, EventType DEF ReaderType, Kinds
<1>5. p \o <<e>> = Append(p, e)
  BY <1>4
<1>6. Queue(r, <<e>>) = [r EXCEPT !.ids = r.ids, !.pending = Append(@, e), !.done = FALSE]
  BY <1>1, <1>2, <1>5 DEF ReaderType, Queue
<1>7. FinalItem(e) = FALSE
  BY <1>4 DEF FinalItem
<1>8. r.ids = [x \in DOMAIN r.ids |-> r.ids[x]]
  BY <1>1 DEF ReaderType
<1>9. StartedIn(before \o r.pending, e.id, Len(before \o r.pending))
  BY <1>4 DEF Live, Good, Orderly
<1>10. Good([r EXCEPT !.ids = r.ids, !.pending = Append(@, e), !.done = FALSE], before, n)
  BY <1>4, <1>7, <1>8, <1>9, QueueOne
<1>11. Queue(r, <<e>>).ids = r.ids /\ Queue(r, <<e>>).done = FALSE
  BY <1>1, <1>6 DEF ReaderType
<1> QED
  BY <1>2, <1>6, <1>10, <1>11 DEF Live

Knows(r, index, id) == [r EXCEPT !.ids = Insert(@, index, id)]

(* A tool use that starts, under an index that may have been in use. *)
LEMMA QueueStart ==
  ASSUME NEW r, NEW before, NEW n, Live(r, before, n), NEW index, NEW id \in Ids, NEW i \in Nat
  PROVE  \E q : /\ q = Queue(Knows(r, index, id), <<Event("start", id, i)>>)
               /\ Live(q, before, n) /\ index \in DOMAIN q.ids /\ q.ids[index] = id
<1>1. ReaderType(r, n) /\ r.done = FALSE
  BY DEF Live, Good, ReaderType
<1>2. PICK p, S, e, more :
        p = r.pending /\ S = Sent /\ e = Event("start", id, i) /\ more = Insert(r.ids, index, id)
  OBVIOUS
<1>3. p \in Seq(S) /\ e \in S /\ e.kind = "start" /\ e.id = id /\ e \in Sent
  BY <1>1, <1>2, EventType DEF ReaderType, Kinds
<1>4. p \o <<e>> = Append(p, e)
  BY <1>3
<1>5. /\ more = [x \in DOMAIN more |-> more[x]] /\ index \in DOMAIN more /\ more[index] = id
      /\ \A x \in DOMAIN more : x = index \/ (x \in DOMAIN r.ids /\ more[x] = r.ids[x])
  <2>1. r.ids = [x \in DOMAIN r.ids |-> r.ids[x]]
    BY <1>1 DEF ReaderType
  <2> QED
    BY <1>2, <2>1, InsertFacts
<1>6. PICK q : q = Queue(Knows(r, index, id), <<e>>)
  OBVIOUS
<1>7. q = [r EXCEPT !.ids = more, !.pending = Append(@, e), !.done = FALSE]
  BY <1>1, <1>2, <1>4, <1>6 DEF ReaderType, Queue, Knows
<1>8. FinalItem(e) = FALSE
  BY <1>3 DEF FinalItem
<1>9. \A x \in DOMAIN more : (x \in DOMAIN r.ids /\ more[x] = r.ids[x]) \/ (e.kind = "start" /\ more[x] = e.id)
  BY <1>3, <1>5
<1>10. Good([r EXCEPT !.ids = more, !.pending = Append(@, e), !.done = FALSE], before, n)
  BY <1>3, <1>5, <1>8, <1>9, QueueOne
<1>11. q.ids = more /\ q.done = FALSE
  BY <1>1, <1>7 DEF ReaderType
<1> QED
  BY <1>2, <1>5, <1>6, <1>7, <1>10, <1>11 DEF Live

LEMMA InsertType ==
  ASSUME NEW r, NEW n, ReaderType(r, n), NEW index, NEW id \in Ids
  PROVE  /\ ReaderType(Knows(r, index, id), n)
         /\ index \in DOMAIN r.ids /\ r.ids[index] = id => Knows(r, index, id) = r
<1>1. PICK more, q : more = Insert(r.ids, index, id) /\ q = Knows(r, index, id)
  OBVIOUS
<1>2. r.ids = [x \in DOMAIN r.ids |-> r.ids[x]]
  BY DEF ReaderType
<1>3. /\ more = [x \in DOMAIN more |-> more[x]] /\ more[index] = id
      /\ \A x \in DOMAIN more : x = index \/ (x \in DOMAIN r.ids /\ more[x] = r.ids[x])
      /\ index \in DOMAIN r.ids /\ r.ids[index] = id => more = r.ids
  BY <1>1, <1>2, InsertFacts
<1>4. \A x \in DOMAIN more : more[x] \in Ids
  BY <1>3 DEF ReaderType
<1>5. q = [held |-> r.held, ids |-> more, model |-> r.model, finish |-> r.finish,
           pending |-> r.pending, done |-> r.done]
  BY <1>1 DEF ReaderType, Knows
<1>6. ReaderType(q, n)
  BY <1>3, <1>4, <1>5 DEF ReaderType
<1>7. more = r.ids => q = r
  BY <1>5 DEF ReaderType
<1> QED
  BY <1>1, <1>3, <1>6, <1>7

LEMMA AbsorbCallKeeps ==
  ASSUME NEW r, NEW before, NEW n, Live(r, before, n), NEW i \in Nat, NEW delta \in CallDelta
  PROVE  Live(AbsorbCall(r, i, delta), before, n)
<1>1. ReaderType(r, n) /\ delta.index \in Nat /\ delta.id \in STRING /\ delta.arguments \in BOOLEAN
  BY DEF Live, Good, CallDelta
<1>2. PICK index, given : /\ index = delta.index
                          /\ given = IF delta.id # "" THEN delta.id ELSE "tool_call_" \o ToString(delta.index)
  OBVIOUS
<1>3. given \in Ids
  BY <1>1, <1>2 DEF Ids, Texts
<1>4. CASE index \notin DOMAIN r.ids
  <2>1. PICK e, a, r2, q : /\ e = Event("start", given, i) /\ a = Event("arguments", given, i)
                           /\ r2 = Knows(r, index, given) /\ q = Queue(r2, <<e>>)
    OBVIOUS
  <2>2. Live(q, before, n) /\ index \in DOMAIN q.ids /\ q.ids[index] = given
    <3>1. \E s : /\ s = Queue(Knows(r, index, given), <<Event("start", given, i)>>)
                 /\ Live(s, before, n) /\ index \in DOMAIN s.ids /\ s.ids[index] = given
      BY <1>3, QueueStart
    <3> QED
      BY <2>1, <3>1
  <2>3. Live(Queue(q, <<a>>), before, n)
    BY <2>1, <2>2, QueueArguments
  <2>4. e \in Sent /\ a \in Sent
    BY <1>3, <2>1, EventType DEF Kinds
  <2>5. ReaderType(r2, n)
    BY <1>1, <1>3, <2>1, InsertType
  <2>6. <<e>> \in Seq(Sent) /\ <<a>> \in Seq(Sent) /\ <<e>> \o <<>> = <<e>>
    BY <2>4
  <2>7. Queue(r2, <<e>> \o <<a>>) = Queue(q, <<a>>)
    <3>1. PICK s, t : s = <<e>> /\ t = <<a>>
      OBVIOUS
    <3>2. s \in Seq(Sent) /\ t \in Seq(Sent)
      BY <2>6, <3>1
    <3>3. Queue(r2, s \o t) = Queue(Queue(r2, s), t)
      BY <2>5, <3>2, QueueParts
    <3> QED
      BY <2>1, <3>1, <3>3
  <2>8. AbsorbCall(r, i, delta) = IF delta.arguments THEN Queue(r2, <<e>> \o <<a>>) ELSE Queue(r2, <<e>> \o <<>>)
    BY <1>1, <1>2, <1>4, <2>1 DEF AbsorbCall, Knows
  <2> QED
    BY <1>1, <2>1, <2>2, <2>3, <2>6, <2>7, <2>8
<1>5. CASE index \in DOMAIN r.ids
  <2>1. PICK id, a, r2 : id = r.ids[index] /\ a = Event("arguments", id, i) /\ r2 = Knows(r, index, id)
    OBVIOUS
  <2>2. id \in Ids
    BY <1>1, <1>5, <2>1 DEF ReaderType
  <2>3. r2 = r
    BY <1>1, <1>5, <2>1, <2>2, InsertType
  <2>4. a \in Sent
    BY <2>1, <2>2, EventType DEF Kinds
  <2>5. <<>> \o <<a>> = <<a>> /\ <<>> \o <<>> = <<>>
    BY <2>4
  <2>6. AbsorbCall(r, i, delta) = IF delta.arguments THEN Queue(r2, <<>> \o <<a>>) ELSE Queue(r2, <<>> \o <<>>)
    BY <1>1, <1>2, <1>5, <2>1 DEF AbsorbCall, Knows
  <2>7. Live(Queue(r, <<a>>), before, n)
    BY <1>5, <2>1, QueueArguments
  <2>8. Queue(r, <<>>) = r
    BY <1>1, QueueParts
  <2> QED
    BY <1>1, <2>3, <2>5, <2>6, <2>7, <2>8
<1> QED
  BY <1>4, <1>5

LEMMA AbsorbCallsKeep ==
  ASSUME NEW r, NEW before, NEW n, Live(r, before, n), NEW i \in Nat, NEW deltas \in Seq(CallDelta)
  PROVE  Live(AbsorbCalls(r, i, deltas), before, n)
<1>1. PICK m : m \in Nat /\ m = Len(deltas) /\ \A k \in 1..m : deltas[k] \in CallDelta
  OBVIOUS
<1>2. PICK f : /\ f[0] = r /\ f[m] = AbsorbCalls(r, i, deltas)
               /\ \A k \in 1..m : f[k] = AbsorbCall(f[k - 1], i, deltas[k])
  <2>1. m \in Nat /\ Len(deltas) = m
    BY <1>1
  <2> QED
    BY <2>1, AbsorbCallsSteps
<1> DEFINE Holds == {k \in 0..m : Live(f[k], before, n)}
<1>3. 0 \in Holds
  BY <1>1, <1>2
<1>4. ASSUME NEW k \in 0..m, k \in Holds, k < m PROVE k + 1 \in Holds
  <2>1. k + 1 \in 1..m /\ k + 1 \in 0..m /\ (k + 1) - 1 = k
    BY <1>1, <1>4
  <2>2. f[k + 1] = AbsorbCall(f[k], i, deltas[k + 1]) /\ deltas[k + 1] \in CallDelta
    BY <1>1, <1>2, <2>1
  <2>3. Live(f[k], before, n)
    BY <1>4
  <2>4. Live(f[k + 1], before, n)
    BY <2>2, <2>3, AbsorbCallKeeps
  <2> QED
    BY <2>1, <2>4
<1> HIDE DEF Holds
<1>5. m \in Holds
  <2>1. \A k \in 0..m : k \in Holds
    BY <1>1, <1>3, <1>4, InductionUpTo
  <2> QED
    BY <1>1, <2>1
<1> QED
  BY <1>2, <1>5 DEF Holds

Named(r, model)  == [r EXCEPT !.model = model]
Stopped(r, stop) == [r EXCEPT !.finish = stop]

LEMMA FieldsKeep ==
  ASSUME NEW r, NEW before, NEW n, Live(r, before, n)
  PROVE  /\ \A model \in Nat : Live(Named(r, model), before, n) /\ Named(r, model).ids = r.ids
         /\ \A stop \in Texts : Live(Stopped(r, stop), before, n) /\ Stopped(r, stop).ids = r.ids
<1>1. ReaderType(r, n)
  BY DEF Live, Good
<1>2. ASSUME NEW model \in Nat PROVE Live(Named(r, model), before, n) /\ Named(r, model).ids = r.ids
  <2>1. PICK q : q = Named(r, model)
    OBVIOUS
  <2>2. q = [held |-> r.held, ids |-> r.ids, model |-> model, finish |-> r.finish,
             pending |-> r.pending, done |-> r.done]
    BY <1>1, <2>1 DEF ReaderType, Named
  <2>3. ReaderType(q, n)
    BY <1>1, <2>2 DEF ReaderType
  <2>4. Live(q, before, n)
    BY <2>2, <2>3 DEF Live, Good
  <2> QED
    BY <2>1, <2>2, <2>4
<1>3. ASSUME NEW stop \in Texts PROVE Live(Stopped(r, stop), before, n) /\ Stopped(r, stop).ids = r.ids
  <2>1. PICK q : q = Stopped(r, stop)
    OBVIOUS
  <2>2. q = [held |-> r.held, ids |-> r.ids, model |-> r.model, finish |-> stop,
             pending |-> r.pending, done |-> r.done]
    BY <1>1, <2>1 DEF ReaderType, Stopped
  <2>3. stop \in Ids
    BY DEF Ids
  <2>4. ReaderType(q, n)
    BY <1>1, <2>2, <2>3 DEF ReaderType
  <2>5. Live(q, before, n)
    BY <2>2, <2>4 DEF Live, Good
  <2> QED
    BY <2>1, <2>2, <2>5
<1> QED
  BY <1>2, <1>3

(* An event that is not about a tool use, if there is one. *)
Plain == {e \in Sent : e.kind \notin {"start", "arguments", "finished", "failure"}}

LEMMA PlainEvent ==
  ASSUME NEW kind \in {"reasoning", "text", "usage", "redacted", "signature"}, NEW id \in Texts, NEW i \in Nat
  PROVE  Event(kind, id, i) \in Plain
<1>1. kind \in Kinds /\ id \in Ids
  BY DEF Kinds, Ids
<1>2. Event(kind, id, i) \in Sent /\ Event(kind, id, i).kind = kind
  BY <1>1, EventType
<1> QED
  BY <1>2 DEF Plain

LEMMA QueueMaybe ==
  ASSUME NEW r, NEW before, NEW n, Live(r, before, n), NEW e \in Plain, NEW s, s \in {<<>>, <<e>>}
  PROVE  Live(Queue(r, s), before, n) /\ Queue(r, s).ids = r.ids
<1>1. ReaderType(r, n)
  BY DEF Live, Good
<1>2. e \in Sent /\ e.kind \notin {"start", "arguments", "finished", "failure"}
  BY DEF Plain
<1>3. CASE s = <<>>
  <2>1. Queue(r, <<>>) = r
    BY <1>1, QueueParts
  <2> QED
    BY <1>3, <2>1
<1>4. CASE s = <<e>>
  BY <1>2, <1>4, QueueEvent
<1> QED
  BY <1>3, <1>4

LEMMA AbsorbChoiceKeeps ==
  ASSUME NEW r, NEW before, NEW n, Live(r, before, n), NEW i \in Nat, NEW choice \in StreamChoice
  PROVE  Live(AbsorbChoice(r, i, choice), before, n)
<1>1. choice.calls \in Seq(CallDelta) /\ choice.finish \in STRING
  BY DEF StreamChoice
<1>2. PICK e, f, s, t : /\ e = Event("reasoning", ReasoningText(choice.reasoning), i) /\ f = Event("text", "", i)
                        /\ s = IF choice.reasoning = {} THEN <<>> ELSE <<e>>
                        /\ t = IF choice.text THEN <<f>> ELSE <<>>
  OBVIOUS
<1>3. e \in Plain /\ f \in Plain
  <2>1. ReasoningText(choice.reasoning) \in {"reasoning_content", "reasoning", "thinking"}
    BY DEF ReasoningText
  <2>2. ReasoningText(choice.reasoning) \in Texts /\ "" \in Texts
    BY <2>1 DEF Texts, Literals
  <2>3. Event("reasoning", ReasoningText(choice.reasoning), i) \in Plain
    BY <2>2, PlainEvent
  <2>4. Event("text", "", i) \in Plain
    BY <2>2, PlainEvent
  <2> QED
    BY <1>2, <2>3, <2>4
<1>4. s \in {<<>>, <<e>>} /\ t \in {<<>>, <<f>>}
  BY <1>2
<1>5. PICK q1 : q1 = Queue(r, s)
  OBVIOUS
<1>6. Live(q1, before, n)
  BY <1>3, <1>4, <1>5, QueueMaybe
<1>7. Live(Queue(q1, t), before, n)
  BY <1>3, <1>4, <1>6, QueueMaybe
<1>8. s \in Seq(Sent) /\ t \in Seq(Sent)
  <2>1. e \in Sent /\ f \in Sent
    BY <1>3 DEF Plain
  <2>2. <<>> \in Seq(Sent) /\ <<e>> \in Seq(Sent) /\ <<f>> \in Seq(Sent)
    BY <2>1
  <2> QED
    BY <1>4, <2>2
<1>9. Queue(r, s \o t) = Queue(q1, t)
  <2>1. ReaderType(r, n)
    BY DEF Live, Good
  <2> QED
    BY <1>5, <1>8, <2>1, QueueParts
<1>10. PICK called : called = AbsorbCalls(Queue(r, s \o t), i, choice.calls)
  OBVIOUS
<1>11. Live(called, before, n)
  BY <1>1, <1>7, <1>9, <1>10, AbsorbCallsKeep
<1>12. AbsorbChoice(r, i, choice) = IF choice.finish = "" THEN called ELSE Stopped(called, OpenAiStop(choice.finish))
  BY <1>2, <1>10 DEF AbsorbChoice, Stopped
<1>13. OpenAiStop(choice.finish) \in Texts
  <2>1. OpenAiStop(choice.finish) \in {"EndOfTurn", "ToolUse", "MaxTokens", "Other"}
    BY DEF OpenAiStop
  <2> QED
    BY <2>1 DEF Texts, Literals
<1> QED
  BY <1>11, <1>12, <1>13, FieldsKeep

LEMMA AbsorbChoicesKeep ==
  ASSUME NEW r, NEW before, NEW n, Live(r, before, n), NEW i \in Nat, NEW choices \in Seq(StreamChoice)
  PROVE  Live(AbsorbChoices(r, i, choices), before, n)
<1>1. PICK m : m \in Nat /\ m = Len(choices) /\ \A k \in 1..m : choices[k] \in StreamChoice
  OBVIOUS
<1>2. PICK f : /\ f[0] = r /\ f[m] = AbsorbChoices(r, i, choices)
               /\ \A k \in 1..m : f[k] = IF choices[k].index = 0
                                         THEN AbsorbChoice(f[k - 1], i, choices[k]) ELSE f[k - 1]
  <2>1. m \in Nat /\ Len(choices) = m
    BY <1>1
  <2> QED
    BY <2>1, AbsorbChoicesSteps
<1> DEFINE Holds == {k \in 0..m : Live(f[k], before, n)}
<1>3. 0 \in Holds
  BY <1>1, <1>2
<1>4. ASSUME NEW k \in 0..m, k \in Holds, k < m PROVE k + 1 \in Holds
  <2>1. k + 1 \in 1..m /\ k + 1 \in 0..m /\ (k + 1) - 1 = k
    BY <1>1, <1>4
  <2>2. /\ choices[k + 1] \in StreamChoice
        /\ f[k + 1] = AbsorbChoice(f[k], i, choices[k + 1]) \/ f[k + 1] = f[k]
    BY <1>1, <1>2, <2>1
  <2>3. Live(f[k], before, n)
    BY <1>4
  <2>4. Live(AbsorbChoice(f[k], i, choices[k + 1]), before, n)
    BY <2>2, <2>3, AbsorbChoiceKeeps
  <2> QED
    BY <2>1, <2>2, <2>3, <2>4
<1> HIDE DEF Holds
<1>5. m \in Holds
  <2>1. \A k \in 0..m : k \in Holds
    BY <1>1, <1>3, <1>4, InductionUpTo
  <2> QED
    BY <1>1, <2>1
<1> QED
  BY <1>2, <1>5 DEF Holds

LEMMA AbsorbChunkKeeps ==
  ASSUME NEW r, NEW before, NEW n, Live(r, before, n), NEW i \in Nat, NEW chunk,
         chunk.choices \in Seq(StreamChoice)
  PROVE  Live(AbsorbChunk(r, i, chunk), before, n)
<1>1. PICK e, s, r2 : /\ e = Event("usage", "", i) /\ s = IF chunk.usage THEN <<e>> ELSE <<>>
                      /\ r2 = Named(r, IF chunk.model THEN i ELSE r.model)
  OBVIOUS
<1>2. e \in Plain /\ s \in {<<>>, <<e>>}
  <2>1. Event("usage", "", i) \in Plain
    <3>1. "" \in Texts
      BY DEF Texts, Literals
    <3> QED
      BY <3>1, PlainEvent
  <2> QED
    BY <1>1, <2>1
<1>3. Live(r2, before, n)
  <2>1. PICK m : m = IF chunk.model THEN i ELSE r.model
    OBVIOUS
  <2>2. m \in Nat
    BY <2>1 DEF Live, Good, ReaderType
  <2> QED
    BY <1>1, <2>1, <2>2, FieldsKeep
<1>4. Live(Queue(r2, s), before, n)
  BY <1>2, <1>3, QueueMaybe
<1>5. AbsorbChunk(r, i, chunk) = AbsorbChoices(Queue(r2, s), i, chunk.choices)
  BY <1>1 DEF AbsorbChunk, Named
<1> QED
  BY <1>4, <1>5, AbsorbChoicesKeep

-----------------------------------------------------------------------------
(***************************************************************************)
(* Payloads and lines.                                                     *)
(***************************************************************************)
(* What the reader relies on of a decoded line. *)
LineOk(line) ==
  /\ line.kind = "chunk" => line.choices \in Seq(StreamChoice)
  /\ line.kind = "tool_use" => line.id \in Ids
  /\ line.kind = "delta" => line.delta \in DeltaKinds

LEMMA LinesOk ==
  ASSUME NEW line, line \in OpenAiLine \/ line \in AnthropicLine
  PROVE  LineOk(line)
<1>1. CASE line \in OpenAiLine
  <2>1. line.kind # "tool_use" /\ line.kind # "delta"
    BY <1>1 DEF OpenAiLine
  <2>2. line.kind = "chunk" => line.choices \in Seq(StreamChoice)
    BY <1>1 DEF OpenAiLine
  <2> QED
    BY <2>1, <2>2 DEF LineOk
<1>2. CASE line \in AnthropicLine
  <2>1. line.kind # "chunk"
    BY <1>2 DEF AnthropicLine
  <2>2. line.kind = "tool_use" => line.id \in STRING
    BY <1>2 DEF AnthropicLine
  <2>3. line.kind = "delta" => line.delta \in DeltaKinds
    BY <1>2 DEF AnthropicLine
  <2> QED
    BY <2>1, <2>2, <2>3 DEF LineOk, Ids, Texts
<1> QED
  BY <1>1, <1>2

LEMMA AbsorbEventKeeps ==
  ASSUME NEW r, NEW before, NEW n, Live(r, before, n), NEW i \in Nat, NEW line, LineOk(line)
  PROVE  Live(AbsorbEvent(r, i, line), before, n)
<1>1. "" \in Texts
  BY DEF Texts, Literals
<1>2. PICK u : u = Event("usage", "", i)
  OBVIOUS
<1>3. u \in Plain
  BY <1>1, <1>2, PlainEvent
<1>4. CASE line.kind = "message_start"
  <2>1. PICK m, r2, s : /\ m = (IF line.model THEN i ELSE 0) /\ r2 = Named(r, m)
                        /\ s = (IF line.usage THEN <<u>> ELSE <<>>)
    OBVIOUS
  <2>2. m \in Nat /\ s \in {<<>>, <<u>>}
    BY <2>1
  <2>3. Live(r2, before, n)
    BY <2>1, <2>2, FieldsKeep
  <2>4. Live(Queue(r2, s), before, n)
    BY <1>3, <2>2, <2>3, QueueMaybe
  <2>5. AbsorbEvent(r, i, line) = Queue(r2, s)
    BY <1>2, <1>4, <2>1 DEF AbsorbEvent, Named
  <2> QED
    BY <2>4, <2>5
<1>5. CASE line.kind = "tool_use"
  <2>1. line.id \in Ids
    BY <1>5 DEF LineOk
  <2>2. PICK id, index : id = line.id /\ index = line.index
    OBVIOUS
  <2>3. \E q : q = Queue(Knows(r, index, id), <<Event("start", id, i)>>) /\ Live(q, before, n)
    <3>1. id \in Ids
      BY <2>1, <2>2
    <3> QED
      BY <3>1, QueueStart
  <2>4. AbsorbEvent(r, i, line) = Queue(Knows(r, index, id), <<Event("start", id, i)>>)
    BY <1>5, <2>2 DEF AbsorbEvent, Knows
  <2> QED
    BY <2>3, <2>4
<1>6. CASE line.kind = "redacted_thinking"
  <2>1. PICK e : e = Event("redacted", "", i)
    OBVIOUS
  <2>2. e \in Plain /\ <<e>> \in {<<>>, <<e>>}
    BY <1>1, <2>1, PlainEvent
  <2>3. Live(Queue(r, <<e>>), before, n)
    BY <2>2, QueueMaybe
  <2>4. AbsorbEvent(r, i, line) = Queue(r, <<e>>)
    BY <1>6, <2>1 DEF AbsorbEvent
  <2> QED
    BY <2>3, <2>4
<1>7. CASE line.kind = "delta"
  <2>1. line.delta \in DeltaKinds /\ AbsorbEvent(r, i, line) = AbsorbDelta(r, i, line)
    BY <1>7 DEF AbsorbEvent, LineOk
  <2>2. CASE line.delta = "arguments"
    <3>1. CASE line.index \in DOMAIN r.ids
      <4>1. PICK index : index = line.index
        OBVIOUS
      <4>2. index \in DOMAIN r.ids
        BY <3>1, <4>1
      <4>3. Live(Queue(r, <<Event("arguments", r.ids[index], i)>>), before, n)
        BY <4>2, QueueArguments
      <4> QED
        BY <2>1, <2>2, <3>1, <4>1, <4>3 DEF AbsorbDelta
    <3>2. CASE line.index \notin DOMAIN r.ids
      BY <2>1, <2>2, <3>2 DEF AbsorbDelta
    <3> QED
      BY <3>1, <3>2
  <2>3. CASE line.delta = "other"
    BY <2>1, <2>3 DEF AbsorbDelta
  <2>4. CASE line.delta \in {"text", "reasoning", "signature"}
    <3>1. PICK e, k : k = line.delta /\ e = Event(k, "", i)
      OBVIOUS
    <3>2. k \in {"reasoning", "text", "usage", "redacted", "signature"}
      BY <2>4, <3>1
    <3>3. e \in Plain /\ <<e>> \in {<<>>, <<e>>}
      BY <1>1, <3>1, <3>2, PlainEvent
    <3>4. Live(Queue(r, <<e>>), before, n)
      BY <3>3, QueueMaybe
    <3> QED
      BY <2>1, <2>4, <3>1, <3>4 DEF AbsorbDelta
  <2> QED
    BY <2>1, <2>2, <2>3, <2>4 DEF DeltaKinds
<1>8. CASE line.kind = "message_delta"
  <2>1. PICK stop, r2 : stop = AnthropicStop(line.stop) /\ r2 = Stopped(r, stop)
    OBVIOUS
  <2>2. stop \in Texts
    <3>1. stop \in {"EndOfTurn", "ToolUse", "MaxTokens", "Other"}
      BY <2>1 DEF AnthropicStop
    <3> QED
      BY <3>1 DEF Texts, Literals
  <2>3. Live(r2, before, n)
    BY <2>1, <2>2, FieldsKeep
  <2>4. Live(Queue(r2, <<u>>), before, n)
    <3>1. <<u>> \in {<<>>, <<u>>}
      OBVIOUS
    <3> QED
      BY <1>3, <2>3, <3>1, QueueMaybe
  <2>5. AbsorbEvent(r, i, line) = Queue(r2, <<u>>)
    BY <1>2, <1>8, <2>1 DEF AbsorbEvent, Stopped
  <2> QED
    BY <2>4, <2>5
<1>9. CASE line.kind \notin {"message_start", "tool_use", "redacted_thinking", "delta", "message_delta"}
  BY <1>9 DEF AbsorbEvent
<1> QED
  BY <1>4, <1>5, <1>6, <1>7, <1>8, <1>9

LEMMA FailKeeps ==
  ASSUME NEW r, NEW before, NEW n, Live(r, before, n), NEW class \in Texts, NEW status \in Nat
  PROVE  Good(Fail(r, Failure(class, status)), before, n) /\ Fail(r, Failure(class, status)).done
<1>1. PICK e : e = Failure(class, status)
  OBVIOUS
<1>2. e \in Sent /\ e.kind = "failure"
  <2>1. class \in Ids /\ "failure" \in Kinds
    BY DEF Ids, Kinds
  <2> QED
    BY <1>1, <2>1, EventType DEF Failure
<1>3. ReaderType(r, n)
  BY DEF Live, Good
<1>4. r.ids = [x \in DOMAIN r.ids |-> r.ids[x]] /\ TRUE = FinalItem(e) /\ e.kind # "arguments"
  BY <1>2, <1>3 DEF ReaderType, FinalItem
<1>5. Good([r EXCEPT !.ids = r.ids, !.pending = Append(@, e), !.done = TRUE], before, n)
  BY <1>2, <1>4, QueueOne
<1>6. Fail(r, e) = [r EXCEPT !.ids = r.ids, !.pending = Append(@, e), !.done = TRUE] /\ Fail(r, e).done
  BY <1>3 DEF Fail, ReaderType
<1> QED
  BY <1>1, <1>5, <1>6

LEMMA FinishKeeps ==
  ASSUME NEW r, NEW before, NEW n, Live(r, before, n)
  PROVE  Good(Finish(r), before, n) /\ Finish(r).done
<1>1. ReaderType(r, n)
  BY DEF Live, Good
<1>2. CASE r.finish = ""
  <2>1. "transport" \in Texts /\ 0 \in Nat
    BY DEF Texts, Literals
  <2>2. Finish(r) = Fail(r, Failure("transport", 0))
    BY <1>2 DEF Finish
  <2> QED
    BY <2>1, <2>2, FailKeeps
<1>3. CASE r.finish # ""
  <2>1. PICK e, id, model : id = r.finish /\ model = r.model /\ e = Event("finished", id, model)
    OBVIOUS
  <2>2. e \in Sent /\ e.kind = "finished"
    <3>1. id \in Ids /\ "finished" \in Kinds /\ model \in Nat
      BY <1>1, <2>1 DEF ReaderType, Kinds
    <3> QED
      BY <2>1, <3>1, EventType
  <2>3. r.ids = [x \in DOMAIN r.ids |-> r.ids[x]] /\ TRUE = FinalItem(e) /\ e.kind # "arguments"
    BY <1>1, <2>2 DEF ReaderType, FinalItem
  <2>4. Good([r EXCEPT !.ids = r.ids, !.pending = Append(@, e), !.done = TRUE], before, n)
    BY <2>2, <2>3, QueueOne
  <2>5. Finish(r) = [r EXCEPT !.ids = r.ids, !.pending = Append(@, e), !.done = TRUE] /\ Finish(r).done
    BY <1>1, <1>3, <2>1 DEF Finish, ReaderType
  <2> QED
    BY <2>4, <2>5
<1> QED
  BY <1>2, <1>3

LEMMA AbsorbPayloadKeeps ==
  ASSUME NEW r, NEW before, NEW n, Live(r, before, n), NEW i \in Nat, NEW line, LineOk(line)
  PROVE  Good(AbsorbPayload(r, i, line), before, n)
<1>1. CASE line.kind = "other"
  BY <1>1 DEF AbsorbPayload, Live
<1>2. CASE line.kind = "undecodable"
  <2>1. "decode" \in Texts /\ 0 \in Nat
    BY DEF Texts, Literals
  <2>2. AbsorbPayload(r, i, line) = Fail(r, Failure("decode", 0))
    BY <1>2 DEF AbsorbPayload
  <2> QED
    BY <2>1, <2>2, FailKeeps
<1>3. CASE line.kind = "error"
  <2>1. PICK status : status = ErrorStatus(body.dialect, line)
    OBVIOUS
  <2>2. status \in Nat /\ "status" \in Texts
    BY <2>1 DEF ErrorStatus, Texts, Literals
  <2>3. AbsorbPayload(r, i, line) = Fail(r, Failure("status", status))
    BY <1>3, <2>1 DEF AbsorbPayload
  <2> QED
    BY <2>2, <2>3, FailKeeps
<1>4. CASE line.kind = "message_stop"
  <2>1. AbsorbPayload(r, i, line) = Finish(r)
    BY <1>4 DEF AbsorbPayload
  <2> QED
    BY <2>1, FinishKeeps
<1>5. CASE line.kind = "chunk"
  <2>1. AbsorbPayload(r, i, line) = AbsorbChunk(r, i, line) /\ line.choices \in Seq(StreamChoice)
    BY <1>5 DEF AbsorbPayload, LineOk
  <2>2. Live(AbsorbChunk(r, i, line), before, n)
    BY <2>1, AbsorbChunkKeeps
  <2> QED
    BY <2>1, <2>2 DEF Live
<1>6. CASE line.kind \notin {"other", "undecodable", "error", "message_stop", "chunk"}
  <2>1. AbsorbPayload(r, i, line) = AbsorbEvent(r, i, line)
    BY <1>6 DEF AbsorbPayload
  <2>2. Live(AbsorbEvent(r, i, line), before, n)
    BY AbsorbEventKeeps
  <2> QED
    BY <2>1, <2>2 DEF Live
<1> QED
  BY <1>1, <1>2, <1>3, <1>4, <1>5, <1>6

LEMMA BodyLines ==
  ASSUME body \in Bodies
  PROVE  /\ Len(Reading) \in Nat
         /\ \A k \in 1..Len(Reading) : LineOk(Reading[k])
<1>1. CASE body.lines \in Seq(OpenAiLine)
  <2>1. PICK s, S, m : s = body.lines /\ S = OpenAiLine /\ m = Len(s)
    OBVIOUS
  <2>2. s \in Seq(S) /\ m \in Nat /\ \A k \in 1..m : s[k] \in S
    BY <1>1, <2>1
  <2> QED
    BY <2>1, <2>2, LinesOk DEF Reading
<1>2. CASE body.lines \in Seq(AnthropicLine)
  <2>1. PICK s, S, m : s = body.lines /\ S = AnthropicLine /\ m = Len(s)
    OBVIOUS
  <2>2. s \in Seq(S) /\ m \in Nat /\ \A k \in 1..m : s[k] \in S
    BY <1>2, <2>1
  <2> QED
    BY <2>1, <2>2, LinesOk DEF Reading
<1> QED
  BY <1>1, <1>2, StreamAssumption

(* A line decodes to one of the body, or to nothing that is relied on. *)
LEMMA DecodeFacts ==
  ASSUME body \in Bodies, NEW n \in Nat, n = Len(Reading), NEW text \in Held(n)
  PROVE  /\ LineOk(Decode(text))
         /\ Decode(text).kind = "other" \/ text[1][1] \in Nat
<1>1. CASE Len(text) < 2 \/ text[1][2] # 1
  <2>1. Decode(text) = Skipped
    BY <1>1 DEF Decode
  <2> QED
    BY <2>1 DEF Skipped, LineOk
<1>2. CASE ~(Len(text) < 2 \/ text[1][2] # 1)
  <2>1. PICK k : k = text[1][1]
    OBVIOUS
  <2>2. k \in 1..n
    <3>1. PICK S : S = (1..n) \X (1..3)
      OBVIOUS
    <3>2. text \in Seq(S) /\ Len(text) \in Nat /\ 1 \in 1..Len(text)
      BY <1>2, <3>1 DEF Held
    <3>3. text[1] \in (1..n) \X (1..3)
      BY <3>1, <3>2
    <3> QED
      BY <2>1, <3>3
  <2>3. LineOk(Reading[k])
    BY <2>2, BodyLines
  <2>4. Decode(text) \in {Skipped, Garbled, Reading[k]}
    BY <1>2, <2>1 DEF Decode
  <2>5. LineOk(Skipped) /\ LineOk(Garbled)
    BY DEF LineOk, Skipped, Garbled
  <2> QED
    BY <2>1, <2>2, <2>3, <2>4, <2>5
<1> QED
  BY <1>1, <1>2

Holding(r, held) == [r EXCEPT !.held = held]

LEMMA HoldingKeeps ==
  ASSUME NEW r, NEW before, NEW n, Good(r, before, n), NEW held \in Held(n)
  PROVE  Good(Holding(r, held), before, n) /\ Holding(r, held).done = r.done /\ Holding(r, held).held = held
<1>1. ReaderType(r, n)
  BY DEF Good
<1>2. PICK q : q = Holding(r, held)
  OBVIOUS
<1>3. q = [held |-> held, ids |-> r.ids, model |-> r.model, finish |-> r.finish,
           pending |-> r.pending, done |-> r.done]
  BY <1>1, <1>2 DEF ReaderType, Holding
<1>4. ReaderType(q, n)
  BY <1>1, <1>3 DEF ReaderType
<1>5. Good(q, before, n)
  BY <1>3, <1>4 DEF Good
<1> QED
  BY <1>2, <1>3, <1>5

(* The end of the body ends the reader, with a final item. *)
LEMMA EndKeeps ==
  ASSUME body \in Bodies, NEW n \in Nat, n = Len(Reading), NEW r, NEW before, Live(r, before, n)
  PROVE  Good(End(r), before, n) /\ End(r).done
<1>1. ReaderType(r, n) /\ ~r.done /\ Good(r, before, n)
  BY DEF Live, Good
<1>2. PICK flushed, line, i : flushed = Holding(r, <<>>) /\ line = Decode(r.held) /\ i = r.held[1][1]
  OBVIOUS
<1>3. Live(flushed, before, n)
  <2>1. <<>> \in Held(n)
    BY DEF Held
  <2> QED
    BY <1>1, <1>2, <2>1, HoldingKeeps DEF Live
<1>4. LineOk(line) /\ (line.kind = "other" \/ i \in Nat)
  <2>1. r.held \in Held(n)
    BY <1>1 DEF ReaderType
  <2> QED
    BY <1>2, <2>1, DecodeFacts
<1>5. PICK last : last = IF line.kind \in {"other", "done"} THEN flushed ELSE AbsorbPayload(flushed, i, line)
  OBVIOUS
<1>6. Good(last, before, n)
  <2>1. CASE line.kind \in {"other", "done"}
    BY <1>3, <1>5, <2>1 DEF Live
  <2>2. CASE line.kind \notin {"other", "done"}
    <3>1. i \in Nat
      BY <1>4, <2>2
    <3> QED
      BY <1>3, <1>4, <1>5, <2>2, <3>1, AbsorbPayloadKeeps
  <2> QED
    BY <2>1, <2>2
<1>7. End(r) = IF last.done THEN last ELSE Finish(last)
  BY <1>1, <1>2, <1>5 DEF End, Holding
<1>8. CASE last.done
  BY <1>6, <1>7, <1>8
<1>9. CASE ~last.done
  <2>1. Live(last, before, n)
    BY <1>6, <1>9 DEF Live
  <2> QED
    BY <1>7, <1>9, <2>1, FinishKeeps
<1> QED
  BY <1>8, <1>9

LEMMA AbsorbLineKeeps ==
  ASSUME body \in Bodies, NEW n \in Nat, n = Len(Reading), NEW r, NEW before, Good(r, before, n),
         NEW text \in Held(n)
  PROVE  Good(AbsorbLine(r, text), before, n)
<1>1. PICK line, i : line = Decode(text) /\ i = text[1][1]
  OBVIOUS
<1>2. LineOk(line) /\ (line.kind = "other" \/ i \in Nat)
  BY <1>1, DecodeFacts
<1>3. CASE r.done \/ line.kind = "other"
  BY <1>1, <1>3 DEF AbsorbLine
<1>4. CASE ~r.done /\ line.kind = "done"
  <2>1. Live(r, before, n)
    BY <1>4 DEF Live
  <2>2. AbsorbLine(r, text) = End(r)
    BY <1>1, <1>4 DEF AbsorbLine
  <2> QED
    BY <2>1, <2>2, EndKeeps
<1>5. CASE ~r.done /\ line.kind \notin {"other", "done"}
  <2>1. Live(r, before, n) /\ i \in Nat
    BY <1>2, <1>5 DEF Live
  <2>2. AbsorbLine(r, text) = AbsorbPayload(r, i, line)
    BY <1>1, <1>5 DEF AbsorbLine
  <2> QED
    BY <1>2, <2>1, <2>2, AbsorbPayloadKeeps
<1> QED
  BY <1>3, <1>4, <1>5

LEMMA AbsorbLinesKeep ==
  ASSUME body \in Bodies, NEW n \in Nat, n = Len(Reading), NEW r, NEW before, Good(r, before, n),
         NEW lines \in Seq(Held(n))
  PROVE  Good(AbsorbLines(r, lines), before, n)
<1>1. PICK m : m \in Nat /\ m = Len(lines) /\ \A k \in 1..m : lines[k] \in Held(n)
  <2>1. PICK S : S = Held(n)
    OBVIOUS
  <2>2. lines \in Seq(S)
    BY <2>1
  <2>3. Len(lines) \in Nat /\ \A k \in 1..Len(lines) : lines[k] \in S
    BY <2>2
  <2> QED
    BY <2>1, <2>3
<1>2. PICK f : LineSteps(f, r, lines, m)
  <2>1. m \in Nat /\ Len(lines) = m
    BY <1>1
  <2> QED
    BY <2>1, AbsorbLinesSteps
<1> DEFINE Holds == {k \in 0..m : Good(f[k], before, n)}
<1>3. 0 \in Holds
  BY <1>1, <1>2 DEF LineSteps
<1>4. ASSUME NEW k \in 0..m, k \in Holds, k < m PROVE k + 1 \in Holds
  <2>1. k + 1 \in 1..m /\ k + 1 \in 0..m /\ (k + 1) - 1 = k
    BY <1>1, <1>4
  <2>2. f[k + 1] = AbsorbLine(f[k], lines[k + 1]) /\ lines[k + 1] \in Held(n)
    BY <1>1, <1>2, <2>1 DEF LineSteps
  <2>3. Good(f[k], before, n)
    BY <1>4
  <2>4. Good(f[k + 1], before, n)
    BY <2>2, <2>3, AbsorbLineKeeps
  <2> QED
    BY <2>1, <2>4
<1> HIDE DEF Holds
<1>5. m \in Holds
  <2>1. \A k \in 0..m : k \in Holds
    BY <1>1, <1>3, <1>4, InductionUpTo
  <2> QED
    BY <1>1, <2>1
<1> QED
  BY <1>2, <1>5 DEF Holds, LineSteps

-----------------------------------------------------------------------------
(***************************************************************************)
(* Bytes.                                                                  *)
(***************************************************************************)
Byte(n) == (1..n) \X (1..4)

(* The lines so far, and what is held of the next. *)
Taken(t, n) == t = [lines |-> t.lines, held |-> t.held] /\ t.lines \in Seq(Held(n)) /\ t.held \in Held(n)

LEMMA TakeByteType ==
  ASSUME NEW n \in Nat, NEW t, Taken(t, n), NEW b \in Byte(n)
  PROVE  Taken(TakeByte(t, b), n)
<1>1. PICK S, T, lines, held : S = Held(n) /\ T = (1..n) \X (1..3) /\ lines = t.lines /\ held = t.held
  OBVIOUS
<1>2. t = [lines |-> lines, held |-> held] /\ lines \in Seq(S) /\ held \in S /\ held \in Seq(T)
  BY <1>1 DEF Taken, Held
<1>3. CASE b[2] = 4
  <2>1. TakeByte(t, b) = [lines |-> Append(lines, held), held |-> <<>>]
    BY <1>2, <1>3 DEF TakeByte, Newline
  <2>2. Append(lines, held) \in Seq(S) /\ <<>> \in Seq(T)
    BY <1>2
  <2> QED
    BY <1>1, <2>1, <2>2 DEF Taken, Held
<1>4. CASE b[2] # 4
  <2>1. b \in T
    BY <1>1, <1>4 DEF Byte
  <2>2. TakeByte(t, b) = [lines |-> lines, held |-> Append(held, b)]
    BY <1>2, <1>4 DEF TakeByte, Newline
  <2>3. Append(held, b) \in S
    <3>1. Append(held, b) \in Seq(T)
      BY <1>2, <2>1
    <3> QED
      BY <1>1, <3>1 DEF Held
  <2>4. PICK u, h : u = TakeByte(t, b) /\ h = Append(held, b)
    OBVIOUS
  <2>5. u = [lines |-> lines, held |-> h] /\ h \in S
    BY <2>2, <2>3, <2>4
  <2>6. Taken(u, n)
    BY <1>1, <1>2, <2>5 DEF Taken
  <2> QED
    BY <2>4, <2>6
<1> QED
  BY <1>3, <1>4

LEMMA PushType ==
  ASSUME NEW n \in Nat, NEW held \in Held(n), NEW bytes \in Seq(Byte(n))
  PROVE  Push(held, bytes).held \in Held(n) /\ Push(held, bytes).lines \in Seq(Held(n))
<1>1. PICK m, t : m = Len(bytes) /\ t = [lines |-> <<>>, held |-> held]
  OBVIOUS
<1>2. m \in Nat /\ Len(bytes) = m /\ \A k \in 1..m : bytes[k] \in Byte(n)
  <2>1. PICK S : S = Byte(n)
    OBVIOUS
  <2>2. bytes \in Seq(S)
    BY <2>1
  <2>3. Len(bytes) \in Nat /\ \A k \in 1..Len(bytes) : bytes[k] \in S
    BY <2>2
  <2> QED
    BY <1>1, <2>1, <2>3
<1>3. PICK f : ByteSteps(f, t, bytes, m)
  <2>1. m \in Nat /\ Len(bytes) = m
    BY <1>2
  <2> QED
    BY <2>1, TakeBytesSteps
<1> DEFINE Holds == {k \in 0..m : Taken(f[k], n)}
<1>4. 0 \in Holds
  <2>1. Taken(t, n)
    BY <1>1 DEF Taken
  <2> QED
    BY <1>2, <1>3, <2>1 DEF ByteSteps
<1>5. ASSUME NEW k \in 0..m, k \in Holds, k < m PROVE k + 1 \in Holds
  <2>1. k + 1 \in 1..m /\ k + 1 \in 0..m /\ (k + 1) - 1 = k
    BY <1>2, <1>5
  <2>2. f[k + 1] = TakeByte(f[k], bytes[k + 1]) /\ bytes[k + 1] \in Byte(n)
    BY <1>2, <1>3, <2>1 DEF ByteSteps
  <2>3. Taken(f[k], n)
    BY <1>5
  <2>4. Taken(f[k + 1], n)
    BY <2>2, <2>3, TakeByteType
  <2> QED
    BY <2>1, <2>4
<1> HIDE DEF Holds
<1>6. m \in Holds
  <2>1. \A k \in 0..m : k \in Holds
    BY <1>2, <1>4, <1>5, InductionUpTo
  <2> QED
    BY <1>2, <2>1
<1>7. Taken(Push(held, bytes), n)
  BY <1>1, <1>3, <1>6 DEF Holds, Push, ByteSteps
<1> QED
  BY <1>7 DEF Taken

LEMMA AbsorbBytesKeeps ==
  ASSUME body \in Bodies, NEW n \in Nat, n = Len(Reading), NEW r, NEW before, Good(r, before, n),
         NEW bytes \in Seq(Byte(n))
  PROVE  Good(AbsorbBytes(r, bytes), before, n)
<1>1. PICK pushed, held, lines : pushed = Push(r.held, bytes) /\ held = pushed.held /\ lines = pushed.lines
  OBVIOUS
<1>2. held \in Held(n) /\ lines \in Seq(Held(n))
  <2>1. r.held \in Held(n)
    BY DEF Good, ReaderType
  <2> QED
    BY <1>1, <2>1, PushType
<1>3. Good(Holding(r, held), before, n)
  BY <1>2, HoldingKeeps
<1>4. Good(AbsorbLines(Holding(r, held), lines), before, n)
  BY <1>2, <1>3, AbsorbLinesKeep
<1>5. AbsorbBytes(r, bytes) = IF r.done THEN r ELSE AbsorbLines(Holding(r, held), lines)
  BY <1>1 DEF AbsorbBytes, Holding
<1> QED
  BY <1>4, <1>5

LEMMA WireType ==
  ASSUME body \in Bodies, NEW n \in Nat, n = Len(Reading)
  PROVE  Wire \in Seq(Byte(n)) /\ Len(Wire) \in Nat
<1>1. DOMAIN Reading = 1..n
  <2>1. CASE body.lines \in Seq(OpenAiLine)
    <3>1. PICK s, S : s = body.lines /\ S = OpenAiLine
      OBVIOUS
    <3>2. s \in Seq(S)
      BY <2>1, <3>1
    <3> QED
      BY <3>1, <3>2 DEF Reading
  <2>2. CASE body.lines \in Seq(AnthropicLine)
    <3>1. PICK s, S : s = body.lines /\ S = AnthropicLine
      OBVIOUS
    <3>2. s \in Seq(S)
      BY <2>2, <3>1
    <3> QED
      BY <3>1, <3>2 DEF Reading
  <2> QED
    BY <2>1, <2>2, StreamAssumption
<1>2. PICK S, s : S = Byte(n) /\ s = [i \in 1..n |-> BytesOf(i)]
  OBVIOUS
<1>3. ASSUME NEW i \in 1..n PROVE BytesOf(i) \in Seq(S)
  <2>1. PICK p : p = Parts(i)
    OBVIOUS
  <2>2. <<i, 1>> \in S /\ <<i, 2>> \in S /\ <<i, 3>> \in S /\ <<i, 4>> \in S
    BY <1>2 DEF Byte
  <2>3. p \in Seq(S)
    BY <2>1, <2>2 DEF Parts
  <2> QED
    BY <2>1, <2>2, <2>3 DEF BytesOf, Newline
<1>4. s \in Seq(Seq(S))
  BY <1>2, <1>3
<1>5. FlattenSeq(s) \in Seq(S)
  BY <1>4, FlattenType
<1>6. Wire = FlattenSeq(s)
  BY <1>1, <1>2 DEF Wire
<1>7. Len(Wire) \in Nat
  <2>1. PICK w : w = Wire
    OBVIOUS
  <2>2. w \in Seq(S)
    BY <1>5, <1>6, <2>1
  <2> QED
    BY <2>1, <2>2
<1> QED
  BY <1>2, <1>5, <1>6, <1>7

LEMMA CutType ==
  ASSUME NEW S, NEW s \in Seq(S), NEW m \in Nat, NEW k \in 1..(Len(s) - m)
  PROVE  SubSeq(s, m + 1, m + k) \in Seq(S) /\ m + k \in 0..Len(s)
OBVIOUS

-----------------------------------------------------------------------------
(***************************************************************************)
(* The invariant.  Once the stream is over nothing moves any more, since   *)
(* the response is gone or the reader has handed over all it had.          *)
(***************************************************************************)
NothingBefore == response = "asked" => items = <<>> /\ reader = NewReader /\ ~over
InOrder       == ~over => Good(reader, items, Len(Reading))
OverIsStill   == over => response = "gone" \/ IsDone(reader)

StreamInv == TypeOK /\ body \in Bodies /\ NothingBefore /\ InOrder /\ OverIsStill

LEMMA NewReaderFacts ==
  /\ NewReader.held = <<>> /\ NewReader.ids = <<>> /\ NewReader.pending = <<>> /\ NewReader.done = FALSE
  /\ NewReader.model = 0 /\ NewReader.finish = ""
  /\ NewReader = [held |-> NewReader.held, ids |-> NewReader.ids, model |-> NewReader.model,
                  finish |-> NewReader.finish, pending |-> NewReader.pending, done |-> NewReader.done]
BY DEF NewReader

LEMMA InitInv == Init => StreamInv
<1> SUFFICES ASSUME Init PROVE StreamInv
  OBVIOUS
<1>1. PICK n : n = Len(Reading)
  OBVIOUS
<1>2. body \in Bodies /\ n \in Nat /\ n = Len(Reading)
  BY <1>1, BodyLines DEF Init
<1>3. Len(Wire) \in Nat
  BY <1>2, WireType
<1>4. TypeOK
  <2>1. at \in 0..Len(Wire)
    BY <1>3 DEF Init
  <2>2. reader.done \in BOOLEAN
    BY NewReaderFacts DEF Init
  <2> QED
    BY <2>1, <2>2 DEF Init, TypeOK
<1>5. PICK r, before : r = NewReader /\ before = items
  OBVIOUS
<1>6. ReaderType(r, n)
  <2>1. <<>> \in Held(n) /\ <<>> \in Seq(Sent) /\ "" \in Ids
    BY DEF Held, Ids, Texts, Literals
  <2>2. r.ids = [x \in DOMAIN r.ids |-> r.ids[x]] /\ \A x \in DOMAIN r.ids : r.ids[x] \in Ids
    <3>1. PICK ids : ids = r.ids
      OBVIOUS
    <3>2. ids = <<>>
      BY <1>5, <3>1, NewReaderFacts
    <3>3. ids = [x \in DOMAIN ids |-> ids[x]] /\ DOMAIN ids = {}
      BY <3>2
    <3> QED
      BY <3>1, <3>3
  <2> QED
    <3>1. r.held \in Held(n) /\ r.pending \in Seq(Sent) /\ r.finish \in Ids
      BY <1>5, <2>1, NewReaderFacts
    <3>2. r.done \in BOOLEAN /\ r.model \in Nat
      <4>1. r.done \in BOOLEAN
        BY <1>5, NewReaderFacts, Zenon
      <4>2. r.model \in Nat
        <5>1. r.model = 0
          BY <1>5, NewReaderFacts
        <5> QED
          BY <5>1
      <4> QED
        BY <4>1, <4>2
    <3>3. r = [held |-> r.held, ids |-> r.ids, model |-> r.model, finish |-> r.finish,
               pending |-> r.pending, done |-> r.done]
      BY <1>5, NewReaderFacts
    <3> QED
      BY <2>2, <3>1, <3>2, <3>3 DEF ReaderType
<1>7. before = <<>> /\ r.pending = <<>> /\ r.ids = <<>> /\ r.done = FALSE
  BY <1>5, NewReaderFacts DEF Init
<1>8. before \o r.pending = <<>> /\ before \in Seq(Sent)
  BY <1>7
<1>9. Orderly(<<>>, <<>>, FALSE)
  BY DEF Orderly
<1>10. Good(r, before, n)
  BY <1>6, <1>7, <1>8, <1>9 DEF Good
<1> QED
  BY <1>1, <1>2, <1>4, <1>5, <1>10 DEF Init, StreamInv, NothingBefore, InOrder, OverIsStill

LEMMA NextInv == StreamInv /\ [Next]_vars => StreamInv'
<1> SUFFICES ASSUME StreamInv, [Next]_vars PROVE StreamInv'
  OBVIOUS
<1>1. PICK n : n = Len(Reading)
  OBVIOUS
<1>2. body \in Bodies /\ n \in Nat /\ n = Len(Reading)
  BY <1>1, BodyLines DEF StreamInv
<1>3. Len(Wire) \in Nat /\ Wire \in Seq(Byte(n))
  BY <1>2, WireType
<1>4. ASSUME UNCHANGED <<body, response, at, reader, items, over, dropped>> PROVE StreamInv'
  BY <1>4 DEF StreamInv, TypeOK, NothingBefore, InOrder, OverIsStill, Wire, Reading, IsDone
<1>5. ASSUME NEW failure, Refused(failure) PROVE StreamInv'
  <2>1. TypeOK'
    BY <1>5 DEF StreamInv, TypeOK, Refused, Wire, Reading
  <2> QED
    BY <1>5, <2>1 DEF StreamInv, NothingBefore, InOrder, OverIsStill, Refused
<1>6. CASE Opened
  <2>1. TypeOK'
    BY <1>6 DEF StreamInv, TypeOK, Opened, Wire, Reading
  <2> QED
    BY <1>6, <2>1 DEF StreamInv, NothingBefore, InOrder, OverIsStill, Opened, Reading, IsDone
<1>7. CASE HandOver
  <2>1. ~over /\ Good(reader, items, n) /\ reader.pending # <<>>
    BY <1>1, <1>7 DEF StreamInv, InOrder, HandOver
  <2>2. PICK S, p, b : S = Sent /\ p = reader.pending /\ b = items
    OBVIOUS
  <2>3. p \in Seq(S) /\ b \in Seq(S) /\ p # <<>>
    BY <2>1, <2>2 DEF Good, ReaderType
  <2>4. /\ Head(p) \in S /\ Tail(p) \in Seq(S) /\ Append(b, Head(p)) \in Seq(S)
        /\ Append(b, Head(p)) \o Tail(p) = b \o p
    BY <2>3
  <2>5. PICK q, c : q = reader' /\ c = items'
    OBVIOUS
  <2>6. c = Append(b, Head(p)) /\ q = [reader EXCEPT !.pending = Tail(p)]
    BY <1>7, <2>2, <2>5 DEF HandOver
  <2>7. q = [held |-> reader.held, ids |-> reader.ids, model |-> reader.model, finish |-> reader.finish,
             pending |-> Tail(p), done |-> reader.done]
    BY <2>1, <2>6 DEF Good, ReaderType
  <2>8. ReaderType(q, n)
    BY <2>1, <2>2, <2>4, <2>7 DEF Good, ReaderType
  <2>9. Good(q, c, n)
    BY <2>1, <2>2, <2>4, <2>6, <2>7, <2>8 DEF Good
  <2>10. TypeOK'
    BY <1>7, <2>5, <2>7 DEF StreamInv, TypeOK, HandOver, Wire, Reading
  <2>11. response # "asked"
    BY <2>1, NewReaderFacts DEF StreamInv, NothingBefore
  <2> QED
    BY <1>1, <1>7, <2>1, <2>5, <2>9, <2>10, <2>11
       DEF StreamInv, NothingBefore, InOrder, OverIsStill, HandOver, Reading
<1>8. CASE StreamOver
  <2>1. IsDone(reader) /\ IsDone(reader)'
    BY <1>8 DEF StreamOver, IsDone
  <2>2. TypeOK'
    BY <1>8, <2>1 DEF StreamInv, TypeOK, StreamOver, Wire, Reading, IsDone
  <2>3. response # "asked"
    BY <2>1, NewReaderFacts DEF StreamInv, NothingBefore, IsDone
  <2> QED
    BY <1>8, <2>1, <2>2, <2>3 DEF StreamInv, NothingBefore, InOrder, OverIsStill, StreamOver, IsDone
<1>9. ASSUME Reads PROVE ~over /\ Live(reader, items, n) /\ response = "open"
  BY <1>1, <1>9 DEF StreamInv, InOrder, OverIsStill, Reads, IsDone, Live
<1>10. CASE ReadChunk
  <2>1. ~over /\ Live(reader, items, n) /\ response = "open"
    BY <1>9, <1>10 DEF ReadChunk
  <2>2. PICK k \in 1..(Len(Wire) - at) :
          at' = at + k /\ reader' = AbsorbBytes(reader, SubSeq(Wire, at + 1, at + k))
    BY <1>10 DEF ReadChunk
  <2>3. PICK bytes, q : bytes = SubSeq(Wire, at + 1, at + k) /\ q = reader'
    OBVIOUS
  <2>4. bytes \in Seq(Byte(n)) /\ at + k \in 0..Len(Wire)
    <3>1. PICK S, s, m : S = Byte(n) /\ s = Wire /\ m = at
      OBVIOUS
    <3>2. s \in Seq(S) /\ m \in Nat /\ k \in 1..(Len(s) - m)
      BY <1>3, <2>2, <3>1 DEF StreamInv, TypeOK
    <3> QED
      BY <2>3, <3>1, <3>2, CutType
  <2>5. Good(q, items, n)
    <3>1. Good(reader, items, n)
      BY <2>1 DEF Live
    <3>2. Good(AbsorbBytes(reader, bytes), items, n)
      BY <1>2, <2>4, <3>1, AbsorbBytesKeeps
    <3> QED
      BY <2>2, <2>3, <3>2
  <2>6. q.done \in BOOLEAN
    BY <2>5 DEF Good, ReaderType
  <2>7. TypeOK'
    BY <1>10, <2>1, <2>2, <2>3, <2>4, <2>6 DEF StreamInv, TypeOK, ReadChunk, Wire, Reading
  <2> QED
    BY <1>1, <1>10, <2>1, <2>3, <2>5, <2>7 DEF StreamInv, NothingBefore, InOrder, OverIsStill, ReadChunk, Reading
<1>11. CASE Closed
  <2>1. ~over /\ Live(reader, items, n) /\ response = "open"
    BY <1>9, <1>11 DEF Closed
  <2>2. PICK q : q = reader' /\ q = End(reader)
    BY <1>11 DEF Closed
  <2>3. Good(q, items, n) /\ q.done
    BY <1>2, <2>1, <2>2, EndKeeps
  <2>4. q.done \in BOOLEAN
    BY <2>3 DEF Good, ReaderType
  <2>5. TypeOK'
    BY <1>11, <2>2, <2>3, <2>4 DEF StreamInv, TypeOK, Closed, Wire, Reading
  <2> QED
    BY <1>1, <1>11, <2>1, <2>2, <2>3, <2>5 DEF StreamInv, NothingBefore, InOrder, OverIsStill, Closed, Reading
<1>12. CASE Dropped
  <2>1. ~over /\ Live(reader, items, n) /\ response = "open" /\ reader.pending = <<>>
    BY <1>9, <1>12 DEF Dropped, Reads
  <2>2. PICK q, e : q = reader' /\ e = Failure("transport", 0) /\ q = FailTransport(reader)
    BY <1>12 DEF Dropped
  <2>3. q = Fail(reader, e)
    <3>1. e \in Sent
      BY <2>2, EventType DEF Failure, Kinds, Ids, Texts, Literals
    <3>2. <<e>> \o reader.pending = Append(reader.pending, e)
      BY <2>1, <3>1
    <3> QED
      BY <2>2, <3>2 DEF Fail, FailTransport
  <2>4. Good(q, items, n) /\ q.done
    <3>1. "transport" \in Texts /\ 0 \in Nat
      BY DEF Texts, Literals
    <3> QED
      BY <2>1, <2>2, <2>3, <3>1, FailKeeps
  <2>5. q.done \in BOOLEAN
    BY <2>4 DEF Good, ReaderType
  <2>6. TypeOK'
    BY <1>12, <2>2, <2>4, <2>5 DEF StreamInv, TypeOK, Dropped, Wire, Reading
  <2> QED
    BY <1>1, <1>12, <2>1, <2>2, <2>4, <2>6 DEF StreamInv, NothingBefore, InOrder, OverIsStill, Dropped, Reading
<1>13. CASE UNCHANGED vars
  BY <1>4, <1>13 DEF vars
<1>14. CASE Next
  <2>1. SendFails \/ StatusFailure => \E failure : Refused(failure)
    BY DEF SendFails, StatusFailure
  <2>2. Done => UNCHANGED vars
    BY DEF Done
  <2> QED
    BY <1>5, <1>6, <1>7, <1>8, <1>10, <1>11, <1>12, <1>13, <1>14, <2>1, <2>2 DEF Next
<1> QED
  BY <1>13, <1>14

(* The types, and that a response that is gone has ended its reader, which *)
(* is why poll_next never calls end() on a reader a second time.           *)
THEOREM StreamTypeCorrect == Spec => []TypeOK
<1>1. StreamInv => TypeOK
  BY DEF StreamInv
<1> QED
  BY <1>1, InitInv, NextInv, PTL DEF Spec

-----------------------------------------------------------------------------
(***************************************************************************)
(* The refinement of EventStream.                                          *)
(***************************************************************************)
LEMMA InitRefines == Init => Promise!Init
BY DEF Init, Promise!Init

LEMMA RefusedRefines ==
  ASSUME NEW failure, StreamInv, Refused(failure), failure.kind = "failure"
  PROVE  Promise!Refusal
<1>1. items = <<>> /\ ~over
  BY DEF StreamInv, NothingBefore, Refused
<1>2. PICK c : c = items'
  OBVIOUS
<1>3. c = <<failure>>
  BY <1>2 DEF Refused
<1>4. Len(c) = 1 /\ c[1].kind = "failure"
  BY <1>3
<1> QED
  BY <1>1, <1>2, <1>4 DEF Refused, Promise!Refusal

LEMMA HandOverRefines ==
  ASSUME StreamInv, HandOver
  PROVE  Promise!Item
<1>1. ~over /\ Good(reader, items, Len(Reading)) /\ reader.pending # <<>>
  BY DEF StreamInv, InOrder, HandOver
<1>2. PICK S, p, b, h, m, c, e :
        /\ S = Sent /\ p = reader.pending /\ b = items /\ h = b \o p /\ m = Len(b)
        /\ c = items' /\ e = Head(p)
  OBVIOUS
<1>3. p \in Seq(S) /\ b \in Seq(S) /\ p # <<>>
  BY <1>1, <1>2 DEF Good, ReaderType
<1>4. /\ m \in Nat /\ e \in S /\ m + 1 \in 1..Len(h) /\ h[m + 1] = e /\ Len(h) \in Nat
      /\ \A k \in 1..m : k \in 1..Len(h) /\ h[k] = b[k] /\ k # Len(h)
  BY <1>2, <1>3
<1>5. c = Append(b, e)
  BY <1>2 DEF HandOver
<1>6. Len(c) = m + 1 /\ c[m + 1] = e /\ SubSeq(c, 1, m) = b
  BY <1>2, <1>3, <1>4, <1>5
<1>7. /\ \A k \in 1..Len(h) : FinalItem(h[k]) => k = Len(h)
      /\ \A k \in 1..Len(h) : h[k].kind = "arguments" => StartedIn(h, h[k].id, k - 1)
  BY <1>1, <1>2 DEF Good, Orderly
<1>8. ~Promise!Ended
  <2>1. SUFFICES ASSUME b # <<>>, b[m].kind \in {"finished", "failure"} PROVE FALSE
    BY <1>2 DEF Promise!Ended, Promise!IsFinal
  <2>2. m \in 1..m
    BY <1>2, <1>3, <1>4, <2>1
  <2>3. FinalItem(h[m]) /\ m \in 1..Len(h) /\ m # Len(h)
    BY <1>4, <2>1, <2>2 DEF FinalItem
  <2> QED
    BY <1>7, <2>3
<1>9. e.kind = "arguments" => Promise!Announced(e.id)
  <2>1. SUFFICES ASSUME e.kind = "arguments" PROVE Promise!Announced(e.id)
    OBVIOUS
  <2>2. StartedIn(h, e.id, (m + 1) - 1) /\ (m + 1) - 1 = m
    BY <1>4, <1>7, <2>1
  <2>3. PICK j \in 1..m : h[j].kind = "start" /\ h[j].id = e.id
    BY <2>2 DEF StartedIn
  <2>4. DOMAIN b = 1..m
    BY <1>2, <1>3
  <2>5. j \in DOMAIN b /\ b[j].kind = "start" /\ b[j].id = e.id
    BY <1>4, <2>3, <2>4
  <2> QED
    BY <1>2, <2>5 DEF Promise!Announced
<1>10. over' = over
  BY DEF HandOver
<1> QED
  BY <1>1, <1>2, <1>6, <1>8, <1>9, <1>10 DEF Promise!Item

LEMMA StreamOverRefines ==
  ASSUME StreamInv, StreamOver
  PROVE  Promise!Over
<1>1. ~over /\ Good(reader, items, Len(Reading)) /\ reader.pending = <<>> /\ reader.done
  BY DEF StreamInv, InOrder, StreamOver, IsDone
<1>2. PICK b, h : b = items /\ h = b \o reader.pending
  OBVIOUS
<1>3. b \in Seq(Sent)
  BY <1>1, <1>2 DEF Good
<1>4. h = b
  BY <1>1, <1>2, <1>3
<1>5. h # <<>> /\ FinalItem(h[Len(h)])
  BY <1>1, <1>2 DEF Good, Orderly
<1> QED
  BY <1>1, <1>2, <1>4, <1>5 DEF StreamOver, FinalItem, Promise!Over, Promise!Ended, Promise!IsFinal

LEMMA StepRefines == StreamInv /\ [Next]_vars => [Promise!Next]_<<items, over>>
<1> SUFFICES ASSUME StreamInv, [Next]_vars PROVE [Promise!Next]_<<items, over>>
  OBVIOUS
<1>1. ASSUME NEW class, NEW status, Refused(Failure(class, status)) PROVE Promise!Refusal
  <2>1. PICK e : e = Failure(class, status)
    OBVIOUS
  <2>2. e.kind = "failure"
    BY <2>1 DEF Failure, Event
  <2> QED
    BY <1>1, <2>1, <2>2, RefusedRefines
<1>2. CASE SendFails
  BY <1>1, <1>2 DEF SendFails, Promise!Next
<1>3. CASE StatusFailure
  BY <1>1, <1>3 DEF StatusFailure, Promise!Next
<1>4. CASE HandOver
  BY <1>4, HandOverRefines DEF Promise!Next
<1>5. CASE StreamOver
  BY <1>5, StreamOverRefines DEF Promise!Next
<1>6. CASE Opened \/ ReadChunk \/ Closed \/ Dropped \/ Done
  BY <1>6 DEF Opened, ReadChunk, Closed, Dropped, Done, vars
<1>7. CASE UNCHANGED vars
  BY <1>7 DEF vars
<1> QED
  BY <1>2, <1>3, <1>4, <1>5, <1>6, <1>7 DEF Next

(* Both readers keep the promise of EventStream: wherever the chunks are   *)
(* cut, and however the body ends, what the consumer polls is a sequence   *)
(* of events in which each fragment of arguments follows the start of its  *)
(* tool use, then one final item, then the end of the stream; a refused    *)
(* request is one failure.                                                 *)
THEOREM StreamPromiseKept == Spec => KeepsStreamPromise
BY InitRefines, InitInv, NextInv, StepRefines, PTL
   DEF Spec, KeepsStreamPromise, Promise!Spec, Promise!streamVars

-----------------------------------------------------------------------------
(***************************************************************************)
(* What the OpenAI translator says of a chunk.  The ids it knows are those *)
(* of the deltas sooner than the place it has come to.                     *)
(***************************************************************************)
(* What is relied on of the lines of a body. *)
Sized(lines, n) ==
  n \in Nat /\ DOMAIN lines = 1..n /\ \A k \in 1..n : lines[k].kind = "chunk" => lines[k].choices \in Seq(StreamChoice)

Place(p) == p = <<p[1], p[2], p[3]>> /\ p[1] \in Nat /\ p[2] \in Nat /\ p[3] \in Nat

LEMMA ChoiceFacts ==
  ASSUME NEW lines, NEW n, Sized(lines, n), NEW k \in Chunks(lines)
  PROVE  /\ k \in 1..n /\ Len(lines[k].choices) \in Nat
         /\ DOMAIN lines[k].choices = 1..Len(lines[k].choices)
         /\ \A c \in 1..Len(lines[k].choices) :
              lines[k].choices[c] \in StreamChoice /\ lines[k].choices[c].calls \in Seq(CallDelta)
<1>1. k \in 1..n /\ lines[k].choices \in Seq(StreamChoice)
  BY DEF Sized, Chunks
<1>2. PICK S, s : S = StreamChoice /\ s = lines[k].choices
  OBVIOUS
<1>3. s \in Seq(S) /\ Len(s) \in Nat /\ DOMAIN s = 1..Len(s) /\ \A c \in 1..Len(s) : s[c] \in S
  BY <1>1, <1>2
<1>4. \A choice \in StreamChoice : choice.calls \in Seq(CallDelta)
  BY DEF StreamChoice
<1> QED
  BY <1>1, <1>2, <1>3, <1>4

LEMMA SeqParts ==
  ASSUME NEW S, NEW s \in Seq(S)
  PROVE  Len(s) \in Nat /\ DOMAIN s = 1..Len(s) /\ \A j \in 1..Len(s) : s[j] \in S
OBVIOUS

LEMMA CallFacts ==
  ASSUME NEW lines, NEW n, Sized(lines, n), NEW k \in Chunks(lines), NEW c \in Asked(lines[k])
  PROVE  /\ c \in Nat /\ Len(lines[k].choices[c].calls) \in Nat
         /\ DOMAIN lines[k].choices[c].calls = 1..Len(lines[k].choices[c].calls)
         /\ \A j \in 1..Len(lines[k].choices[c].calls) : lines[k].choices[c].calls[j] \in CallDelta
<1>1. c \in DOMAIN lines[k].choices
  BY DEF Asked
<1>2. c \in Nat /\ lines[k].choices[c].calls \in Seq(CallDelta)
  BY <1>1, ChoiceFacts
<1> QED
  BY <1>2, SeqParts

LEMMA DeltaIs ==
  ASSUME NEW lines, NEW k \in Chunks(lines), NEW c \in Asked(lines[k]), NEW j \in DOMAIN lines[k].choices[c].calls
  PROVE  /\ <<k, c, j>> \in Deltas(lines) /\ DeltaAt(lines, <<k, c, j>>) = lines[k].choices[c].calls[j]
<1>1. PICK p : p = <<k, c, j>>
  OBVIOUS
<1>2. p \in DeltasIn(lines, k)
  BY <1>1 DEF DeltasIn
<1>3. p \in Deltas(lines)
  BY <1>2 DEF Deltas
<1>4. p[1] = k /\ p[2] = c /\ p[3] = j
  BY <1>1
<1> QED
  BY <1>1, <1>3, <1>4 DEF DeltaAt

LEMMA DeltaParts ==
  ASSUME NEW lines, NEW n, Sized(lines, n), NEW p \in Deltas(lines)
  PROVE  /\ Place(p) /\ p[1] \in Chunks(lines) /\ p[2] \in Asked(lines[p[1]])
         /\ p[3] \in DOMAIN lines[p[1]].choices[p[2]].calls
<1>1. PICK k \in Chunks(lines) : p \in DeltasIn(lines, k)
  BY DEF Deltas
<1>2. PICK c \in Asked(lines[k]) : p \in {<<k, c, j>> : j \in DOMAIN lines[k].choices[c].calls}
  BY <1>1 DEF DeltasIn
<1>3. PICK j \in DOMAIN lines[k].choices[c].calls : p = <<k, c, j>>
  BY <1>2
<1>4. p[1] = k /\ p[2] = c /\ p[3] = j
  BY <1>3
<1>5. k \in Nat
  BY ChoiceFacts
<1>6. c \in Nat /\ j \in Nat
  BY CallFacts, SMTT(30)
<1> QED
  BY <1>3, <1>4, <1>5, <1>6 DEF Place

LEMMA PlaceOrder ==
  /\ \A p, q : Place(p) /\ Place(q) => p = q \/ Sooner(p, q) \/ Sooner(q, p)
  /\ \A p : Place(p) => ~Sooner(p, p)
BY DEF Place, Sooner

LEMMA FirstIs ==
  ASSUME NEW lines, NEW n, Sized(lines, n), NEW index, NEW p \in DeltasOf(lines, index),
         \A q \in DeltasOf(lines, index) : ~Sooner(q, p)
  PROVE  FirstOf(lines, index) = p
<1>1. \A q \in DeltasOf(lines, index) : Place(q)
  BY DeltaParts DEF DeltasOf
<1>2. \A q \in DeltasOf(lines, index) : p = q \/ Sooner(p, q)
  BY <1>1, PlaceOrder
<1>3. \A o \in DeltasOf(lines, index) : (\A q \in DeltasOf(lines, index) : o = q \/ Sooner(o, q)) => o = p
  OBVIOUS
<1> QED
  BY <1>2, <1>3 DEF FirstOf

(* The ids known when all deltas sooner than a place have been absorbed. *)
Known(lines, ids, place) ==
  /\ \A x \in DOMAIN ids : /\ FirstOf(lines, x) \in DeltasOf(lines, x) /\ Sooner(FirstOf(lines, x), place)
                           /\ ids[x] = IdOf(lines, x)
  /\ \A q \in Deltas(lines) : Sooner(q, place) => DeltaAt(lines, q).index \in DOMAIN ids

LEMMA NextSooner ==
  ASSUME NEW k \in Nat, NEW c \in Nat, NEW j \in Nat, NEW q, Place(q)
  PROVE  Sooner(q, <<k, c, j + 1>>) <=> Sooner(q, <<k, c, j>>) \/ q = <<k, c, j>>
BY DEF Place, Sooner

(* A list of events has their type. *)
LEMMA SingleType ==
  ASSUME NEW present \in BOOLEAN, NEW kind \in Kinds, NEW id \in Ids, NEW i \in Nat
  PROVE  Single(present, kind, id, i) \in Seq(Sent)
<1>1. PICK e : e = Event(kind, id, i)
  OBVIOUS
<1>2. e \in Sent
  BY <1>1, EventType
<1>3. <<e>> \in Seq(Sent) /\ <<>> \in Seq(Sent)
  BY <1>2
<1> QED
  BY <1>1, <1>3 DEF Single

(* What a delta makes of the reader: its events, and its id if it is new. *)
LEMMA CallSays ==
  ASSUME NEW lines, NEW n, Sized(lines, n), NEW k \in Chunks(lines), NEW c \in Asked(lines[k]),
         NEW j \in DOMAIN lines[k].choices[c].calls,
         NEW r, NEW m, ReaderType(r, m), Known(lines, r.ids, <<k, c, j>>)
  PROVE  \E q : /\ q = AbsorbCall(r, k, lines[k].choices[c].calls[j])
               /\ q = [r EXCEPT !.ids = q.ids, !.pending = r.pending \o CallEvents(lines, <<k, c, j>>)]
               /\ Known(lines, q.ids, <<k, c, j + 1>>)
<1>1. PICK delta, p, x : delta = lines[k].choices[c].calls[j] /\ p = <<k, c, j>> /\ x = delta.index
  OBVIOUS
<1>2. p \in Deltas(lines) /\ DeltaAt(lines, p) = delta /\ p \in DeltasOf(lines, x)
  BY <1>1, DeltaIs DEF DeltasOf
<1>3. k \in Nat /\ c \in Nat /\ j \in Nat /\ delta \in CallDelta /\ Place(p) /\ p[1] = k
  <2>1. k \in Nat
    BY ChoiceFacts
  <2>2. c \in Nat /\ j \in Nat /\ delta \in CallDelta
    BY <1>1, CallFacts
  <2> QED
    BY <1>1, <1>2, <2>1, <2>2, DeltaParts
<1>4. PICK given : given = IF delta.id # "" THEN delta.id ELSE "tool_call_" \o ToString(x)
  OBVIOUS
<1>5. PICK ids : ids = r.ids /\ ids = [y \in DOMAIN ids |-> ids[y]]
  BY DEF ReaderType
<1>6. Known(lines, ids, p)
  BY <1>1, <1>5
<1>7. \A q \in Deltas(lines) : Place(q) /\ (Sooner(q, <<k, c, j + 1>>) <=> Sooner(q, p) \/ q = p)
  <2>1. \A q \in Deltas(lines) : Place(q)
    BY DeltaParts
  <2> QED
    BY <1>1, <1>3, <2>1, NextSooner
<1>8. PICK q : q = AbsorbCall(r, k, delta)
  OBVIOUS
<1>9. CASE x \notin DOMAIN ids
  <2>1. \A o \in DeltasOf(lines, x) : ~Sooner(o, p)
    BY <1>6, <1>9 DEF Known, DeltasOf
  <2>2. FirstOf(lines, x) = p
    BY <1>2, <2>1, FirstIs
  <2>3. IdOf(lines, x) = given
    BY <1>2, <1>4, <2>2 DEF IdOf
  <2>4. CallEvents(lines, p) = Single(TRUE, "start", given, k) \o Single(delta.arguments, "arguments", given, k)
    BY <1>1, <1>2, <1>3, <2>2, <2>3 DEF CallEvents
  <2>5. PICK more : more = Insert(ids, x, given)
    OBVIOUS
  <2>6. q = [r EXCEPT !.ids = more, !.pending = r.pending \o CallEvents(lines, p)]
    BY <1>1, <1>4, <1>5, <1>8, <1>9, <2>4, <2>5 DEF AbsorbCall, Queue, Single, ReaderType
  <2>7. q.ids = more
    BY <2>6 DEF ReaderType
  <2>8. DOMAIN more = DOMAIN ids \cup {x} /\ more[x] = given /\ \A y \in DOMAIN ids : y # x => more[y] = ids[y]
    BY <2>5 DEF Insert
  <2>9. Known(lines, more, <<k, c, j + 1>>)
    <3>1. ASSUME NEW y \in DOMAIN more
          PROVE  /\ FirstOf(lines, y) \in DeltasOf(lines, y) /\ Sooner(FirstOf(lines, y), <<k, c, j + 1>>)
                 /\ more[y] = IdOf(lines, y)
      <4>1. CASE y = x
        <5>1. Sooner(p, <<k, c, j + 1>>)
          BY <1>2, <1>7
        <5> QED
          BY <1>2, <2>2, <2>3, <2>8, <4>1, <5>1
      <4>2. CASE y # x
        <5>1. y \in DOMAIN ids /\ more[y] = ids[y]
          BY <2>8, <4>2
        <5>2. FirstOf(lines, y) \in DeltasOf(lines, y) /\ Sooner(FirstOf(lines, y), p) /\ ids[y] = IdOf(lines, y)
          BY <1>6, <5>1 DEF Known
        <5>3. FirstOf(lines, y) \in Deltas(lines)
          BY <5>2 DEF DeltasOf
        <5> QED
          BY <1>7, <5>1, <5>2, <5>3
      <4> QED
        BY <4>1, <4>2
    <3>2. ASSUME NEW o \in Deltas(lines), Sooner(o, <<k, c, j + 1>>) PROVE DeltaAt(lines, o).index \in DOMAIN more
      <4>1. CASE o = p
        BY <1>1, <1>2, <2>8, <4>1
      <4>2. CASE Sooner(o, p)
        BY <1>6, <2>8, <4>2 DEF Known
      <4> QED
        BY <1>7, <3>2, <4>1, <4>2
    <3> QED
      BY <3>1, <3>2 DEF Known
  <2> QED
    BY <1>1, <1>8, <2>6, <2>7, <2>9
<1>10. CASE x \in DOMAIN ids
  <2>1. FirstOf(lines, x) \in DeltasOf(lines, x) /\ Sooner(FirstOf(lines, x), p) /\ ids[x] = IdOf(lines, x)
    BY <1>6, <1>10 DEF Known
  <2>2. FirstOf(lines, x) # p
    BY <1>3, <2>1, PlaceOrder
  <2>3. CallEvents(lines, p) = Single(FALSE, "start", ids[x], k) \o Single(delta.arguments, "arguments", ids[x], k)
    BY <1>1, <1>2, <1>3, <2>1, <2>2 DEF CallEvents
  <2>4. Insert(ids, x, ids[x]) = ids
    BY <1>5, <1>10 DEF Insert
  <2>5. q = [r EXCEPT !.ids = ids, !.pending = r.pending \o CallEvents(lines, p)]
    BY <1>1, <1>4, <1>5, <1>8, <1>10, <2>3, <2>4 DEF AbsorbCall, Queue, Single, ReaderType
  <2>6. q.ids = ids
    BY <2>5 DEF ReaderType
  <2>7. Known(lines, ids, <<k, c, j + 1>>)
    <3>1. ASSUME NEW y \in DOMAIN ids
          PROVE  /\ FirstOf(lines, y) \in DeltasOf(lines, y) /\ Sooner(FirstOf(lines, y), <<k, c, j + 1>>)
                 /\ ids[y] = IdOf(lines, y)
      <4>1. FirstOf(lines, y) \in DeltasOf(lines, y) /\ Sooner(FirstOf(lines, y), p) /\ ids[y] = IdOf(lines, y)
        BY <1>6 DEF Known
      <4>2. FirstOf(lines, y) \in Deltas(lines)
        BY <4>1 DEF DeltasOf
      <4> QED
        BY <1>7, <4>1, <4>2
    <3>2. ASSUME NEW o \in Deltas(lines), Sooner(o, <<k, c, j + 1>>) PROVE DeltaAt(lines, o).index \in DOMAIN ids
      BY <1>1, <1>2, <1>6, <1>7, <1>10, <3>2 DEF Known
    <3> QED
      BY <3>1, <3>2 DEF Known
  <2> QED
    BY <1>1, <1>8, <2>5, <2>6, <2>7
<1> QED
  BY <1>9, <1>10

-----------------------------------------------------------------------------
(* The first j members of a list of lists, and what they join to. *)
Upto(e, j) == [i \in 1..j |-> e[i]]

LEMMA UptoNext ==
  ASSUME NEW S, NEW e, NEW j \in Nat, \A i \in 1..(j + 1) : e[i] \in Seq(S)
  PROVE  /\ FlattenSeq(Upto(e, j + 1)) = FlattenSeq(Upto(e, j)) \o e[j + 1]
         /\ FlattenSeq(Upto(e, j)) \in Seq(S) /\ FlattenSeq(Upto(e, j + 1)) \in Seq(S)
<1>1. PICK T, s, u : T = Seq(S) /\ s = Upto(e, j) /\ u = Upto(e, j + 1)
  OBVIOUS
<1>2. \A i \in 1..j : i \in 1..(j + 1)
  OBVIOUS
<1>3. s \in Seq(T) /\ Len(s) = j /\ u \in Seq(T) /\ Len(u) = j + 1
  BY <1>1, <1>2 DEF Upto
<1>4. j + 1 \in 1..(j + 1) /\ e[j + 1] \in T
  BY <1>1
<1>5. Append(s, e[j + 1]) \in Seq(T) /\ Len(Append(s, e[j + 1])) = j + 1
  BY <1>3, <1>4
<1>6. ASSUME NEW i \in 1..(j + 1) PROVE Append(s, e[j + 1])[i] = u[i]
  <2>1. u[i] = e[i] /\ (i \in 1..j => s[i] = e[i])
    BY <1>1 DEF Upto
  <2> QED
    BY <1>3, <1>4, <2>1
<1>7. Append(s, e[j + 1]) = u
  <2>1. PICK v : v = Append(s, e[j + 1])
    OBVIOUS
  <2>2. v \in Seq(T) /\ Len(v) = j + 1 /\ \A i \in 1..(j + 1) : v[i] = u[i]
    BY <1>5, <1>6, <2>1
  <2>3. v = u
    BY <1>3, <2>2
  <2> QED
    BY <2>1, <2>3
<1>8. s \in Seq(Seq(S)) /\ u \in Seq(Seq(S)) /\ e[j + 1] \in Seq(S)
  BY <1>1, <1>3, <1>4
<1>9. FlattenSeq(Append(s, e[j + 1])) = FlattenSeq(s) \o e[j + 1]
  BY <1>8, FlattenAppend
<1>10. FlattenSeq(s) \in Seq(S) /\ FlattenSeq(u) \in Seq(S)
  BY <1>8, FlattenType
<1> QED
  BY <1>1, <1>7, <1>9, <1>10

LEMMA UptoNone == \A e : FlattenSeq(Upto(e, 0)) = <<>>
<1>1. \A e : Upto(e, 0) = <<>>
  BY DEF Upto
<1> QED
  BY <1>1, FlattenEmpty

LEMMA SentConcat ==
  ASSUME NEW s \in Seq(Sent), NEW t \in Seq(Sent), NEW u \in Seq(Sent)
  PROVE  (s \o t) \o u = s \o (t \o u) /\ s \o t \in Seq(Sent) /\ s \o <<>> = s /\ <<>> \o s = s
<1>1. PICK S : S = Sent
  OBVIOUS
<1>2. s \in Seq(S) /\ t \in Seq(S) /\ u \in Seq(S)
  BY <1>1
<1>3. (s \o t) \o u = s \o (t \o u) /\ s \o t \in Seq(S) /\ s \o <<>> = s /\ <<>> \o s = s
  BY <1>2
<1> QED
  BY <1>1, <1>3

LEMMA CallEventsType ==
  ASSUME NEW lines, NEW n, Sized(lines, n), NEW k \in Chunks(lines), NEW c \in Asked(lines[k]),
         NEW j \in DOMAIN lines[k].choices[c].calls,
         NEW q, NEW m, ReaderType(q, m), Known(lines, q.ids, <<k, c, j + 1>>)
  PROVE  CallEvents(lines, <<k, c, j>>) \in Seq(Sent)
<1>1. PICK delta, p, x : delta = lines[k].choices[c].calls[j] /\ p = <<k, c, j>> /\ x = delta.index
  OBVIOUS
<1>2. p \in Deltas(lines) /\ DeltaAt(lines, p) = delta
  BY <1>1, DeltaIs
<1>3. k \in Nat /\ c \in Nat /\ j \in Nat /\ delta.arguments \in BOOLEAN /\ Place(p) /\ p[1] = k
  <2>1. k \in Nat
    BY ChoiceFacts
  <2>2. c \in Nat /\ j \in Nat /\ delta \in CallDelta
    BY <1>1, CallFacts, SMTT(30)
  <2> QED
    BY <1>1, <1>2, <2>1, <2>2, DeltaParts DEF CallDelta
<1>4. Sooner(p, <<k, c, j + 1>>)
  BY <1>1, <1>3, NextSooner
<1>5. x \in DOMAIN q.ids
  BY <1>1, <1>2, <1>4 DEF Known
<1>6. IdOf(lines, x) \in Ids
  BY <1>5 DEF Known, ReaderType
<1>7. PICK id, new : id = IdOf(lines, x) /\ new = (p = FirstOf(lines, x))
  OBVIOUS
<1>8. Single(new, "start", id, k) \in Seq(Sent) /\ Single(delta.arguments, "arguments", id, k) \in Seq(Sent)
  <2>1. new \in BOOLEAN /\ "start" \in Kinds /\ "arguments" \in Kinds
    BY <1>7 DEF Kinds
  <2> QED
    BY <1>3, <1>6, <1>7, <2>1, SingleType
<1>9. CallEvents(lines, p) = Single(new, "start", id, k) \o Single(delta.arguments, "arguments", id, k)
  BY <1>1, <1>2, <1>3, <1>7 DEF CallEvents
<1> QED
  BY <1>1, <1>8, <1>9, SentConcat, ZenonT(40)

(* The reader after it has absorbed some of a line: ids and events are new. *)
Grown(q, r, events) == q = [r EXCEPT !.ids = q.ids, !.pending = r.pending \o events]

CallsOf(lines, k, c) == [j \in DOMAIN lines[k].choices[c].calls |-> CallEvents(lines, <<k, c, j>>)]

LEMMA CallsSay ==
  ASSUME NEW lines, NEW n, Sized(lines, n), NEW k \in Chunks(lines), NEW c \in Asked(lines[k]),
         NEW r, NEW before, NEW m, Live(r, before, m), Known(lines, r.ids, <<k, c, 1>>)
  PROVE  \E q : /\ q = AbsorbCalls(r, k, lines[k].choices[c].calls) /\ Live(q, before, m)
               /\ Grown(q, r, FlattenSeq(CallsOf(lines, k, c))) /\ FlattenSeq(CallsOf(lines, k, c)) \in Seq(Sent)
               /\ Known(lines, q.ids, <<k, c, Len(lines[k].choices[c].calls) + 1>>)
<1>1. PICK calls, l, e : calls = lines[k].choices[c].calls /\ l = Len(calls) /\ e = CallsOf(lines, k, c)
  OBVIOUS
<1>2. l \in Nat /\ DOMAIN calls = 1..l /\ (\A j \in 1..l : calls[j] \in CallDelta) /\ k \in Nat /\ c \in Nat
  <2>1. k \in Nat
    BY ChoiceFacts
  <2> QED
    BY <1>1, <2>1, CallFacts
<1>3. PICK f : /\ f[0] = r /\ f[l] = AbsorbCalls(r, k, calls)
               /\ \A j \in 1..l : f[j] = AbsorbCall(f[j - 1], k, calls[j])
  <2>1. l \in Nat /\ Len(calls) = l
    BY <1>1, <1>2
  <2> QED
    BY <2>1, AbsorbCallsSteps, SMTT(30)
<1>4. \A j \in 1..l : e[j] = CallEvents(lines, <<k, c, j>>)
  BY <1>1, <1>2 DEF CallsOf
<1> DEFINE SoFar(j) == /\ Live(f[j], before, m) /\ (\A i \in 1..j : e[i] \in Seq(Sent))
                      /\ Grown(f[j], r, FlattenSeq(Upto(e, j))) /\ Known(lines, f[j].ids, <<k, c, j + 1>>)
           Holds == {j \in 0..l : SoFar(j)}
<1>5. 0 \in Holds
  <2>1. Grown(r, r, <<>>)
    <3>1. r.pending \o <<>> = r.pending
      <4>1. PICK S, p : S = Sent /\ p = r.pending
        OBVIOUS
      <4>2. p \in Seq(S)
        BY <4>1 DEF Live, Good, ReaderType
      <4> QED
        BY <4>1, <4>2
    <3> QED
      BY <3>1 DEF Grown, Live, Good, ReaderType
  <2>2. FlattenSeq(Upto(e, 0)) = <<>>
    BY UptoNone
  <2>3. Known(lines, f[0].ids, <<k, c, 0 + 1>>)
    BY <1>3
  <2> QED
    BY <1>2, <1>3, <2>1, <2>2, <2>3
<1>6. ASSUME NEW j \in 0..l, j \in Holds, j < l PROVE j + 1 \in Holds
  <2>1. j \in Nat /\ j + 1 \in 1..l /\ j + 1 \in 0..l /\ (j + 1) - 1 = j
    BY <1>2, <1>6
  <2>2. PICK a, q, d : a = f[j] /\ q = f[j + 1] /\ d = e[j + 1]
    OBVIOUS
  <2>3. Live(a, before, m) /\ Grown(a, r, FlattenSeq(Upto(e, j))) /\ Known(lines, a.ids, <<k, c, j + 1>>)
    BY <1>6, <2>2
  <2>4. q = AbsorbCall(a, k, calls[j + 1]) /\ calls[j + 1] \in CallDelta
    BY <1>2, <1>3, <2>1, <2>2
  <2>5. Live(q, before, m)
    BY <1>2, <2>3, <2>4, AbsorbCallKeeps
  <2>6. Grown(q, a, d) /\ Known(lines, q.ids, <<k, c, (j + 1) + 1>>)
    <3>1. ReaderType(a, m) /\ j + 1 \in DOMAIN lines[k].choices[c].calls
      BY <1>1, <1>2, <2>1, <2>3 DEF Live, Good
    <3>2. \E o : /\ o = AbsorbCall(a, k, lines[k].choices[c].calls[j + 1])
                 /\ o = [a EXCEPT !.ids = o.ids, !.pending = a.pending \o CallEvents(lines, <<k, c, j + 1>>)]
                 /\ Known(lines, o.ids, <<k, c, (j + 1) + 1>>)
      BY <2>3, <3>1, CallSays
    <3> QED
      BY <1>1, <1>4, <2>1, <2>2, <2>4, <3>2 DEF Grown
  <2>7. d \in Seq(Sent)
    <3>1. ReaderType(q, m) /\ j + 1 \in DOMAIN lines[k].choices[c].calls
      BY <1>1, <1>2, <2>1, <2>5 DEF Live, Good
    <3>2. CallEvents(lines, <<k, c, j + 1>>) \in Seq(Sent)
      BY <2>6, <3>1, CallEventsType
    <3> QED
      BY <1>4, <2>1, <2>2, <3>2
  <2>8. \A i \in 1..(j + 1) : e[i] \in Seq(Sent)
    <3>1. \A i \in 1..(j + 1) : i \in 1..j \/ i = j + 1
      BY <2>1
    <3> QED
      BY <1>6, <2>2, <2>7, <3>1
  <2>9. PICK g, h : g = FlattenSeq(Upto(e, j)) /\ h = FlattenSeq(Upto(e, j + 1))
    OBVIOUS
  <2>10. g \in Seq(Sent) /\ h = g \o d
    BY <2>1, <2>2, <2>8, <2>9, UptoNext
  <2>11. Grown(q, r, h)
    <3>1. a.pending = r.pending \o g /\ q.pending = a.pending \o d
      BY <2>3, <2>5, <2>6, <2>9 DEF Grown, Live, Good, ReaderType
    <3>2. PICK p \in Seq(Sent) : p = r.pending
      BY DEF Live, Good, ReaderType
    <3>3. (p \o g) \o d = p \o (g \o d)
      BY <2>7, <2>10, SentConcat, SMTT(30)
    <3>4. q.pending = r.pending \o h
      BY <2>10, <3>1, <3>2, <3>3
    <3> QED
      BY <2>3, <2>5, <2>6, <3>4 DEF Grown, Live, Good, ReaderType
  <2> QED
    BY <2>1, <2>2, <2>5, <2>6, <2>8, <2>9, <2>11
<1> HIDE DEF Holds
<1>7. l \in Holds
  <2>1. \A j \in 0..l : j \in Holds
    BY <1>2, <1>5, <1>6, InductionUpTo
  <2> QED
    BY <1>2, <2>1
<1>8. SoFar(l)
  BY <1>7 DEF Holds
<1>9. Upto(e, l) = e
  BY <1>1, <1>2 DEF Upto, CallsOf
<1>10. FlattenSeq(e) \in Seq(Sent)
  <2>1. e \in Seq(Seq(Sent))
    <3>1. PICK T : T = Seq(Sent)
      OBVIOUS
    <3>2. e = [i \in 1..l |-> e[i]] /\ \A i \in 1..l : e[i] \in T
      BY <1>1, <1>2, <1>8, <3>1 DEF CallsOf
    <3>3. e \in Seq(T)
      BY <1>2, <3>2
    <3> QED
      BY <3>1, <3>3
  <2> QED
    BY <2>1, FlattenType
<1> QED
  BY <1>1, <1>3, <1>8, <1>9, <1>10

-----------------------------------------------------------------------------
LEMMA KnownSame ==
  ASSUME NEW lines, NEW ids, NEW a, NEW b, Known(lines, ids, a),
         \A q \in Deltas(lines) : Sooner(q, a) <=> Sooner(q, b)
  PROVE  Known(lines, ids, b)
<1>1. ASSUME NEW x \in DOMAIN ids
      PROVE  FirstOf(lines, x) \in DeltasOf(lines, x) /\ Sooner(FirstOf(lines, x), b) /\ ids[x] = IdOf(lines, x)
  <2>1. FirstOf(lines, x) \in DeltasOf(lines, x) /\ Sooner(FirstOf(lines, x), a) /\ ids[x] = IdOf(lines, x)
    BY DEF Known
  <2>2. FirstOf(lines, x) \in Deltas(lines)
    BY <2>1 DEF DeltasOf
  <2> QED
    BY <2>1, <2>2
<1> QED
  BY <1>1 DEF Known

(* After the last delta of a choice comes the next choice. *)
LEMMA KnownChoice ==
  ASSUME NEW lines, NEW n, Sized(lines, n), NEW k \in Chunks(lines), NEW c \in Asked(lines[k]), NEW ids,
         Known(lines, ids, <<k, c, Len(lines[k].choices[c].calls) + 1>>)
  PROVE  Known(lines, ids, <<k, c + 1, 1>>)
<1>1. PICK l : l = Len(lines[k].choices[c].calls)
  OBVIOUS
<1>2. k \in Nat /\ c \in Nat /\ l \in Nat
  BY <1>1, ChoiceFacts, CallFacts
<1>3. ASSUME NEW q \in Deltas(lines) PROVE Sooner(q, <<k, c, l + 1>>) <=> Sooner(q, <<k, c + 1, 1>>)
  <2>1. Place(q) /\ (q[1] = k /\ q[2] = c => q[3] \in 1..l) /\ q[3] >= 1
    <3>1. Place(q) /\ q[1] \in Chunks(lines) /\ q[2] \in Asked(lines[q[1]])
          /\ q[3] \in DOMAIN lines[q[1]].choices[q[2]].calls
      BY DeltaParts
    <3>2. q[3] \in 1..Len(lines[q[1]].choices[q[2]].calls) /\ Len(lines[q[1]].choices[q[2]].calls) \in Nat
      BY <3>1, CallFacts
    <3> QED
      BY <1>1, <3>1, <3>2
  <2> QED
    BY <1>2, <2>1 DEF Place, Sooner
<1> QED
  BY <1>1, <1>3, KnownSame

(* A choice that is not asked for has no deltas. *)
LEMMA KnownSkip ==
  ASSUME NEW lines, NEW n, Sized(lines, n), NEW k \in Chunks(lines), NEW c \in Nat, c \notin Asked(lines[k]), NEW ids,
         Known(lines, ids, <<k, c, 1>>)
  PROVE  Known(lines, ids, <<k, c + 1, 1>>)
<1>1. k \in Nat
  BY ChoiceFacts
<1>2. ASSUME NEW q \in Deltas(lines) PROVE Sooner(q, <<k, c, 1>>) <=> Sooner(q, <<k, c + 1, 1>>)
  <2>1. Place(q) /\ ~(q[1] = k /\ q[2] = c) /\ q[3] >= 1
    <3>1. Place(q) /\ q[1] \in Chunks(lines) /\ q[2] \in Asked(lines[q[1]])
          /\ q[3] \in DOMAIN lines[q[1]].choices[q[2]].calls
      BY DeltaParts
    <3>2. q[3] \in 1..Len(lines[q[1]].choices[q[2]].calls) /\ Len(lines[q[1]].choices[q[2]].calls) \in Nat
      BY <3>1, CallFacts
    <3> QED
      BY <3>1, <3>2
  <2> QED
    BY <1>1, <2>1 DEF Place, Sooner
<1> QED
  BY <1>2, KnownSame

(* After the last choice of a line comes the next line. *)
LEMMA KnownLine ==
  ASSUME NEW lines, NEW n, Sized(lines, n), NEW k \in Chunks(lines), NEW ids,
         Known(lines, ids, <<k, Len(lines[k].choices) + 1, 1>>)
  PROVE  Known(lines, ids, <<k + 1, 1, 1>>)
<1>1. PICK l : l = Len(lines[k].choices)
  OBVIOUS
<1>2. k \in Nat /\ l \in Nat /\ DOMAIN lines[k].choices = 1..l
  BY <1>1, ChoiceFacts
<1>3. ASSUME NEW q \in Deltas(lines) PROVE Sooner(q, <<k, l + 1, 1>>) <=> Sooner(q, <<k + 1, 1, 1>>)
  <2>1. Place(q) /\ (q[1] = k => q[2] \in 1..l) /\ q[3] >= 1 /\ q[2] >= 1
    <3>1. Place(q) /\ q[1] \in Chunks(lines) /\ q[2] \in Asked(lines[q[1]])
          /\ q[3] \in DOMAIN lines[q[1]].choices[q[2]].calls
      BY DeltaParts
    <3>2. q[3] \in 1..Len(lines[q[1]].choices[q[2]].calls) /\ Len(lines[q[1]].choices[q[2]].calls) \in Nat
      BY <3>1, CallFacts
    <3>3. q[2] \in 1..Len(lines[q[1]].choices) /\ Len(lines[q[1]].choices) \in Nat
      BY <3>1, ChoiceFacts DEF Asked
    <3> QED
      BY <1>1, <3>1, <3>2, <3>3
  <2> QED
    BY <1>2, <2>1 DEF Place, Sooner
<1> QED
  BY <1>1, <1>3, KnownSame

(* What a choice makes of the reader. *)
LEMMA ChoiceSays ==
  ASSUME NEW lines, NEW n, Sized(lines, n), NEW k \in Chunks(lines), NEW c \in Asked(lines[k]),
         NEW r, NEW before, NEW m, Live(r, before, m), Known(lines, r.ids, <<k, c, 1>>)
  PROVE  \E q : /\ q = AbsorbChoice(r, k, lines[k].choices[c]) /\ Live(q, before, m)
               /\ q.pending = r.pending \o ChoiceEvents(lines, k, c) /\ ChoiceEvents(lines, k, c) \in Seq(Sent)
               /\ q.model = r.model /\ q.held = r.held
               /\ q.finish = (IF lines[k].choices[c].finish = "" THEN r.finish
                              ELSE OpenAiStop(lines[k].choices[c].finish))
               /\ Known(lines, q.ids, <<k, c + 1, 1>>)
<1>1. PICK choice, calls : choice = lines[k].choices[c] /\ calls = FlattenSeq(CallsOf(lines, k, c))
  OBVIOUS
<1>2. k \in Nat /\ choice \in StreamChoice
  <2>1. c \in DOMAIN lines[k].choices
    BY DEF Asked
  <2> QED
    BY <1>1, <2>1, ChoiceFacts
<1>3. PICK e, f, s, t : /\ e = Event("reasoning", ReasoningText(choice.reasoning), k) /\ f = Event("text", "", k)
                        /\ s = (IF choice.reasoning = {} THEN <<>> ELSE <<e>>)
                        /\ t = (IF choice.text THEN <<f>> ELSE <<>>)
  OBVIOUS
<1>4. e \in Plain /\ f \in Plain
  <2>1. ReasoningText(choice.reasoning) \in {"reasoning_content", "reasoning", "thinking"}
    BY DEF ReasoningText
  <2>2. ReasoningText(choice.reasoning) \in Texts /\ "" \in Texts
    BY <2>1 DEF Texts, Literals
  <2>3. Event("reasoning", ReasoningText(choice.reasoning), k) \in Plain
    BY <1>2, <2>2, PlainEvent
  <2>4. Event("text", "", k) \in Plain
    BY <1>2, <2>2, PlainEvent
  <2> QED
    BY <1>3, <2>3, <2>4
<1>5. s \in {<<>>, <<e>>} /\ t \in {<<>>, <<f>>}
  BY <1>3
<1>6. s \in Seq(Sent) /\ t \in Seq(Sent) /\ r.pending \in Seq(Sent) /\ ReaderType(r, m)
  <2>1. e \in Sent /\ f \in Sent
    BY <1>4 DEF Plain
  <2>2. <<>> \in Seq(Sent) /\ <<e>> \in Seq(Sent) /\ <<f>> \in Seq(Sent)
    BY <2>1
  <2> QED
    BY <1>5, <2>2 DEF Live, Good, ReaderType
<1>7. PICK q1, a : a = s \o t /\ q1 = Queue(r, a)
  OBVIOUS
<1>8. Live(q1, before, m)
  <2>1. Live(Queue(r, s), before, m)
    BY <1>4, <1>5, QueueMaybe
  <2>2. Live(Queue(Queue(r, s), t), before, m)
    BY <1>4, <1>5, <2>1, QueueMaybe
  <2>3. Queue(r, s \o t) = Queue(Queue(r, s), t)
    BY <1>6, QueueParts
  <2> QED
    BY <1>7, <2>2, <2>3
<1>9. /\ q1 = [held |-> r.held, ids |-> r.ids, model |-> r.model, finish |-> r.finish,
               pending |-> r.pending \o a, done |-> r.done]
  BY <1>6, <1>7 DEF Queue, ReaderType
<1>10. PICK called : /\ called = AbsorbCalls(q1, k, choice.calls) /\ Live(called, before, m)
                     /\ Grown(called, q1, calls) /\ calls \in Seq(Sent)
                     /\ Known(lines, called.ids, <<k, c, Len(choice.calls) + 1>>)
  <2>1. Known(lines, q1.ids, <<k, c, 1>>)
    BY <1>9
  <2> QED
    BY <1>1, <1>8, <2>1, CallsSay
<1>11. /\ called.pending = (r.pending \o a) \o calls /\ called.model = r.model /\ called.held = r.held
       /\ called.finish = r.finish
  BY <1>9, <1>10 DEF Grown
<1>12. ChoiceEvents(lines, k, c) = a \o calls
  <2>1. s = Single(choice.reasoning # {}, "reasoning", ReasoningText(choice.reasoning), k)
    BY <1>3 DEF Single
  <2>2. t = Single(choice.text, "text", "", k)
    BY <1>3 DEF Single
  <2>3. calls = FlattenSeq([j \in DOMAIN choice.calls |-> CallEvents(lines, <<k, c, j>>)])
    BY <1>1 DEF CallsOf
  <2> QED
    BY <1>1, <1>7, <2>1, <2>2, <2>3 DEF ChoiceEvents
<1>13. a \in Seq(Sent) /\ (r.pending \o a) \o calls = r.pending \o (a \o calls) /\ a \o calls \in Seq(Sent)
  <2>1. PICK p : p = r.pending
    OBVIOUS
  <2>2. a \in Seq(Sent)
    BY <1>6, <1>7, SentConcat
  <2>3. p \in Seq(Sent) /\ calls \in Seq(Sent)
    BY <1>6, <1>10, <2>1
  <2>4. (p \o a) \o calls = p \o (a \o calls) /\ a \o calls \in Seq(Sent)
    BY <2>2, <2>3, SentConcat
  <2> QED
    BY <2>1, <2>2, <2>4
<1>14. Known(lines, called.ids, <<k, c + 1, 1>>)
  BY <1>1, <1>10, KnownChoice
<1>15. PICK q : q = AbsorbChoice(r, k, choice)
  OBVIOUS
<1>16. q = IF choice.finish = "" THEN called ELSE Stopped(called, OpenAiStop(choice.finish))
  BY <1>3, <1>7, <1>10, <1>15 DEF AbsorbChoice, Stopped
<1>17. /\ Live(q, before, m) /\ q.ids = called.ids /\ q.pending = called.pending /\ q.model = called.model
       /\ q.held = called.held
       /\ q.finish = IF choice.finish = "" THEN called.finish ELSE OpenAiStop(choice.finish)
  <2>1. Live(q, before, m)
    BY <1>1, <1>2, <1>15, AbsorbChoiceKeeps
  <2>2. ReaderType(called, m)
    BY <1>10 DEF Live, Good
  <2> QED
    BY <1>16, <2>1, <2>2 DEF Stopped, ReaderType
<1> QED
  BY <1>1, <1>11, <1>12, <1>13, <1>14, <1>15, <1>17

-----------------------------------------------------------------------------
LEMMA LatestIs ==
  ASSUME NEW S, S \subseteq Nat, NEW k \in S, \A j \in S : j <= k
  PROVE  Latest(S) = k
<1>1. S # {}
  OBVIOUS
<1>2. \A o \in S : (\A j \in S : j <= o) => o = k
  BY SMT
<1> QED
  BY <1>1, <1>2 DEF Latest

ReasonsTo(line, c) == {x \in Reasons(line) : x <= c}

StopTo(line, c, before) ==
  IF ReasonsTo(line, c) = {} THEN before ELSE OpenAiStop(line.choices[Latest(ReasonsTo(line, c))].finish)

LEMMA ReasonsAreCounts ==
  ASSUME NEW lines, NEW n, Sized(lines, n), NEW k \in Chunks(lines)
  PROVE  Reasons(lines[k]) \subseteq 1..Len(lines[k].choices) /\ Reasons(lines[k]) \subseteq Nat
<1>1. PICK l : l = Len(lines[k].choices)
  OBVIOUS
<1>2. l \in Nat /\ DOMAIN lines[k].choices = 1..l
  BY <1>1, ChoiceFacts
<1>3. Reasons(lines[k]) \subseteq 1..l
  BY <1>2 DEF Reasons, Asked
<1> QED
  BY <1>1, <1>2, <1>3

LEMMA StopToNext ==
  ASSUME NEW lines, NEW n, Sized(lines, n), NEW k \in Chunks(lines), NEW c \in Nat, NEW before
  PROVE  StopTo(lines[k], c + 1, before) =
           IF c + 1 \in Reasons(lines[k]) THEN OpenAiStop(lines[k].choices[c + 1].finish)
           ELSE StopTo(lines[k], c, before)
<1>1. PICK line, all, some : line = lines[k] /\ all = ReasonsTo(line, c + 1) /\ some = ReasonsTo(line, c)
  OBVIOUS
<1>2. Reasons(line) \subseteq Nat
  BY <1>1, ReasonsAreCounts
<1>3. CASE c + 1 \in Reasons(line)
  <2>1. c + 1 \in all /\ all \subseteq Nat /\ \A j \in all : j <= c + 1
    BY <1>1, <1>2, <1>3 DEF ReasonsTo
  <2>2. Latest(all) = c + 1
    <3>1. PICK x : x = c + 1
      OBVIOUS
    <3>2. Latest(all) = x
      BY <2>1, <3>1, LatestIs
    <3> QED
      BY <3>1, <3>2
  <2> QED
    BY <1>1, <1>3, <2>1, <2>2 DEF StopTo
<1>4. CASE c + 1 \notin Reasons(line)
  <2>1. all = some
    BY <1>1, <1>2, <1>4 DEF ReasonsTo
  <2> QED
    BY <1>1, <1>4, <2>1 DEF StopTo
<1> QED
  BY <1>1, <1>3, <1>4

ChoicesOf(lines, k) ==
  [c \in DOMAIN lines[k].choices |-> IF c \in Asked(lines[k]) THEN ChoiceEvents(lines, k, c) ELSE <<>>]

LEMMA ChoicesSay ==
  ASSUME NEW lines, NEW n, Sized(lines, n), NEW k \in Chunks(lines),
         NEW r, NEW before, NEW m, Live(r, before, m), Known(lines, r.ids, <<k, 1, 1>>)
  PROVE  \E q : /\ q = AbsorbChoices(r, k, lines[k].choices) /\ Live(q, before, m)
               /\ q.pending = r.pending \o FlattenSeq(ChoicesOf(lines, k)) /\ FlattenSeq(ChoicesOf(lines, k)) \in Seq(Sent)
               /\ q.model = r.model /\ q.held = r.held
               /\ q.finish = StopTo(lines[k], Len(lines[k].choices), r.finish)
               /\ Known(lines, q.ids, <<k + 1, 1, 1>>)
<1>1. PICK line, choices, l, e : line = lines[k] /\ choices = line.choices /\ l = Len(choices) /\ e = ChoicesOf(lines, k)
  OBVIOUS
<1>2. l \in Nat /\ DOMAIN choices = 1..l /\ (\A c \in 1..l : choices[c] \in StreamChoice) /\ k \in Nat
  BY <1>1, ChoiceFacts
<1>3. PICK f : /\ f[0] = r /\ f[l] = AbsorbChoices(r, k, choices)
               /\ \A c \in 1..l : f[c] = IF choices[c].index = 0 THEN AbsorbChoice(f[c - 1], k, choices[c]) ELSE f[c - 1]
  <2>1. l \in Nat /\ Len(choices) = l
    BY <1>1, <1>2
  <2> QED
    BY <2>1, AbsorbChoicesSteps
<1>4. \A c \in 1..l : e[c] = IF c \in Asked(line) THEN ChoiceEvents(lines, k, c) ELSE <<>>
  BY <1>1, <1>2 DEF ChoicesOf
<1>5. \A c \in 1..l : c \in Asked(line) <=> choices[c].index = 0
  BY <1>1, <1>2 DEF Asked
<1> DEFINE SoFar(c) == /\ Live(f[c], before, m) /\ (\A i \in 1..c : e[i] \in Seq(Sent))
                      /\ f[c].pending = r.pending \o FlattenSeq(Upto(e, c))
                      /\ f[c].model = r.model /\ f[c].held = r.held /\ f[c].finish = StopTo(line, c, r.finish)
                      /\ Known(lines, f[c].ids, <<k, c + 1, 1>>)
           Holds == {c \in 0..l : SoFar(c)}
<1>6. 0 \in Holds
  <2>1. r.pending \o <<>> = r.pending
    <3>1. PICK p \in Seq(Sent) : p = r.pending
      BY DEF Live, Good, ReaderType
    <3>2. p \o <<>> = p
      BY <3>1, SentConcat
    <3> QED
      BY <3>1, <3>2
  <2>2. FlattenSeq(Upto(e, 0)) = <<>>
    BY UptoNone
  <2>3. StopTo(line, 0, r.finish) = r.finish
    <3>1. ReasonsTo(line, 0) = {}
      <4>1. Reasons(line) \subseteq 1..l
        BY <1>1, ReasonsAreCounts
      <4> QED
        BY <1>2, <4>1 DEF ReasonsTo
    <3> QED
      BY <3>1 DEF StopTo
  <2>4. Known(lines, f[0].ids, <<k, 0 + 1, 1>>)
    BY <1>3
  <2>5. PICK q : q = f[0] /\ q = r
    BY <1>3
  <2>6. q.pending = r.pending \o FlattenSeq(Upto(e, 0)) /\ q.finish = StopTo(line, 0, r.finish)
    BY <2>1, <2>2, <2>3, <2>5
  <2>7. Live(q, before, m) /\ q.model = r.model /\ q.held = r.held /\ Known(lines, q.ids, <<k, 0 + 1, 1>>)
    BY <2>4, <2>5
  <2>8. \A i \in 1..0 : e[i] \in Seq(Sent)
    OBVIOUS
  <2>9. SoFar(0)
    BY <2>5, <2>6, <2>7, <2>8
  <2> QED
    BY <1>2, <2>9
<1>7. ASSUME NEW c \in 0..l, c \in Holds, c < l PROVE c + 1 \in Holds
  <2>1. c \in Nat /\ c + 1 \in 1..l /\ c + 1 \in 0..l /\ (c + 1) - 1 = c
    BY <1>2, <1>7
  <2>2. PICK a, q, d : a = f[c] /\ q = f[c + 1] /\ d = e[c + 1]
    OBVIOUS
  <2>3. /\ Live(a, before, m) /\ a.pending = r.pending \o FlattenSeq(Upto(e, c)) /\ a.model = r.model /\ a.held = r.held
        /\ a.finish = StopTo(line, c, r.finish) /\ Known(lines, a.ids, <<k, c + 1, 1>>)
    BY <1>7, <2>2
  <2>4. PICK stop : stop = StopTo(line, c + 1, r.finish)
    OBVIOUS
  <2>5. stop = IF c + 1 \in Reasons(line) THEN OpenAiStop(choices[c + 1].finish) ELSE StopTo(line, c, r.finish)
    BY <1>1, <2>1, <2>4, StopToNext
  <2>6. /\ Live(q, before, m) /\ q.pending = a.pending \o d /\ d \in Seq(Sent) /\ q.model = a.model /\ q.held = a.held
        /\ q.finish = stop /\ Known(lines, q.ids, <<k, (c + 1) + 1, 1>>)
    <3>1. CASE c + 1 \in Asked(line)
      <4>1. q = AbsorbChoice(a, k, choices[c + 1]) /\ d = ChoiceEvents(lines, k, c + 1)
        BY <1>3, <1>4, <1>5, <2>1, <2>2, <3>1
      <4>2. PICK x : x = c + 1
        OBVIOUS
      <4>3. \E o : /\ o = AbsorbChoice(a, k, lines[k].choices[x]) /\ Live(o, before, m)
                   /\ o.pending = a.pending \o ChoiceEvents(lines, k, x) /\ ChoiceEvents(lines, k, x) \in Seq(Sent)
                   /\ o.model = a.model /\ o.held = a.held
                   /\ o.finish = (IF lines[k].choices[x].finish = "" THEN a.finish
                                  ELSE OpenAiStop(lines[k].choices[x].finish))
                   /\ Known(lines, o.ids, <<k, x + 1, 1>>)
        <5>1. x \in Asked(lines[k]) /\ Known(lines, a.ids, <<k, x, 1>>)
          BY <1>1, <2>3, <3>1, <4>2
        <5> QED
          BY <2>3, <5>1, ChoiceSays, ZenonT(40)
      <4>4. x \in Reasons(line) <=> choices[x].finish # ""
        BY <1>1, <3>1, <4>2 DEF Reasons
      <4> QED
        BY <1>1, <2>3, <2>5, <4>1, <4>2, <4>3, <4>4
    <3>2. CASE c + 1 \notin Asked(line)
      <4>1. q = a /\ d = <<>>
        BY <1>3, <1>4, <1>5, <2>1, <2>2, <3>2
      <4>2. c + 1 \notin Reasons(line)
        BY <3>2 DEF Reasons
      <4>3. Known(lines, a.ids, <<k, (c + 1) + 1, 1>>)
        <5>1. PICK x \in Nat : x = c + 1
          BY <2>1
        <5>2. x \notin Asked(lines[k]) /\ Known(lines, a.ids, <<k, x, 1>>)
          BY <1>1, <2>3, <3>2, <5>1
        <5>3. Known(lines, a.ids, <<k, x + 1, 1>>)
          BY <5>2, KnownSkip
        <5> QED
          BY <5>1, <5>3
      <4>4. a.pending \o <<>> = a.pending /\ <<>> \in Seq(Sent)
        <5>1. PICK p \in Seq(Sent) : p = a.pending
          BY <2>3 DEF Live, Good, ReaderType
        <5>2. p \o <<>> = p
          BY <5>1, SentConcat
        <5> QED
          BY <5>1, <5>2
      <4> QED
        BY <2>3, <2>5, <4>1, <4>2, <4>3, <4>4
    <3> QED
      BY <3>1, <3>2
  <2>7. \A i \in 1..(c + 1) : e[i] \in Seq(Sent)
    <3>1. \A i \in 1..(c + 1) : i \in 1..c \/ i = c + 1
      BY <2>1
    <3> QED
      BY <1>7, <2>2, <2>6, <3>1
  <2>8. PICK g, h : g = FlattenSeq(Upto(e, c)) /\ h = FlattenSeq(Upto(e, c + 1))
    OBVIOUS
  <2>9. g \in Seq(Sent) /\ h = g \o d
    BY <2>1, <2>2, <2>7, <2>8, UptoNext
  <2>10. q.pending = r.pending \o h
    <3>1. PICK p \in Seq(Sent) : p = r.pending
      BY DEF Live, Good, ReaderType
    <3>2. (p \o g) \o d = p \o (g \o d)
      BY <2>6, <2>9, SentConcat, SMTT(30)
    <3> QED
      BY <2>3, <2>6, <2>8, <2>9, <3>1, <3>2
  <2> QED
    BY <2>1, <2>2, <2>3, <2>4, <2>6, <2>7, <2>8, <2>10
<1> HIDE DEF Holds
<1>8. l \in Holds
  <2>1. \A c \in 0..l : c \in Holds
    BY <1>2, <1>6, <1>7, InductionUpTo
  <2> QED
    BY <1>2, <2>1
<1>9. SoFar(l)
  BY <1>8 DEF Holds
<1>10. Upto(e, l) = e
  BY <1>1, <1>2 DEF Upto, ChoicesOf
<1>11. FlattenSeq(e) \in Seq(Sent)
  <2>1. e \in Seq(Seq(Sent))
    <3>1. PICK T : T = Seq(Sent)
      OBVIOUS
    <3>2. e = [i \in 1..l |-> e[i]] /\ \A i \in 1..l : e[i] \in T
      BY <1>1, <1>2, <1>9, <3>1 DEF ChoicesOf
    <3>3. e \in Seq(T)
      BY <1>2, <3>2
    <3> QED
      BY <3>1, <3>3
  <2> QED
    BY <2>1, FlattenType
<1>12. Known(lines, f[l].ids, <<k + 1, 1, 1>>)
  BY <1>1, <1>9, KnownLine
<1> QED
  BY <1>1, <1>3, <1>9, <1>10, <1>11, <1>12

-----------------------------------------------------------------------------
(***************************************************************************)
(* A line at a time.                                                       *)
(***************************************************************************)
Fits(dialect, lines, n) ==
  /\ n \in Nat /\ DOMAIN lines = 1..n
  /\ \/ dialect = "openai" /\ \A k \in 1..n : lines[k] \in OpenAiLine
     \/ dialect = "anthropic" /\ \A k \in 1..n : lines[k] \in AnthropicLine

LEMMA FitsFacts ==
  ASSUME NEW dialect, NEW lines, NEW n, Fits(dialect, lines, n)
  PROVE  /\ Sized(lines, n)
         /\ dialect = "openai" => \A k \in 1..n : lines[k].kind \in {"other", "undecodable", "done", "error", "chunk"}
         /\ dialect = "anthropic" => \A k \in 1..n : lines[k].kind \notin {"done", "chunk"}
         /\ \A k \in 1..n : LineOk(lines[k])
         /\ \A k \in 1..n : /\ lines[k].kind = "chunk" => lines[k].model \in BOOLEAN /\ lines[k].usage \in BOOLEAN
                            /\ lines[k].kind = "message_start" => lines[k].model \in BOOLEAN /\ lines[k].usage \in BOOLEAN
<1>1. \A k \in 1..n : lines[k] \in OpenAiLine \/ lines[k] \in AnthropicLine
  BY DEF Fits
<1>2. \A k \in 1..n : LineOk(lines[k])
  BY <1>1, LinesOk
<1>3. \A line \in OpenAiLine : line.kind \in {"other", "undecodable", "done", "error", "chunk"}
  BY DEF OpenAiLine
<1>4. \A line \in AnthropicLine : line.kind \notin {"done", "chunk"}
  BY DEF AnthropicLine
<1>5. \A line \in OpenAiLine : line.kind = "chunk" => line.model \in BOOLEAN /\ line.usage \in BOOLEAN
  BY DEF OpenAiLine
<1>6. \A line \in AnthropicLine : line.kind = "message_start" => line.model \in BOOLEAN /\ line.usage \in BOOLEAN
  BY DEF AnthropicLine
<1>7. Sized(lines, n)
  BY <1>2 DEF Sized, Fits, LineOk
<1>8. dialect = "openai" => \A k \in 1..n : lines[k] \in OpenAiLine
  BY DEF Fits
<1>9. dialect = "anthropic" => \A k \in 1..n : lines[k] \in AnthropicLine
  BY DEF Fits
<1>10. \A k \in 1..n : lines[k].kind = "chunk" => lines[k].model \in BOOLEAN /\ lines[k].usage \in BOOLEAN
  BY <1>1, <1>4, <1>5
<1>11. \A k \in 1..n : lines[k].kind = "message_start" => lines[k].model \in BOOLEAN /\ lines[k].usage \in BOOLEAN
  BY <1>1, <1>3, <1>6
<1> QED
  BY <1>2, <1>3, <1>4, <1>7, <1>8, <1>9, <1>10, <1>11

(* The lines that name the model, and that give a stop reason. *)
Names(line) == line.kind = "message_start" \/ (line.kind = "chunk" /\ line.model)
Stops(line) == line.kind = "message_delta" \/ (line.kind = "chunk" /\ Reasons(line) # {})

LEMMA ModelNext ==
  ASSUME NEW lines, NEW m \in Nat
  PROVE  ModelOf(lines, m + 1) = IF Names(lines[m + 1]) THEN IF lines[m + 1].model THEN m + 1 ELSE 0
                                 ELSE ModelOf(lines, m)
<1>1. PICK S, T, added : S = Namers(lines, m) /\ T = Namers(lines, m + 1) /\ added = Names(lines[m + 1])
  OBVIOUS
<1>2. S \subseteq 1..m /\ T = IF Names(lines[m + 1]) THEN S \cup {m + 1} ELSE S
  BY <1>1 DEF Namers, Names
<1>3. CASE Names(lines[m + 1])
  <2>1. PICK x : x = m + 1
    OBVIOUS
  <2>2. T \subseteq Nat /\ x \in T /\ \A j \in T : j <= x
    BY <1>2, <1>3, <2>1
  <2>3. Latest(T) = x
    BY <2>2, LatestIs
  <2>4. Latest(T) = m + 1 /\ m + 1 # 0
    BY <2>1, <2>3
  <2> QED
    BY <1>1, <1>3, <2>4 DEF ModelOf
<1>4. CASE ~Names(lines[m + 1])
  BY <1>1, <1>2, <1>4 DEF ModelOf
<1> QED
  BY <1>3, <1>4

FinishOf(lines, m) ==
  IF Finishers(lines, m) = {} THEN "" ELSE StopOf(lines[Latest(Finishers(lines, m))])

LEMMA FinishNext ==
  ASSUME NEW lines, NEW m \in Nat
  PROVE  FinishOf(lines, m + 1) = IF Stops(lines[m + 1]) THEN StopOf(lines[m + 1]) ELSE FinishOf(lines, m)
<1>1. PICK S, T : S = Finishers(lines, m) /\ T = Finishers(lines, m + 1)
  OBVIOUS
<1>2. S \subseteq 1..m /\ T = IF Stops(lines[m + 1]) THEN S \cup {m + 1} ELSE S
  BY <1>1 DEF Finishers, Stops
<1>3. CASE Stops(lines[m + 1])
  <2>1. PICK x : x = m + 1
    OBVIOUS
  <2>2. T \subseteq Nat /\ x \in T /\ T # {} /\ \A j \in T : j <= x
    BY <1>2, <1>3, <2>1
  <2>3. Latest(T) = x
    BY <2>2, LatestIs
  <2> QED
    BY <1>1, <1>3, <2>1, <2>2, <2>3 DEF FinishOf
<1>4. CASE ~Stops(lines[m + 1])
  BY <1>1, <1>2, <1>4 DEF FinishOf
<1> QED
  BY <1>3, <1>4

LEMMA SaidNext ==
  ASSUME NEW lines, NEW m \in Nat, \A k \in 1..(m + 1) : EventsOf(lines, k) \in Seq(Sent)
  PROVE  Said(lines, m + 1) = Said(lines, m) \o EventsOf(lines, m + 1) /\ Said(lines, m) \in Seq(Sent)
<1>1. PICK e : e = [k \in 1..(m + 1) |-> EventsOf(lines, k)]
  OBVIOUS
<1>2. \A k \in 1..(m + 1) : e[k] = EventsOf(lines, k) /\ e[k] \in Seq(Sent)
  BY <1>1
<1>3. \A k \in 1..m : k \in 1..(m + 1)
  OBVIOUS
<1>4. Upto(e, m) = [k \in 1..m |-> EventsOf(lines, k)]
  BY <1>2, <1>3 DEF Upto
<1>5. Upto(e, m + 1) = [k \in 1..(m + 1) |-> EventsOf(lines, k)]
  BY <1>2 DEF Upto
<1>6. Said(lines, m) = FlattenSeq(Upto(e, m)) /\ Said(lines, m + 1) = FlattenSeq(Upto(e, m + 1))
  BY <1>4, <1>5 DEF Said
<1>7. FlattenSeq(Upto(e, m + 1)) = FlattenSeq(Upto(e, m)) \o e[m + 1] /\ FlattenSeq(Upto(e, m)) \in Seq(Sent)
  BY <1>2, UptoNext
<1>8. e[m + 1] = EventsOf(lines, m + 1)
  <2>1. m + 1 \in 1..(m + 1)
    OBVIOUS
  <2> QED
    BY <1>2, <2>1
<1> QED
  BY <1>6, <1>7, <1>8

(* The ids the Anthropic reader knows after m lines. *)
OpenedBy(lines, ids, m) ==
  /\ \A x \in DOMAIN ids : /\ Latest(Starts(lines, x, m)) \in 1..m
                         /\ ids[x] = lines[Latest(Starts(lines, x, m))].id
  /\ \A k \in 1..m : lines[k].kind = "tool_use" => lines[k].index \in DOMAIN ids

(* The reader has told of m lines. *)
Told(dialect, lines, r, before, m) ==
  /\ before \o r.pending = Said(lines, m)
  /\ \A k \in 1..m : EventsOf(lines, k) \in Seq(Sent)
  /\ r.model = ModelOf(lines, m) /\ r.finish = FinishOf(lines, m)
  /\ dialect = "openai" => Known(lines, r.ids, <<m + 1, 1, 1>>)
  /\ dialect = "anthropic" => OpenedBy(lines, r.ids, m)

LEMMA ToldNext ==
  ASSUME NEW dialect, NEW lines, NEW m \in Nat, NEW r, NEW before, NEW i, Live(r, before, i),
         Told(dialect, lines, r, before, m), NEW q,
         EventsOf(lines, m + 1) \in Seq(Sent), q.pending = r.pending \o EventsOf(lines, m + 1),
         q.model = (IF Names(lines[m + 1]) THEN IF lines[m + 1].model THEN m + 1 ELSE 0 ELSE r.model),
         q.finish = (IF Stops(lines[m + 1]) THEN StopOf(lines[m + 1]) ELSE r.finish),
         dialect = "openai" => Known(lines, q.ids, <<m + 2, 1, 1>>),
         dialect = "anthropic" => OpenedBy(lines, q.ids, m + 1)
  PROVE  Told(dialect, lines, q, before, m + 1)
<1>1. \A k \in 1..(m + 1) : EventsOf(lines, k) \in Seq(Sent)
  <2>1. \A k \in 1..(m + 1) : k \in 1..m \/ k = m + 1
    OBVIOUS
  <2> QED
    BY <2>1 DEF Told
<1>2. Said(lines, m + 1) = Said(lines, m) \o EventsOf(lines, m + 1)
  BY <1>1, SaidNext
<1>3. PICK p \in Seq(Sent), b \in Seq(Sent), e \in Seq(Sent) : p = r.pending /\ b = before /\ e = EventsOf(lines, m + 1)
  BY DEF Live, Good, ReaderType
<1>4. (b \o p) \o e = b \o (p \o e)
  <2>1. PICK S : S = Sent
    OBVIOUS
  <2>2. b \in Seq(S) /\ p \in Seq(S) /\ e \in Seq(S)
    BY <1>3, <2>1
  <2> QED
    BY <2>2, SMTT(30)
<1>5. before \o q.pending = Said(lines, m + 1)
  BY <1>2, <1>3, <1>4 DEF Told
<1>6. q.model = ModelOf(lines, m + 1)
  BY ModelNext DEF Told
<1>7. q.finish = FinishOf(lines, m + 1)
  BY FinishNext DEF Told
<1>8. <<(m + 1) + 1, 1, 1>> = <<m + 2, 1, 1>>
  OBVIOUS
<1> QED
  BY <1>1, <1>5, <1>6, <1>7, <1>8 DEF Told

LEMMA KnownIdle ==
  ASSUME NEW lines, NEW n, Sized(lines, n), NEW m \in Nat, m + 1 \notin Chunks(lines), NEW ids,
         Known(lines, ids, <<m + 1, 1, 1>>)
  PROVE  Known(lines, ids, <<m + 2, 1, 1>>)
<1>1. ASSUME NEW q \in Deltas(lines) PROVE Sooner(q, <<m + 1, 1, 1>>) <=> Sooner(q, <<m + 2, 1, 1>>)
  <2>1. Place(q) /\ q[1] # m + 1 /\ q[3] >= 1 /\ q[2] >= 1
    <3>1. Place(q) /\ q[1] \in Chunks(lines) /\ q[2] \in Asked(lines[q[1]])
          /\ q[3] \in DOMAIN lines[q[1]].choices[q[2]].calls
      BY DeltaParts
    <3>2. q[3] \in 1..Len(lines[q[1]].choices[q[2]].calls) /\ Len(lines[q[1]].choices[q[2]].calls) \in Nat
      BY <3>1, CallFacts
    <3>3. q[2] \in 1..Len(lines[q[1]].choices) /\ Len(lines[q[1]].choices) \in Nat
      BY <3>1, ChoiceFacts DEF Asked
    <3> QED
      BY <3>1, <3>2, <3>3
  <2> QED
    BY <2>1 DEF Place, Sooner
<1> QED
  BY <1>1, KnownSame

LEMMA OpenedIdle ==
  ASSUME NEW lines, NEW m \in Nat, lines[m + 1].kind # "tool_use", NEW ids, OpenedBy(lines, ids, m)
  PROVE  OpenedBy(lines, ids, m + 1)
<1>1. \A x : Starts(lines, x, m + 1) = Starts(lines, x, m)
  BY DEF Starts
<1>2. \A k \in 1..(m + 1) : k \in 1..m \/ k = m + 1
  OBVIOUS
<1> QED
  BY <1>1, <1>2 DEF OpenedBy

(* A chunk *)
LEMMA ChunkSays ==
  ASSUME NEW lines, NEW n, Fits("openai", lines, n), NEW m \in Nat, m + 1 \in Chunks(lines),
         NEW r, NEW before, NEW i, Live(r, before, i), Told("openai", lines, r, before, m)
  PROVE  \E q : /\ q = AbsorbChunk(r, m + 1, lines[m + 1]) /\ Live(q, before, i) /\ q.held = r.held
               /\ Told("openai", lines, q, before, m + 1)
<1>1. PICK k, line : k = m + 1 /\ line = lines[m + 1]
  OBVIOUS
<1>2. Sized(lines, n) /\ k \in 1..n /\ line.kind = "chunk" /\ line.model \in BOOLEAN /\ line.usage \in BOOLEAN
  <2>1. k \in 1..n /\ line.kind = "chunk"
    BY <1>1 DEF Chunks, Fits
  <2> QED
    BY <1>1, <2>1, FitsFacts
<1>3. PICK u, s, named, queued : /\ u = Event("usage", "", k) /\ s = (IF line.usage THEN <<u>> ELSE <<>>)
                                 /\ named = Named(r, IF line.model THEN k ELSE r.model) /\ queued = Queue(named, s)
  OBVIOUS
<1>4. u \in Plain /\ s \in {<<>>, <<u>>} /\ s \in Seq(Sent)
  <2>1. "" \in Texts /\ k \in Nat
    BY <1>1 DEF Texts, Literals
  <2>2. Event("usage", "", k) \in Plain
    BY <2>1, PlainEvent
  <2>3. u \in Sent
    BY <1>3, <2>2 DEF Plain
  <2>4. <<u>> \in Seq(Sent) /\ <<>> \in Seq(Sent)
    BY <2>3
  <2> QED
    BY <1>3, <2>2, <2>4
<1>5. ReaderType(r, i)
  BY DEF Live, Good
<1>6. Live(queued, before, i)
  <2>1. PICK model : model = IF line.model THEN k ELSE r.model
    OBVIOUS
  <2>2. model \in Nat
    BY <1>1, <1>5, <2>1 DEF ReaderType
  <2>3. Live(named, before, i)
    BY <1>3, <2>1, <2>2, FieldsKeep
  <2> QED
    BY <1>3, <1>4, <2>3, QueueMaybe
<1>7. /\ queued.ids = r.ids /\ queued.pending = r.pending \o s /\ queued.finish = r.finish /\ queued.held = r.held
      /\ queued.model = IF line.model THEN k ELSE r.model
  BY <1>3, <1>5 DEF Named, Queue, ReaderType
<1>8. PICK q, e : /\ q = AbsorbChoices(queued, k, line.choices) /\ Live(q, before, i) /\ e = FlattenSeq(ChoicesOf(lines, k))
                  /\ q.pending = queued.pending \o e /\ e \in Seq(Sent) /\ q.model = queued.model /\ q.held = queued.held
                  /\ q.finish = StopTo(line, Len(line.choices), queued.finish) /\ Known(lines, q.ids, <<k + 1, 1, 1>>)
  <2>1. k \in Chunks(lines) /\ Known(lines, queued.ids, <<k, 1, 1>>)
    BY <1>1, <1>7 DEF Told
  <2> QED
    BY <1>1, <1>2, <1>6, <2>1, ChoicesSay, ZenonT(40)
<1>9. q = AbsorbChunk(r, k, line)
  BY <1>3, <1>8 DEF AbsorbChunk, Named
<1>10. EventsOf(lines, k) = s \o e
  <2>1. EventsOf(lines, k) = ChunkEvents(lines, k)
    BY <1>1, <1>2 DEF EventsOf
  <2>2. e = FlattenSeq([c \in DOMAIN line.choices |-> IF c \in Asked(line) THEN ChoiceEvents(lines, k, c) ELSE <<>>])
    BY <1>1, <1>8 DEF ChoicesOf
  <2>3. s = Single(line.usage, "usage", "", k)
    BY <1>3 DEF Single
  <2> QED
    BY <1>1, <2>1, <2>2, <2>3 DEF ChunkEvents
<1>11. EventsOf(lines, k) \in Seq(Sent) /\ q.pending = r.pending \o EventsOf(lines, k)
  <2>1. PICK p \in Seq(Sent) : p = r.pending
    BY <1>5 DEF ReaderType
  <2>2. p \in Seq(Sent) /\ s \in Seq(Sent) /\ e \in Seq(Sent)
    BY <1>4, <1>8, <2>1
  <2>3. (p \o s) \o e = p \o (s \o e) /\ s \o e \in Seq(Sent)
    BY <2>2, SentConcat
  <2> QED
    BY <1>7, <1>8, <1>10, <2>1, <2>3
<1>12. q.model = IF Names(line) THEN IF line.model THEN k ELSE 0 ELSE r.model
  BY <1>2, <1>7, <1>8 DEF Names
<1>13. q.finish = IF Stops(line) THEN StopOf(line) ELSE r.finish
  <2>1. PICK l : l = Len(line.choices)
    OBVIOUS
  <2>2. Reasons(line) \subseteq 1..l /\ l \in Nat
    <3>1. k \in Chunks(lines)
      BY <1>1
    <3> QED
      BY <1>1, <1>2, <2>1, <3>1, ReasonsAreCounts, ChoiceFacts
  <2>3. ReasonsTo(line, l) = Reasons(line)
    BY <2>2 DEF ReasonsTo
  <2> QED
    BY <1>2, <1>7, <1>8, <2>1, <2>3 DEF Stops, StopOf, StopTo
<1>14. Known(lines, q.ids, <<m + 2, 1, 1>>)
  <2>1. <<k + 1, 1, 1>> = <<m + 2, 1, 1>>
    BY <1>1
  <2> QED
    BY <1>8, <2>1
<1>15. Told("openai", lines, q, before, m + 1)
  BY <1>1, <1>11, <1>12, <1>13, <1>14, ToldNext
<1> QED
  BY <1>1, <1>7, <1>8, <1>9, <1>15

-----------------------------------------------------------------------------
(***************************************************************************)
(* What the Anthropic translator says of an event.                         *)
(***************************************************************************)
LEMMA OpenedNext ==
  ASSUME NEW lines, NEW m \in Nat, lines[m + 1].kind = "tool_use", NEW ids, ids = [x \in DOMAIN ids |-> ids[x]],
         OpenedBy(lines, ids, m)
  PROVE  OpenedBy(lines, Insert(ids, lines[m + 1].index, lines[m + 1].id), m + 1)
<1>1. PICK k, index, id, with : k = m + 1 /\ index = lines[k].index /\ id = lines[k].id /\ with = Insert(ids, index, id)
  OBVIOUS
<1>2. /\ index \in DOMAIN with /\ with[index] = id
      /\ \A x \in DOMAIN with : x = index \/ (x \in DOMAIN ids /\ with[x] = ids[x])
      /\ \A x \in DOMAIN ids : x \in DOMAIN with
  <2>1. \A x \in DOMAIN ids : x \in DOMAIN with
    BY <1>1 DEF Insert
  <2> QED
    BY <1>1, <2>1, InsertFacts
<1>3. \A j \in 1..k : j \in 1..m \/ j = k
  BY <1>1
<1>4. ASSUME NEW x \in DOMAIN with
      PROVE  Latest(Starts(lines, x, k)) \in 1..k /\ with[x] = lines[Latest(Starts(lines, x, k))].id
  <2>1. PICK S : S = Starts(lines, x, k)
    OBVIOUS
  <2>2. CASE x = index
    <3>1. S \subseteq Nat /\ k \in S /\ \A j \in S : j <= k
      BY <1>1, <2>1, <2>2 DEF Starts
    <3>2. Latest(S) = k
      BY <3>1, LatestIs
    <3> QED
      BY <1>1, <1>2, <2>1, <2>2, <3>2
  <2>3. CASE x # index
    <3>1. S = Starts(lines, x, m)
      BY <1>1, <1>3, <2>1, <2>3 DEF Starts
    <3>2. x \in DOMAIN ids /\ with[x] = ids[x]
      BY <1>2, <2>3
    <3>3. Latest(S) \in 1..m /\ ids[x] = lines[Latest(S)].id
      BY <3>1, <3>2 DEF OpenedBy
    <3> QED
      BY <1>1, <2>1, <3>2, <3>3
  <2> QED
    BY <2>2, <2>3
<1>5. ASSUME NEW j \in 1..k, lines[j].kind = "tool_use" PROVE lines[j].index \in DOMAIN with
  <2>1. CASE j = k
    BY <1>1, <1>2, <2>1
  <2>2. CASE j \in 1..m
    BY <1>2, <1>5, <2>2 DEF OpenedBy
  <2> QED
    BY <1>3, <2>1, <2>2
<1> QED
  BY <1>1, <1>4, <1>5 DEF OpenedBy

(* What an event of the Anthropic reader may leave alone. *)
LEMMA EventTold ==
  ASSUME NEW lines, NEW m \in Nat, NEW r, NEW before, NEW i, Live(r, before, i), Told("anthropic", lines, r, before, m),
         lines[m + 1].kind \notin {"chunk", "tool_use"}, NEW q, q.ids = r.ids,
         EventsOf(lines, m + 1) \in Seq(Sent), q.pending = r.pending \o EventsOf(lines, m + 1),
         q.model = (IF Names(lines[m + 1]) THEN IF lines[m + 1].model THEN m + 1 ELSE 0 ELSE r.model),
         q.finish = (IF Stops(lines[m + 1]) THEN StopOf(lines[m + 1]) ELSE r.finish)
  PROVE  Told("anthropic", lines, q, before, m + 1)
<1>1. OpenedBy(lines, r.ids, m)
  BY DEF Told
<1>2. OpenedBy(lines, q.ids, m + 1)
  BY <1>1, OpenedIdle
<1>3. "anthropic" # "openai"
  OBVIOUS
<1> QED
  BY <1>2, <1>3, ToldNext

(* A line that is no news to the translator. *)
LEMMA IdleTold ==
  ASSUME NEW dialect, NEW lines, NEW n, Sized(lines, n), NEW m \in Nat, NEW r, NEW before, NEW i, Live(r, before, i),
         Told(dialect, lines, r, before, m),
         lines[m + 1].kind \notin {"chunk", "tool_use", "message_start", "message_delta", "redacted_thinking", "delta"}
  PROVE  Told(dialect, lines, r, before, m + 1)
<1>1. EventsOf(lines, m + 1) = <<>> /\ <<>> \in Seq(Sent)
  <2>1. EventsOf(lines, m + 1) = <<>>
    BY DEF EventsOf
  <2>2. PICK none : none = <<>>
    OBVIOUS
  <2>3. none \in Seq(Sent)
    BY <2>2
  <2> QED
    BY <2>1, <2>2, <2>3
<1>2. PICK p \in Seq(Sent) : p = r.pending
  BY DEF Live, Good, ReaderType
<1>3. p \o <<>> = p
  BY <1>2, SentConcat
<1>4. ~Names(lines[m + 1]) /\ ~Stops(lines[m + 1])
  BY DEF Names, Stops
<1>5. dialect = "openai" => Known(lines, r.ids, <<m + 2, 1, 1>>)
  <2>1. m + 1 \notin Chunks(lines)
    BY DEF Chunks
  <2> QED
    BY <2>1, KnownIdle DEF Told
<1>6. dialect = "anthropic" => OpenedBy(lines, r.ids, m + 1)
  BY OpenedIdle DEF Told
<1> QED
  BY <1>1, <1>2, <1>3, <1>4, <1>5, <1>6, ToldNext

LEMMA EventSays ==
  ASSUME NEW lines, NEW n, Fits("anthropic", lines, n), NEW m \in Nat, m + 1 \in 1..n,
         NEW r, NEW before, NEW i, Live(r, before, i), Told("anthropic", lines, r, before, m)
  PROVE  \E q : /\ q = AbsorbEvent(r, m + 1, lines[m + 1]) /\ Live(q, before, i) /\ q.held = r.held
               /\ Told("anthropic", lines, q, before, m + 1)
<1>1. PICK k, line, q : k = m + 1 /\ line = lines[m + 1] /\ q = AbsorbEvent(r, k, line)
  OBVIOUS
<1>2. LineOk(line) /\ k \in Nat /\ line.kind # "chunk" /\ Sized(lines, n)
  BY <1>1, FitsFacts
<1>3. Live(q, before, i) /\ ReaderType(r, i)
  <2>1. Live(q, before, i)
    BY <1>1, <1>2, AbsorbEventKeeps
  <2> QED
    BY <2>1 DEF Live, Good
<1>4. PICK e : e = EventsOf(lines, k)
  OBVIOUS
<1>5. "" \in Texts
  BY DEF Texts, Literals
<1>6. PICK none : none = <<>>
  OBVIOUS
<1>7. none \in Seq(Sent) /\ r.pending \o none = r.pending
  <2>1. PICK p \in Seq(Sent) : p = r.pending
    BY <1>3 DEF ReaderType
  <2>2. p \o <<>> = p
    BY <2>1, SentConcat
  <2> QED
    BY <1>6, <2>1, <2>2
<1>8. PICK u : u = Event("usage", "", k)
  OBVIOUS
<1>9. u \in Sent
  BY <1>2, <1>5, <1>8, PlainEvent DEF Plain
<1>10. CASE line.kind = "message_start"
  <2>1. line.model \in BOOLEAN /\ line.usage \in BOOLEAN
    BY <1>1, <1>10, FitsFacts
  <2>2. e = IF line.usage THEN <<u>> ELSE <<>>
    BY <1>1, <1>4, <1>8, <1>10 DEF EventsOf, Single
  <2>3. e \in Seq(Sent)
    BY <1>9, <2>1, <2>2
  <2>4. /\ q.ids = r.ids /\ q.pending = r.pending \o e /\ q.finish = r.finish /\ q.held = r.held
        /\ q.model = IF line.model THEN k ELSE 0
    BY <1>1, <1>3, <1>8, <1>10, <2>2 DEF AbsorbEvent, Queue, ReaderType
  <2>5. Names(line) /\ ~Stops(line)
    BY <1>10 DEF Names, Stops
  <2>6. Told("anthropic", lines, q, before, m + 1)
    BY <1>1, <1>4, <1>10, <2>3, <2>4, <2>5, EventTold
  <2> QED
    BY <1>1, <1>3, <2>4, <2>6
<1>11. CASE line.kind = "message_delta"
  <2>1. e = <<u>> /\ e \in Seq(Sent)
    <3>1. e = <<u>>
      BY <1>1, <1>4, <1>8, <1>11 DEF EventsOf
    <3> QED
      BY <1>9, <3>1
  <2>2. /\ q.ids = r.ids /\ q.pending = r.pending \o e /\ q.finish = AnthropicStop(line.stop) /\ q.held = r.held
        /\ q.model = r.model
    BY <1>1, <1>3, <1>8, <1>11, <2>1 DEF AbsorbEvent, Queue, ReaderType
  <2>3. ~Names(line) /\ Stops(line) /\ StopOf(line) = AnthropicStop(line.stop)
    BY <1>11 DEF Names, Stops, StopOf
  <2>4. Told("anthropic", lines, q, before, m + 1)
    BY <1>1, <1>4, <1>11, <2>1, <2>2, <2>3, EventTold
  <2> QED
    BY <1>1, <1>3, <2>2, <2>4
<1>12. CASE line.kind = "redacted_thinking"
  <2>1. PICK v : v = Event("redacted", "", k)
    OBVIOUS
  <2>2. v \in Sent
    BY <1>2, <1>5, <2>1, PlainEvent DEF Plain
  <2>3. e = <<v>> /\ e \in Seq(Sent)
    <3>1. e = <<v>>
      BY <1>1, <1>4, <1>12, <2>1 DEF EventsOf
    <3> QED
      BY <2>2, <3>1
  <2>4. q.ids = r.ids /\ q.pending = r.pending \o e /\ q.finish = r.finish /\ q.held = r.held /\ q.model = r.model
    BY <1>1, <1>3, <1>12, <2>1, <2>3 DEF AbsorbEvent, Queue, ReaderType
  <2>5. ~Names(line) /\ ~Stops(line)
    BY <1>12 DEF Names, Stops
  <2>6. Told("anthropic", lines, q, before, m + 1)
    BY <1>1, <1>4, <1>12, <2>3, <2>4, <2>5, EventTold
  <2> QED
    BY <1>1, <1>3, <2>4, <2>6
<1>13. CASE line.kind = "delta"
  <2>1. line.delta \in DeltaKinds /\ q = AbsorbDelta(r, k, line)
    BY <1>1, <1>2, <1>13 DEF AbsorbEvent, LineOk
  <2>2. e \in Seq(Sent) /\ q = Queue(r, e)
    <3>1. CASE line.delta = "arguments"
      <4>1. PICK S, opener, x : S = Starts(lines, line.index, m) /\ opener = Latest(S) /\ x = line.index
        OBVIOUS
      <4>2. e = IF opener = 0 THEN <<>> ELSE <<Event("arguments", lines[opener].id, k)>>
        <5>1. k - 1 = m
          BY <1>1
        <5> QED
          BY <1>1, <1>4, <1>13, <3>1, <4>1, <5>1 DEF EventsOf, FragmentEvents
      <4>3. OpenedBy(lines, r.ids, m)
        BY DEF Told
      <4>4. CASE x \in DOMAIN r.ids
        <5>1. opener \in 1..m /\ r.ids[x] = lines[opener].id /\ r.ids[x] \in Ids
          BY <1>3, <4>1, <4>3, <4>4 DEF OpenedBy, ReaderType
        <5>2. opener # 0
          BY <5>1
        <5>3. PICK v : v = Event("arguments", r.ids[x], k)
          OBVIOUS
        <5>4. v \in Sent
          <6>1. "arguments" \in Kinds
            BY DEF Kinds
          <6> QED
            BY <1>2, <5>1, <5>3, <6>1, EventType
        <5>5. e = <<v>> /\ q = Queue(r, <<v>>)
          BY <2>1, <3>1, <4>1, <4>2, <4>4, <5>1, <5>2, <5>3 DEF AbsorbDelta
        <5> QED
          BY <5>4, <5>5
      <4>5. CASE x \notin DOMAIN r.ids
        <5>1. S = {}
          BY <4>1, <4>3, <4>5 DEF Starts, OpenedBy
        <5>2. e = <<>> /\ q = r
          BY <2>1, <3>1, <4>1, <4>2, <4>5, <5>1 DEF AbsorbDelta, Latest
        <5>3. Queue(r, <<>>) = r
          BY <1>3, QueueParts
        <5> QED
          BY <1>6, <1>7, <5>2, <5>3
      <4> QED
        BY <4>4, <4>5
    <3>2. CASE line.delta = "other"
      <4>1. e = <<>> /\ q = r
        BY <1>1, <1>4, <1>13, <2>1, <3>2 DEF EventsOf, AbsorbDelta
      <4>2. Queue(r, <<>>) = r
        BY <1>3, QueueParts
      <4> QED
        BY <1>6, <1>7, <4>1, <4>2
    <3>3. CASE line.delta \in {"text", "reasoning", "signature"}
      <4>1. PICK v, kind : kind = line.delta /\ v = Event(kind, "", k)
        OBVIOUS
      <4>2. v \in Sent
        <5>1. kind \in {"reasoning", "text", "usage", "redacted", "signature"}
          BY <3>3, <4>1
        <5> QED
          BY <1>2, <1>5, <4>1, <5>1, PlainEvent DEF Plain
      <4>3. e = <<v>> /\ q = Queue(r, <<v>>)
        BY <1>1, <1>4, <1>13, <2>1, <3>3, <4>1 DEF EventsOf, AbsorbDelta
      <4> QED
        BY <4>2, <4>3
    <3> QED
      BY <2>1, <3>1, <3>2, <3>3 DEF DeltaKinds
  <2>3. q.ids = r.ids /\ q.pending = r.pending \o e /\ q.finish = r.finish /\ q.held = r.held /\ q.model = r.model
    BY <1>3, <2>2 DEF Queue, ReaderType
  <2>4. ~Names(line) /\ ~Stops(line)
    BY <1>13 DEF Names, Stops
  <2>5. Told("anthropic", lines, q, before, m + 1)
    BY <1>1, <1>4, <1>13, <2>2, <2>3, <2>4, EventTold
  <2> QED
    BY <1>1, <1>3, <2>3, <2>5
<1>14. CASE line.kind = "tool_use"
  <2>1. PICK v, id, ids : v = Event("start", id, k) /\ id = line.id /\ ids = Insert(r.ids, line.index, line.id)
    OBVIOUS
  <2>2. v \in Sent
    <3>1. id \in Ids /\ "start" \in Kinds
      BY <1>2, <1>14, <2>1 DEF LineOk, Kinds
    <3> QED
      BY <1>2, <2>1, <3>1, EventType
  <2>3. e = <<v>> /\ e \in Seq(Sent)
    BY <1>1, <1>4, <1>14, <2>1, <2>2 DEF EventsOf
  <2>4. q.ids = ids /\ q.pending = r.pending \o e /\ q.finish = r.finish /\ q.held = r.held /\ q.model = r.model
    BY <1>1, <1>3, <1>14, <2>1, <2>3 DEF AbsorbEvent, Queue, ReaderType
  <2>5. ~Names(line) /\ ~Stops(line)
    BY <1>14 DEF Names, Stops
  <2>6. OpenedBy(lines, ids, m + 1)
    <3>1. r.ids = [x \in DOMAIN r.ids |-> r.ids[x]] /\ OpenedBy(lines, r.ids, m)
      BY <1>3 DEF ReaderType, Told
    <3> QED
      BY <1>1, <1>14, <2>1, <3>1, OpenedNext
  <2>7. "anthropic" # "openai"
    OBVIOUS
  <2>8. Told("anthropic", lines, q, before, m + 1)
    BY <1>1, <1>4, <2>3, <2>4, <2>5, <2>6, <2>7, ToldNext
  <2> QED
    BY <1>1, <1>3, <2>4, <2>8
<1>15. CASE line.kind \notin {"message_start", "tool_use", "redacted_thinking", "delta", "message_delta"}
  <2>1. q = r
    BY <1>1, <1>15 DEF AbsorbEvent
  <2>2. Told("anthropic", lines, q, before, m + 1)
    BY <1>1, <1>2, <1>15, <2>1, IdleTold
  <2> QED
    BY <1>1, <1>3, <2>1, <2>2
<1> QED
  BY <1>10, <1>11, <1>12, <1>13, <1>14, <1>15

-----------------------------------------------------------------------------
(***************************************************************************)
(* What ends a stream.                                                     *)
(***************************************************************************)
EndKinds == {"done", "message_stop", "error", "undecodable"}

(* The reader is done, with one final item after what m lines say. *)
Closing(r, before, lines, m, e) == r.done /\ before \o r.pending = Said(lines, m) \o <<e>>

LEMMA OneMore ==
  ASSUME NEW dialect, NEW lines, NEW m, NEW r, NEW before, NEW i, Live(r, before, i),
         Told(dialect, lines, r, before, m), NEW e \in Sent, NEW q, q.done, q.pending = Append(r.pending, e)
  PROVE  Closing(q, before, lines, m, e)
<1>1. PICK S, b, p : S = Sent /\ b = before /\ p = r.pending
  OBVIOUS
<1>2. b \in Seq(S) /\ p \in Seq(S) /\ e \in S
  BY <1>1 DEF Live, Good, ReaderType
<1>3. b \o Append(p, e) = (b \o p) \o <<e>>
  <2>1. b \o Append(p, e) = Append(b \o p, e) /\ b \o p \in Seq(S)
    BY <1>2, ConcatOne
  <2>2. PICK t \in Seq(S) : t = b \o p
    BY <2>1
  <2>3. t \o <<e>> = Append(t, e)
    BY <1>2
  <2> QED
    BY <2>1, <2>2, <2>3
<1> QED
  BY <1>1, <1>3 DEF Told, Closing

LEMMA FinishSays ==
  ASSUME NEW dialect, NEW lines, NEW m, NEW r, NEW before, NEW i, Live(r, before, i),
         Told(dialect, lines, r, before, m)
  PROVE  Closing(Finish(r), before, lines, m, Conclusion(lines, m)) /\ Finish(r).held = r.held
<1>1. ReaderType(r, i)
  BY DEF Live, Good
<1>2. PICK e : e = Conclusion(lines, m)
  OBVIOUS
<1>3. r.finish = FinishOf(lines, m) /\ r.model = ModelOf(lines, m)
  BY DEF Told
<1>4. CASE Finishers(lines, m) = {}
  <2>1. r.finish = "" /\ e = Failure("transport", 0)
    BY <1>2, <1>3, <1>4 DEF FinishOf, Conclusion
  <2>2. e \in Sent
    BY <2>1, EventType DEF Failure, Kinds, Ids, Texts, Literals
  <2>3. Finish(r).pending = Append(r.pending, e) /\ Finish(r).done /\ Finish(r).held = r.held
    BY <1>1, <2>1 DEF Finish, Fail, ReaderType
  <2> QED
    BY <1>2, <2>2, <2>3, OneMore
<1>5. CASE Finishers(lines, m) # {}
  <2>1. \A line : StopOf(line) \in {"EndOfTurn", "ToolUse", "MaxTokens", "Other"}
    BY DEF StopOf, OpenAiStop, AnthropicStop
  <2>2. r.finish = StopOf(lines[Latest(Finishers(lines, m))]) /\ r.finish # ""
    BY <1>3, <1>5, <2>1 DEF FinishOf
  <2>3. e = Event("finished", r.finish, r.model)
    BY <1>2, <1>3, <1>5, <2>2 DEF Conclusion
  <2>4. e \in Sent
    <3>1. "finished" \in Kinds /\ r.finish \in Ids /\ r.model \in Nat
      BY <1>1 DEF Kinds, ReaderType
    <3> QED
      BY <2>3, <3>1, EventType
  <2>5. Finish(r).pending = Append(r.pending, e) /\ Finish(r).done /\ Finish(r).held = r.held
    BY <1>1, <2>2, <2>3 DEF Finish, ReaderType
  <2> QED
    BY <1>2, <2>4, <2>5, OneMore
<1> QED
  BY <1>4, <1>5

(* A payload that ends the stream, and one that does not. *)
LEMMA EnderSays ==
  ASSUME NEW lines, NEW m, NEW r, NEW before, NEW i, Live(r, before, i),
         Told(body.dialect, lines, r, before, m), NEW k, NEW line, line.kind \in EndKinds \ {"done"}
  PROVE  Closing(AbsorbPayload(r, k, line), before, lines, m, EndOf(body.dialect, line, lines, m))
<1>1. ReaderType(r, i)
  BY DEF Live, Good
<1>2. PICK e, q : e = EndOf(body.dialect, line, lines, m) /\ q = AbsorbPayload(r, k, line)
  OBVIOUS
<1>3. CASE line.kind = "message_stop"
  <2>1. q = Finish(r) /\ e = Conclusion(lines, m)
    BY <1>2, <1>3 DEF AbsorbPayload, EndOf
  <2>2. PICK d : d = body.dialect
    OBVIOUS
  <2>3. Told(d, lines, r, before, m)
    BY <2>2
  <2>4. Closing(Finish(r), before, lines, m, Conclusion(lines, m))
    BY <2>3, FinishSays
  <2> QED
    BY <1>2, <2>1, <2>4
<1>4. CASE line.kind \in {"error", "undecodable"}
  <2>1. e \in Sent
    <3>1. CASE line.kind = "error"
      <4>1. PICK status : status = ErrorStatus(body.dialect, line)
        OBVIOUS
      <4>2. status \in Nat
        BY <4>1 DEF ErrorStatus
      <4>3. e = Event("failure", "status", status)
        BY <1>2, <3>1, <4>1 DEF EndOf, Failure
      <4> QED
        BY <4>2, <4>3, EventType DEF Kinds, Ids, Texts, Literals
    <3>2. CASE line.kind = "undecodable"
      <4>1. e = Event("failure", "decode", 0)
        BY <1>2, <3>2 DEF EndOf, Failure
      <4> QED
        BY <4>1, EventType DEF Kinds, Ids, Texts, Literals
    <3> QED
      BY <1>4, <3>1, <3>2
  <2>2. q = Fail(r, e)
    BY <1>2, <1>4 DEF AbsorbPayload, EndOf
  <2>3. q.pending = Append(r.pending, e) /\ q.done
    BY <1>1, <2>2 DEF Fail, ReaderType
  <2> QED
    BY <1>2, <2>1, <2>3, OneMore
<1> QED
  BY <1>3, <1>4 DEF EndKinds

LEMMA PayloadSays ==
  ASSUME NEW lines, NEW n, Fits(body.dialect, lines, n), NEW m \in Nat, m + 1 \in 1..n,
         NEW r, NEW before, NEW i, Live(r, before, i), Told(body.dialect, lines, r, before, m),
         lines[m + 1].kind \notin EndKinds
  PROVE  \E q : /\ q = AbsorbPayload(r, m + 1, lines[m + 1]) /\ Live(q, before, i) /\ q.held = r.held
               /\ Told(body.dialect, lines, q, before, m + 1)
<1>1. PICK d, line : d = body.dialect /\ line = lines[m + 1]
  OBVIOUS
<1>2. /\ Sized(lines, n) /\ m + 1 \in DOMAIN lines /\ Fits(d, lines, n)
      /\ d = "openai" => line.kind \in {"other", "undecodable", "done", "error", "chunk"}
      /\ d = "anthropic" => line.kind \notin {"done", "chunk"}
      /\ d \in {"openai", "anthropic"}
  <2>1. Fits(d, lines, n) /\ m + 1 \in DOMAIN lines /\ d \in {"openai", "anthropic"}
    BY <1>1 DEF Fits
  <2> QED
    BY <1>1, <2>1, FitsFacts
<1>3. CASE lines[m + 1].kind = "other"
  <2>1. AbsorbPayload(r, m + 1, lines[m + 1]) = r
    BY <1>3 DEF AbsorbPayload
  <2>2. Told(d, lines, r, before, m)
    BY <1>1
  <2>3. Told(d, lines, r, before, m + 1)
    BY <1>2, <1>3, <2>2, IdleTold
  <2> QED
    BY <1>1, <2>1, <2>3
<1>4. CASE lines[m + 1].kind = "chunk"
  <2>1. body.dialect = "openai"
    BY <1>1, <1>2, <1>4
  <2>2. AbsorbPayload(r, m + 1, lines[m + 1]) = AbsorbChunk(r, m + 1, lines[m + 1]) /\ m + 1 \in Chunks(lines)
    BY <1>2, <1>4 DEF AbsorbPayload, Chunks
  <2>3. Fits("openai", lines, n) /\ Told("openai", lines, r, before, m)
    BY <2>1
  <2>4. \E q : /\ q = AbsorbChunk(r, m + 1, lines[m + 1]) /\ Live(q, before, i) /\ q.held = r.held
               /\ Told("openai", lines, q, before, m + 1)
    BY <2>2, <2>3, ChunkSays
  <2> QED
    BY <2>1, <2>2, <2>4
<1>5. CASE lines[m + 1].kind \notin {"other", "chunk"}
  <2>1. body.dialect = "anthropic"
    BY <1>1, <1>2, <1>5 DEF EndKinds
  <2>2. AbsorbPayload(r, m + 1, lines[m + 1]) = AbsorbEvent(r, m + 1, lines[m + 1])
    BY <1>5 DEF AbsorbPayload, EndKinds
  <2>3. Fits("anthropic", lines, n) /\ Told("anthropic", lines, r, before, m)
    BY <2>1
  <2>4. \E q : /\ q = AbsorbEvent(r, m + 1, lines[m + 1]) /\ Live(q, before, i) /\ q.held = r.held
               /\ Told("anthropic", lines, q, before, m + 1)
    BY <2>3, EventSays
  <2> QED
    BY <2>1, <2>2, <2>4
<1> QED
  BY <1>3, <1>4, <1>5

-----------------------------------------------------------------------------
(***************************************************************************)
(* Whole lines, and the part of one that a chunk leaves behind.            *)
(***************************************************************************)
LEMMA FitsBody ==
  ASSUME body \in Bodies, NEW n, n = Len(Reading)
  PROVE  Fits(body.dialect, Reading, n)
<1>1. CASE body.dialect = "openai" /\ body.lines \in Seq(OpenAiLine)
  <2>1. PICK s, S : s = body.lines /\ S = OpenAiLine
    OBVIOUS
  <2>2. s \in Seq(S)
    BY <1>1, <2>1
  <2>3. Len(s) \in Nat /\ DOMAIN s = 1..Len(s) /\ \A k \in 1..Len(s) : s[k] \in S
    BY <2>2
  <2> QED
    BY <1>1, <2>1, <2>3 DEF Reading, Fits
<1>2. CASE body.dialect = "anthropic" /\ body.lines \in Seq(AnthropicLine)
  <2>1. PICK s, S : s = body.lines /\ S = AnthropicLine
    OBVIOUS
  <2>2. s \in Seq(S)
    BY <1>2, <2>1
  <2>3. Len(s) \in Nat /\ DOMAIN s = 1..Len(s) /\ \A k \in 1..Len(s) : s[k] \in S
    BY <2>2
  <2> QED
    BY <1>2, <2>1, <2>3 DEF Reading, Fits
<1> QED
  BY <1>1, <1>2, StreamAssumption

(* The first p parts of the line after line w. *)
Partial(w, p) == [j \in 1..p |-> <<w + 1, j>>]

LEMMA PartialFacts ==
  ASSUME NEW w \in Nat, NEW p \in 0..3
  PROVE  /\ Len(Partial(w, p)) = p /\ (p > 0 => Partial(w, p)[1] = <<w + 1, 1>>)
         /\ Partial(w, 0) = <<>> /\ Partial(w, 3) = Parts(w + 1) /\ (p < 3 => Partial(w, p) # Parts(w + 1))
         /\ p < 3 => Append(Partial(w, p), <<w + 1, p + 1>>) = Partial(w, p + 1)
<1>1. Len(Partial(w, p)) = p /\ (p > 0 => Partial(w, p)[1] = <<w + 1, 1>>) /\ Partial(w, 0) = <<>>
  BY DEF Partial
<1>2. Partial(w, 3) = Parts(w + 1)
  BY DEF Partial, Parts
<1>3. Len(Parts(w + 1)) = 3
  BY DEF Parts
<1>4. ASSUME p < 3 PROVE Append(Partial(w, p), <<w + 1, p + 1>>) = Partial(w, p + 1)
  <2>1. PICK T : T = {<<w + 1, j>> : j \in 1..4}
    OBVIOUS
  <2>2. PICK s, t, b : s = Partial(w, p) /\ t = Partial(w, p + 1) /\ b = <<w + 1, p + 1>>
    OBVIOUS
  <2>3. s \in Seq(T) /\ t \in Seq(T) /\ b \in T /\ Len(s) = p /\ Len(t) = p + 1
    BY <1>4, <2>1, <2>2 DEF Partial
  <2>4. \A j \in 1..(p + 1) : t[j] = IF j = p + 1 THEN b ELSE s[j]
    BY <1>4, <2>2 DEF Partial
  <2>5. Append(s, b) = t
    BY <1>4, <2>3, <2>4
  <2> QED
    BY <2>2, <2>5
<1> QED
  BY <1>1, <1>2, <1>3, <1>4

(* What a line, whole or cut short, decodes to. *)
TailLine(w, p) == IF p = 2 /\ Reading[w + 1].kind # "other" THEN Garbled ELSE Reading[w + 1]

LEMMA DecodeIs ==
  ASSUME NEW w \in Nat, NEW p \in 0..3
  PROVE  /\ p < 2 => Decode(Partial(w, p)) = Skipped
         /\ p > 1 => /\ Partial(w, p)[1][1] = w + 1
                     /\ Decode(Partial(w, p)).kind = TailLine(w, p).kind
                     /\ TailLine(w, p).kind # "other" => Decode(Partial(w, p)) = TailLine(w, p)
<1>1. PICK s : s = Partial(w, p)
  OBVIOUS
<1>2. Len(s) = p /\ (p > 0 => s[1] = <<w + 1, 1>>) /\ (p = 3 => s = Parts(w + 1)) /\ (p < 3 => s # Parts(w + 1))
  BY <1>1, PartialFacts
<1>3. ASSUME p < 2 PROVE Decode(s) = Skipped
  BY <1>2, <1>3 DEF Decode
<1>4. ASSUME p > 1
      PROVE  /\ s[1][1] = w + 1 /\ Decode(s).kind = TailLine(w, p).kind
             /\ TailLine(w, p).kind # "other" => Decode(s) = TailLine(w, p)
  <2>1. s[1][1] = w + 1 /\ s[1][2] = 1 /\ ~(Len(s) < 2) /\ (p = 2 \/ p = 3)
    BY <1>2, <1>4
  <2>2. PICK line : line = Reading[w + 1]
    OBVIOUS
  <2>3. Decode(s) = IF line.kind = "other" THEN Skipped ELSE IF p = 3 THEN line ELSE Garbled
    BY <1>2, <2>1, <2>2 DEF Decode
  <2>4. TailLine(w, p) = IF p = 2 /\ line.kind # "other" THEN Garbled ELSE line
    BY <2>2 DEF TailLine
  <2> QED
    BY <2>1, <2>3, <2>4 DEF Skipped, Garbled
<1> QED
  BY <1>1, <1>3, <1>4

(* The reader after w whole lines: it has told of all of them, or is done  *)
(* with the first that ends the stream.                                    *)
EndersTo(w) == {k \in 1..w : Reading[k].kind \in EndKinds}

ClosedBy(r, before, e) ==
  Closing(r, before, Reading, e - 1, EndOf(body.dialect, Reading[e], Reading, e - 1))

Heard(r, before, w) ==
  \/ EndersTo(w) = {} /\ ~r.done /\ Told(body.dialect, Reading, r, before, w)
  \/ \E e \in EndersTo(w) : (\A j \in EndersTo(w) : e <= j) /\ ClosedBy(r, before, e)

LEMMA LineSays ==
  ASSUME body \in Bodies, NEW n \in Nat, n = Len(Reading), NEW m \in Nat, m + 1 \in 1..n,
         NEW r, NEW before, Good(r, before, n), Heard(r, before, m),
         Reading[m + 1].kind = "done" /\ ~r.done => r.held = <<>>
  PROVE  /\ Heard(AbsorbLine(r, Parts(m + 1)), before, m + 1)
         /\ ~AbsorbLine(r, Parts(m + 1)).done => AbsorbLine(r, Parts(m + 1)).held = r.held
<1>1. PICK q, text, line, d : q = AbsorbLine(r, text) /\ text = Parts(m + 1) /\ line = Reading[m + 1] /\ d = body.dialect
  OBVIOUS
<1>2. Decode(text).kind = line.kind /\ (line.kind # "other" => Decode(text) = line) /\ text[1][1] = m + 1
  <2>1. text = Partial(m, 3) /\ TailLine(m, 3) = line
    BY <1>1, PartialFacts DEF TailLine
  <2>2. PICK p \in 0..3 : p = 3
    OBVIOUS
  <2>3. /\ Partial(m, p)[1][1] = m + 1 /\ Decode(Partial(m, p)).kind = TailLine(m, p).kind
        /\ TailLine(m, p).kind # "other" => Decode(Partial(m, p)) = TailLine(m, p)
    BY <2>2, DecodeIs
  <2> QED
    BY <2>1, <2>2, <2>3
<1>3. PICK S, T : S = EndersTo(m) /\ T = EndersTo(m + 1)
  OBVIOUS
<1>4. S \subseteq 1..m /\ T = IF line.kind \in EndKinds THEN S \cup {m + 1} ELSE S
  BY <1>1, <1>3 DEF EndersTo
<1>5. CASE r.done
  <2>1. q = r
    BY <1>1, <1>5 DEF AbsorbLine
  <2>2. PICK e \in S : (\A j \in S : e <= j) /\ ClosedBy(r, before, e)
    BY <1>3, <1>5 DEF Heard
  <2>3. e \in T /\ \A j \in T : e <= j
    BY <1>4, <2>2
  <2> QED
    BY <1>1, <1>3, <1>5, <2>1, <2>2, <2>3 DEF Heard
<1>6. CASE ~r.done
  <2>1. Live(r, before, n) /\ ReaderType(r, n)
    BY <1>6 DEF Live, Good
  <2>2. S = {} /\ Told(d, Reading, r, before, m)
    BY <1>1, <1>3, <1>6 DEF Heard, ClosedBy, Closing
  <2>3. Fits(d, Reading, n)
    BY <1>1, FitsBody
  <2>4. CASE line.kind = "done"
    <3>1. q = End(r) /\ r.held = <<>>
      BY <1>1, <1>2, <1>6, <2>4 DEF AbsorbLine
    <3>2. Decode(r.held).kind = "other" /\ [r EXCEPT !.held = <<>>] = r
      BY <2>1, <3>1 DEF Decode, Skipped, ReaderType
    <3>3. q = Finish(r)
      BY <1>6, <3>1, <3>2 DEF End
    <3>4. Closing(q, before, Reading, m, Conclusion(Reading, m))
      BY <2>1, <2>2, <3>3, FinishSays
    <3>5. EndOf(d, line, Reading, m) = Conclusion(Reading, m)
      BY <2>4 DEF EndOf
    <3>6. (m + 1) - 1 = m /\ m + 1 \in T /\ \A j \in T : m + 1 <= j
      BY <1>4, <2>2, <2>4 DEF EndKinds
    <3>7. ClosedBy(q, before, m + 1)
      BY <1>1, <3>4, <3>5, <3>6 DEF ClosedBy
    <3> QED
      BY <1>1, <1>3, <3>4, <3>6, <3>7 DEF Heard, Closing
  <2>5. CASE line.kind \in EndKinds \ {"done"}
    <3>1. q = AbsorbPayload(r, m + 1, line)
      BY <1>1, <1>2, <1>6, <2>5 DEF AbsorbLine, EndKinds
    <3>2. Closing(q, before, Reading, m, EndOf(body.dialect, line, Reading, m))
      <4>1. Told(body.dialect, Reading, r, before, m)
        BY <1>1, <2>2
      <4> QED
        BY <2>1, <2>5, <3>1, <4>1, EnderSays
    <3>3. (m + 1) - 1 = m /\ m + 1 \in T /\ \A j \in T : m + 1 <= j
      BY <1>4, <2>2, <2>5 DEF EndKinds
    <3>4. ClosedBy(q, before, m + 1)
      BY <1>1, <3>2, <3>3 DEF ClosedBy
    <3> QED
      BY <1>1, <1>3, <3>2, <3>3, <3>4 DEF Heard, Closing
  <2>6. CASE line.kind \notin EndKinds
    <3>1. q = AbsorbPayload(r, m + 1, line)
      BY <1>1, <1>2, <1>6, <2>6 DEF AbsorbLine, AbsorbPayload, EndKinds
    <3>2. \E o : /\ o = AbsorbPayload(r, m + 1, Reading[m + 1]) /\ Live(o, before, n) /\ o.held = r.held
                 /\ Told(body.dialect, Reading, o, before, m + 1)
      <4>1. PICK lines : lines = Reading
        OBVIOUS
      <4>2. Fits(body.dialect, lines, n) /\ Told(body.dialect, lines, r, before, m) /\ lines[m + 1].kind \notin EndKinds
        BY <1>1, <2>2, <2>3, <2>6, <4>1
      <4>3. \E o : /\ o = AbsorbPayload(r, m + 1, lines[m + 1]) /\ Live(o, before, n) /\ o.held = r.held
                   /\ Told(body.dialect, lines, o, before, m + 1)
        BY <2>1, <4>2, PayloadSays
      <4> QED
        BY <4>1, <4>3
    <3>3. Live(q, before, n) /\ q.held = r.held /\ Told(body.dialect, Reading, q, before, m + 1)
      BY <1>1, <3>1, <3>2
    <3>4. T = {}
      BY <1>4, <2>2, <2>6
    <3> QED
      BY <1>1, <1>3, <3>3, <3>4 DEF Heard, Live
  <2> QED
    BY <2>4, <2>5, <2>6
<1> QED
  BY <1>5, <1>6

(* The lines a chunk completes, and what is held when one says [DONE]. *)
FromLine(lines, w, c)   == Len(lines) = c /\ \A j \in 1..c : lines[j] = Parts(w + j)
DoneWith(held, w, c) == \A j \in 1..c : Reading[w + j].kind = "done" => held = <<>>

LEMMA LinesSay ==
  ASSUME body \in Bodies, NEW n \in Nat, n = Len(Reading), NEW w \in Nat, NEW c \in Nat, w + c <= n,
         NEW r, NEW before, Good(r, before, n), Heard(r, before, w),
         NEW lines, FromLine(lines, w, c), DoneWith(r.held, w, c)
  PROVE  /\ Heard(AbsorbLines(r, lines), before, w + c) /\ Good(AbsorbLines(r, lines), before, n)
         /\ ~AbsorbLines(r, lines).done => AbsorbLines(r, lines).held = r.held
<1>1. PICK f : LineSteps(f, r, lines, c)
  <2>1. Len(lines) = c
    BY DEF FromLine
  <2> QED
    BY <2>1, AbsorbLinesSteps
<1> DEFINE Holds == {k \in 0..c : /\ Good(f[k], before, n) /\ Heard(f[k], before, w + k)
                                  /\ ~f[k].done => f[k].held = r.held}
<1>2. 0 \in Holds
  <2>1. f[0] = r /\ w + 0 = w /\ 0 \in 0..c
    BY <1>1 DEF LineSteps
  <2> QED
    BY <2>1
<1>3. ASSUME NEW k \in 0..c, k \in Holds, k < c PROVE k + 1 \in Holds
  <2>1. /\ k + 1 \in 1..c /\ k + 1 \in 0..c /\ (k + 1) - 1 = k /\ w + (k + 1) = (w + k) + 1
        /\ w + k \in Nat /\ (w + k) + 1 \in 1..n
    BY <1>3
  <2>2. PICK g, m : g = f[k] /\ m = w + k
    OBVIOUS
  <2>3. f[k + 1] = AbsorbLine(g, Parts(m + 1))
    BY <1>1, <2>1, <2>2 DEF LineSteps, FromLine
  <2>4. Good(g, before, n) /\ Heard(g, before, m) /\ (~g.done => g.held = r.held)
    BY <1>3, <2>2
  <2>5. m \in Nat /\ m + 1 \in 1..n /\ (Reading[m + 1].kind = "done" /\ ~g.done => g.held = <<>>)
    BY <2>1, <2>2, <2>4 DEF DoneWith
  <2>6. /\ Heard(AbsorbLine(g, Parts(m + 1)), before, m + 1)
        /\ ~AbsorbLine(g, Parts(m + 1)).done => AbsorbLine(g, Parts(m + 1)).held = g.held
    BY <2>4, <2>5, LineSays
  <2>7. Good(AbsorbLine(g, Parts(m + 1)), before, n)
    <3>1. Parts(m + 1) \in Held(n)
      <4>1. PICK S, x : S = (1..n) \X (1..3) /\ x = m + 1
        OBVIOUS
      <4>2. \A p \in 1..3 : <<x, p>> \in S
        BY <2>5, <4>1
      <4>3. [p \in 1..3 |-> <<x, p>>] \in Seq(S)
        BY <4>2
      <4> QED
        BY <4>1, <4>3 DEF Parts, Held
    <3> QED
      BY <2>4, <3>1, AbsorbLineKeeps
  <2>8. AbsorbLine(g, Parts(m + 1)).done \in BOOLEAN /\ g.done \in BOOLEAN
    BY <2>4, <2>7 DEF Good, ReaderType
  <2>9. PICK q : q = AbsorbLine(g, Parts(m + 1))
    OBVIOUS
  <2>10. ~q.done => ~g.done
    BY <2>9 DEF AbsorbLine
  <2> QED
    BY <2>1, <2>2, <2>3, <2>4, <2>6, <2>7, <2>9, <2>10
<1> HIDE DEF Holds
<1>4. c \in Holds
  <2>1. \A k \in 0..c : k \in Holds
    BY <1>2, <1>3, InductionUpTo
  <2> QED
    BY <2>1
<1>5. f[c] = AbsorbLines(r, lines)
  BY <1>1 DEF LineSteps
<1> QED
  BY <1>4, <1>5 DEF Holds

-----------------------------------------------------------------------------
(***************************************************************************)
(* The bytes: four of each line, cut anywhere.                             *)
(***************************************************************************)
LEMMA ConcatFacts ==
  ASSUME NEW S, NEW s \in Seq(S), NEW t \in Seq(S)
  PROVE  s \o t \in Seq(S) /\ Len(s \o t) = Len(s) + Len(t)
OBVIOUS

LEMMA AppendFacts ==
  ASSUME NEW S, NEW s \in Seq(S), NEW e \in S
  PROVE  /\ Append(s, e) \in Seq(S) /\ Len(Append(s, e)) = Len(s) + 1
         /\ \A x \in 1..(Len(s) + 1) : Append(s, e)[x] = IF x = Len(s) + 1 THEN e ELSE s[x]
OBVIOUS

LEMMA WireIs ==
  ASSUME body \in Bodies, NEW n \in Nat, n = Len(Reading)
  PROVE  Len(Wire) = 4 * n /\ \A w \in 0..(n - 1), p \in 0..3 : Wire[4 * w + p + 1] = <<w + 1, p + 1>>
<1>1. DOMAIN Reading = 1..n
  BY FitsBody DEF Fits
<1>2. PICK e, S : e = [i \in 1..n |-> BytesOf(i)] /\ S = Byte(n)
  OBVIOUS
<1>3. ASSUME NEW i \in 1..n
      PROVE  e[i] \in Seq(S) /\ Len(e[i]) = 4 /\ \A p \in 0..3 : e[i][p + 1] = <<i, p + 1>>
  <2>1. PICK s, b : s = Parts(i) /\ b = <<i, 4>>
    OBVIOUS
  <2>2. \A p \in 1..4 : <<i, p>> \in S
    BY <1>2 DEF Byte
  <2>3. s \in Seq(S) /\ Len(s) = 3 /\ b \in S /\ \A p \in 1..3 : s[p] = <<i, p>>
    BY <2>1, <2>2 DEF Parts
  <2>4. e[i] = Append(s, b)
    BY <1>2, <2>1 DEF BytesOf, Newline
  <2>5. PICK t : t = Append(s, b)
    OBVIOUS
  <2>6. t \in Seq(S) /\ Len(t) = 4 /\ \A p \in 1..4 : t[p] = <<i, p>>
    <3>1. s \in Seq(S) /\ Len(s) = 3 /\ b \in S
      BY <2>3
    <3>2. t \in Seq(S) /\ Len(t) = 4 /\ \A p \in 1..4 : t[p] = IF p = 4 THEN b ELSE s[p]
      <4>1. Len(s) + 1 = 4
        BY <3>1
      <4> QED
        BY <2>5, <3>1, <4>1, AppendFacts
    <3>3. \A p \in 1..4 : p = 4 \/ p \in 1..3
      OBVIOUS
    <3> QED
      BY <2>1, <2>3, <3>2, <3>3
  <2>7. \A p \in 0..3 : t[p + 1] = <<i, p + 1>>
    <3>1. \A p \in 0..3 : p + 1 \in 1..4
      OBVIOUS
    <3> QED
      BY <2>6, <3>1
  <2> QED
    BY <2>4, <2>5, <2>6, <2>7
<1> DEFINE Spells(g, m) == /\ g \in Seq(S) /\ Len(g) = 4 * m
                           /\ \A w \in 0..(m - 1), p \in 0..3 : g[4 * w + p + 1] = <<w + 1, p + 1>>
           Holds == {m \in 0..n : Spells(FlattenSeq(Upto(e, m)), m)}
<1>4. 0 \in Holds
  <2>1. PICK g : g = FlattenSeq(Upto(e, 0))
    OBVIOUS
  <2>2. g = <<>>
    BY <2>1, UptoNone
  <2>3. g \in Seq(S) /\ Len(g) = 4 * 0 /\ 0..(0 - 1) = {}
    BY <2>2
  <2> QED
    BY <2>1, <2>3
<1>5. ASSUME NEW m \in 0..n, m \in Holds, m < n PROVE m + 1 \in Holds
  <2>1. PICK g, h, b : g = FlattenSeq(Upto(e, m)) /\ h = FlattenSeq(Upto(e, m + 1)) /\ b = e[m + 1]
    OBVIOUS
  <2>2. m \in Nat /\ m + 1 \in 1..n /\ m + 1 \in 0..n /\ \A i \in 1..(m + 1) : i \in 1..n
    BY <1>5
  <2>3. \A i \in 1..(m + 1) : e[i] \in Seq(S)
    BY <1>3, <2>2
  <2>4. h = g \o b
    BY <2>1, <2>2, <2>3, UptoNext
  <2>5. Spells(g, m)
    BY <1>5, <2>1
  <2>6. b \in Seq(S) /\ Len(b) = 4 /\ \A p \in 0..3 : b[p + 1] = <<m + 1, p + 1>>
    BY <1>3, <2>1, <2>2
  <2>7. /\ g \in Seq(S) /\ b \in Seq(S) /\ Len(g) = 4 * m /\ Len(b) = 4
        /\ h \in Seq(S) /\ Len(h) = 4 * (m + 1)
    <3>1. g \in Seq(S) /\ b \in Seq(S) /\ Len(g) = 4 * m /\ Len(b) = 4
      BY <2>5, <2>6
    <3>2. g \o b \in Seq(S) /\ Len(g \o b) = Len(g) + Len(b)
      BY <3>1, ConcatFacts
    <3> QED
      BY <2>2, <2>4, <3>1, <3>2
  <2>8. ASSUME NEW w \in 0..((m + 1) - 1), NEW p \in 0..3 PROVE h[4 * w + p + 1] = <<w + 1, p + 1>>
    <3>1. CASE w = m
      <4>1. PICK x : x = 4 * w + p + 1
        OBVIOUS
      <4>2. x \in Nat /\ x > Len(g) /\ x <= Len(g) + Len(b) /\ x - Len(g) = p + 1
        BY <2>2, <2>7, <3>1, <4>1
      <4>3. h[x] = b[x - Len(g)]
        <5>1. g \in Seq(S) /\ b \in Seq(S)
          BY <2>7
        <5>2. (g \o b)[x] = b[x - Len(g)]
          BY <4>2, <5>1
        <5> QED
          BY <2>4, <5>2
      <4> QED
        BY <2>6, <3>1, <4>1, <4>2, <4>3
    <3>2. CASE w # m
      <4>1. w \in 0..(m - 1)
        BY <2>2, <2>8, <3>2
      <4>2. PICK x : x = 4 * w + p + 1
        OBVIOUS
      <4>3. x \in 1..Len(g)
        BY <2>2, <2>7, <2>8, <4>1, <4>2
      <4>4. h[x] = g[x]
        <5>1. g \in Seq(S) /\ b \in Seq(S)
          BY <2>7
        <5>2. (g \o b)[x] = g[x]
          BY <4>3, <5>1
        <5> QED
          BY <2>4, <5>2
      <4>5. g[4 * w + p + 1] = <<w + 1, p + 1>>
        BY <2>5, <2>8, <4>1
      <4> QED
        BY <4>2, <4>4, <4>5
    <3> QED
      BY <3>1, <3>2
  <2> QED
    BY <2>1, <2>2, <2>7, <2>8
<1> HIDE DEF Holds
<1>6. n \in Holds
  <2>1. \A m \in 0..n : m \in Holds
    BY <1>4, <1>5, InductionUpTo
  <2> QED
    BY <2>1
<1>7. Wire = FlattenSeq(e)
  BY <1>1, <1>2 DEF Wire
<1>8. Upto(e, n) = e
  BY <1>2 DEF Upto
<1>9. Spells(Wire, n)
  BY <1>6, <1>7, <1>8 DEF Holds
<1> QED
  BY <1>9

(* The buffer after the bytes up to byte a, from line w on. *)
LinesOf(w, u) == [x \in 1..(u - w) |-> Parts(w + x)]
BufferAt(t, w, u, p) == t = [lines |-> LinesOf(w, u), held |-> Partial(u, p)]

LEMMA ByteIs ==
  ASSUME NEW w \in Nat, NEW u \in Nat, w <= u, NEW p \in 0..3, NEW t, BufferAt(t, w, u, p)
  PROVE  \E v \in Nat, o \in 0..3 : /\ 4 * v + o = 4 * u + p + 1 /\ w <= v
                                    /\ BufferAt(TakeByte(t, <<u + 1, p + 1>>), w, v, o)
<1>1. PICK b, q : b = <<u + 1, p + 1>> /\ q = TakeByte(t, b)
  OBVIOUS
<1>2. t.lines = LinesOf(w, u) /\ t.held = Partial(u, p) /\ b[2] = p + 1
  BY <1>1 DEF BufferAt
<1>3. CASE p = 3
  <2>1. q = [lines |-> Append(LinesOf(w, u), Partial(u, 3)), held |-> <<>>]
    BY <1>1, <1>2, <1>3 DEF TakeByte, Newline
  <2>2. Partial(u, 3) = Parts(u + 1) /\ Partial(u + 1, 0) = <<>>
    <3>1. u + 1 \in Nat /\ 0 \in 0..3
      OBVIOUS
    <3> QED
      BY <3>1, PartialFacts
  <2>3. Append(LinesOf(w, u), Parts(u + 1)) = LinesOf(w, u + 1)
    <3>1. PICK T : T = {Parts(x) : x \in Nat}
      OBVIOUS
    <3>2. PICK s, z, last, l : /\ s = LinesOf(w, u) /\ z = LinesOf(w, u + 1) /\ last = Parts(u + 1) /\ l = u - w
      OBVIOUS
    <3>3. l \in Nat /\ s \in Seq(T) /\ z \in Seq(T) /\ last \in T /\ Len(s) = l /\ Len(z) = l + 1
      <4>1. l \in Nat /\ (u + 1) - w = l + 1 /\ u + 1 \in Nat
        BY <3>2
      <4>2. (\A x \in 1..(l + 1) : Parts(w + x) \in T) /\ last \in T
        <5>1. \A x \in 1..(l + 1) : w + x \in Nat
          BY <4>1
        <5> QED
          BY <3>1, <3>2, <4>1, <5>1
      <4>3. s = [x \in 1..l |-> Parts(w + x)] /\ z = [x \in 1..(l + 1) |-> Parts(w + x)]
        BY <3>2, <4>1 DEF LinesOf
      <4>4. \A x \in 1..l : x \in 1..(l + 1)
        BY <4>1
      <4>5. s \in Seq(T) /\ Len(s) = l
        <5>1. \A x \in 1..l : Parts(w + x) \in T
          BY <4>2, <4>4
        <5> QED
          BY <4>1, <4>3, <5>1
      <4>6. z \in Seq(T) /\ Len(z) = l + 1
        BY <4>1, <4>2, <4>3
      <4> QED
        BY <4>1, <4>2, <4>5, <4>6
    <3>4. \A x \in 1..(l + 1) : z[x] = IF x = l + 1 THEN last ELSE s[x]
      <4>1. w + (l + 1) = u + 1 /\ (u + 1) - w = l + 1
        BY <3>2
      <4> QED
        BY <3>2, <3>3, <4>1, SMTT(30) DEF LinesOf
    <3>5. Append(s, last) = z
      BY <3>3, <3>4
    <3> QED
      BY <3>2, <3>5
  <2>4. BufferAt(q, w, u + 1, 0)
    BY <2>1, <2>2, <2>3 DEF BufferAt
  <2>5. u + 1 \in Nat /\ 0 \in 0..3 /\ 4 * (u + 1) + 0 = 4 * u + p + 1 /\ w <= u + 1
    BY <1>3
  <2> QED
    BY <1>1, <2>4, <2>5
<1>4. CASE p < 3
  <2>1. q = [lines |-> LinesOf(w, u), held |-> Append(Partial(u, p), b)]
    <3>1. PICK lines, held : lines = LinesOf(w, u) /\ held = Partial(u, p)
      OBVIOUS
    <3>2. t = [lines |-> lines, held |-> held] /\ b[2] # 4
      BY <1>2, <1>4, <3>1 DEF BufferAt
    <3>3. q = [t EXCEPT !.held = Append(t.held, b)]
      BY <1>1, <3>2 DEF TakeByte, Newline
    <3>4. q = [lines |-> lines, held |-> Append(held, b)]
      BY <3>2, <3>3
    <3> QED
      BY <3>1, <3>4
  <2>2. Append(Partial(u, p), b) = Partial(u, p + 1)
    BY <1>1, <1>4, PartialFacts
  <2>3. BufferAt(q, w, u, p + 1)
    BY <2>1, <2>2 DEF BufferAt
  <2>4. p + 1 \in 0..3 /\ 4 * u + (p + 1) = 4 * u + p + 1
    BY <1>4
  <2> QED
    BY <1>1, <2>3, <2>4
<1> QED
  BY <1>3, <1>4

LEMMA PushIs ==
  ASSUME body \in Bodies, NEW n \in Nat, n = Len(Reading), NEW w \in Nat, NEW p \in 0..3, NEW k \in Nat,
         4 * w + p + k <= 4 * n, NEW bytes, Len(bytes) = k,
         \A j \in 1..k : bytes[j] = Wire[4 * w + p + j]
  PROVE  \E u \in Nat, o \in 0..3 : 4 * u + o = 4 * w + p + k /\ w <= u /\ BufferAt(Push(Partial(w, p), bytes), w, u, o)
<1>1. PICK t : t = [lines |-> <<>>, held |-> Partial(w, p)]
  OBVIOUS
<1>2. PICK f : ByteSteps(f, t, bytes, k)
  BY TakeBytesSteps
<1> DEFINE Reached(j) == \E u \in Nat, o \in 0..3 : 4 * u + o = 4 * w + p + j /\ w <= u /\ BufferAt(f[j], w, u, o)
           Holds == {j \in 0..k : Reached(j)}
<1>3. 0 \in Holds
  <2>1. f[0] = t
    BY <1>2 DEF ByteSteps
  <2>2. LinesOf(w, w) = <<>>
    BY DEF LinesOf
  <2>3. BufferAt(f[0], w, w, p)
    BY <1>1, <2>1, <2>2 DEF BufferAt
  <2>4. 4 * w + p = 4 * w + p + 0 /\ w <= w
    OBVIOUS
  <2> QED
    BY <2>3, <2>4
<1>4. ASSUME NEW j \in 0..k, j \in Holds, j < k PROVE j + 1 \in Holds
  <2>1. PICK u \in Nat, o \in 0..3 : 4 * u + o = 4 * w + p + j /\ w <= u /\ BufferAt(f[j], w, u, o)
    BY <1>4
  <2>2. j + 1 \in 1..k /\ j + 1 \in 0..k /\ (j + 1) - 1 = j
    BY <1>4
  <2>3. f[j + 1] = TakeByte(f[j], bytes[j + 1])
    BY <1>2, <2>2 DEF ByteSteps
  <2>4. 4 * w + p + (j + 1) = 4 * u + o + 1 /\ u \in 0..(n - 1)
    BY <1>4, <2>1
  <2>5. bytes[j + 1] = <<u + 1, o + 1>>
    <3>1. bytes[j + 1] = Wire[4 * u + o + 1]
      <4>1. PICK x \in 1..k : x = j + 1
        BY <2>2
      <4>2. bytes[x] = Wire[4 * w + p + x]
        OBVIOUS
      <4>3. 4 * w + p + x = 4 * u + o + 1
        BY <2>4, <4>1
      <4> QED
        BY <4>1, <4>2, <4>3
    <3>2. Wire[4 * u + o + 1] = <<u + 1, o + 1>>
      BY <2>4, WireIs
    <3> QED
      BY <3>1, <3>2
  <2>6. \E v \in Nat, x \in 0..3 : 4 * v + x = 4 * u + o + 1 /\ w <= v /\ BufferAt(TakeByte(f[j], <<u + 1, o + 1>>), w, v, x)
    BY <2>1, ByteIs
  <2>7. Reached(j + 1)
    BY <2>3, <2>4, <2>5, <2>6
  <2> QED
    BY <2>2, <2>7
<1> HIDE DEF Holds
<1>5. k \in Holds
  <2>1. \A j \in 0..k : j \in Holds
    BY <1>3, <1>4, InductionUpTo
  <2> QED
    BY <2>1
<1>6. f[k] = Push(Partial(w, p), bytes)
  BY <1>1, <1>2 DEF ByteSteps, Push
<1> QED
  BY <1>5, <1>6 DEF Holds

LEMMA HoldingTold ==
  ASSUME NEW dialect, NEW lines, NEW m, NEW r, NEW before, NEW n, Live(r, before, n),
         Told(dialect, lines, r, before, m), NEW held \in Held(n)
  PROVE  Live(Holding(r, held), before, n) /\ Told(dialect, lines, Holding(r, held), before, m)
<1>1. PICK q : q = Holding(r, held)
  OBVIOUS
<1>2. q.pending = r.pending /\ q.model = r.model /\ q.finish = r.finish /\ q.ids = r.ids
  BY <1>1 DEF Live, Good, ReaderType, Holding
<1>3. Told(dialect, lines, q, before, m)
  BY <1>2 DEF Told
<1>4. Live(q, before, n)
  BY <1>1, HoldingKeeps DEF Live
<1> QED
  BY <1>1, <1>3, <1>4

(* One chunk of bytes. *)
BytesFrom(bytes, a, k) == Len(bytes) = k /\ \A j \in 1..k : bytes[j] = Wire[a + j]

HeardUpTo(q, before, a) ==
  \E u \in Nat, o \in 0..3 : 4 * u + o = a /\ Heard(q, before, u) /\ (~q.done => q.held = Partial(u, o))

LEMMA BytesSay ==
  ASSUME body \in Bodies, NEW n \in Nat, n = Len(Reading), DoneIsLast,
         NEW w \in Nat, NEW p \in 0..3, NEW k \in Nat, 4 * w + p + k <= 4 * n,
         NEW r, NEW before, Live(r, before, n), EndersTo(w) = {}, Told(body.dialect, Reading, r, before, w),
         r.held = Partial(w, p),
         NEW bytes \in Seq(Byte(n)), BytesFrom(bytes, 4 * w + p, k)
  PROVE  HeardUpTo(AbsorbBytes(r, bytes), before, 4 * w + p + k)
<1>1. PICK u \in Nat, o \in 0..3 :
        4 * u + o = 4 * w + p + k /\ w <= u /\ BufferAt(Push(Partial(w, p), bytes), w, u, o)
  <2>1. Len(bytes) = k /\ \A j \in 1..k : bytes[j] = Wire[4 * w + p + j]
    BY DEF BytesFrom
  <2> QED
    BY <2>1, PushIs, ZenonT(40)
<1>2. PICK held, lines, c : held = Partial(u, o) /\ lines = LinesOf(w, u) /\ c = u - w
  OBVIOUS
<1>3. Push(r.held, bytes).held = held /\ Push(r.held, bytes).lines = lines
  BY <1>1, <1>2 DEF BufferAt
<1>4. held \in Held(n)
  <2>1. r.held \in Held(n)
    BY DEF Live, Good, ReaderType
  <2> QED
    BY <1>3, <2>1, PushType
<1>5. PICK s : s = Holding(r, held)
  OBVIOUS
<1>6. Live(s, before, n) /\ Told(body.dialect, Reading, s, before, w) /\ s.held = held
  <2>1. PICK d, all : d = body.dialect /\ all = Reading
    OBVIOUS
  <2>2. Told(d, all, r, before, w)
    BY <2>1
  <2>3. Live(s, before, n) /\ Told(d, all, s, before, w)
    BY <1>4, <1>5, <2>2, HoldingTold
  <2>4. s.held = held
    BY <1>5 DEF Live, Good, ReaderType, Holding
  <2> QED
    BY <2>1, <2>3, <2>4
<1>7. Good(s, before, n) /\ Heard(s, before, w)
  BY <1>6 DEF Live, Heard
<1>8. c \in Nat /\ w + c = u /\ w + c <= n
  BY <1>1, <1>2
<1>9. Len(lines) = c /\ \A j \in 1..c : lines[j] = Parts(w + j)
  BY <1>2, <1>8 DEF LinesOf
<1>10. ASSUME NEW j \in 1..c, Reading[w + j].kind = "done" PROVE s.held = <<>>
  <2>1. DOMAIN Reading = 1..n
    BY FitsBody DEF Fits
  <2>2. w + j \in 1..n
    BY <1>8, <1>10
  <2>3. w + j = n
    BY <1>10, <2>1, <2>2 DEF DoneIsLast
  <2>4. o = 0
    BY <1>1, <1>8, <1>10, <2>3
  <2> QED
    BY <1>2, <1>6, <2>4, PartialFacts
<1>11. PICK q : q = AbsorbLines(s, lines)
  OBVIOUS
<1>12. Heard(q, before, w + c) /\ (~q.done => q.held = s.held)
  <2>1. DoneWith(s.held, w, c)
    BY <1>10 DEF DoneWith
  <2>2. FromLine(lines, w, c)
    BY <1>9 DEF FromLine
  <2>3. /\ Heard(AbsorbLines(s, lines), before, w + c) /\ Good(AbsorbLines(s, lines), before, n)
        /\ ~AbsorbLines(s, lines).done => AbsorbLines(s, lines).held = s.held
    BY <1>7, <1>8, <2>1, <2>2, LinesSay
  <2> QED
    BY <1>11, <2>3
<1>13. AbsorbBytes(r, bytes) = q
  BY <1>3, <1>5, <1>11 DEF AbsorbBytes, Holding, Live
<1> QED
  BY <1>1, <1>2, <1>6, <1>8, <1>12, <1>13 DEF HeardUpTo

(* The end of the body: the tail counts as a line if it has a payload. *)
LEMMA EndSays ==
  ASSUME body \in Bodies, NEW n \in Nat, n = Len(Reading),
         NEW w \in Nat, NEW p \in 0..3, 4 * w + p <= 4 * n,
         NEW r, NEW before, Live(r, before, n), Told(body.dialect, Reading, r, before, w), r.held = Partial(w, p)
  PROVE  /\ p < 2 => Closing(End(r), before, Reading, w, Conclusion(Reading, w))
         /\ p > 1 /\ TailLine(w, p).kind \in EndKinds =>
              Closing(End(r), before, Reading, w, EndOf(body.dialect, TailLine(w, p), Reading, w))
         /\ p > 1 /\ TailLine(w, p).kind \notin EndKinds =>
              Closing(End(r), before, Reading, w + 1, Conclusion(Reading, w + 1))
<1>1. PICK d, all, flushed, line : /\ d = body.dialect /\ all = Reading /\ flushed = Holding(r, <<>>)
                                   /\ line = Decode(r.held)
  OBVIOUS
<1>2. Live(flushed, before, n) /\ Told(d, all, flushed, before, w)
  <2>1. <<>> \in Held(n) /\ Told(d, all, r, before, w)
    BY <1>1 DEF Held
  <2> QED
    BY <1>1, <2>1, HoldingTold
<1>3. PICK last : last = IF line.kind \in {"other", "done"} THEN flushed
                         ELSE AbsorbPayload(flushed, r.held[1][1], line)
  OBVIOUS
<1>4. End(r) = IF last.done THEN last ELSE Finish(last)
  BY <1>1, <1>3 DEF End, Holding, Live
<1>5. ~flushed.done
  BY <1>2 DEF Live
<1>6. Closing(Finish(flushed), before, all, w, Conclusion(all, w))
  BY <1>2, FinishSays
<1>7. CASE p < 2
  <2>1. line = Skipped
    BY <1>1, <1>7, DecodeIs
  <2>2. End(r) = Finish(flushed)
    BY <1>3, <1>4, <1>5, <2>1 DEF Skipped
  <2> QED
    BY <1>1, <1>6, <1>7, <2>2
<1>8. CASE p > 1
  <2>1. PICK tail : tail = TailLine(w, p)
    OBVIOUS
  <2>2. r.held[1][1] = w + 1 /\ line.kind = tail.kind /\ (tail.kind # "other" => line = tail)
    BY <1>1, <1>8, <2>1, DecodeIs
  <2>3. CASE tail.kind = "done"
    <3>1. End(r) = Finish(flushed)
      BY <1>3, <1>4, <1>5, <2>2, <2>3
    <3>2. EndOf(d, tail, all, w) = Conclusion(all, w)
      BY <2>3 DEF EndOf
    <3> QED
      BY <1>1, <1>6, <1>8, <2>1, <2>3, <3>1, <3>2 DEF EndKinds
  <2>4. CASE tail.kind \in EndKinds \ {"done"}
    <3>1. line = tail /\ last = AbsorbPayload(flushed, w + 1, tail)
      BY <1>3, <2>2, <2>4 DEF EndKinds
    <3>2. Told(body.dialect, all, flushed, before, w)
      BY <1>1, <1>2
    <3>3. Closing(last, before, all, w, EndOf(body.dialect, tail, all, w))
      BY <1>2, <2>4, <3>1, <3>2, EnderSays
    <3>4. End(r) = last
      BY <1>4, <3>3 DEF Closing
    <3> QED
      BY <1>1, <1>8, <2>1, <2>4, <3>3, <3>4
  <2>5. CASE tail.kind \notin EndKinds
    <3>1. tail = all[w + 1]
      BY <1>1, <2>1, <2>5 DEF TailLine, Garbled, EndKinds
    <3>2. last = AbsorbPayload(flushed, w + 1, all[w + 1])
      <4>1. CASE tail.kind = "other"
        BY <1>3, <2>2, <3>1, <4>1 DEF AbsorbPayload
      <4>2. CASE tail.kind # "other"
        BY <1>3, <2>2, <2>5, <3>1, <4>2 DEF EndKinds
      <4> QED
        BY <4>1, <4>2
    <3>3. Fits(body.dialect, all, n) /\ w + 1 \in 1..n /\ Told(body.dialect, all, flushed, before, w)
      <4>1. Fits(body.dialect, all, n)
        BY <1>1, FitsBody
      <4>2. w + 1 \in 1..n
        BY <1>8
      <4> QED
        BY <1>1, <1>2, <4>1, <4>2
    <3>4. \E q : /\ q = AbsorbPayload(flushed, w + 1, all[w + 1]) /\ Live(q, before, n) /\ q.held = flushed.held
                 /\ Told(body.dialect, all, q, before, w + 1)
      BY <1>2, <2>5, <3>1, <3>3, PayloadSays
    <3>5. Live(last, before, n) /\ Told(d, all, last, before, w + 1)
      BY <1>1, <3>2, <3>4
    <3>6. Closing(Finish(last), before, all, w + 1, Conclusion(all, w + 1))
      BY <3>5, FinishSays
    <3>7. End(r) = Finish(last)
      BY <1>4, <3>5 DEF Live
    <3> QED
      BY <1>1, <1>8, <2>1, <2>5, <3>6, <3>7
  <2> QED
    BY <2>3, <2>4, <2>5
<1> QED
  BY <1>7, <1>8

-----------------------------------------------------------------------------
(***************************************************************************)
(* The invariant: while the reader is read, it has told of the whole lines *)
(* received and holds back the parts of the next; once it is done, all     *)
(* that is left is to hand over what it has queued.                        *)
(***************************************************************************)
Reaches(w, p)     == w \in Nat /\ p \in 0..3 /\ at = 4 * w + p
Listening(w, p) == /\ ~reader.done /\ EndersTo(w) = {} /\ reader.held = Partial(w, p)
                   /\ Told(body.dialect, Reading, reader, items, w)
Complete        == items \o reader.pending = Said(Reading, Content) \o Final

ReadSoFar ==
  \/ response = "asked" /\ at = 0
  \/ response = "gone" /\ over /\ ~reader.done
  \/ response = "open" /\ \E w, p : Reaches(w, p) /\ Listening(w, p)
  \/ response # "asked" /\ reader.done /\ Complete

ReadInv == StreamInv /\ (DoneIsLast => ReadSoFar)

LEMMA SplitAt ==
  ASSUME NEW w \in Nat, NEW p \in 0..3
  PROVE  (4 * w + p) \div 4 = w /\ (4 * w + p) % 4 = p
OBVIOUS

LEMMA LeastIs ==
  ASSUME NEW S, S \subseteq Nat, NEW e \in S, \A j \in S : e <= j
  PROVE  (CHOOSE k \in S : \A j \in S : k <= j) = e
<1>1. \A o \in S : (\A j \in S : o <= j) => o = e
  BY SMT
<1> QED
  BY <1>1

LEMMA ReadSaysAll == ReadInv => ChunkingIrrelevant
<1> SUFFICES ASSUME ReadInv, response # "asked", ~(response = "gone" /\ over /\ ~reader.done), DoneIsLast
             PROVE  Complete
  BY DEF ChunkingIrrelevant, Complete
<1>1. CASE reader.done
  BY <1>1 DEF ReadInv, ReadSoFar, Listening
<1>2. CASE ~reader.done
  <2>1. PICK w, p : Reaches(w, p) /\ Listening(w, p) /\ response = "open"
    BY <1>2 DEF ReadInv, ReadSoFar
  <2>2. at \div 4 = w
    BY <2>1, SplitAt DEF Reaches
  <2>3. Arrived = w /\ Whole = w
    BY <2>1, <2>2 DEF Arrived, Whole, Newline
  <2>4. \A k \in 1..w : Meaning(k) = Reading[k]
    BY <2>1, <2>3 DEF Meaning, Reaches
  <2>5. Enders = {}
    BY <2>1, <2>3, <2>4 DEF Enders, Listening, EndersTo, EndKinds
  <2>6. Content = w /\ Final = <<>>
    <3>1. ~dropped
      BY <2>1 DEF ReadInv, StreamInv, TypeOK
    <3> QED
      BY <2>1, <2>3, <2>5, <3>1 DEF Content, Final
  <2>7. items \o reader.pending = Said(Reading, w)
    BY <2>1 DEF Listening, Told
  <2>8. PICK h : h = Said(Reading, w)
    OBVIOUS
  <2>9. h \in Seq(Sent)
    <3>1. ~over
      BY <1>2, <2>1 DEF ReadInv, StreamInv, OverIsStill, IsDone
    <3>2. PICK b \in Seq(Sent), q \in Seq(Sent) : b = items /\ q = reader.pending
      BY <3>1 DEF ReadInv, StreamInv, InOrder, Good, ReaderType
    <3>3. b \o q \in Seq(Sent)
      BY <3>2, SentConcat
    <3> QED
      BY <2>7, <2>8, <3>2, <3>3
  <2>10. h \o <<>> = h
    BY <2>9, SentConcat
  <2> QED
    BY <2>6, <2>7, <2>8, <2>10 DEF Complete
<1> QED
  BY <1>1, <1>2

(* What has been received does not change when something is handed over. *)
LEMMA ReceivedSame ==
  ASSUME body' = body, response' = response, at' = at, dropped' = dropped
  PROVE  Content' = Content /\ Final' = Final
<1>1. Whole' = Whole /\ Arrived' = Arrived /\ Reading' = Reading
  BY DEF Whole, Arrived, Reading
<1>2. \A k : Meaning(k)' = Meaning(k)
  BY <1>1 DEF Meaning
<1>3. Enders' = Enders
  BY <1>1, <1>2 DEF Enders
<1>4. Ender' = Ender
  BY <1>3 DEF Ender
<1>5. Content' = Content
  BY <1>1, <1>3, <1>4 DEF Content
<1> QED
  BY <1>1, <1>2, <1>3, <1>4, <1>5 DEF Final

LEMMA HandOverReads ==
  ASSUME ReadInv, DoneIsLast, HandOver, StreamInv'
  PROVE  ReadSoFar'
<1>1. ~over /\ Good(reader, items, Len(Reading)) /\ reader.pending # <<>>
  BY DEF ReadInv, StreamInv, InOrder, HandOver
<1>2. PICK S, p, b, q, c : S = Sent /\ p = reader.pending /\ b = items /\ q = reader' /\ c = items'
  OBVIOUS
<1>3. p \in Seq(S) /\ b \in Seq(S) /\ p # <<>>
  BY <1>1, <1>2 DEF Good, ReaderType
<1>4. Append(b, Head(p)) \o Tail(p) = b \o p
  BY <1>3
<1>5. c = Append(b, Head(p)) /\ q = [reader EXCEPT !.pending = Tail(p)]
  BY <1>2 DEF HandOver
<1>6. /\ q.pending = Tail(p) /\ q.held = reader.held /\ q.ids = reader.ids /\ q.model = reader.model
      /\ q.finish = reader.finish /\ q.done = reader.done
  BY <1>1, <1>5 DEF Good, ReaderType
<1>7. c \o q.pending = items \o reader.pending
  BY <1>2, <1>4, <1>5, <1>6
<1>8. response # "asked"
  BY <1>1, NewReaderFacts DEF ReadInv, StreamInv, NothingBefore
<1>9. CASE reader.done
  <2>1. Complete
    BY <1>8, <1>9 DEF ReadInv, ReadSoFar, Listening
  <2>2. Content' = Content /\ Final' = Final /\ Reading' = Reading
    BY ReceivedSame DEF HandOver, Reading
  <2>3. Complete'
    BY <1>2, <1>7, <2>1, <2>2 DEF Complete
  <2>4. reader'.done /\ response' # "asked"
    BY <1>2, <1>6, <1>8, <1>9 DEF HandOver
  <2> QED
    BY <2>3, <2>4 DEF ReadSoFar
<1>10. CASE ~reader.done
  <2>1. PICK w, o : Reaches(w, o) /\ Listening(w, o) /\ response = "open"
    BY <1>1, <1>8, <1>10 DEF ReadInv, ReadSoFar
  <2>2. Told(body.dialect, Reading, q, c, w)
    BY <1>6, <1>7, <2>1 DEF Told, Listening
  <2>3. Listening(w, o)'
    BY <1>2, <1>6, <2>1, <2>2 DEF Listening, HandOver, Reading, EndersTo
  <2>4. Reaches(w, o)' /\ response' = "open"
    BY <2>1 DEF Reaches, HandOver
  <2> QED
    BY <2>3, <2>4 DEF ReadSoFar
<1> QED
  BY <1>9, <1>10

(* A response is opened: no line has said anything yet. *)
LEMMA NothingTold ==
  ASSUME NEW dialect, NEW lines, NEW n, Sized(lines, n)
  PROVE  Told(dialect, lines, NewReader, <<>>, 0)
<1>1. PICK ids : ids = NewReader.ids
  OBVIOUS
<1>2. DOMAIN ids = {}
  <2>1. ids = <<>>
    BY <1>1, NewReaderFacts
  <2> QED
    BY <2>1
<1>3. Said(lines, 0) = <<>>
  <2>1. [k \in 1..0 |-> EventsOf(lines, k)] = <<>>
    OBVIOUS
  <2> QED
    BY <2>1, FlattenEmpty DEF Said
<1>4. Namers(lines, 0) = {} /\ Finishers(lines, 0) = {}
  BY DEF Namers, Finishers
<1>5. ModelOf(lines, 0) = 0 /\ FinishOf(lines, 0) = ""
  BY <1>4 DEF ModelOf, FinishOf, Latest
<1>6. Known(lines, ids, <<0 + 1, 1, 1>>)
  <2>1. ASSUME NEW q \in Deltas(lines) PROVE ~Sooner(q, <<1, 1, 1>>)
    <3>1. Place(q) /\ q[1] \in Chunks(lines) /\ q[2] \in Asked(lines[q[1]])
          /\ q[3] \in DOMAIN lines[q[1]].choices[q[2]].calls
      BY DeltaParts
    <3>2. q[3] \in 1..Len(lines[q[1]].choices[q[2]].calls) /\ Len(lines[q[1]].choices[q[2]].calls) \in Nat
      BY <3>1, CallFacts
    <3>3. q[1] \in 1..n /\ q[2] \in 1..Len(lines[q[1]].choices) /\ Len(lines[q[1]].choices) \in Nat
      BY <3>1, ChoiceFacts DEF Asked
    <3>4. q[1] >= 1 /\ q[2] >= 1 /\ q[3] >= 1
      BY <3>1, <3>2, <3>3 DEF Sized, Place
    <3> QED
      BY <3>1, <3>4 DEF Sooner, Place
  <2> QED
    BY <1>2, <2>1 DEF Known, DeltasOf
<1>7. OpenedBy(lines, ids, 0)
  BY <1>2 DEF OpenedBy
<1>8. <<>> \o NewReader.pending = <<>> /\ 1..0 = {}
  <2>1. PICK p : p = NewReader.pending
    OBVIOUS
  <2>2. p = <<>>
    BY <2>1, NewReaderFacts
  <2>3. <<>> \o p = <<>>
    BY <2>2
  <2> QED
    BY <2>1, <2>3
<1> QED
  BY <1>1, <1>3, <1>5, <1>6, <1>7, <1>8, NewReaderFacts DEF Told

LEMMA OpenedReads ==
  ASSUME ReadInv, DoneIsLast, Opened
  PROVE  ReadSoFar'
<1>1. reader = NewReader /\ items = <<>> /\ at = 0 /\ body \in Bodies
  BY DEF ReadInv, ReadSoFar, StreamInv, NothingBefore, Opened
<1>2. PICK n, lines, d : n = Len(Reading) /\ lines = Reading /\ d = body.dialect
  OBVIOUS
<1>3. Sized(lines, n)
  <2>1. Fits(d, lines, n)
    BY <1>1, <1>2, FitsBody
  <2> QED
    BY <2>1, FitsFacts
<1>4. Told(d, lines, NewReader, <<>>, 0)
  BY <1>3, NothingTold
<1>5. EndersTo(0) = {} /\ Partial(0, 0) = <<>>
  BY DEF EndersTo, Partial
<1>6. Listening(0, 0)
  BY <1>1, <1>2, <1>4, <1>5, NewReaderFacts DEF Listening
<1>7. Listening(0, 0)'
  BY <1>6 DEF Listening, Opened, Reading, EndersTo
<1>8. Reaches(0, 0)' /\ response' = "open"
  <2>1. 0 \in Nat /\ 0 \in 0..3 /\ 0 = 4 * 0 + 0
    OBVIOUS
  <2> QED
    BY <1>1, <2>1 DEF Reaches, Opened
<1> QED
  BY <1>7, <1>8 DEF ReadSoFar

(* The response is read on. *)
LEMMA ReadingOn ==
  ASSUME ReadInv, DoneIsLast, Reads
  PROVE  /\ ~over /\ Live(reader, items, Len(Reading)) /\ response = "open" /\ ~dropped /\ body \in Bodies
         /\ \E w, p : Reaches(w, p) /\ Listening(w, p) /\ 4 * w + p <= 4 * Len(Reading)
<1>1. ~over /\ Live(reader, items, Len(Reading)) /\ response = "open" /\ ~dropped /\ body \in Bodies
  BY DEF ReadInv, StreamInv, TypeOK, InOrder, OverIsStill, Reads, IsDone, Live
<1>2. PICK w, p : Reaches(w, p) /\ Listening(w, p)
  BY <1>1 DEF ReadInv, ReadSoFar, Live
<1>3. at \in 0..Len(Wire)
  BY DEF ReadInv, StreamInv, TypeOK
<1>4. PICK n : n = Len(Reading)
  OBVIOUS
<1>5. n \in Nat
  BY <1>1, <1>4, BodyLines
<1>6. Len(Wire) = 4 * n
  BY <1>1, <1>4, <1>5, WireIs
<1>7. 4 * w + p <= 4 * n
  BY <1>2, <1>3, <1>5, <1>6 DEF Reaches
<1> QED
  BY <1>1, <1>2, <1>4, <1>7

LEMMA Completed ==
  ASSUME NEW m, NEW e, NEW q, q = reader', Closing(q, items, Reading, m, e), items' = items, body' = body,
         Content' = m, Final' = <<e>>, response' # "asked"
  PROVE  ReadSoFar'
<1>1. q.done /\ items \o q.pending = Said(Reading, m) \o <<e>>
  BY DEF Closing
<1>2. Reading' = Reading
  BY DEF Reading
<1>3. Complete'
  BY <1>1, <1>2 DEF Complete
<1> QED
  BY <1>1, <1>3 DEF ReadSoFar

LEMMA CutFacts ==
  ASSUME NEW S, NEW s \in Seq(S), NEW a \in Nat, NEW k \in 1..(Len(s) - a)
  PROVE  \A j \in 1..k : SubSeq(s, a + 1, a + k)[j] = s[a + j]
<1>1. a + 1 \in 1..Len(s) /\ a + k \in 1..Len(s) /\ \A j \in 1..k : (a + 1) + j - 1 = a + j
  OBVIOUS
<1> QED
  BY <1>1

LEMMA ChunkReads ==
  ASSUME ReadInv, DoneIsLast, ReadChunk
  PROVE  ReadSoFar'
<1>1. PICK n : n = Len(Reading)
  OBVIOUS
<1>2. Live(reader, items, n) /\ response = "open" /\ ~dropped /\ body \in Bodies
  BY <1>1, ReadingOn DEF ReadChunk
<1>3. PICK w, p : Reaches(w, p) /\ Listening(w, p) /\ 4 * w + p <= 4 * n
  BY <1>1, ReadingOn DEF ReadChunk
<1>4. n \in Nat
  BY <1>1, <1>2, BodyLines
<1>5. Wire \in Seq(Byte(n)) /\ Len(Wire) = 4 * n
  BY <1>1, <1>2, <1>4, WireType, WireIs
<1>6. PICK k \in 1..(Len(Wire) - at) : at' = at + k /\ reader' = AbsorbBytes(reader, SubSeq(Wire, at + 1, at + k))
  BY DEF ReadChunk
<1>7. PICK S, s, a, bytes, q : S = Byte(n) /\ s = Wire /\ a = at /\ bytes = SubSeq(s, a + 1, a + k) /\ q = reader'
  OBVIOUS
<1>8. w \in Nat /\ p \in 0..3 /\ a = 4 * w + p /\ k \in Nat /\ a + k <= 4 * n
  BY <1>3, <1>4, <1>5, <1>6, <1>7 DEF Reaches
<1>9. s \in Seq(S) /\ Len(s) = 4 * n
  BY <1>5, <1>7
<1>10. bytes \in Seq(S) /\ Len(bytes) = k /\ \A j \in 1..k : bytes[j] = s[a + j]
  <2>1. a \in Nat /\ k \in 1..(Len(s) - a)
    BY <1>6, <1>7, <1>8
  <2>2. bytes \in Seq(S)
    BY <1>7, <1>9, <2>1, CutType
  <2>3. a + 1 \in 1..Len(s) /\ a + k \in 1..Len(s) /\ (a + k) - (a + 1) + 1 = k
    BY <1>8, <1>9, <2>1
  <2>4. Len(bytes) = k
    BY <1>7, <1>9, <2>3
  <2>5. \A j \in 1..k : bytes[j] = s[a + j]
    BY <1>7, <1>9, <2>1, CutFacts
  <2> QED
    BY <2>2, <2>4, <2>5
<1>11. q = AbsorbBytes(reader, bytes)
  BY <1>6, <1>7
<1>12. PICK u \in Nat, o \in 0..3 :
         4 * u + o = 4 * w + p + k /\ Heard(q, items, u) /\ (~q.done => q.held = Partial(u, o))
  <2>1. PICK r : r = reader
    OBVIOUS
  <2>2. /\ Live(r, items, n) /\ EndersTo(w) = {} /\ Told(body.dialect, Reading, r, items, w) /\ r.held = Partial(w, p)
    BY <1>2, <1>3, <2>1 DEF Listening
  <2>3. 4 * w + p + k <= 4 * n /\ bytes \in Seq(Byte(n)) /\ BytesFrom(bytes, 4 * w + p, k)
    BY <1>7, <1>8, <1>10 DEF BytesFrom
  <2>4. HeardUpTo(AbsorbBytes(r, bytes), items, 4 * w + p + k)
    BY <1>1, <1>2, <1>4, <1>8, <2>2, <2>3, BytesSay
  <2> QED
    BY <1>11, <2>1, <2>4 DEF HeardUpTo
<1>13. at' = 4 * u + o /\ body' = body /\ items' = items /\ response' = "open" /\ Reading' = Reading
  BY <1>2, <1>6, <1>7, <1>8, <1>12 DEF ReadChunk, Reading
<1>14. CASE EndersTo(u) = {}
  <2>1. ~q.done /\ Told(body.dialect, Reading, q, items, u) /\ q.held = Partial(u, o)
    BY <1>12, <1>14 DEF Heard
  <2>2. Listening(u, o)'
    BY <1>7, <1>13, <1>14, <2>1 DEF Listening, EndersTo
  <2>3. Reaches(u, o)'
    BY <1>12, <1>13 DEF Reaches
  <2> QED
    BY <1>13, <2>2, <2>3 DEF ReadSoFar
<1>15. CASE EndersTo(u) # {}
  <2>1. PICK e \in EndersTo(u) : (\A j \in EndersTo(u) : e <= j) /\ ClosedBy(q, items, e)
    BY <1>12, <1>15 DEF Heard
  <2>2. Whole' = u /\ Arrived' = u
    <3>1. at' \div 4 = u
      BY <1>13, SplitAt
    <3> QED
      BY <1>13, <3>1 DEF Whole, Arrived, Newline
  <2>3. \A x \in 1..u : Meaning(x)' = Reading[x]
    BY <1>13, <2>2 DEF Meaning
  <2>4. PICK T : T = EndersTo(u)
    OBVIOUS
  <2>5. Enders' = T
    BY <2>2, <2>3, <2>4 DEF Enders, EndersTo, EndKinds
  <2>6. T \subseteq Nat /\ e \in T /\ \A j \in T : e <= j
    BY <2>1, <2>4 DEF EndersTo
  <2>7. Ender' = e
    <3>1. (CHOOSE x \in T : \A j \in T : x <= j) = e
      BY <2>6, LeastIs
    <3> QED
      BY <2>5, <3>1 DEF Ender
  <2>8. Content' = e - 1
    BY <2>5, <2>6, <2>7 DEF Content
  <2>9. Final' = <<EndOf(body.dialect, Reading[e], Reading, e - 1)>>
    <3>1. Meaning(e)' = Reading[e]
      BY <2>1, <2>3 DEF EndersTo
    <3> QED
      BY <1>13, <2>5, <2>6, <2>7, <2>8, <3>1 DEF Final
  <2>10. Closing(q, items, Reading, e - 1, EndOf(body.dialect, Reading[e], Reading, e - 1))
    BY <2>1 DEF ClosedBy
  <2> QED
    BY <1>7, <1>13, <2>8, <2>9, <2>10, Completed
<1> QED
  BY <1>14, <1>15

LEMMA DroppedReads ==
  ASSUME ReadInv, DoneIsLast, Dropped
  PROVE  ReadSoFar'
<1>1. PICK n : n = Len(Reading)
  OBVIOUS
<1>2. Live(reader, items, n) /\ response = "open" /\ reader.pending = <<>>
  BY <1>1, ReadingOn DEF Dropped, Reads
<1>3. PICK w, p : Reaches(w, p) /\ Listening(w, p)
  BY ReadingOn DEF Dropped
<1>4. PICK q, e, r : q = reader' /\ e = Failure("transport", 0) /\ r = reader
  OBVIOUS
<1>5. q = FailTransport(r) /\ body' = body /\ items' = items /\ at' = at /\ dropped' /\ response' = "gone"
  BY <1>4 DEF Dropped
<1>6. e \in Sent
  BY <1>4, EventType DEF Failure, Kinds, Ids, Texts, Literals
<1>7. q.done /\ q.pending = Append(r.pending, e)
  <2>1. <<e>> \o r.pending = Append(r.pending, e)
    BY <1>2, <1>4, <1>6
  <2> QED
    BY <1>2, <1>4, <1>5, <2>1 DEF FailTransport, Live, Good, ReaderType
<1>8. Closing(q, items, Reading, w, e)
  <2>1. PICK d, lines : d = body.dialect /\ lines = Reading
    OBVIOUS
  <2>2. Live(r, items, n) /\ Told(d, lines, r, items, w)
    BY <1>2, <1>3, <1>4, <2>1 DEF Listening
  <2>3. Closing(q, items, lines, w, e)
    BY <1>6, <1>7, <2>2, OneMore
  <2> QED
    BY <2>1, <2>3
<1>9. Whole' = w /\ Arrived' = w /\ Reading' = Reading
  <2>1. w \in Nat /\ p \in 0..3 /\ at = 4 * w + p
    BY <1>3 DEF Reaches
  <2>2. at \div 4 = w
    BY <2>1, SplitAt
  <2> QED
    BY <1>5, <2>2 DEF Whole, Arrived, Newline, Reading
<1>10. \A x \in 1..w : Meaning(x)' = Reading[x]
  BY <1>3, <1>9 DEF Meaning, Reaches
<1>11. Enders' = {}
  BY <1>3, <1>9, <1>10 DEF Enders, Listening, EndersTo, EndKinds
<1>12. Content' = w /\ Final' = <<e>>
  BY <1>4, <1>5, <1>9, <1>11 DEF Content, Final
<1> QED
  BY <1>4, <1>5, <1>8, <1>12, Completed

LEMMA ClosedReads ==
  ASSUME ReadInv, DoneIsLast, Closed
  PROVE  ReadSoFar'
<1>1. PICK n : n = Len(Reading)
  OBVIOUS
<1>2. Live(reader, items, n) /\ response = "open" /\ ~dropped /\ body \in Bodies
  BY <1>1, ReadingOn DEF Closed
<1>3. PICK w, p : Reaches(w, p) /\ Listening(w, p) /\ 4 * w + p <= 4 * n
  BY <1>1, ReadingOn DEF Closed
<1>4. n \in Nat
  BY <1>1, <1>2, BodyLines
<1>5. PICK q, r, d, lines : q = reader' /\ r = reader /\ d = body.dialect /\ lines = Reading
  OBVIOUS
<1>6. /\ q = End(r) /\ body' = body /\ items' = items /\ at' = at /\ ~dropped' /\ response' = "gone"
      /\ Reading' = Reading
  BY <1>2, <1>5 DEF Closed, Reading
<1>7. w \in Nat /\ p \in 0..3 /\ at = 4 * w + p
  BY <1>3 DEF Reaches
<1>8. at \div 4 = w /\ at % 4 = p
  BY <1>7, SplitAt
<1>9. Whole' = w /\ at' % Newline = p /\ Arrived' = (IF p > 1 THEN w + 1 ELSE w)
  BY <1>6, <1>8 DEF Whole, Arrived, Newline
<1>10. \A x \in 1..w : Meaning(x)' = Reading[x]
  BY <1>6, <1>7, <1>9 DEF Meaning
<1>11. \A x \in 1..w : Meaning(x)'.kind \notin EndKinds
  BY <1>3, <1>10 DEF Listening, EndersTo
<1>12. /\ p < 2 => Closing(q, items, Reading, w, Conclusion(Reading, w))
       /\ p > 1 /\ TailLine(w, p).kind \in EndKinds =>
            Closing(q, items, Reading, w, EndOf(body.dialect, TailLine(w, p), Reading, w))
       /\ p > 1 /\ TailLine(w, p).kind \notin EndKinds =>
            Closing(q, items, Reading, w + 1, Conclusion(Reading, w + 1))
  <2>1. Told(body.dialect, Reading, r, items, w) /\ r.held = Partial(w, p) /\ Live(r, items, n)
    BY <1>2, <1>3, <1>5 DEF Listening
  <2> QED
    BY <1>1, <1>2, <1>3, <1>4, <1>6, <1>7, <2>1, EndSays
<1>13. CASE p < 2
  <2>1. Arrived' = w
    BY <1>7, <1>9, <1>13
  <2>2. Enders' = {}
    BY <1>11, <2>1 DEF Enders, EndKinds
  <2>3. Content' = w /\ Final' = <<Conclusion(Reading, w)>>
    BY <1>6, <2>1, <2>2 DEF Content, Final
  <2> QED
    BY <1>5, <1>6, <1>12, <1>13, <2>3, Completed
<1>14. CASE p > 1
  <2>1. Arrived' = w + 1 /\ \A x \in 1..(w + 1) : x \in 1..w \/ x = w + 1
    BY <1>7, <1>9, <1>14
  <2>2. Meaning(w + 1)' = TailLine(w, p)
    <3>1. w + 1 > w /\ (p < 3 <=> p = 2)
      BY <1>7, <1>14
    <3> QED
      BY <1>6, <1>9, <3>1 DEF Meaning, TailLine
  <2>3. PICK x : x = w + 1
    OBVIOUS
  <2>4. x \in Nat /\ x - 1 = w /\ x \in 1..(w + 1)
    BY <1>7, <2>3
  <2>5. CASE TailLine(w, p).kind \in EndKinds
    <3>1. Enders' = {x}
      BY <1>11, <2>1, <2>2, <2>3, <2>4, <2>5 DEF Enders, EndKinds
    <3>2. Ender' = x
      <4>1. PICK T : T = {x}
        OBVIOUS
      <4>2. T \subseteq Nat /\ x \in T /\ \A j \in T : x <= j
        BY <2>4, <4>1
      <4>3. (CHOOSE k \in T : \A j \in T : k <= j) = x
        BY <4>2, LeastIs
      <4> QED
        BY <3>1, <4>1, <4>3 DEF Ender
    <3>3. Content' = w
      BY <2>4, <3>1, <3>2 DEF Content
    <3>4. Final' = <<EndOf(body.dialect, TailLine(w, p), Reading, w)>>
      <4>1. Meaning(x)' = TailLine(w, p) /\ Enders' # {}
        BY <2>2, <2>3, <3>1
      <4> QED
        BY <1>6, <3>2, <3>3, <4>1 DEF Final
    <3> QED
      BY <1>5, <1>6, <1>12, <1>14, <2>5, <3>3, <3>4, Completed
  <2>6. CASE TailLine(w, p).kind \notin EndKinds
    <3>1. Enders' = {}
      BY <1>11, <2>1, <2>2, <2>6 DEF Enders, EndKinds
    <3>2. Content' = w + 1 /\ Final' = <<Conclusion(Reading, w + 1)>>
      BY <1>6, <2>1, <3>1 DEF Content, Final
    <3> QED
      BY <1>5, <1>6, <1>12, <1>14, <2>6, <3>2, Completed
  <2> QED
    BY <2>5, <2>6
<1> QED
  BY <1>7, <1>13, <1>14

LEMMA InitReads == Init => ReadInv
<1> SUFFICES ASSUME Init PROVE ReadInv
  OBVIOUS
<1>1. StreamInv
  BY InitInv
<1>2. ReadSoFar
  BY DEF Init, ReadSoFar
<1> QED
  BY <1>1, <1>2 DEF ReadInv

LEMMA NextReads == ReadInv /\ [Next]_vars => ReadInv'
<1> SUFFICES ASSUME ReadInv, [Next]_vars PROVE ReadInv'
  OBVIOUS
<1>1. StreamInv /\ StreamInv'
  BY NextInv DEF ReadInv
<1> SUFFICES ASSUME DoneIsLast' PROVE ReadSoFar'
  BY <1>1 DEF ReadInv
<1>2. body' = body
  BY DEF Next, vars, SendFails, StatusFailure, Refused, Opened, HandOver, StreamOver, ReadChunk, Closed, Dropped, Done
<1>3. DoneIsLast /\ Reading' = Reading
  BY <1>2 DEF DoneIsLast, Reading
<1>4. ReadSoFar
  BY <1>3 DEF ReadInv
<1>5. ASSUME body' = body, response' = response, at' = at, dropped' = dropped, reader' = reader, items' = items,
             over => over'
      PROVE  ReadSoFar'
  <2>1. Content' = Content /\ Final' = Final
    BY <1>5, ReceivedSame
  <2>2. Complete' <=> Complete
    BY <1>3, <1>5, <2>1 DEF Complete
  <2>3. \A w, p : (Reaches(w, p)' <=> Reaches(w, p)) /\ (Listening(w, p)' <=> Listening(w, p))
    BY <1>3, <1>5 DEF Reaches, Listening, EndersTo
  <2> QED
    BY <1>4, <1>5, <2>2, <2>3 DEF ReadSoFar
<1>6. ASSUME NEW failure, Refused(failure) PROVE ReadSoFar'
  BY <1>1, <1>6, NewReaderFacts DEF StreamInv, NothingBefore, Refused, ReadSoFar
<1>7. CASE StreamOver
  BY <1>5, <1>7 DEF StreamOver
<1>8. CASE UNCHANGED vars
  BY <1>5, <1>8 DEF vars
<1>9. CASE Next
  <2>1. SendFails \/ StatusFailure => \E failure : Refused(failure)
    BY DEF SendFails, StatusFailure
  <2>2. Done => UNCHANGED vars
    BY DEF Done
  <2>3. (Opened \/ HandOver \/ ReadChunk \/ Closed \/ Dropped) => ReadSoFar'
    BY <1>1, <1>3, OpenedReads, HandOverReads, ChunkReads, ClosedReads, DroppedReads
  <2> QED
    BY <1>6, <1>7, <1>8, <1>9, <2>1, <2>2, <2>3 DEF Next
<1> QED
  BY <1>8, <1>9

(* However the bytes are cut into chunks, and whether the body ends by its *)
(* own last line, by a close or by an error, what the consumer is handed   *)
(* and what is still queued are what the bytes received mean, for every    *)
(* body: any number of lines, choices and deltas, in any order.            *)
THEOREM ChunkingIrrelevantCorrect == Spec => []ChunkingIrrelevant
<1>1. ReadInv => ChunkingIrrelevant
  BY ReadSaysAll
<1> QED
  BY <1>1, InitReads, NextReads, PTL DEF Spec
=============================================================================
