-------------------------- MODULE EvalRunnerProofs --------------------------
(***************************************************************************)
(* Proofs about EvalRunner: the report accounts for every repeat, and a    *)
(* suite that is met was measured, for every suite and every interleaving. *)
(***************************************************************************)
EXTENDS EvalRunner, SelectionProofs, FiniteSetTheorems

-----------------------------------------------------------------------------
(***************************************************************************)
(* Counting.                                                               *)
(***************************************************************************)
LEMMA ImageCard ==
  ASSUME NEW S, IsFiniteSet(S), NEW f, \A x, y \in S : f[x] = f[y] => x = y
  PROVE  /\ IsFiniteSet({f[x] : x \in S})
         /\ Cardinality({f[x] : x \in S}) = Cardinality(S)
<1> DEFINE T == {f[x] : x \in S}
           g == [x \in S |-> f[x]]
<1>1. g \in [S -> T] /\ \A y \in T : \E x \in S : g[x] = y
  OBVIOUS
<1>2. \A x, y \in S : g[x] = g[y] => x = y
  OBVIOUS
<1>3. g \in Bijection(S, T)
  BY <1>1, <1>2 DEF Bijection, Injection, Surjection, IsInjective
<1>4. ExistsBijection(S, T)
  BY <1>3 DEF ExistsBijection
<1> QED
  BY <1>4, FS_Bijection

(* A set of numbers up to n, listed. *)
LEMMA AscendingCard ==
  ASSUME NEW n \in Nat, NEW S, S \subseteq 1..n
  PROVE  IsFiniteSet(S) /\ Len(Ascending(S, n)) = Cardinality(S)
<1> DEFINE s == Ascending(S, n)
<1>1. /\ Len(s) \in Nat /\ DOMAIN s = 1..Len(s)
      /\ \A k \in DOMAIN s : s[k] \in S
      /\ \A k, l \in DOMAIN s : k < l => s[k] < s[l]
      /\ \A p \in S : \E k \in DOMAIN s : s[k] = p
  <2>1. S \cap (1..n) = S
    OBVIOUS
  <2>2. /\ Len(s) \in Nat /\ DOMAIN s = 1..Len(s)
        /\ \A k \in DOMAIN s : s[k] \in S \cap (1..n)
        /\ \A k, l \in DOMAIN s : k < l => s[k] < s[l]
        /\ \A p \in S \cap (1..n) : \E k \in DOMAIN s : s[k] = p
    BY AscendingFacts
  <2> HIDE DEF s
  <2> QED
    BY <2>1, <2>2
<1> HIDE DEF s
<1>2. \A k, l \in 1..Len(s) : s[k] = s[l] => k = l
  <2>1. ASSUME NEW k \in 1..Len(s), NEW l \in 1..Len(s), k # l PROVE s[k] # s[l]
    <3>1. s[k] \in 1..n /\ s[l] \in 1..n
      BY <1>1
    <3>2. k < l \/ l < k
      BY <1>1, <2>1
    <3> QED
      BY <1>1, <3>1, <3>2
  <2> QED
    BY <2>1
<1>3. {s[k] : k \in 1..Len(s)} = S
  BY <1>1
<1>4. IsFiniteSet(1..Len(s)) /\ Cardinality(1..Len(s)) = Len(s)
  <2>1. 1 \in Int /\ Len(s) \in Int /\ Len(s) \in Nat
    BY <1>1
  <2>2. /\ IsFiniteSet(1..Len(s))
        /\ Cardinality(1..Len(s)) = IF 1 > Len(s) THEN 0 ELSE Len(s) - 1 + 1
    BY <2>1, FS_Interval
  <2> QED
    BY <2>1, <2>2
<1>5. IsFiniteSet(S) /\ Cardinality(S) = Len(s)
  BY <1>2, <1>3, <1>4, ImageCard
<1> QED
  BY <1>5 DEF s

(* n different numbers up to n are all of them. *)
LEMMA AllTaken ==
  ASSUME NEW n \in Nat, NEW f, \A k \in 1..n : f[k] \in 1..n,
         \A k, l \in 1..n : f[k] = f[l] => k = l
  PROVE  \A w \in 1..n : \E k \in 1..n : f[k] = w
<1>1. PICK D : D = 1..n
  OBVIOUS
<1>2. IsFiniteSet(D)
  BY <1>1, FS_Interval
<1>3. \A x, y \in D : f[x] = f[y] => x = y
  BY <1>1
<1>4. Cardinality({f[k] : k \in D}) = Cardinality(D)
  BY <1>2, <1>3, ImageCard
<1>5. {f[k] : k \in D} \in SUBSET D
  BY <1>1
<1>6. D = {f[k] : k \in D}
  BY <1>2, <1>4, <1>5, FS_Subset
<1> QED
  BY <1>1, <1>6

-----------------------------------------------------------------------------
(***************************************************************************)
(* The work list: as many repeats of a case as it asks for.                *)
(***************************************************************************)
Dealt(s, r, m) ==
  /\ s \in Seq(1..m)
  /\ \A c \in 1..m : Cardinality({w \in 1..Len(s) : s[w] = c}) = r[c]

LEMMA DealOne ==
  ASSUME NEW m \in Nat, NEW r, NEW s, Dealt(s, r, m), r[m + 1] \in Nat
  PROVE  Dealt(s \o [k \in 1..r[m + 1] |-> m + 1], r, m + 1)
<1> DEFINE q == r[m + 1]
           t == [k \in 1..q |-> m + 1]
           u == s \o t
           n == Len(s)
<1>1. /\ q \in Nat /\ n \in Nat /\ t \in Seq(1..(m + 1)) /\ Len(t) = q /\ s \in Seq(1..m)
      /\ s \in Seq(1..(m + 1)) /\ \A k \in 1..q : t[k] = m + 1
  BY DEF Dealt
<1>2. u \in Seq(1..(m + 1)) /\ Len(u) = n + q
  BY <1>1
<1>3. /\ \A w \in 1..n : u[w] = s[w] /\ s[w] \in 1..m
      /\ \A w \in (n + 1)..(n + q) : u[w] = m + 1
  BY <1>1, SMTT(30)
<1> HIDE DEF q, t, u, n
<1>4. \A w \in 1..(n + q) : w \in 1..n \/ w \in (n + 1)..(n + q)
  BY <1>1
<1>5. \A w : w \in 1..n \/ w \in (n + 1)..(n + q) => w \in 1..(n + q)
  BY <1>1
<1>6. ASSUME NEW c \in 1..m PROVE Cardinality({w \in 1..Len(u) : u[w] = c}) = r[c]
  <2>1. c # m + 1
    OBVIOUS
  <2>2. {w \in 1..Len(u) : u[w] = c} = {w \in 1..n : s[w] = c}
    BY <1>2, <1>3, <1>4, <1>5, <2>1
  <2> QED
    BY <2>2 DEF Dealt, n
<1>7. Cardinality({w \in 1..Len(u) : u[w] = m + 1}) = q
  <2>1. m + 1 \notin 1..m
    OBVIOUS
  <2>2. {w \in 1..Len(u) : u[w] = m + 1} = (n + 1)..(n + q)
    BY <1>2, <1>3, <1>4, <1>5, <2>1
  <2>3. Cardinality((n + 1)..(n + q)) = IF n + 1 > n + q THEN 0 ELSE (n + q) - (n + 1) + 1
    <3>1. n + 1 \in Int /\ n + q \in Int
      BY <1>1
    <3> QED
      BY <3>1, FS_Interval
  <2>4. (IF n + 1 > n + q THEN 0 ELSE (n + q) - (n + 1) + 1) = q
    BY <1>1
  <2> QED
    BY <2>2, <2>3, <2>4
<1>8. \A c \in 1..(m + 1) : c \in 1..m \/ c = m + 1
  OBVIOUS
<1> QED
  BY <1>2, <1>6, <1>7, <1>8 DEF Dealt, q, t, u

Rows(r, j) == [c \in 1..j |-> [k \in 1..r[c] |-> c]]

LEMMA RowsNext ==
  ASSUME NEW j \in Nat, NEW r, \A c \in 1..(j + 1) : r[c] \in Nat
  PROVE  /\ Rows(r, j) \in Seq(Seq(Nat)) /\ Rows(r, j + 1)[j + 1] \in Seq(Nat)
         /\ Rows(r, j + 1)[j + 1] = [k \in 1..r[j + 1] |-> j + 1]
         /\ Rows(r, j + 1) = Append(Rows(r, j), Rows(r, j + 1)[j + 1])
<1>1. \A c \in 1..(j + 1) : [k \in 1..r[c] |-> c] \in Seq(Nat)
  <2>1. \A c \in 1..(j + 1) : r[c] \in Nat /\ c \in Nat
    OBVIOUS
  <2> QED
    BY <2>1
<1>2. PICK s, t : s = Rows(r, j) /\ t = Rows(r, j + 1)
  OBVIOUS
<1>3. \A c \in 1..j : c \in 1..(j + 1) /\ c # j + 1
  OBVIOUS
<1>4. /\ s \in Seq(Seq(Nat)) /\ Len(s) = j
      /\ \A c \in 1..j : s[c] = [k \in 1..r[c] |-> c]
  BY <1>1, <1>2, <1>3 DEF Rows
<1>5. /\ t \in Seq(Seq(Nat)) /\ Len(t) = j + 1
      /\ \A c \in 1..(j + 1) : t[c] = [k \in 1..r[c] |-> c]
  BY <1>1, <1>2 DEF Rows
<1>6. j + 1 \in 1..(j + 1)
  OBVIOUS
<1>7. t[j + 1] \in Seq(Nat)
  BY <1>1, <1>5, <1>6
<1>8. PICK u : u = Append(s, t[j + 1])
  OBVIOUS
<1>9. /\ u \in Seq(Seq(Nat)) /\ Len(u) = j + 1 /\ u[j + 1] = t[j + 1]
      /\ \A c \in 1..j : u[c] = s[c]
  BY <1>4, <1>7, <1>8, AppendProperties
<1>10. \A c \in 1..(j + 1) : c \in 1..j \/ c = j + 1
  OBVIOUS
<1>11. \A c \in 1..(j + 1) : t[c] = u[c]
  BY <1>3, <1>4, <1>5, <1>9, <1>10
<1>12. t = u
  BY <1>5, <1>9, <1>11, SeqEqual
<1> QED
  BY <1>2, <1>4, <1>5, <1>6, <1>7, <1>8, <1>12

LEMMA DealtOut ==
  ASSUME NEW m \in Nat, NEW r, \A c \in 1..m : r[c] \in Nat
  PROVE  Dealt(FlattenSeq(Rows(r, m)), r, m)
<1> DEFINE Holds == {j \in 0..m : Dealt(FlattenSeq(Rows(r, j)), r, j)}
<1>1. 0 \in Holds
  <2>1. Rows(r, 0) = <<>>
    BY DEF Rows
  <2>2. FlattenSeq(Rows(r, 0)) = <<>>
    BY <2>1, FlattenEmpty
  <2>3. Dealt(<<>>, r, 0)
    BY DEF Dealt
  <2> QED
    BY <2>2, <2>3
<1>2. ASSUME NEW j \in 0..m, j \in Holds, j < m PROVE j + 1 \in Holds
  <2>1. j \in Nat /\ j + 1 \in 0..m /\ r[j + 1] \in Nat /\ \A c \in 1..(j + 1) : r[c] \in Nat
    BY <1>2
  <2>2. PICK s, t, row : s = Rows(r, j) /\ t = Rows(r, j + 1) /\ row = Rows(r, j + 1)[j + 1]
    OBVIOUS
  <2>3. /\ s \in Seq(Seq(Nat)) /\ row \in Seq(Nat) /\ t = Append(s, row)
        /\ row = [k \in 1..r[j + 1] |-> j + 1]
    BY <2>1, <2>2, RowsNext
  <2>4. FlattenSeq(t) = FlattenSeq(s) \o row
    BY <2>3, FlattenAppend
  <2>5. Dealt(FlattenSeq(s), r, j)
    BY <1>2, <2>2
  <2>6. PICK work : work = FlattenSeq(s)
    OBVIOUS
  <2>7. Dealt(work \o [k \in 1..r[j + 1] |-> j + 1], r, j + 1)
    BY <2>1, <2>5, <2>6, DealOne
  <2>8. Dealt(FlattenSeq(Rows(r, j + 1)), r, j + 1)
    BY <2>2, <2>3, <2>4, <2>6, <2>7
  <2> QED
    BY <2>1, <2>8
<1>3. m \in 0..m /\ \A k \in 0..m : k \in Holds /\ k < m => k + 1 \in Holds
  BY <1>2
<1> HIDE DEF Holds
<1>4. m \in Holds
  BY <1>1, <1>3, InductionUpTo
<1> QED
  BY <1>4 DEF Holds

(* The work of a suite. *)
LEMMA WorkDealt ==
  ASSUME suite \in Suites
  PROVE  /\ Len(suite.cases) \in Nat /\ DOMAIN suite.cases = 1..Len(suite.cases)
         /\ \A c \in DOMAIN suite.cases :
              /\ suite.cases[c] \in CaseMeta
              /\ EffectiveRepeats(suite.cases[c]) \in Nat
              /\ Cardinality({w \in 1..Len(Work) : Work[w] = c}) = EffectiveRepeats(suite.cases[c])
         /\ Work \in Seq(DOMAIN suite.cases)
<1>1. PICK cases, m : cases = suite.cases /\ m = Len(cases)
  OBVIOUS
<1>2. cases \in Seq(CaseMeta) /\ suite.repeats \in Nat
  BY <1>1, EvalAssumption
<1>3. m \in Nat /\ DOMAIN cases = 1..m /\ \A c \in 1..m : cases[c] \in CaseMeta
  BY <1>1, <1>2
<1>4. \A case \in CaseMeta : EffectiveRepeats(case) \in Nat
  <2>1. ASSUME NEW case \in CaseMeta PROVE EffectiveRepeats(case) \in Nat
    <3>1. case.repeats \in Option(Nat)
      BY DEF CaseMeta
    <3>2. case.repeats # <<>> => case.repeats[1] \in Nat
      BY <3>1 DEF Option
    <3> QED
      BY <1>2, <3>2 DEF EffectiveRepeats, OrElse
  <2> QED
    BY <2>1
<1>5. PICK r : r = [c \in 1..m |-> EffectiveRepeats(cases[c])]
  OBVIOUS
<1>6. \A c \in 1..m : r[c] = EffectiveRepeats(cases[c]) /\ r[c] \in Nat
  BY <1>3, <1>4, <1>5
<1>7. Work = FlattenSeq(Rows(r, m))
  BY <1>1, <1>3, <1>6 DEF Work, Rows
<1>8. Dealt(Work, r, m)
  BY <1>3, <1>6, <1>7, DealtOut
<1> QED
  BY <1>1, <1>3, <1>4, <1>6, <1>8 DEF Dealt

-----------------------------------------------------------------------------
(***************************************************************************)
(* The inductive invariant: what is in flight has been started and fits    *)
(* the buffer, every record belongs to a repeat of its own that has ended, *)
(* and a suite returns when it has a record for every repeat.              *)
(***************************************************************************)
Stages == {"waiting", "set up", "run", "check", "call", "ended"}

Hows == {"set up failed", "provider failed", "invalid conversation", "check failed", "timed out",
         "call failed", "unparseable", "Pass", "Wrong"}

Categories == {"Pass", "Wrong", "Unparseable", "Unavailable", "Failed"}
Details == {"summary", "none", "transcript", "raw reply"}
Verdicts == [category : Categories, detail : Details]

ReportsNow ==
  [c \in DOMAIN suite.cases |->
    [aggregate |-> Aggregate(suite.cases[c], PerCase(c)), repeats |-> PerCase(c)]]

Flight ==
  /\ suite \in Suites
  /\ started \in Nat
  /\ stage \in [1..Len(Work) -> Stages]
  /\ \A w \in 1..Len(Work) : w > started => stage[w] = "waiting"
  /\ Cardinality(InFlight) <= Concurrency

Collected ==
  /\ came \in Seq([work : Nat, how : Hows])
  /\ results \in Seq([case : Nat, record : Verdicts])
  /\ Len(results) = Len(came)
  /\ \A k \in 1..Len(came) :
       /\ came[k].work \in 1..Len(Work)
       /\ stage[came[k].work] = "ended"
       /\ results[k] = [case |-> Work[came[k].work], record |-> Worth(came[k].how)]
  /\ \A k, l \in 1..Len(came) : came[k].work = came[l].work => k = l

Reported == returned => Len(results) = Len(Work) /\ reports = ReportsNow

EvalInv == Flight /\ Collected /\ Reported

LEMMA WorthFacts ==
  ASSUME NEW how \in Hows
  PROVE  /\ Worth(how) \in Verdicts /\ Worth(how).category \in Categories
         /\ Worth(how).category = "Pass" => how = "Pass"
<1>1. \E category \in Categories, detail \in Details :
        Worth(how) = Record(category, detail) /\ (category = "Pass" => how = "Pass")
  <2>1. CASE how = "Pass"
    BY <2>1 DEF Worth, Categories, Details
  <2>2. CASE how = "Wrong"
    BY <2>2 DEF Worth, Categories, Details
  <2>3. CASE how \in {"set up failed", "invalid conversation", "check failed"}
    BY <2>3 DEF Worth, Categories, Details
  <2>4. CASE how \in {"provider failed", "timed out", "call failed"}
    BY <2>4 DEF Worth, Categories, Details
  <2>5. CASE how = "unparseable"
    BY <2>5 DEF Worth, Categories, Details
  <2> QED
    BY <2>1, <2>2, <2>3, <2>4, <2>5 DEF Hows
<1>2. PICK category \in Categories, detail \in Details :
        Worth(how) = Record(category, detail) /\ (category = "Pass" => how = "Pass")
  BY <1>1
<1>3. Record(category, detail) \in Verdicts /\ Record(category, detail).category = category
  BY DEF Record, Verdicts
<1>4. Worth(how) = Record(category, detail) /\ (category = "Pass" => how = "Pass")
  BY <1>2
<1> QED
  BY <1>3, <1>4

LEMMA WorkIs ==
  ASSUME suite \in Suites
  PROVE  /\ Len(Work) \in Nat /\ DOMAIN Work = 1..Len(Work)
         /\ \A w \in 1..Len(Work) : Work[w] \in DOMAIN suite.cases
<1>1. Work \in Seq(DOMAIN suite.cases)
  BY WorkDealt
<1> QED
  BY <1>1

LEMMA FlightFinite ==
  ASSUME Flight
  PROVE  /\ IsFiniteSet(InFlight) /\ Cardinality(InFlight) \in Nat /\ InFlight \subseteq 1..Len(Work)
         /\ Concurrency \in Nat /\ Len(Work) \in Nat
<1>1. Len(Work) \in Nat
  BY WorkIs DEF Flight
<1>2. InFlight \subseteq 1..Len(Work)
  BY DEF InFlight, Flight
<1>3. PICK n : n = Len(Work)
  OBVIOUS
<1>4. IsFiniteSet(1..n)
  BY <1>1, <1>3, FS_Interval
<1>5. IsFiniteSet(InFlight)
  BY <1>2, <1>3, <1>4, FS_Subset
<1>6. Cardinality(InFlight) \in Nat
  BY <1>5, FS_CardinalityType
<1>7. Concurrency \in Nat
  BY EvalAssumption DEF Concurrency, Flight
<1> QED
  BY <1>1, <1>2, <1>5, <1>6, <1>7

(* What depends on the suite alone stays. *)
LEMMA SuiteFrame ==
  ASSUME suite' = suite
  PROVE  /\ Work' = Work /\ Concurrency' = Concurrency
         /\ \A how : Worth(how)' = Worth(how)
<1>1. Work' = Work
  BY DEF Work, EffectiveRepeats
<1>2. Concurrency' = Concurrency
  BY DEF Concurrency
<1>3. \A how : Worth(how)' = Worth(how)
  BY DEF Worth
<1> QED
  BY <1>1, <1>2, <1>3

LEMMA CameFacts ==
  ASSUME EvalInv
  PROVE  /\ Len(came) \in Nat /\ DOMAIN came = 1..Len(came)
         /\ Len(results) = Len(came) /\ DOMAIN results = 1..Len(came)
         /\ \A k \in 1..Len(came) :
              /\ came[k].work \in 1..Len(Work) /\ came[k].how \in Hows
              /\ stage[came[k].work] = "ended"
              /\ results[k] = [case |-> Work[came[k].work], record |-> Worth(came[k].how)]
         /\ \A k, l \in 1..Len(came) : came[k].work = came[l].work => k = l
<1>1. Len(came) \in Nat /\ DOMAIN came = 1..Len(came) /\ \A k \in 1..Len(came) : came[k].how \in Hows
  <2>1. came \in Seq([work : Nat, how : Hows])
    BY DEF EvalInv, Collected
  <2>2. \A k \in 1..Len(came) : came[k] \in [work : Nat, how : Hows]
    <3>1. PICK S : S = [work : Nat, how : Hows]
      OBVIOUS
    <3>2. came \in Seq(S)
      BY <2>1, <3>1
    <3>3. \A k \in 1..Len(came) : came[k] \in S
      BY <3>2
    <3> QED
      BY <3>1, <3>3
  <2> QED
    BY <2>1, <2>2
<1>2. DOMAIN results = 1..Len(results) /\ Len(results) = Len(came)
  <2>1. results \in Seq([case : Nat, record : Verdicts]) /\ Len(results) = Len(came)
    BY DEF EvalInv, Collected
  <2> QED
    BY <2>1
<1> QED
  BY <1>1, <1>2 DEF EvalInv, Collected

(* With a record for every repeat, every repeat has ended. *)
LEMMA AllEnded ==
  ASSUME EvalInv, Len(results) = Len(Work)
  PROVE  \A w \in 1..Len(Work) : stage[w] = "ended" /\ \E k \in 1..Len(came) : came[k].work = w
<1>1. PICK n, f : n = Len(came) /\ f = [k \in 1..n |-> came[k].work]
  OBVIOUS
<1>2. n \in Nat /\ n = Len(Work)
  BY <1>1, CameFacts
<1>3. \A k \in 1..n : f[k] = came[k].work
  BY <1>1
<1>4. \A k \in 1..n : f[k] \in 1..n
  BY <1>1, <1>2, <1>3, CameFacts
<1>5. \A k, l \in 1..n : f[k] = f[l] => k = l
  BY <1>1, <1>3, CameFacts
<1>6. \A w \in 1..n : \E k \in 1..n : f[k] = w
  <2>1. n \in Nat
    BY <1>2
  <2> QED
    BY <2>1, <1>4, <1>5, AllTaken, ZenonT(40)
<1>7. ASSUME NEW w \in 1..n PROVE stage[w] = "ended" /\ \E k \in 1..n : came[k].work = w
  <2>1. PICK k \in 1..n : f[k] = w
    BY <1>6
  <2>2. came[k].work = w /\ stage[came[k].work] = "ended"
    BY <1>1, <1>3, <2>1, CameFacts
  <2> QED
    BY <2>2
<1> QED
  BY <1>1, <1>2, <1>7

-----------------------------------------------------------------------------
(* The steps. *)
LEMMA InvInit ==
  ASSUME Init
  PROVE  EvalInv
<1>1. Len(Work) \in Nat /\ DOMAIN Work = 1..Len(Work)
  BY WorkIs DEF Init
<1>2. stage = [w \in 1..Len(Work) |-> "waiting"] /\ InFlight = {}
  BY <1>1 DEF Init, InFlight
<1>3. Flight
  <2>1. Cardinality(InFlight) = 0
    BY <1>2, FS_EmptySet
  <2>2. 0 <= Concurrency
    BY EvalAssumption DEF Init, Concurrency
  <2> QED
    BY <1>1, <1>2, <2>1, <2>2 DEF Init, Flight, Stages
<1>4. Collected
  BY DEF Init, Collected
<1> QED
  BY <1>3, <1>4 DEF EvalInv, Reported, Init

LEMMA InvStart ==
  ASSUME EvalInv, Start
  PROVE  EvalInv'
<1>1. /\ suite' = suite /\ results' = results /\ came' = came /\ reports' = reports
      /\ returned' = returned /\ started' = started + 1 /\ started \in Nat
  BY DEF Start, EvalInv, Flight
<1>2. /\ Work' = Work /\ Concurrency' = Concurrency /\ \A how : Worth(how)' = Worth(how)
  BY <1>1, SuiteFrame
<1>3. PICK x, s : x = started + 1 /\ s \in Stages \ {"waiting", "ended"}
                    /\ stage' = [stage EXCEPT ![x] = s]
  <2>1. PICK s : s = IF suite.harness = "agent" THEN "set up" ELSE "call"
    OBVIOUS
  <2>2. s \in Stages \ {"waiting", "ended"}
    BY <2>1 DEF Stages
  <2>3. stage' = [stage EXCEPT ![started + 1] = s]
    BY <2>1 DEF Start
  <2> QED
    BY <2>2, <2>3
<1>4. x \in 1..Len(Work) /\ stage[x] = "waiting" /\ Len(Work) \in Nat
  <2>1. Len(Work) \in Nat /\ started < Len(Work)
    BY FlightFinite DEF Start, EvalInv
  <2>2. x \in 1..Len(Work) /\ x > started
    BY <1>1, <1>3, <2>1
  <2> QED
    BY <2>1, <2>2 DEF EvalInv, Flight
<1>5. InFlight' = InFlight \cup {x}
  BY <1>2, <1>3, <1>4 DEF InFlight, EvalInv, Flight
<1>6. Flight'
  <2>1. Cardinality(InFlight') <= Cardinality(InFlight) + 1
    <3>1. PICK F : F = InFlight
      OBVIOUS
    <3>2. IsFiniteSet(F) /\ Cardinality(F) \in Nat
      BY <3>1, FlightFinite DEF EvalInv
    <3>3. Cardinality(F \cup {x}) = IF x \in F THEN Cardinality(F) ELSE Cardinality(F) + 1
      BY <3>2, FS_AddElement
    <3> QED
      BY <1>5, <3>1, <3>2, <3>3
  <2>2. Cardinality(InFlight') \in Nat
    <3>1. IsFiniteSet(InFlight \cup {x})
      BY FlightFinite, FS_AddElement DEF EvalInv
    <3> QED
      BY <1>5, <3>1, FS_CardinalityType
  <2>3. Cardinality(InFlight') <= Concurrency'
    <3>1. Cardinality(InFlight) < Concurrency /\ Concurrency' = Concurrency
      BY <1>2 DEF Start
    <3>2. Cardinality(InFlight) \in Nat /\ Concurrency \in Nat
      BY FlightFinite DEF EvalInv
    <3>3. PICK i, j, n : i = Cardinality(InFlight) /\ j = Cardinality(InFlight') /\ n = Concurrency
      OBVIOUS
    <3> QED
      BY <2>1, <2>2, <3>1, <3>2, <3>3
  <2>4. \A w \in 1..Len(Work) : w > started + 1 => stage'[w] = "waiting"
    <3>1. \A w \in 1..Len(Work) : w > started + 1 => w > started /\ w # x
      BY <1>1, <1>3, <1>4
    <3> QED
      BY <1>3, <3>1 DEF EvalInv, Flight
  <2>5. stage' \in [1..Len(Work) -> Stages]
    BY <1>3, <1>4 DEF EvalInv, Flight
  <2> QED
    BY <1>1, <1>2, <2>3, <2>4, <2>5 DEF EvalInv, Flight
<1>7. Collected'
  <2>1. \A k \in 1..Len(came) : stage'[came[k].work] = "ended"
    <3>1. \A k \in 1..Len(came) : came[k].work \in 1..Len(Work) /\ came[k].work # x
      BY <1>4, CameFacts
    <3> QED
      BY <1>3, <3>1, CameFacts DEF EvalInv, Flight
  <2> QED
    BY <1>1, <1>2, <2>1 DEF EvalInv, Collected
<1>8. ~returned
  BY <1>4, AllEnded DEF EvalInv, Reported
<1> QED
  BY <1>1, <1>6, <1>7, <1>8 DEF EvalInv, Reported

(* The buffer is no fuller for a repeat that goes on, or ends. *)
LEMMA FlightKept ==
  ASSUME EvalInv, NEW w \in InFlight, NEW s \in Stages \ {"waiting"},
         stage' = [stage EXCEPT ![w] = s], UNCHANGED <<suite, started>>
  PROVE  Flight'
<1>1. Work' = Work /\ Concurrency' = Concurrency
  BY SuiteFrame
<1>2. w \in 1..Len(Work) /\ stage[w] # "waiting" /\ Len(Work) \in Nat
  BY FlightFinite DEF EvalInv, InFlight
<1>3. stage' \in [1..Len(Work) -> Stages] /\ \A v \in 1..Len(Work) : stage'[v] = IF v = w THEN s ELSE stage[v]
  BY <1>2 DEF EvalInv, Flight
<1>4. InFlight' \subseteq InFlight
  <2>1. InFlight' = {v \in 1..Len(Work) : stage'[v] \notin {"waiting", "ended"}}
    BY <1>1, <1>3 DEF InFlight
  <2>2. InFlight = {v \in 1..Len(Work) : stage[v] \notin {"waiting", "ended"}}
    BY DEF InFlight, EvalInv, Flight
  <2> QED
    BY <1>3, <2>1, <2>2
<1>5. Cardinality(InFlight') <= Concurrency'
  <2>1. PICK F, G : F = InFlight /\ G = InFlight'
    OBVIOUS
  <2>2. IsFiniteSet(F) /\ Cardinality(F) \in Nat /\ Concurrency \in Nat /\ Cardinality(F) <= Concurrency
    BY <2>1, FlightFinite DEF EvalInv, Flight
  <2>3. G \in SUBSET F
    BY <1>4, <2>1
  <2>4. IsFiniteSet(G) /\ Cardinality(G) <= Cardinality(F)
    BY <2>2, <2>3, FS_Subset
  <2>5. Cardinality(G) \in Nat
    BY <2>4, FS_CardinalityType
  <2> QED
    BY <1>1, <2>1, <2>2, <2>4, <2>5
<1>6. \A v \in 1..Len(Work) : v > started => stage'[v] = "waiting"
  BY <1>2, <1>3 DEF EvalInv, Flight
<1> QED
  BY <1>1, <1>3, <1>5, <1>6 DEF EvalInv, Flight

LEMMA NotReturned ==
  ASSUME EvalInv, NEW w \in InFlight
  PROVE  ~returned
<1>1. w \in 1..Len(Work) /\ stage[w] # "ended"
  BY FlightFinite DEF EvalInv, InFlight
<1> QED
  BY <1>1, AllEnded DEF EvalInv, Reported

LEMMA InvGoesOn ==
  ASSUME EvalInv, NEW w \in InFlight, NEW next \in {"run", "check"}, GoesOn(w, next)
  PROVE  EvalInv'
<1>1. /\ suite' = suite /\ results' = results /\ came' = came /\ reports' = reports
      /\ returned' = returned /\ started' = started /\ stage' = [stage EXCEPT ![w] = next]
  BY DEF GoesOn
<1>2. Work' = Work /\ \A how : Worth(how)' = Worth(how)
  BY <1>1, SuiteFrame
<1>3. next \in Stages \ {"waiting"}
  BY DEF Stages
<1>4. Flight'
  BY <1>1, <1>3, FlightKept
<1>5. \A k \in 1..Len(came) : stage'[came[k].work] = "ended"
  <2>1. stage[w] # "ended" /\ w \in 1..Len(Work)
    BY FlightFinite DEF EvalInv, InFlight
  <2>2. \A k \in 1..Len(came) : came[k].work \in 1..Len(Work) /\ came[k].work # w
    BY <2>1, CameFacts
  <2> QED
    BY <1>1, <2>2, CameFacts DEF EvalInv, Flight
<1>6. Collected'
  BY <1>1, <1>2, <1>5 DEF EvalInv, Collected
<1>7. ~returned
  BY NotReturned
<1> QED
  BY <1>1, <1>4, <1>6, <1>7 DEF EvalInv, Reported

LEMMA InvEnds ==
  ASSUME EvalInv, NEW w \in InFlight, NEW how \in Hows, Ends(w, how, Worth(how))
  PROVE  EvalInv'
<1>1. /\ suite' = suite /\ reports' = reports /\ returned' = returned /\ started' = started
      /\ stage' = [stage EXCEPT ![w] = "ended"]
  BY DEF Ends
<1>2. Work' = Work /\ \A h : Worth(h)' = Worth(h)
  BY <1>1, SuiteFrame
<1>3. w \in 1..Len(Work) /\ stage[w] # "ended" /\ w \in Nat /\ Work[w] \in Nat
  <2>1. w \in 1..Len(Work) /\ stage[w] # "ended" /\ Len(Work) \in Nat
    BY FlightFinite DEF EvalInv, InFlight
  <2>2. Work[w] \in DOMAIN suite.cases /\ DOMAIN suite.cases = 1..Len(suite.cases)
    BY <2>1, WorkIs, WorkDealt DEF EvalInv, Flight
  <2> QED
    BY <2>1, <2>2
<1>4. Flight'
  <2>1. PICK s : s = "ended"
    OBVIOUS
  <2>2. s \in Stages \ {"waiting"} /\ stage' = [stage EXCEPT ![w] = s]
    BY <1>1, <2>1 DEF Stages
  <2> QED
    BY <1>1, <2>2, FlightKept
<1>5. PICK n, a, r : n = Len(came) /\ a = [work |-> w, how |-> how]
                     /\ r = [case |-> Work[w], record |-> Worth(how)]
  OBVIOUS
<1>6. came' = Append(came, a) /\ results' = Append(results, r)
  BY <1>5 DEF Ends
<1>7. a \in [work : Nat, how : Hows] /\ a.work = w /\ a.how = how
  BY <1>3, <1>5
<1>8. r \in [case : Nat, record : Verdicts]
  <2>1. Worth(how) \in Verdicts
    BY WorthFacts
  <2> QED
    BY <1>3, <1>5, <2>1
<1>9. /\ came' \in Seq([work : Nat, how : Hows]) /\ n \in Nat /\ Len(came') = n + 1
      /\ came'[n + 1] = a /\ \A k \in 1..n : came'[k] = came[k]
  <2>1. PICK S : S = [work : Nat, how : Hows]
    OBVIOUS
  <2>2. came \in Seq(S) /\ a \in S
    BY <1>7, <2>1 DEF EvalInv, Collected
  <2> QED
    BY <1>5, <1>6, <2>1, <2>2, AppendProperties
<1>10. /\ results' \in Seq([case : Nat, record : Verdicts]) /\ Len(results') = n + 1
       /\ results'[n + 1] = r /\ \A k \in 1..n : results'[k] = results[k]
  <2>1. PICK S : S = [case : Nat, record : Verdicts]
    OBVIOUS
  <2>2. results \in Seq(S) /\ r \in S /\ Len(results) = n
    BY <1>5, <1>8, <2>1 DEF EvalInv, Collected
  <2> QED
    BY <1>6, <2>1, <2>2, AppendProperties
<1>11. \A k \in 1..(n + 1) : k \in 1..n \/ k = n + 1
  BY <1>9
<1>12. \A k \in 1..n : /\ came[k].work \in 1..Len(Work) /\ came[k].work # w
                       /\ stage'[came[k].work] = "ended"
  <2>1. \A k \in 1..n : came[k].work \in 1..Len(Work) /\ came[k].work # w /\ stage[came[k].work] = "ended"
    BY <1>3, <1>5, CameFacts
  <2> QED
    BY <1>1, <2>1 DEF EvalInv, Flight
<1>13. stage'[w] = "ended"
  BY <1>1, <1>3 DEF EvalInv, Flight
<1>14. \A k \in 1..(n + 1) :
         /\ came'[k].work \in 1..Len(Work) /\ stage'[came'[k].work] = "ended"
         /\ results'[k] = [case |-> Work[came'[k].work], record |-> Worth(came'[k].how)]
  <2>1. ASSUME NEW k \in 1..n
        PROVE  /\ came'[k].work \in 1..Len(Work) /\ stage'[came'[k].work] = "ended"
               /\ results'[k] = [case |-> Work[came'[k].work], record |-> Worth(came'[k].how)]
    BY <1>5, <1>9, <1>10, <1>12, CameFacts
  <2>2. /\ came'[n + 1].work \in 1..Len(Work) /\ stage'[came'[n + 1].work] = "ended"
        /\ results'[n + 1] = [case |-> Work[came'[n + 1].work], record |-> Worth(came'[n + 1].how)]
    BY <1>3, <1>5, <1>7, <1>9, <1>10, <1>13
  <2> QED
    BY <1>11, <2>1, <2>2
<1>15. \A k, l \in 1..(n + 1) : came'[k].work = came'[l].work => k = l
  <2>1. \A k \in 1..n : came'[k].work = came[k].work /\ came'[k].work # came'[n + 1].work
    BY <1>7, <1>9, <1>12
  <2>2. \A k, l \in 1..n : came[k].work = came[l].work => k = l
    BY <1>5, CameFacts
  <2> QED
    BY <1>11, <2>1, <2>2
<1>16. Collected'
  BY <1>2, <1>9, <1>10, <1>14, <1>15 DEF Collected
<1>17. ~returned
  BY NotReturned
<1> QED
  BY <1>1, <1>4, <1>16, <1>17 DEF EvalInv, Reported

LEMMA RepeatSteps ==
  ASSUME EvalInv, NEW w, Repeat(w)
  PROVE  /\ w \in InFlight
         /\ \/ \E how \in Hows : Ends(w, how, Worth(how))
            \/ \E next \in {"run", "check"} : GoesOn(w, next)
<1>1. w \in InFlight
  BY DEF Repeat
<1>2. CASE SetUp(w)
  <2>1. Worth("set up failed") = Record("Failed", "none") /\ "set up failed" \in Hows
    BY DEF Worth, Hows
  <2> QED
    BY <1>1, <1>2, <2>1 DEF SetUp
<1>3. CASE AgentRun(w)
  <2>1. /\ Worth("provider failed") = Record("Unavailable", "transcript") /\ "provider failed" \in Hows
        /\ Worth("invalid conversation") = Record("Failed", "none") /\ "invalid conversation" \in Hows
    BY DEF Worth, Hows
  <2> QED
    BY <1>1, <1>3, <2>1 DEF AgentRun
<1>4. \A category \in {"Pass", "Wrong"} : category \in Hows /\ Worth(category) = Scored(category)
  BY DEF Worth, Hows, Scored
<1>5. CASE Check(w)
  <2>1. Worth("check failed") = Record("Failed", "transcript") /\ "check failed" \in Hows
    BY DEF Worth, Hows
  <2> QED
    BY <1>1, <1>4, <1>5, <2>1 DEF Check
<1>6. CASE Call(w)
  <2>1. /\ Worth("timed out") = Record("Unavailable", "none") /\ "timed out" \in Hows
        /\ Worth("call failed") = Record("Unavailable", "none") /\ "call failed" \in Hows
        /\ Worth("unparseable") = Record("Unparseable", "raw reply") /\ "unparseable" \in Hows
    BY DEF Worth, Hows
  <2> QED
    BY <1>1, <1>4, <1>6, <2>1 DEF Call
<1> QED
  BY <1>1, <1>2, <1>3, <1>5, <1>6 DEF Repeat

(* What the results and the suite determine stays with them. *)
LEMMA ReportsFrame ==
  ASSUME suite' = suite, results' = results
  PROVE  ReportsNow' = ReportsNow
BY DEF ReportsNow, PerCase, Aggregate, MetThreshold, Count, Threshold

LEMMA InvReturn ==
  ASSUME EvalInv, Return
  PROVE  EvalInv'
<1>1. /\ suite' = suite /\ started' = started /\ stage' = stage /\ results' = results /\ came' = came
      /\ Len(results) = Len(Work) /\ reports' = ReportsNow
  BY DEF Return, ReportsNow
<1>2. Work' = Work /\ Concurrency' = Concurrency /\ \A how : Worth(how)' = Worth(how)
  BY <1>1, SuiteFrame
<1>3. InFlight' = InFlight /\ ReportsNow' = ReportsNow
  BY <1>1, ReportsFrame DEF InFlight
<1> QED
  BY <1>1, <1>2, <1>3 DEF EvalInv, Flight, Collected, Reported

LEMMA InvStutter ==
  ASSUME EvalInv, UNCHANGED vars
  PROVE  EvalInv'
<1>1. /\ suite' = suite /\ started' = started /\ stage' = stage /\ results' = results /\ came' = came
      /\ reports' = reports /\ returned' = returned
  BY DEF vars
<1>2. Work' = Work /\ Concurrency' = Concurrency /\ \A how : Worth(how)' = Worth(how)
  BY <1>1, SuiteFrame
<1>3. InFlight' = InFlight /\ ReportsNow' = ReportsNow
  BY <1>1, ReportsFrame DEF InFlight
<1> QED
  BY <1>1, <1>2, <1>3 DEF EvalInv, Flight, Collected, Reported

LEMMA InvAlways == Spec => []EvalInv
<1>1. Init => EvalInv
  BY InvInit
<1>2. EvalInv /\ [Next]_vars => EvalInv'
  <2> SUFFICES ASSUME EvalInv, [Next]_vars PROVE EvalInv'
    OBVIOUS
  <2>1. CASE Start
    BY <2>1, InvStart
  <2>2. ASSUME NEW w \in DOMAIN stage, Repeat(w) PROVE EvalInv'
    BY <2>2, RepeatSteps, InvEnds, InvGoesOn
  <2>3. CASE Return
    BY <2>3, InvReturn
  <2>4. CASE Stopped \/ UNCHANGED vars
    BY <2>4, InvStutter DEF Stopped
  <2> QED
    BY <2>1, <2>2, <2>3, <2>4 DEF Next
<1> QED
  BY <1>1, <1>2, PTL DEF Spec

-----------------------------------------------------------------------------
(***************************************************************************)
(* What the report says.                                                   *)
(***************************************************************************)
LEMMA DisjointCard ==
  ASSUME NEW S, NEW T, IsFiniteSet(S), IsFiniteSet(T), S \cap T = {}
  PROVE  /\ IsFiniteSet(S \cup T) /\ Cardinality(S) \in Nat /\ Cardinality(T) \in Nat
         /\ Cardinality(S \cup T) = Cardinality(S) + Cardinality(T)
<1>1. /\ IsFiniteSet(S \cup T)
      /\ Cardinality(S \cup T) = Cardinality(S) + Cardinality(T) - Cardinality(S \cap T)
  BY FS_Union
<1>2. Cardinality(S \cap T) = 0
  BY FS_EmptySet
<1>3. Cardinality(S) \in Nat /\ Cardinality(T) \in Nat
  BY FS_CardinalityType
<1> QED
  BY <1>1, <1>2, <1>3

(* The categories of some records add up to them. *)
LEMMA CategoriesAddUp ==
  ASSUME NEW q, NEW n \in Nat, DOMAIN q = 1..n, \A k \in 1..n : q[k].category \in Categories
  PROVE  /\ Count(q, "Pass") + Count(q, "Wrong") + Count(q, "Unparseable") + Count(q, "Unavailable")
              + Count(q, "Failed") = n
         /\ \A category : /\ Count(q, category) \in Nat
                          /\ Count(q, category) <= n
                          /\ Count(q, category) = n => \A k \in 1..n : q[k].category = category
         /\ \A category : Count(q, category) # 0 => \E k \in 1..n : q[k].category = category
<1> DEFINE Of(category) == {k \in DOMAIN q : q[k].category = category}
<1>1. IsFiniteSet(1..n) /\ Cardinality(1..n) = n
  <2>1. 1 \in Int /\ n \in Int
    OBVIOUS
  <2>2. IsFiniteSet(1..n) /\ Cardinality(1..n) = IF 1 > n THEN 0 ELSE n - 1 + 1
    BY <2>1, FS_Interval
  <2> QED
    BY <2>2
<1>2. ASSUME NEW category
      PROVE  /\ IsFiniteSet(Of(category)) /\ Count(q, category) = Cardinality(Of(category))
             /\ Count(q, category) \in Nat /\ Count(q, category) <= n
             /\ Count(q, category) = n => \A k \in 1..n : q[k].category = category
             /\ Count(q, category) # 0 => \E k \in 1..n : q[k].category = category
  <2>1. PICK D, S : D = 1..n /\ S = Of(category)
    OBVIOUS
  <2>2. S \in SUBSET D
    BY <2>1
  <2>3. IsFiniteSet(S) /\ Cardinality(S) <= Cardinality(D) /\ (Cardinality(D) = Cardinality(S) => D = S)
    BY <1>1, <2>1, <2>2, FS_Subset
  <2>4. Count(q, category) = Cardinality(S)
    BY <2>1 DEF Count
  <2>5. Cardinality(S) \in Nat
    BY <2>3, FS_CardinalityType
  <2>6. D = S => \A k \in 1..n : q[k].category = category
    BY <2>1
  <2>7. Cardinality(S) # 0 => \E k \in 1..n : q[k].category = category
    <3>1. S = {} => Cardinality(S) = 0
      BY FS_EmptySet
    <3>2. S # {} => \E k \in 1..n : q[k].category = category
      BY <2>1
    <3> QED
      BY <3>1, <3>2
  <2> QED
    BY <1>1, <2>1, <2>3, <2>4, <2>5, <2>6, <2>7
<1>3. Count(q, "Pass") + Count(q, "Wrong") + Count(q, "Unparseable") + Count(q, "Unavailable")
        + Count(q, "Failed") = n
  <2>1. PICK A, B, C, D, E : /\ A = Of("Pass") /\ B = Of("Wrong") /\ C = Of("Unparseable")
                             /\ D = Of("Unavailable") /\ E = Of("Failed")
    OBVIOUS
  <2>2. /\ IsFiniteSet(A) /\ IsFiniteSet(B) /\ IsFiniteSet(C) /\ IsFiniteSet(D) /\ IsFiniteSet(E)
        /\ Cardinality(A) = Count(q, "Pass") /\ Cardinality(B) = Count(q, "Wrong")
        /\ Cardinality(C) = Count(q, "Unparseable") /\ Cardinality(D) = Count(q, "Unavailable")
        /\ Cardinality(E) = Count(q, "Failed")
    BY <1>2, <2>1
  <2>3. /\ A \cap B = {} /\ (A \cup B) \cap C = {} /\ ((A \cup B) \cup C) \cap D = {}
        /\ (((A \cup B) \cup C) \cup D) \cap E = {}
    BY <2>1
  <2>4. (((A \cup B) \cup C) \cup D) \cup E = 1..n
    BY <2>1 DEF Categories
  <2>5. IsFiniteSet(A \cup B) /\ Cardinality(A \cup B) = Cardinality(A) + Cardinality(B)
    BY <2>2, <2>3, DisjointCard
  <2>6. /\ IsFiniteSet((A \cup B) \cup C)
        /\ Cardinality((A \cup B) \cup C) = Cardinality(A \cup B) + Cardinality(C)
    BY <2>2, <2>3, <2>5, DisjointCard
  <2>7. /\ IsFiniteSet(((A \cup B) \cup C) \cup D)
        /\ Cardinality(((A \cup B) \cup C) \cup D) = Cardinality((A \cup B) \cup C) + Cardinality(D)
    BY <2>2, <2>3, <2>6, DisjointCard
  <2>8. Cardinality((((A \cup B) \cup C) \cup D) \cup E)
          = Cardinality(((A \cup B) \cup C) \cup D) + Cardinality(E)
    BY <2>2, <2>3, <2>7, DisjointCard
  <2> HIDE DEF Of
  <2> QED
    BY <1>1, <2>2, <2>4, <2>5, <2>6, <2>7, <2>8
<1> QED
  BY <1>2, <1>3

(* The records of a case are those of its own repeats. *)
LEMMA CaseReported ==
  ASSUME EvalInv, returned, NEW c \in DOMAIN suite.cases
  PROVE  /\ reports[c].repeats = PerCase(c)
         /\ reports[c].aggregate = Aggregate(suite.cases[c], PerCase(c))
         /\ DOMAIN EndedOf(c) = 1..Len(EndedOf(c)) /\ Len(EndedOf(c)) \in Nat
         /\ PerCase(c) = [k \in DOMAIN EndedOf(c) |-> Worth(EndedOf(c)[k].how)]
         /\ Len(PerCase(c)) = Len(EndedOf(c))
         /\ \A k \in DOMAIN EndedOf(c) : EndedOf(c)[k].how \in Hows
         /\ {EndedOf(c)[k].work : k \in DOMAIN EndedOf(c)} = {w \in DOMAIN stage : Work[w] = c}
         /\ Len(EndedOf(c)) = EffectiveRepeats(suite.cases[c])
<1>1. reports[c].repeats = PerCase(c) /\ reports[c].aggregate = Aggregate(suite.cases[c], PerCase(c))
  BY DEF EvalInv, Reported, ReportsNow
<1>2. PICK n, P, o : /\ n = Len(came) /\ P = {k \in 1..n : Work[came[k].work] = c}
                     /\ o = Ascending(P, n)
  OBVIOUS
<1>3. n \in Nat /\ P \subseteq 1..n /\ DOMAIN came = 1..n /\ DOMAIN results = 1..n /\ Len(results) = n
  BY <1>2, CameFacts
<1>4. /\ Len(o) \in Nat /\ DOMAIN o = 1..Len(o) /\ \A k \in DOMAIN o : o[k] \in P
      /\ \A p \in P : \E k \in DOMAIN o : o[k] = p
  <2>1. P \cap (1..n) = P
    BY <1>3
  <2>2. /\ Len(o) \in Nat /\ DOMAIN o = 1..Len(o) /\ \A k \in DOMAIN o : o[k] \in P \cap (1..n)
        /\ \A p \in P \cap (1..n) : \E k \in DOMAIN o : o[k] = p
    <3>1. n \in Nat
      BY <1>3
    <3>2. PICK s : s = Ascending(P, n)
      OBVIOUS
    <3>3. /\ Len(s) \in Nat /\ DOMAIN s = 1..Len(s) /\ \A k \in DOMAIN s : s[k] \in P \cap (1..n)
          /\ \A p \in P \cap (1..n) : \E k \in DOMAIN s : s[k] = p
      BY <3>1, <3>2, AscendingFacts
    <3> QED
      BY <1>2, <3>2, <3>3
  <2> QED
    BY <2>1, <2>2
<1>5. \A k \in 1..n : /\ came[k].work \in 1..Len(Work) /\ came[k].how \in Hows
                      /\ results[k].case = Work[came[k].work] /\ results[k].record = Worth(came[k].how)
  BY <1>2, CameFacts
<1>6. PICK e : e = EndedOf(c)
  OBVIOUS
<1>7. e = [k \in DOMAIN o |-> came[o[k]]]
  <2>1. {k \in DOMAIN came : Work[came[k].work] = c} = P
    BY <1>2, <1>3
  <2> QED
    BY <1>2, <1>6, <2>1 DEF EndedOf, At
<1>8. PerCase(c) = [k \in DOMAIN o |-> results[o[k]].record]
  <2>1. {k \in DOMAIN results : results[k].case = c} = P
    BY <1>2, <1>3, <1>5
  <2> QED
    BY <1>2, <1>3, <2>1 DEF PerCase
<1>9. DOMAIN e = 1..Len(o) /\ Len(e) = Len(o) /\ Len(PerCase(c)) = Len(o)
  BY <1>4, <1>7, <1>8
<1>10. PerCase(c) = [k \in DOMAIN e |-> Worth(e[k].how)] /\ \A k \in DOMAIN e : e[k].how \in Hows
  <2>1. \A k \in DOMAIN o : e[k] = came[o[k]] /\ o[k] \in 1..n
    BY <1>3, <1>4, <1>7
  <2>2. \A k \in DOMAIN o : results[o[k]].record = Worth(e[k].how) /\ e[k].how \in Hows
    BY <1>5, <2>1
  <2> QED
    BY <1>4, <1>8, <1>9, <2>2
<1>11. {e[k].work : k \in DOMAIN e} = {came[p].work : p \in P}
  BY <1>4, <1>7, <1>9
<1>12. DOMAIN stage = 1..Len(Work) /\ Len(Work) = n
  BY <1>3 DEF EvalInv, Flight, Reported
<1>13. {came[p].work : p \in P} = {w \in 1..n : Work[w] = c}
  <2>1. \A w \in 1..n : \E k \in 1..n : came[k].work = w
    BY <1>2, <1>3, <1>12, AllEnded
  <2> QED
    BY <1>2, <1>5, <1>12, <2>1, ZenonT(40)
<1>14. Cardinality(P) = Cardinality({w \in 1..n : Work[w] = c})
  <2>1. PICK f : f = [p \in P |-> came[p].work]
    OBVIOUS
  <2>2. \A x, y \in P : f[x] = f[y] => x = y
    BY <1>2, <1>3, <2>1, CameFacts
  <2>3. IsFiniteSet(P)
    BY <1>3, AscendingCard
  <2>4. Cardinality({f[x] : x \in P}) = Cardinality(P)
    BY <2>2, <2>3, ImageCard
  <2>5. {f[x] : x \in P} = {came[p].work : p \in P}
    BY <2>1
  <2> QED
    BY <1>13, <2>4, <2>5
<1>15. Len(o) = Cardinality(P)
  BY <1>2, <1>3, AscendingCard
<1>16. Cardinality({w \in 1..n : Work[w] = c}) = EffectiveRepeats(suite.cases[c])
  BY <1>12, WorkDealt DEF EvalInv, Flight
<1>17. {e[k].work : k \in DOMAIN e} = {w \in DOMAIN stage : Work[w] = c}
  BY <1>11, <1>12, <1>13
<1>18. Len(e) = EffectiveRepeats(suite.cases[c]) /\ Len(e) \in Nat /\ DOMAIN e = 1..Len(e)
  BY <1>4, <1>9, <1>14, <1>15, <1>16
<1> QED
  BY <1>1, <1>6, <1>9, <1>10, <1>17, <1>18

LEMMA CaseAddsUp ==
  ASSUME EvalInv, returned, NEW c \in DOMAIN suite.cases
  PROVE  LET a == reports[c].aggregate
             e == EndedOf(c)
             q == PerCase(c)
         IN  /\ a.repeats = Len(e) /\ Len(q) = Len(e) /\ Len(e) \in Nat /\ DOMAIN e = 1..Len(e)
             /\ a.passes + a.wrong + a.unparseable + a.unavailable + a.failed = a.repeats
             /\ a.met = MetThreshold(suite.cases[c], q)
             /\ Count(q, "Pass") \in Nat /\ Count(q, "Pass") <= Len(e)
             /\ Count(q, "Pass") = Len(e) => \A k \in DOMAIN e : e[k].how = "Pass"
             /\ Count(q, "Pass") # 0 => \E k \in DOMAIN e : e[k].how = "Pass"
<1>1. PICK e, q, n, a : e = EndedOf(c) /\ q = PerCase(c) /\ n = Len(e) /\ a = reports[c].aggregate
  OBVIOUS
<1>2. /\ a = Aggregate(suite.cases[c], q) /\ DOMAIN e = 1..n /\ n \in Nat /\ Len(q) = n
      /\ q = [k \in DOMAIN e |-> Worth(e[k].how)] /\ \A k \in DOMAIN e : e[k].how \in Hows
  BY <1>1, CaseReported
<1>3. /\ a.repeats = n /\ a.passes = Count(q, "Pass") /\ a.wrong = Count(q, "Wrong")
      /\ a.unparseable = Count(q, "Unparseable") /\ a.unavailable = Count(q, "Unavailable")
      /\ a.failed = Count(q, "Failed") /\ a.met = MetThreshold(suite.cases[c], q)
  BY <1>2 DEF Aggregate
<1>4. DOMAIN q = 1..n /\ \A k \in 1..n : q[k] = Worth(e[k].how) /\ e[k].how \in Hows
  BY <1>2
<1>5. \A k \in 1..n : q[k].category \in Categories /\ (q[k].category = "Pass" => e[k].how = "Pass")
  BY <1>4, WorthFacts
<1>6. n \in Nat
  BY <1>2
<1>7. /\ Count(q, "Pass") + Count(q, "Wrong") + Count(q, "Unparseable") + Count(q, "Unavailable")
           + Count(q, "Failed") = n
      /\ Count(q, "Pass") \in Nat /\ Count(q, "Pass") <= n
      /\ Count(q, "Pass") = n => \A k \in 1..n : q[k].category = "Pass"
      /\ Count(q, "Pass") # 0 => \E k \in 1..n : q[k].category = "Pass"
  BY <1>4, <1>5, <1>6, CategoriesAddUp
<1> QED
  BY <1>1, <1>2, <1>3, <1>5, <1>7

(* However the repeats of all cases interleave, in a suite of any size, no *)
(* more than the bound are in flight, and each case's report holds exactly *)
(* its own repeats, each with what it came to, in categories that add up.  *)
THEOREM ReportAccountsCorrect == Spec => []ReportAccounts
<1>1. EvalInv => ReportAccounts
  <2> SUFFICES ASSUME EvalInv PROVE ReportAccounts
    OBVIOUS
  <2>1. Cardinality(InFlight) <= (IF suite.concurrency > 1 THEN suite.concurrency ELSE 1)
    <3>1. Cardinality(InFlight) <= Concurrency /\ suite.concurrency \in Nat
      BY EvalAssumption DEF EvalInv, Flight
    <3>2. Concurrency = IF suite.concurrency > 1 THEN suite.concurrency ELSE 1
      BY <3>1 DEF Concurrency
    <3> QED
      BY <3>1, <3>2
  <2>2. ASSUME returned, NEW c \in DOMAIN suite.cases
        PROVE  LET a == reports[c].aggregate
                   e == EndedOf(c)
               IN  /\ reports[c].repeats = [k \in DOMAIN e |-> Worth(e[k].how)]
                   /\ {e[k].work : k \in DOMAIN e} = {w \in DOMAIN stage : Work[w] = c}
                   /\ Len(e) = a.repeats /\ a.repeats = EffectiveRepeats(suite.cases[c])
                   /\ a.passes + a.wrong + a.unparseable + a.unavailable + a.failed = a.repeats
    BY <2>2, CaseReported, CaseAddsUp
  <2> QED
    BY <2>1, <2>2 DEF ReportAccounts
<1> QED
  BY <1>1, InvAlways, PTL

LEMMA ThresholdType ==
  ASSUME suite \in Suites, NEW c \in DOMAIN suite.cases
  PROVE  Threshold(suite.cases[c])[1] \in Int /\ Threshold(suite.cases[c])[2] \in Nat \ {0}
<1>1. suite.cases[c] \in CaseMeta
  BY WorkDealt
<1>2. PICK case \in CaseMeta : case = suite.cases[c]
  BY <1>1
<1>3. case.minPassRate \in Option(Rate)
  BY DEF CaseMeta
<1>4. case.minPassRate # <<>> => case.minPassRate[1] \in Rate
  BY <1>3 DEF Option
<1>5. DefaultMinPassRate \in Rate /\ <<1, 1>> \in Rate
  BY DEF DefaultMinPassRate, Rate
<1>6. Threshold(case) \in Rate
  BY <1>4, <1>5 DEF Threshold, OrElse
<1>7. \A t \in Rate : t[1] \in Int /\ t[2] \in Nat \ {0}
  BY DEF Rate
<1> QED
  BY <1>2, <1>6, <1>7

(* In a suite of any size and with any thresholds, a suite that is met was *)
(* measured: every case has a repeat, one that passed unless it asks for   *)
(* no positive rate, and a canary nothing but repeats that passed.         *)
THEOREM MetMeansMeasuredCorrect == Spec => []MetMeansMeasured
<1>1. EvalInv => MetMeansMeasured
  <2> SUFFICES ASSUME EvalInv, returned, AllMet, NEW c \in DOMAIN suite.cases
               PROVE  LET e == EndedOf(c)
                      IN  /\ e # <<>>
                          /\ Threshold(suite.cases[c])[1] > 0 => \E k \in DOMAIN e : e[k].how = "Pass"
                          /\ suite.cases[c].canary => \A k \in DOMAIN e : e[k].how = "Pass"
    BY DEF MetMeansMeasured
  <2>1. PICK e, q, t, n, p : /\ e = EndedOf(c) /\ q = PerCase(c) /\ t = Threshold(suite.cases[c])
                             /\ n = Len(e) /\ p = Count(q, "Pass")
    OBVIOUS
  <2>2. /\ reports[c].aggregate.met = MetThreshold(suite.cases[c], q) /\ Len(q) = n
        /\ n \in Nat /\ p \in Nat /\ p <= n
        /\ p = n => \A k \in DOMAIN e : e[k].how = "Pass"
        /\ p # 0 => \E k \in DOMAIN e : e[k].how = "Pass"
    BY <2>1, CaseAddsUp
  <2>3. reports[c].aggregate.met
    BY DEF AllMet, EvalInv, Reported, ReportsNow
  <2>4. n > 0 /\ p * t[2] >= t[1] * n
    BY <2>1, <2>2, <2>3 DEF MetThreshold
  <2>5. t[1] \in Int /\ t[2] \in Nat \ {0}
    BY <2>1, ThresholdType DEF EvalInv, Flight
  <2>6. t[1] > 0 => p # 0
    <3>1. \A i \in Int, j \in Nat : i > 0 /\ j > 0 => i * j > 0
      OBVIOUS
    <3>2. \A i \in Nat : 0 * i = 0
      OBVIOUS
    <3>3. PICK i, j : i = t[1] /\ j = t[2]
      OBVIOUS
    <3>4. i \in Int /\ j \in Nat /\ p * j >= i * n
      BY <2>4, <2>5, <3>3
    <3>5. ASSUME i > 0, p = 0 PROVE FALSE
      <4>1. i * n > 0
        BY <2>2, <2>4, <3>1, <3>4, <3>5
      <4>2. p * j = 0
        BY <3>2, <3>4, <3>5
      <4>3. 0 >= i * n /\ i * n \in Int
        BY <2>2, <3>4, <4>2
      <4> QED
        BY <4>1, <4>3
    <3> QED
      BY <3>3, <3>5
  <2>7. suite.cases[c].canary => p = n
    <3>1. suite.cases[c].canary => t = <<1, 1>>
      BY <2>1 DEF Threshold
    <3>2. t = <<1, 1>> => p >= n
      BY <2>2, <2>4
    <3> QED
      BY <2>2, <3>1, <3>2
  <2>8. e # <<>>
    BY <2>1, <2>4
  <2> QED
    BY <2>1, <2>2, <2>6, <2>7, <2>8
<1> QED
  BY <1>1, InvAlways, PTL
=============================================================================
