--------------------------- MODULE SelectionProofs ---------------------------
(***************************************************************************)
(* What Ascending and FlattenSeq compute, for every input.                 *)
(*                                                                         *)
(* The library's induction theorems have an operator for a parameter; the  *)
(* provers take sets only.  Induction is done here from WFMin, which has   *)
(* sets for parameters: of the numbers for which a claim fails there would *)
(* be a least one.                                                         *)
(***************************************************************************)
EXTENDS Selection, SequencesExt, SequenceTheorems, WellFoundedInduction, TLAPS

LEMMA LeastNat ==
  ASSUME NEW T, T \subseteq Nat, T # {}
  PROVE  \E x \in T : \A y \in T : x <= y
<1> DEFINE R == OpToRel(<, Nat)
<1>1. IsWellFoundedOn(R, Nat)
  BY NatLessThanWellFounded
<1>2. \A x, y \in Nat : y < x => <<y, x>> \in R
  BY DEF OpToRel
<1> HIDE DEF R
<1>3. PICK x \in T : \A y \in T : ~ (<<y, x>> \in R)
  BY <1>1, WFMin
<1>4. ASSUME NEW y \in T PROVE x <= y
  <2>1. x \in Nat /\ y \in Nat
    OBVIOUS
  <2>2. ~(y < x)
    BY <1>2, <1>3, <2>1
  <2> QED
    BY <2>1, <2>2
<1> QED
  BY <1>4

(* Induction up to n for a claim that is given as the set of the numbers it *)
(* holds of.                                                                *)
LEMMA InductionUpTo ==
  ASSUME NEW n \in Nat, NEW Holds, 0 \in Holds,
         \A k \in 0..n : k \in Holds /\ k < n => k + 1 \in Holds
  PROVE  \A k \in 0..n : k \in Holds
<1> DEFINE Fails == {k \in 0..n : k \notin Holds}
<1> SUFFICES ASSUME Fails # {} PROVE FALSE
  OBVIOUS
<1>1. Fails \subseteq Nat
  OBVIOUS
<1>2. PICK k \in Fails : \A j \in Fails : k <= j
  BY <1>1, LeastNat
<1>3. k \in 0..n /\ k \notin Holds /\ k # 0
  OBVIOUS
<1>4. k - 1 \in 0..n /\ k - 1 < n /\ (k - 1) + 1 = k /\ ~(k <= k - 1)
  BY <1>3
<1>5. k - 1 \in Holds
  BY <1>2, <1>4
<1> QED
  BY <1>3, <1>4, <1>5

LEMMA GreatestNat ==
  ASSUME NEW n \in Nat, NEW T, T \subseteq 0..n, T # {}
  PROVE  \E x \in T : \A y \in T : y <= x
<1> DEFINE U == {k \in 0..n : n - k \in T}
<1>1. \A x \in T : x \in 0..n /\ n - x \in 0..n /\ n - (n - x) = x
  OBVIOUS
<1>2. U \subseteq Nat /\ U # {}
  <2>1. PICK y \in T : TRUE
    OBVIOUS
  <2>2. n - y \in U
    BY <1>1, <2>1
  <2>3. U \subseteq 0..n /\ 0..n \subseteq Nat
    OBVIOUS
  <2> HIDE DEF U
  <2> QED
    BY <2>2, <2>3
<1>3. PICK u \in U : \A v \in U : u <= v
  BY <1>2, LeastNat
<1>4. ASSUME NEW y \in T PROVE y <= n - u
  <2>1. n - y \in U
    BY <1>1
  <2>2. u \in 0..n /\ u <= n - y /\ y \in 0..n
    BY <1>1, <1>3, <2>1
  <2> QED
    BY <2>2
<1> QED
  BY <1>3, <1>4

-----------------------------------------------------------------------------
(***************************************************************************)
(* Ascending.                                                              *)
(***************************************************************************)
UpTo(f, S, n) ==
  f = [k \in 0..n |->
         IF k = 0 THEN <<>> ELSE IF k \in S THEN Append(f[k - 1], k) ELSE f[k - 1]]

(* The function that defines Ascending exists. *)
LEMMA UpToExists ==
  ASSUME NEW S, NEW n \in Nat
  PROVE  \E f : UpTo(f, S, n)
<1> DEFINE Holds == {m \in Nat : \E f : UpTo(f, S, m)}
<1>1. 0 \in Holds
  <2> DEFINE f == [k \in 0..0 |-> <<>>]
  <2>1. UpTo(f, S, 0)
    BY DEF UpTo
  <2> QED
    BY <2>1
<1>2. ASSUME NEW m \in Nat, m \in Holds PROVE m + 1 \in Holds
  <2>1. PICK g : UpTo(g, S, m)
    BY <1>2
  <2> DEFINE f == [k \in 0..(m + 1) |->
                     IF k = m + 1 THEN IF k \in S THEN Append(g[m], k) ELSE g[m] ELSE g[k]]
  <2>2. ASSUME NEW k \in 0..(m + 1)
        PROVE  f[k] = IF k = 0 THEN <<>> ELSE IF k \in S THEN Append(f[k - 1], k) ELSE f[k - 1]
    <3>1. CASE k = m + 1
      <4>1. k # 0 /\ k - 1 = m /\ m \in 0..(m + 1) /\ m # m + 1
        BY <3>1
      <4> QED
        BY <3>1, <4>1
    <3>2. CASE k = 0
      BY <2>1, <3>2 DEF UpTo
    <3>3. CASE k \in 1..m
      <4>1. k \in 0..m /\ k # 0 /\ k # m + 1 /\ k - 1 \in 0..(m + 1) /\ k - 1 # m + 1
        BY <3>3
      <4>2. f[k] = g[k] /\ f[k - 1] = g[k - 1]
        BY <4>1
      <4>3. g[k] = IF k \in S THEN Append(g[k - 1], k) ELSE g[k - 1]
        BY <2>1, <4>1 DEF UpTo
      <4> QED
        BY <4>1, <4>2, <4>3
    <3> QED
      BY <3>1, <3>2, <3>3
  <2>3. f = [k \in 0..(m + 1) |-> f[k]]
    OBVIOUS
  <2> HIDE DEF f
  <2>4. UpTo(f, S, m + 1)
    BY <2>2, <2>3 DEF UpTo
  <2> QED
    BY <2>4
<1> HIDE DEF Holds
<1>3. n \in Holds
  BY <1>1, <1>2, InductionUpTo
<1> QED
  BY <1>3 DEF Holds

(* Two such functions agree as far as the sets do. *)
LEMMA UpToAgree ==
  ASSUME NEW S, NEW T, NEW n \in Nat, NEW m \in Nat, n <= m, S \cap (1..n) = T \cap (1..n),
         NEW f, UpTo(f, S, n), NEW g, UpTo(g, T, m)
  PROVE  f[n] = g[n]
<1> DEFINE Holds == {k \in 0..n : f[k] = g[k]}
<1>1. 0 \in Holds
  BY DEF UpTo
<1>2. ASSUME NEW k \in 0..n, k \in Holds, k < n PROVE k + 1 \in Holds
  <2>1. /\ k + 1 \in 0..n /\ k + 1 \in 0..m /\ k + 1 \in 1..n /\ k + 1 # 0 /\ (k + 1) - 1 = k
    BY <1>2
  <2>2. k + 1 \in S <=> k + 1 \in T
    BY <2>1
  <2>3. f[k + 1] = IF k + 1 \in S THEN Append(f[k], k + 1) ELSE f[k]
    BY <2>1 DEF UpTo
  <2>4. g[k + 1] = IF k + 1 \in T THEN Append(g[k], k + 1) ELSE g[k]
    BY <2>1 DEF UpTo
  <2> QED
    BY <1>2, <2>1, <2>2, <2>3, <2>4
<1> HIDE DEF Holds
<1>3. n \in Holds
  BY <1>1, <1>2, InductionUpTo
<1> QED
  BY <1>3 DEF Holds

LEMMA AscendingIs ==
  ASSUME NEW S, NEW n \in Nat
  PROVE  \E f : UpTo(f, S, n) /\ Ascending(S, n) = f[n]
<1>1. UpTo(CHOOSE f : UpTo(f, S, n), S, n)
  BY UpToExists
<1>2. Ascending(S, n) = (CHOOSE f : UpTo(f, S, n))[n]
  BY DEF Ascending, UpTo
<1> QED
  BY <1>1, <1>2

(* Ascending depends on the members up to n only. *)
LEMMA AscendingSame ==
  ASSUME NEW S, NEW T, NEW n \in Nat, S \cap (1..n) = T \cap (1..n)
  PROVE  Ascending(S, n) = Ascending(T, n)
<1>1. PICK f : UpTo(f, S, n) /\ Ascending(S, n) = f[n]
  BY AscendingIs
<1>2. PICK g : UpTo(g, T, n) /\ Ascending(T, n) = g[n]
  BY AscendingIs
<1> QED
  BY <1>1, <1>2, UpToAgree

(* The recursion of Ascending. *)
LEMMA AscendingNext ==
  ASSUME NEW S, NEW n \in Nat
  PROVE  /\ Ascending(S, 0) = <<>>
         /\ Ascending(S, n + 1) = IF n + 1 \in S THEN Append(Ascending(S, n), n + 1) ELSE Ascending(S, n)
<1>1. PICK f : UpTo(f, S, n) /\ Ascending(S, n) = f[n]
  BY AscendingIs
<1>2. PICK g : UpTo(g, S, n + 1) /\ Ascending(S, n + 1) = g[n + 1]
  BY AscendingIs
<1>3. PICK h : UpTo(h, S, 0) /\ Ascending(S, 0) = h[0]
  BY AscendingIs
<1>4. f[n] = g[n]
  BY <1>1, <1>2, UpToAgree
<1>5. n + 1 \in 0..(n + 1) /\ n + 1 # 0 /\ (n + 1) - 1 = n
  OBVIOUS
<1>6. g[n + 1] = IF n + 1 \in S THEN Append(g[n], n + 1) ELSE g[n]
  BY <1>2, <1>5 DEF UpTo
<1>7. h[0] = <<>>
  BY <1>3 DEF UpTo
<1> QED
  BY <1>1, <1>2, <1>3, <1>4, <1>6, <1>7

(* One number more, of a set that is the same up to there. *)
LEMMA AscendingGrows ==
  ASSUME NEW S, NEW T, NEW n \in Nat, \A k \in 1..n : k \in S <=> k \in T
  PROVE  Ascending(T, n + 1) = IF n + 1 \in T THEN Append(Ascending(S, n), n + 1) ELSE Ascending(S, n)
<1>1. S \cap (1..n) = T \cap (1..n)
  OBVIOUS
<1>2. Ascending(S, n) = Ascending(T, n)
  BY <1>1, AscendingSame
<1> QED
  BY <1>2, AscendingNext

LEMMA AscendingFacts ==
  ASSUME NEW S, NEW n \in Nat
  PROVE  LET s == Ascending(S, n)
         IN  /\ s \in Seq(S \cap (1..n)) /\ Len(s) \in Nat /\ DOMAIN s = 1..Len(s)
             /\ \A k \in DOMAIN s : s[k] \in S \cap (1..n)
             /\ \A k, l \in DOMAIN s : k < l => s[k] < s[l]
             /\ \A p \in S \cap (1..n) : \E k \in DOMAIN s : s[k] = p
<1> DEFINE Good(m) ==
             LET s == Ascending(S, m)
             IN  /\ s \in Seq(S \cap (1..m))
                 /\ \A k, l \in 1..Len(s) : k < l => s[k] < s[l]
                 /\ \A p \in S \cap (1..m) : \E k \in 1..Len(s) : s[k] = p
           Holds == {m \in Nat : Good(m)}
<1>1. Good(0)
  <2>1. Ascending(S, 0) = <<>>
    BY AscendingNext
  <2>2. S \cap (1..0) = {} /\ Len(<<>>) = 0 /\ 1..0 = {} /\ <<>> \in Seq({})
    OBVIOUS
  <2> QED
    BY <2>1, <2>2
<1>2. ASSUME NEW m \in Nat, Good(m) PROVE Good(m + 1)
  <2> DEFINE s == Ascending(S, m)
             t == Ascending(S, m + 1)
  <2>1. /\ s \in Seq(S \cap (1..m)) /\ Len(s) \in Nat /\ \A k \in 1..Len(s) : s[k] \in S \cap (1..m)
        /\ \A k, l \in 1..Len(s) : k < l => s[k] < s[l]
        /\ \A p \in S \cap (1..m) : \E k \in 1..Len(s) : s[k] = p
    BY <1>2
  <2>2. t = IF m + 1 \in S THEN Append(s, m + 1) ELSE s
    BY AscendingNext
  <2> HIDE DEF s, t
  <2>3. S \cap (1..m) \subseteq S \cap (1..(m + 1))
    OBVIOUS
  <2>4. s \in Seq(S \cap (1..(m + 1)))
    BY <2>1, <2>3
  <2>5. CASE m + 1 \notin S
    <3>1. S \cap (1..(m + 1)) = S \cap (1..m)
      BY <2>5
    <3> QED
      BY <2>1, <2>2, <2>5, <3>1 DEF t
  <2>6. CASE m + 1 \in S
    <3>1. /\ t \in Seq(S \cap (1..(m + 1))) /\ Len(t) = Len(s) + 1 /\ t[Len(s) + 1] = m + 1
          /\ \A k \in 1..Len(s) : t[k] = s[k]
      <4>1. m + 1 \in S \cap (1..(m + 1))
        BY <2>6
      <4> QED
        BY <2>2, <2>4, <2>6, <4>1
    <3>2. \A k \in 1..Len(t) : k \in 1..Len(s) \/ k = Len(s) + 1
      BY <2>1, <3>1
    <3>3. ASSUME NEW k \in 1..Len(t), NEW l \in 1..Len(t), k < l PROVE t[k] < t[l]
      <4>1. k \in 1..Len(s)
        BY <2>1, <3>1, <3>3
      <4>2. CASE l \in 1..Len(s)
        BY <2>1, <3>1, <3>3, <4>1, <4>2
      <4>3. CASE l = Len(s) + 1
        <5>1. s[k] \in 1..m
          BY <2>1, <4>1
        <5>2. s[k] < m + 1
          BY <5>1
        <5> QED
          BY <3>1, <4>1, <4>3, <5>2
      <4> QED
        BY <3>2, <4>2, <4>3
    <3>4. ASSUME NEW p \in S \cap (1..(m + 1)) PROVE \E k \in 1..Len(t) : t[k] = p
      <4>1. CASE p = m + 1
        <5>1. Len(s) + 1 \in 1..Len(t)
          BY <2>1, <3>1
        <5> QED
          BY <3>1, <4>1, <5>1
      <4>2. CASE p # m + 1
        <5>1. p \in S \cap (1..m)
          BY <4>2
        <5>2. PICK k \in 1..Len(s) : s[k] = p
          BY <2>1, <5>1
        <5>3. k \in 1..Len(t)
          BY <2>1, <3>1
        <5> QED
          BY <3>1, <5>2, <5>3
      <4> QED
        BY <4>1, <4>2
    <3> QED
      BY <3>1, <3>3, <3>4 DEF t
  <2> QED
    BY <2>5, <2>6
<1> HIDE DEF Good
<1>3. n \in Holds
  <2>1. 0 \in Holds /\ \A k \in 0..n : k \in Holds => k + 1 \in Holds
    BY <1>1, <1>2
  <2> HIDE DEF Holds
  <2> QED
    BY <2>1, InductionUpTo
<1>4. Good(n)
  BY <1>3
<1> QED
  BY <1>4, SMTT(30) DEF Good

LEMMA AscendingNone ==
  ASSUME NEW S, NEW n \in Nat, \A k \in 1..n : k \notin S
  PROVE  Ascending(S, n) = <<>>
<1>1. Ascending(S, n) \in Seq(S \cap (1..n)) /\ S \cap (1..n) = {}
  BY AscendingFacts
<1> QED
  BY <1>1

(* All the numbers up to n. *)
LEMMA AscendingAll ==
  ASSUME NEW n \in Nat
  PROVE  Ascending(1..n, n) = [k \in 1..n |-> k]
<1> DEFINE Holds == {m \in 0..n : Ascending(1..n, m) = [k \in 1..m |-> k]}
<1>1. 0 \in Holds
  BY AscendingNext
<1>2. ASSUME NEW m \in 0..n, m \in Holds, m < n PROVE m + 1 \in Holds
  <2>1. Ascending(1..n, m + 1) = Append(Ascending(1..n, m), m + 1)
    <3>1. m \in Nat /\ m + 1 \in 1..n
      BY <1>2
    <3> QED
      BY <3>1, AscendingNext
  <2>2. Append([k \in 1..m |-> k], m + 1) = [k \in 1..(m + 1) |-> k]
    OBVIOUS
  <2> QED
    BY <1>2, <2>1, <2>2
<1> HIDE DEF Holds
<1>3. n \in Holds
  BY <1>1, <1>2, InductionUpTo
<1> QED
  BY <1>3 DEF Holds

-----------------------------------------------------------------------------
(***************************************************************************)
(* FlattenSeq.                                                             *)
(***************************************************************************)
Joined(f, s, n) == f = [i \in 1..n |-> IF i = 1 THEN s[i] ELSE f[i - 1] \o s[i]]

SameUpTo(s, t, n) == \A i \in 1..n : s[i] = t[i]

LEMMA JoinedExists ==
  ASSUME NEW s, NEW n \in Nat
  PROVE  \E f : Joined(f, s, n)
<1> DEFINE Holds == {m \in Nat : \E f : Joined(f, s, m)}
<1>1. 0 \in Holds
  <2> DEFINE f == [i \in 1..0 |-> <<>>]
  <2>1. Joined(f, s, 0)
    BY DEF Joined
  <2> QED
    BY <2>1
<1>2. ASSUME NEW m \in Nat, m \in Holds PROVE m + 1 \in Holds
  <2>1. PICK g : Joined(g, s, m)
    BY <1>2
  <2> DEFINE f == [i \in 1..(m + 1) |->
                     IF i = m + 1 THEN IF i = 1 THEN s[i] ELSE g[m] \o s[i] ELSE g[i]]
  <2>2. ASSUME NEW i \in 1..(m + 1)
        PROVE  f[i] = IF i = 1 THEN s[i] ELSE f[i - 1] \o s[i]
    <3>1. CASE i = m + 1
      <4>1. i # 1 => i - 1 = m /\ m \in 1..(m + 1) /\ m # m + 1
        BY <3>1
      <4> QED
        BY <3>1, <4>1
    <3>2. CASE i = 1 /\ i # m + 1
      <4>1. 1 \in 1..m
        BY <3>2
      <4> QED
        BY <2>1, <3>2, <4>1 DEF Joined
    <3>3. CASE i # 1 /\ i # m + 1
      <4>1. i \in 1..m /\ i - 1 \in 1..(m + 1) /\ i - 1 # m + 1
        BY <3>3
      <4>2. f[i] = g[i] /\ f[i - 1] = g[i - 1]
        BY <3>3, <4>1
      <4>3. g[i] = g[i - 1] \o s[i]
        BY <2>1, <3>3, <4>1 DEF Joined
      <4> QED
        BY <3>3, <4>2, <4>3
    <3> QED
      BY <3>1, <3>2, <3>3
  <2>3. f = [i \in 1..(m + 1) |-> f[i]]
    OBVIOUS
  <2> HIDE DEF f
  <2>4. Joined(f, s, m + 1)
    BY <2>2, <2>3 DEF Joined
  <2> QED
    BY <2>4
<1> HIDE DEF Holds
<1>3. n \in Holds
  BY <1>1, <1>2, InductionUpTo
<1> QED
  BY <1>3 DEF Holds

LEMMA JoinedAgree ==
  ASSUME NEW s, NEW t, NEW m \in Nat, NEW n \in Nat, m <= n,
         SameUpTo(s, t, m), NEW f, Joined(f, s, m), NEW g, Joined(g, t, n)
  PROVE  m # 0 => f[m] = g[m]
<1> DEFINE Holds == {k \in 0..m : k = 0 \/ f[k] = g[k]}
<1>1. 0 \in Holds
  OBVIOUS
<1>2. ASSUME NEW k \in 0..m, k \in Holds, k < m PROVE k + 1 \in Holds
  <2>1. k + 1 \in 1..m /\ k + 1 \in 1..n /\ (k + 1) - 1 = k /\ (k + 1 = 1 <=> k = 0) /\ k + 1 \in 0..m
    BY <1>2
  <2>2. /\ f[k + 1] = IF k + 1 = 1 THEN s[k + 1] ELSE f[k] \o s[k + 1]
        /\ g[k + 1] = IF k + 1 = 1 THEN t[k + 1] ELSE g[k] \o t[k + 1]
    BY <2>1, ZenonT(40) DEF Joined, SameUpTo
  <2> QED
    BY <1>2, <2>1, <2>2 DEF SameUpTo
<1> HIDE DEF Holds
<1>3. \A k \in 0..m : k \in Holds
  BY <1>1, <1>2, InductionUpTo
<1> QED
  BY <1>3 DEF Holds

LEMMA FlattenIs ==
  ASSUME NEW s, NEW n \in Nat \ {0}, Len(s) = n
  PROVE  \E f : Joined(f, s, n) /\ FlattenSeq(s) = f[n]
<1>1. Joined(CHOOSE f : Joined(f, s, n), s, n)
  BY JoinedExists
<1>2. FlattenSeq(s) = (CHOOSE f : Joined(f, s, n))[n]
  BY DEF FlattenSeq, Joined
<1> QED
  BY <1>1, <1>2

(* The last of the sequences comes last. *)
LEMMA FlattenAppend ==
  ASSUME NEW S, NEW s \in Seq(Seq(S)), NEW t \in Seq(S)
  PROVE  FlattenSeq(Append(s, t)) = FlattenSeq(s) \o t
<1> DEFINE n == Len(s)
           u == Append(s, t)
<1>1. n \in Nat /\ Len(s) = n /\ Len(u) = n + 1 /\ n + 1 \in Nat \ {0}
  OBVIOUS
<1>2. u[n + 1] = t /\ \A i \in 1..n : s[i] = u[i]
  OBVIOUS
<1> HIDE DEF n, u
<1>3. PICK g : Joined(g, u, n + 1) /\ FlattenSeq(u) = g[n + 1]
  BY <1>1, FlattenIs
<1>4. CASE n = 0
  <2>1. s = <<>> /\ FlattenSeq(s) = s
    BY <1>1, <1>4 DEF FlattenSeq
  <2>2. g[n + 1] = u[n + 1]
    BY <1>1, <1>3, <1>4 DEF Joined
  <2> QED
    BY <1>2, <1>3, <2>1, <2>2 DEF u
<1>5. CASE n # 0
  <2>1. PICK f : Joined(f, s, n) /\ FlattenSeq(s) = f[n]
    BY <1>1, <1>5, FlattenIs
  <2>2. n \in 1..n /\ n <= n + 1
    BY <1>1, <1>5
  <2>3. f[n] = g[n]
    <3> DEFINE m == n + 1
    <3>1. n \in Nat /\ m \in Nat /\ n <= m /\ SameUpTo(s, u, n)
      BY <1>1, <1>2, <2>2 DEF SameUpTo
    <3>2. Joined(g, u, m) /\ Joined(f, s, n)
      BY <1>3, <2>1
    <3> HIDE DEF m
    <3> QED
      BY <1>5, <3>1, <3>2, JoinedAgree
  <2>4. n + 1 \in 1..(n + 1) /\ n + 1 # 1 /\ (n + 1) - 1 = n
    BY <1>1, <1>5
  <2>5. g[n + 1] = g[n] \o u[n + 1]
    BY <1>3, <2>4 DEF Joined
  <2> QED
    BY <1>2, <1>3, <2>1, <2>3, <2>5 DEF u
<1> QED
  BY <1>4, <1>5

LEMMA FlattenEmpty == FlattenSeq(<<>>) = <<>>
BY DEF FlattenSeq

LEMMA FlattenType ==
  ASSUME NEW S, NEW s \in Seq(Seq(S))
  PROVE  FlattenSeq(s) \in Seq(S)
<1> DEFINE n == Len(s)
<1>1. n \in Nat /\ Len(s) = n
  OBVIOUS
<1>2. \A i \in 1..n : s[i] \in Seq(S)
  OBVIOUS
<1> HIDE DEF n
<1>3. CASE n = 0
  BY <1>1, <1>3 DEF FlattenSeq
<1>4. CASE n # 0
  <2>1. PICK f : Joined(f, s, n) /\ FlattenSeq(s) = f[n]
    BY <1>1, <1>4, FlattenIs
  <2> DEFINE Holds == {k \in 0..n : k = 0 \/ f[k] \in Seq(S)}
  <2>2. 0 \in Holds
    BY <1>1
  <2>3. ASSUME NEW k \in 0..n, k \in Holds, k < n PROVE k + 1 \in Holds
    <3>1. k + 1 \in 1..n /\ (k + 1) - 1 = k /\ (k + 1 = 1 <=> k = 0) /\ k + 1 \in 0..n
      BY <1>1, <2>3
    <3>2. f[k + 1] = IF k = 0 THEN s[k + 1] ELSE f[k] \o s[k + 1]
      BY <2>1, <3>1 DEF Joined
    <3>3. s[k + 1] \in Seq(S) /\ (k = 0 \/ f[k] \in Seq(S))
      BY <1>2, <2>3, <3>1
    <3>4. f[k + 1] \in Seq(S)
      BY <3>2, <3>3
    <3> QED
      BY <3>1, <3>4
  <2> HIDE DEF Holds
  <2>4. n \in 0..n /\ n \in Nat
    BY <1>1
  <2>5. n \in Holds
    BY <2>2, <2>3, <2>4, InductionUpTo
  <2> QED
    BY <1>4, <2>1, <2>5 DEF Holds
<1> QED
  BY <1>3, <1>4

(* To add to the last of the sequences is to add at the end. *)
LEMMA FlattenExtend ==
  ASSUME NEW S, NEW s \in Seq(Seq(S)), s # <<>>, NEW x \in S
  PROVE  FlattenSeq([s EXCEPT ![Len(s)] = Append(@, x)]) = Append(FlattenSeq(s), x)
<1>1. PICK front \in Seq(Seq(S)), t \in Seq(S) : s = Append(front, t)
  <2> DEFINE front == [i \in 1..(Len(s) - 1) |-> s[i]]
  <2>1. Len(s) \in Nat \ {0} /\ s[Len(s)] \in Seq(S) /\ front \in Seq(Seq(S))
    OBVIOUS
  <2>2. Len(front) = Len(s) - 1 /\ \A i \in 1..Len(front) : front[i] = s[i]
    BY <2>1
  <2> HIDE DEF front
  <2>3. /\ Append(front, s[Len(s)]) \in Seq(Seq(S))
        /\ Len(Append(front, s[Len(s)])) = Len(s)
        /\ \A i \in 1..Len(s) : Append(front, s[Len(s)])[i] = s[i]
    BY <2>1, <2>2
  <2>4. s = Append(front, s[Len(s)])
    BY <2>3
  <2> QED
    BY <2>1, <2>4
<1>2. Len(s) = Len(front) + 1 /\ Len(front) \in Nat /\ s[Len(s)] = t
  BY <1>1
<1>3. [s EXCEPT ![Len(s)] = Append(@, x)] = Append(front, Append(t, x))
  <2> DEFINE n == Len(s)
             u == [s EXCEPT ![n] = Append(t, x)]
             v == Append(front, Append(t, x))
  <2>1. n \in 1..Len(s) /\ Append(t, x) \in Seq(S)
    BY <1>2
  <2>2. u \in Seq(Seq(S)) /\ Len(u) = n /\ \A i \in 1..n : u[i] = IF i = n THEN Append(t, x) ELSE s[i]
    BY <2>1, ExceptSeq
  <2>3. v \in Seq(Seq(S)) /\ Len(v) = n /\ v[n] = Append(t, x) /\ \A i \in 1..Len(front) : v[i] = front[i]
    BY <1>2, <2>1, AppendProperties
  <2>4. \A i \in 1..Len(front) : s[i] = front[i]
    BY <1>1
  <2>5. \A i \in 1..n : i = n \/ i \in 1..Len(front)
    BY <1>2
  <2> HIDE DEF u, v
  <2>6. \A i \in 1..n : u[i] = v[i]
    BY <2>2, <2>3, <2>4, <2>5
  <2>7. u = v
    <3>1. /\ u \in Seq(Seq(S)) /\ v \in Seq(Seq(S)) /\ Len(u) = Len(v)
          /\ \A i \in 1..Len(u) : u[i] = v[i]
      BY <2>2, <2>3, <2>6
    <3> QED
      BY <3>1, SeqEqual
  <2> QED
    BY <1>2, <2>7 DEF u, v
<1>4. Append(t, x) \in Seq(S) /\ FlattenSeq(front) \in Seq(S)
  BY FlattenType
<1>5. FlattenSeq(front) \o Append(t, x) = Append(FlattenSeq(front) \o t, x)
  BY <1>4
<1>6. FlattenSeq(s) = FlattenSeq(front) \o t
  BY <1>1, FlattenAppend
<1>7. FlattenSeq(Append(front, Append(t, x))) = FlattenSeq(front) \o Append(t, x)
  BY <1>4, FlattenAppend
<1> QED
  BY <1>3, <1>5, <1>6, <1>7
=============================================================================
