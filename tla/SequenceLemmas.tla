--------------------------- MODULE SequenceLemmas ---------------------------
(***************************************************************************)
(* What the proofs about several components rest on:                       *)
(*   - induction over the natural numbers, and functions defined by        *)
(*     iterating a step (drain() of the execution admission, for one), as  *)
(*     first-order facts about sets;                                       *)
(*   - what the operators on sequences do that the queues and orders of    *)
(*     the models are built from: RemoveFirst, Append and the prefixes of  *)
(*     a sequence, for sequences that hold each of their members once;     *)
(*   - what a first-in first-out channel holds before and after it is      *)
(*     written to and read from.                                           *)
(***************************************************************************)
EXTENDS Integers, SequencesExt, SequenceTheorems, FiniteSetTheorems,
        WellFoundedInduction, TLAPS

(* Induction, and functions defined by iterating a step *)

LessThan == OpToRel(<, Nat)

\* The order of the natural numbers is well founded.
LEMMA LessThanWellFounded == IsWellFoundedOn(LessThan, Nat)
BY NatLessThanWellFounded DEF LessThan

\* Smaller numbers come first in it.
LEMMA LessThanPair ==
  ASSUME NEW x \in Nat, NEW y \in Nat, x < y
  PROVE  <<x, y>> \in LessThan
BY DEF LessThan, OpToRel

\* Induction: a set that contains 0 and the successor of each of its members
\* contains every natural number.
LEMMA SetInduction ==
  ASSUME NEW S, 0 \in S, \A n \in Nat : n \in S => n + 1 \in S
  PROVE  \A n \in Nat : n \in S
<1> DEFINE T == Nat \ S
<1>1. SUFFICES ASSUME T # {} PROVE FALSE
  OBVIOUS
<1>2. PICK x \in T : \A y \in T : ~ (<<y, x>> \in LessThan)
  <2> HIDE DEF T
  <2>1. T \subseteq Nat
    BY DEF T
  <2> QED BY <1>1, <2>1, WFMin, LessThanWellFounded
<1>3. x \in Nat /\ x # 0 /\ x \notin S
  OBVIOUS
<1>4. x - 1 \in Nat /\ <<x - 1, x>> \in LessThan
  BY <1>3, LessThanPair
<1>5. x - 1 \in S
  BY <1>2, <1>4
<1>6. (x - 1) + 1 = x
  BY <1>3
<1> QED BY <1>3, <1>4, <1>5, <1>6

\* A set of natural numbers that is not empty has a least member.
LEMMA LeastExists ==
  ASSUME NEW I, I \subseteq Nat, I # {}
  PROVE  \E j \in I : \A i \in I : j <= i
<1>1. PICK j \in I : \A i \in I : ~ (<<i, j>> \in LessThan)
  BY WFMin, LessThanWellFounded
<1>2. ASSUME NEW i \in I PROVE j <= i
  <2>1. i \in Nat /\ j \in Nat
    OBVIOUS
  <2>2. ~ (i < j)
    BY <1>1, <2>1, LessThanPair
  <2> QED BY <2>1, <2>2
<1> QED BY <1>2

\* h lists the first n + 1 values of the iteration of step from s0.
Lists(h, n, S, step, s0) ==
  /\ h \in [0..n -> S]
  /\ h[0] = s0
  /\ \A i \in 1..n : h[i] = step[h[i - 1]]

\* Every finite part of the iteration exists.
LEMMA ListExists ==
  ASSUME NEW S, NEW step \in [S -> S], NEW s0 \in S
  PROVE  \A n \in Nat : \E h : Lists(h, n, S, step, s0)
<1> DEFINE N == {n \in Nat : \E h : Lists(h, n, S, step, s0)}
<1>1. 0 \in N
  <2> DEFINE h == [i \in 0..0 |-> s0]
  <2>1. Lists(h, 0, S, step, s0)
    BY DEF Lists
  <2> QED BY <2>1
<1>2. ASSUME NEW n \in Nat, n \in N PROVE n + 1 \in N
  <2>1. PICK h : Lists(h, n, S, step, s0)
    BY <1>2
  <2> DEFINE k == [i \in 0..(n + 1) |-> IF i <= n THEN h[i] ELSE step[h[n]]]
  <2>2. k \in [0..(n + 1) -> S]
    BY <2>1 DEF Lists
  <2>3. k[0] = s0
    BY <2>1 DEF Lists
  <2>4. ASSUME NEW i \in 1..(n + 1) PROVE k[i] = step[k[i - 1]]
    <3>1. CASE i <= n
      BY <2>1, <3>1 DEF Lists
    <3>2. CASE i = n + 1
      BY <2>1, <3>2 DEF Lists
    <3> QED BY <3>1, <3>2
  <2>5. Lists(k, n + 1, S, step, s0)
    BY <2>2, <2>3, <2>4 DEF Lists
  <2> QED BY <2>5
<1> HIDE DEF N
<1>3. \A n \in Nat : n \in N
  BY <1>1, <1>2, SetInduction
<1> QED BY <1>3 DEF N

\* Two finite parts agree where both are defined.
LEMMA ListsAgree ==
  ASSUME NEW S, NEW step \in [S -> S], NEW s0 \in S,
         NEW n \in Nat, NEW m \in Nat, n <= m,
         NEW g, Lists(g, n, S, step, s0),
         NEW h, Lists(h, m, S, step, s0)
  PROVE  g[n] = h[n]
<1> DEFINE N == {i \in Nat : i <= n => g[i] = h[i]}
<1>1. 0 \in N
  BY DEF Lists
<1>2. ASSUME NEW i \in Nat, i \in N PROVE i + 1 \in N
  <2>1. SUFFICES ASSUME i + 1 <= n PROVE g[i + 1] = h[i + 1]
    OBVIOUS
  <2>2. g[i] = h[i]
    BY <1>2, <2>1
  <2>3. i + 1 \in 1..n /\ i + 1 \in 1..m /\ (i + 1) - 1 = i
    BY <2>1
  <2> QED BY <2>2, <2>3 DEF Lists
<1> HIDE DEF N
<1>3. \A i \in Nat : i \in N
  BY <1>1, <1>2, SetInduction
<1> QED BY <1>3 DEF N

\* The whole iteration exists and stays among the values of the step.
THEOREM IterationExists ==
  ASSUME NEW S, NEW step \in [S -> S], NEW s0 \in S
  PROVE  \E g \in [Nat -> S] :
           g[0] = s0 /\ \A n \in Nat \ {0} : g[n] = step[g[n - 1]]
<1> DEFINE H(n) == CHOOSE h : Lists(h, n, S, step, s0)
           g == [n \in Nat |-> H(n)[n]]
<1>1. ASSUME NEW n \in Nat PROVE Lists(H(n), n, S, step, s0)
  BY ListExists
<1> HIDE DEF H
<1>2. g \in [Nat -> S]
  BY <1>1 DEF Lists
<1>3. g[0] = s0
  BY <1>1 DEF Lists
<1>4. ASSUME NEW n \in Nat, n # 0 PROVE g[n] = step[g[n - 1]]
  <2>1. n - 1 \in Nat /\ n - 1 <= n /\ n \in 1..n
    BY <1>4
  <2>2. H(n)[n] = step[H(n)[n - 1]]
    BY <1>1, <2>1 DEF Lists
  <2>3. H(n - 1)[n - 1] = H(n)[n - 1]
    BY <1>1, <2>1, ListsAgree
  <2> QED BY <2>1, <2>2, <2>3
<1> HIDE DEF g
<1> QED BY <1>2, <1>3, <1>4

\* The steps of a recursion over 0..N that depend on the position, and the
\* function that unfolds them from s0.
StepFunctions(N, S) == [(1..N) \X S -> S]
Unfolds(g, N, S, step, s0) ==
  /\ g \in [0..N -> S]
  /\ g[0] = s0
  /\ \A n \in 1..N : g[n] = step[<<n, g[n - 1]>>]

\* It exists, and stays among the values of its step.
THEOREM RecursionExists ==
  ASSUME NEW S, NEW N \in Nat, NEW step \in StepFunctions(N, S), NEW s0 \in S
  PROVE  \E g : Unfolds(g, N, S, step, s0)
<1>0. step \in [(1..N) \X S -> S]
  BY DEF StepFunctions
<1> DEFINE Good(h, n) == /\ h \in [0..n -> S]
                         /\ h[0] = s0
                         /\ \A i \in 1..n : h[i] = step[<<i, h[i - 1]>>]
           I == {n \in Nat : n <= N => \E h : Good(h, n)}
<1>1. 0 \in I
  <2> DEFINE h == [i \in 0..0 |-> s0]
  <2>1. Good(h, 0)
    OBVIOUS
  <2> QED BY <2>1
<1>2. ASSUME NEW n \in Nat, n \in I PROVE n + 1 \in I
  <2>1. SUFFICES ASSUME n + 1 <= N PROVE \E h : Good(h, n + 1)
    OBVIOUS
  <2>2. PICK h : Good(h, n)
    BY <1>2, <2>1
  <2> DEFINE k == [i \in 0..(n + 1) |-> IF i <= n THEN h[i] ELSE step[<<i, h[n]>>]]
  <2>3. k \in [0..(n + 1) -> S]
    <3>1. ASSUME NEW i \in 0..(n + 1)
          PROVE  (IF i <= n THEN h[i] ELSE step[<<i, h[n]>>]) \in S
      <4>1. CASE i <= n
        BY <2>2, <4>1
      <4>2. CASE ~(i <= n)
        <5>1. i \in 1..N /\ h[n] \in S
          BY <2>1, <2>2, <4>2
        <5> QED BY <1>0, <4>2, <5>1
      <4> QED BY <4>1, <4>2
    <3> QED BY <3>1
  <2>4. k[0] = s0
    BY <2>2
  <2>5. ASSUME NEW i \in 1..(n + 1) PROVE k[i] = step[<<i, k[i - 1]>>]
    <3>1. CASE i <= n
      <4>1. i \in 1..n /\ i \in 0..(n + 1) /\ i - 1 \in 0..(n + 1) /\ i - 1 <= n
        BY <3>1
      <4>2. k[i] = h[i] /\ k[i - 1] = h[i - 1]
        BY <3>1, <4>1
      <4> QED BY <2>2, <4>1, <4>2
    <3>2. CASE i = n + 1
      <4>1. ~(i <= n) /\ i \in 0..(n + 1) /\ i - 1 = n /\ n \in 0..(n + 1) /\ n <= n
        BY <3>2
      <4>2. k[i] = step[<<i, h[n]>>] /\ k[i - 1] = h[n]
        BY <4>1
      <4> QED BY <4>2
    <3> QED BY <3>1, <3>2
  <2>6. Good(k, n + 1)
    BY <2>3, <2>4, <2>5
  <2> QED BY <2>6
<1> HIDE DEF I
<1>3. \A n \in Nat : n \in I
  BY <1>1, <1>2, SetInduction
<1>4. PICK g : Good(g, N)
  BY <1>3 DEF I
<1> QED BY <1>4 DEF Unfolds

\* A set of natural numbers that is bounded and not empty has a greatest member.
LEMMA GreatestExists ==
  ASSUME NEW I, I \subseteq Nat, I # {}, NEW n \in Nat, \A i \in I : i <= n
  PROVE  \E j \in I : \A i \in I : i <= j
<1> DEFINE C == {n - i : i \in I}
<1>1. C \subseteq Nat /\ C # {}
  <2>1. \A i \in I : n - i \in Nat
    OBVIOUS
  <2> QED BY <2>1
<1>2. PICK d \in C : \A e \in C : d <= e
  <2> HIDE DEF C
  <2> QED BY <1>1, LeastExists
<1>3. PICK j \in I : d = n - j
  OBVIOUS
<1>4. ASSUME NEW i \in I PROVE i <= j
  <2>1. n - j <= n - i
    BY <1>2, <1>3
  <2> QED BY <2>1
<1> QED BY <1>4

-----------------------------------------------------------------------------
(* Sequences that hold each of their members once *)

\* The first e is left out, and what came after it moves up.
LEMMA RemoveFirstShape ==
  ASSUME NEW S, NEW q \in Seq(S), NEW e, Contains(q, e)
  PROVE  \E k \in 1..Len(q) :
           /\ q[k] = e /\ \A i \in 1..(k - 1) : q[i] # e
           /\ RemoveFirst(q, e) \in Seq(S)
           /\ Len(RemoveFirst(q, e)) = Len(q) - 1
           /\ \A i \in 1..(Len(q) - 1) :
                RemoveFirst(q, e)[i] = IF i < k THEN q[i] ELSE q[i + 1]
<1> DEFINE I == {i \in 1..Len(q) : q[i] = e}
           k == Min(I)
<1>0. Len(q) \in Nat /\ \A i \in 1..Len(q) : q[i] \in S
  BY ElementOfSeq
<1>1. I \subseteq Nat /\ I # {}
  BY DEF Contains
<1>2. k \in I /\ \A i \in I : k <= i
  BY <1>1, LeastExists DEF Min
<1>3. RemoveFirst(q, e) = SubSeq(q, 1, k - 1) \o SubSeq(q, k + 1, Len(q))
  BY DEF RemoveFirst, RemoveAt, SelectInSeq, Contains
<1>4. k \in 1..Len(q) /\ q[k] = e
  BY <1>2
<1>5. \A i \in 1..(k - 1) : q[i] # e
  BY <1>0, <1>2, <1>4
<1> HIDE DEF k, I
<1> DEFINE a == SubSeq(q, 1, k - 1)
           z == SubSeq(q, k + 1, Len(q))
<1>6. /\ a \in Seq(S) /\ Len(a) = k - 1
      /\ \A i \in 1..(k - 1) : a[i] = q[i]
  <2>1. \A i \in 1..(k - 1) : q[i] \in S
    BY <1>0, <1>4
  <2> QED BY <1>0, <1>4, <2>1, SubSeqProperties
<1>7. /\ z \in Seq(S) /\ Len(z) = Len(q) - k
      /\ \A i \in 1..(Len(q) - k) : z[i] = q[k + i]
  <2>1. \A i \in (k + 1)..Len(q) : q[i] \in S
    BY <1>0, <1>4
  <2>2. /\ z \in Seq(S)
        /\ Len(z) = IF k + 1 <= Len(q) THEN Len(q) - (k + 1) + 1 ELSE 0
        /\ \A i \in 1..(Len(q) - (k + 1) + 1) : z[i] = q[(k + 1) + i - 1]
    BY <1>0, <1>4, <2>1, SubSeqProperties
  <2> HIDE DEF z
  <2>3. \A i \in 1..(Len(q) - k) : (k + 1) + i - 1 = k + i
    BY <1>0, <1>4
  <2> QED BY <1>0, <1>4, <2>2, <2>3
<1> HIDE DEF a, z
<1>8. /\ a \o z \in Seq(S)
      /\ Len(a \o z) = Len(a) + Len(z)
      /\ \A i \in 1..(Len(a) + Len(z)) :
           (a \o z)[i] = IF i <= Len(a) THEN a[i] ELSE z[i - Len(a)]
  BY <1>6, <1>7, ConcatProperties
<1>9. ASSUME NEW i \in 1..(Len(q) - 1)
      PROVE  (a \o z)[i] = IF i < k THEN q[i] ELSE q[i + 1]
  <2>1. (a \o z)[i] = IF i <= k - 1 THEN a[i] ELSE z[i - (k - 1)]
    BY <1>0, <1>4, <1>6, <1>7, <1>8
  <2>2. CASE i < k
    BY <1>0, <1>4, <1>6, <2>1, <2>2
  <2>3. CASE ~ (i < k)
    <3>1. i - (k - 1) \in 1..(Len(q) - k) /\ k + (i - (k - 1)) = i + 1
      BY <1>0, <1>4, <2>3
    <3> QED BY <1>0, <1>4, <1>7, <2>1, <2>3, <3>1
  <2> QED BY <2>2, <2>3
<1>10. RemoveFirst(q, e) = a \o z
  BY <1>3 DEF a, z
<1>11. a \o z \in Seq(S) /\ Len(a \o z) = Len(q) - 1
  BY <1>0, <1>4, <1>6, <1>7, <1>8
<1> QED BY <1>4, <1>5, <1>9, <1>10, <1>11

\* Nothing is added.
LEMMA RemoveFirstType ==
  ASSUME NEW S, NEW q \in Seq(S), NEW e
  PROVE  RemoveFirst(q, e) \in Seq(S) /\ Len(RemoveFirst(q, e)) <= Len(q)
<1>1. Len(q) \in Nat
  OBVIOUS
<1>2. CASE Contains(q, e)
  BY <1>1, <1>2, RemoveFirstShape
<1>3. CASE ~Contains(q, e)
  BY <1>1, <1>3 DEF RemoveFirst, Contains
<1> QED BY <1>2, <1>3

\* What is there once is gone, and everything else stays once.
LEMMA RemoveFirstOnce ==
  ASSUME NEW S, NEW q \in Seq(S), NEW e, IsInjective(q)
  PROVE  /\ IsInjective(RemoveFirst(q, e))
         /\ \A x : Contains(RemoveFirst(q, e), x) <=> Contains(q, x) /\ x # e
<1>0. Len(q) \in Nat /\ DOMAIN q = 1..Len(q)
  OBVIOUS
<1>1. CASE ~Contains(q, e)
  BY <1>1 DEF RemoveFirst, Contains
<1>2. CASE Contains(q, e)
  <2> DEFINE t == RemoveFirst(q, e)
  <2>1. PICK k \in 1..Len(q) :
           /\ q[k] = e
           /\ t \in Seq(S)
           /\ Len(t) = Len(q) - 1
           /\ \A i \in 1..(Len(q) - 1) : t[i] = IF i < k THEN q[i] ELSE q[i + 1]
    BY <1>2, RemoveFirstShape
  <2> HIDE DEF t
  <2>2. DOMAIN t = 1..(Len(q) - 1)
    BY <2>1
  <2>3. IsInjective(t)
    BY <1>0, <2>1, <2>2 DEF IsInjective
  <2>4. ASSUME NEW x, Contains(t, x) PROVE Contains(q, x) /\ x # e
    <3>1. PICK i \in 1..(Len(q) - 1) : t[i] = x
      BY <2>1, <2>4 DEF Contains
    <3>2. CASE i < k
      <4>1. i \in 1..Len(q) /\ i # k /\ q[i] = x
        BY <1>0, <2>1, <3>1, <3>2
      <4> QED BY <1>0, <2>1, <4>1 DEF IsInjective, Contains
    <3>3. CASE ~ (i < k)
      <4>1. i + 1 \in 1..Len(q) /\ i + 1 # k /\ q[i + 1] = x
        BY <1>0, <2>1, <3>1, <3>3
      <4> QED BY <1>0, <2>1, <4>1 DEF IsInjective, Contains
    <3> QED BY <3>2, <3>3
  <2>5. ASSUME NEW x, Contains(q, x), x # e PROVE Contains(t, x)
    <3>1. PICK i \in 1..Len(q) : q[i] = x
      BY <2>5 DEF Contains
    <3>2. CASE i < k
      <4>1. i \in 1..(Len(q) - 1) /\ t[i] = x
        BY <1>0, <2>1, <3>1, <3>2
      <4> QED BY <2>1, <4>1 DEF Contains
    <3>3. CASE i > k
      <4>1. i - 1 \in 1..(Len(q) - 1) /\ ~ (i - 1 < k) /\ (i - 1) + 1 = i
        BY <1>0, <3>3
      <4>2. t[i - 1] = x
        BY <2>1, <3>1, <4>1
      <4> QED BY <2>1, <4>1, <4>2 DEF Contains
    <3> QED BY <1>0, <2>1, <2>5, <3>1, <3>2, <3>3
  <2> QED BY <2>3, <2>4, <2>5 DEF t
<1> QED BY <1>1, <1>2

\* A new member at the end.
LEMMA AppendOnce ==
  ASSUME NEW S, NEW q \in Seq(S), NEW e \in S
  PROVE  /\ \A x : Contains(Append(q, e), x) <=> Contains(q, x) \/ x = e
         /\ IsInjective(q) /\ ~Contains(q, e) => IsInjective(Append(q, e))
<1> DEFINE t == Append(q, e)
<1>1. /\ t \in Seq(S) /\ Len(t) = Len(q) + 1 /\ Len(q) \in Nat
      /\ \A i \in 1..Len(q) : t[i] = q[i]
      /\ t[Len(q) + 1] = e
  BY AppendProperties
<1>2. DOMAIN t = 1..(Len(q) + 1) /\ DOMAIN q = 1..Len(q)
  BY <1>1
<1> HIDE DEF t
<1>3. \A i \in 1..(Len(q) + 1) : i \in 1..Len(q) \/ i = Len(q) + 1
  BY <1>1
<1>4. \A x : Contains(t, x) <=> Contains(q, x) \/ x = e
  BY <1>1, <1>3 DEF Contains
<1>5. ASSUME IsInjective(q), ~Contains(q, e) PROVE IsInjective(t)
  BY <1>1, <1>2, <1>3, <1>5 DEF IsInjective, Contains
<1> QED BY <1>4, <1>5 DEF t

\* A prefix holds some of the members, each still once.
LEMMA PrefixOnce ==
  ASSUME NEW S, NEW q \in Seq(S), NEW n \in 0..Len(q), IsInjective(q)
  PROVE  /\ SubSeq(q, 1, n) \in Seq(S)
         /\ Len(SubSeq(q, 1, n)) = n
         /\ IsInjective(SubSeq(q, 1, n))
         /\ \A x : Contains(SubSeq(q, 1, n), x) => Contains(q, x)
<1> DEFINE t == SubSeq(q, 1, n)
<1>0. Len(q) \in Nat /\ DOMAIN q = 1..Len(q) /\ n \in Int
  OBVIOUS
<1>1. \A i \in 1..n : q[i] \in S
  BY <1>0, ElementOfSeq
<1>2. /\ t \in Seq(S)
      /\ Len(t) = IF 1 <= n THEN n - 1 + 1 ELSE 0
      /\ \A i \in 1..(n - 1 + 1) : t[i] = q[1 + i - 1]
  BY <1>0, <1>1, SubSeqProperties
<1> HIDE DEF t
<1>3. Len(t) = n /\ DOMAIN t = 1..n
  BY <1>0, <1>2
<1>4. ASSUME NEW i \in 1..n PROVE t[i] = q[i] /\ i \in 1..Len(q)
  <2>1. i \in 1..(n - 1 + 1) /\ 1 + i - 1 = i
    BY <1>0
  <2> QED BY <1>0, <1>2, <2>1
<1>5. IsInjective(t)
  BY <1>0, <1>3, <1>4 DEF IsInjective
<1>6. \A x : Contains(t, x) => Contains(q, x)
  BY <1>3, <1>4 DEF Contains
<1> QED BY <1>2, <1>3, <1>5, <1>6 DEF t

-----------------------------------------------------------------------------
(* The order of the members *)

\* c stands before d.
Before(q, c, d) == \E i, j \in 1..Len(q) : i < j /\ q[i] = c /\ q[j] = d

\* Leaving a third member out does not change who stands before whom.
LEMMA RemoveFirstBefore ==
  ASSUME NEW S, NEW q \in Seq(S), NEW e, NEW c, NEW d, c # e, d # e, Before(q, c, d)
  PROVE  Before(RemoveFirst(q, e), c, d)
<1>1. CASE ~Contains(q, e)
  BY <1>1 DEF RemoveFirst, Contains
<1>2. CASE Contains(q, e)
  <2> DEFINE t == RemoveFirst(q, e)
  <2>1. PICK k \in 1..Len(q) :
           /\ q[k] = e
           /\ t \in Seq(S)
           /\ Len(t) = Len(q) - 1
           /\ \A i \in 1..(Len(q) - 1) : t[i] = IF i < k THEN q[i] ELSE q[i + 1]
    BY <1>2, RemoveFirstShape
  <2> HIDE DEF t
  <2>2. PICK i \in 1..Len(q), j \in 1..Len(q) : i < j /\ q[i] = c /\ q[j] = d
    BY DEF Before
  <2>3. i # k /\ j # k /\ Len(q) \in Nat
    BY <2>1, <2>2
  <2> DEFINE m == IF i < k THEN i ELSE i - 1
             n == IF j < k THEN j ELSE j - 1
  <2>4. m \in 1..(Len(q) - 1) /\ n \in 1..(Len(q) - 1) /\ m < n
    BY <2>2, <2>3
  <2>5. t[m] = c
    <3>1. CASE i < k
      BY <2>1, <2>2, <2>4, <3>1
    <3>2. CASE ~ (i < k)
      <4>1. m = i - 1 /\ ~ (m < k) /\ m + 1 = i
        BY <2>3, <3>2
      <4> QED BY <2>1, <2>2, <2>4, <4>1
    <3> QED BY <3>1, <3>2
  <2>6. t[n] = d
    <3>1. CASE j < k
      BY <2>1, <2>2, <2>4, <3>1
    <3>2. CASE ~ (j < k)
      <4>1. n = j - 1 /\ ~ (n < k) /\ n + 1 = j
        BY <2>3, <3>2
      <4> QED BY <2>1, <2>2, <2>4, <4>1
    <3> QED BY <3>1, <3>2
  <2> HIDE DEF m, n
  <2>7. m \in 1..Len(t) /\ n \in 1..Len(t)
    BY <2>1, <2>4
  <2> QED BY <2>4, <2>5, <2>6, <2>7 DEF Before, t
<1> QED BY <1>1, <1>2

\* A new last member comes after all others.
LEMMA AppendBefore ==
  ASSUME NEW S, NEW q \in Seq(S), NEW e \in S
  PROVE  /\ \A c, d : Before(q, c, d) => Before(Append(q, e), c, d)
         /\ \A c : Contains(q, c) => Before(Append(q, e), c, e)
<1> DEFINE t == Append(q, e)
<1>1. /\ Len(t) = Len(q) + 1 /\ Len(q) \in Nat
      /\ \A i \in 1..Len(q) : t[i] = q[i]
      /\ t[Len(q) + 1] = e
  BY AppendProperties
<1> HIDE DEF t
<1>2. \A i \in 1..Len(q) : i \in 1..Len(t) /\ i < Len(q) + 1
  BY <1>1
<1>3. Len(q) + 1 \in 1..Len(t)
  BY <1>1
<1>4. ASSUME NEW c, NEW d, Before(q, c, d) PROVE Before(t, c, d)
  BY <1>1, <1>2, <1>4 DEF Before
<1>5. ASSUME NEW c, Contains(q, c) PROVE Before(t, c, e)
  BY <1>1, <1>2, <1>3, <1>5 DEF Before, Contains
<1> QED BY <1>4, <1>5 DEF t

\* The first of a sequence, and what is left without it.
LEMMA HeadFacts ==
  ASSUME NEW S, NEW q \in Seq(S), q # <<>>
  PROVE  /\ Head(q) = q[1] /\ Head(q) \in S /\ Contains(q, Head(q))
         /\ Len(q) \in Nat /\ 1 \in 1..Len(q)
<1>1. Len(q) \in Nat /\ Len(q) # 0
  BY EmptySeq
<1>2. 1 \in 1..Len(q) /\ Head(q) = q[1]
  BY <1>1
<1> QED BY <1>1, <1>2, ElementOfSeq DEF Contains

\* Nothing is in the empty sequence, and something in every other.
LEMMA ContainsEmpty ==
  ASSUME NEW S, NEW q \in Seq(S)
  PROVE  q = <<>> <=> \A x : ~Contains(q, x)
<1>1. CASE q = <<>>
  BY <1>1 DEF Contains
<1>2. CASE q # <<>>
  BY <1>2, HeadFacts
<1> QED BY <1>1, <1>2

\* The members of a sequence that holds each once are as many as its length.
LEMMA CountOnce ==
  ASSUME NEW S, NEW q \in Seq(S), IsInjective(q), NEW T, T = {x \in S : Contains(q, x)}
  PROVE  IsFiniteSet(T) /\ Cardinality(T) = Len(q)
<1>0. Len(q) \in Nat /\ DOMAIN q = 1..Len(q) /\ \A i \in 1..Len(q) : q[i] \in S
  BY ElementOfSeq
<1>1. q \in [1..Len(q) -> T]
  <2>1. \A i \in 1..Len(q) : q[i] \in T
    BY <1>0 DEF Contains
  <2> QED BY <1>0, <2>1
<1>2. q \in Bijection(1..Len(q), T)
  BY <1>0, <1>1 DEF Bijection, Injection, Surjection, IsInjective, Contains
<1>3. IsFiniteSet(1..Len(q)) /\ Cardinality(1..Len(q)) = Len(q)
  <2> DEFINE n == Len(q)
  <2>1. 1 \in Int /\ n \in Int /\ n >= 0
    BY <1>0
  <2> HIDE DEF n
  <2>2. IsFiniteSet(1..n) /\ Cardinality(1..n) = IF 1 > n THEN 0 ELSE n - 1 + 1
    BY <2>1, FS_Interval
  <2>3. Cardinality(1..n) = n
    BY <2>1, <2>2
  <2> QED BY <2>2, <2>3 DEF n
<1> QED BY <1>2, <1>3, FS_Bijection DEF ExistsBijection
-----------------------------------------------------------------------------
(* Channels: which messages are under way, and how many *)

SomeIn(s, M) == \E i \in 1..Len(s) : s[i] \in M

AtMostOneIn(s, M) ==
  \A i, j \in 1..Len(s) : s[i] \in M /\ s[j] \in M => i = j

LEMMA SentIn ==
  ASSUME NEW S, NEW s \in Seq(S), NEW e \in S
  PROVE  /\ Append(s, e) \in Seq(S)
         /\ \A M : SomeIn(Append(s, e), M) <=> SomeIn(s, M) \/ e \in M
         /\ \A M : AtMostOneIn(s, M) /\ (e \in M => ~SomeIn(s, M))
                     => AtMostOneIn(Append(s, e), M)
<1> DEFINE t == Append(s, e)
<1>1. /\ t \in Seq(S) /\ Len(t) = Len(s) + 1 /\ Len(s) \in Nat
      /\ \A i \in 1..Len(s) : t[i] = s[i]
      /\ t[Len(s) + 1] = e
  BY AppendProperties
<1> HIDE DEF t
<1>2. \A i \in 1..Len(t) : i \in 1..Len(s) \/ i = Len(s) + 1
  BY <1>1
<1>3. /\ \A i \in 1..Len(s) : i \in 1..Len(t)
      /\ Len(s) + 1 \in 1..Len(t)
  BY <1>1
<1>4. ASSUME NEW M PROVE SomeIn(t, M) <=> SomeIn(s, M) \/ e \in M
  BY <1>1, <1>2, <1>3 DEF SomeIn
<1>5. ASSUME NEW M, AtMostOneIn(s, M), e \in M => ~SomeIn(s, M)
      PROVE  AtMostOneIn(t, M)
  <2> SUFFICES ASSUME NEW i \in 1..Len(t), NEW j \in 1..Len(t), t[i] \in M, t[j] \in M
               PROVE  i = j
    BY DEF AtMostOneIn
  <2>1. CASE e \in M
    BY <1>1, <1>2, <1>5, <2>1 DEF SomeIn
  <2>2. CASE e \notin M
    BY <1>1, <1>2, <1>5, <2>2 DEF AtMostOneIn
  <2> QED BY <2>1, <2>2
<1> QED BY <1>1, <1>4, <1>5 DEF t

LEMMA ReceivedFrom ==
  ASSUME NEW S, NEW s \in Seq(S), s # <<>>
  PROVE  /\ Head(s) \in S
         /\ Tail(s) \in Seq(S)
         /\ \A M : SomeIn(Tail(s), M) => SomeIn(s, M)
         /\ \A M : SomeIn(s, M) => SomeIn(Tail(s), M) \/ Head(s) \in M
         /\ \A M : Head(s) \in M => SomeIn(s, M)
         /\ \A M : AtMostOneIn(s, M) => AtMostOneIn(Tail(s), M)
         /\ \A M : AtMostOneIn(s, M) /\ Head(s) \in M => ~SomeIn(Tail(s), M)
<1> DEFINE t == Tail(s)
<1>1. /\ Head(s) = s[1] /\ Head(s) \in S /\ Len(s) \in Nat /\ 1 \in 1..Len(s)
  BY HeadFacts
<1>2. /\ t \in Seq(S) /\ Len(t) = Len(s) - 1
      /\ \A i \in 1..Len(t) : t[i] = s[i + 1]
  BY HeadTailProperties
<1> HIDE DEF t
<1>3. \A i \in 1..Len(t) : i + 1 \in 1..Len(s) /\ i + 1 # 1
  BY <1>1, <1>2
<1>4. \A i \in 1..Len(s) : i = 1 \/ (i - 1 \in 1..Len(t) /\ i - 1 + 1 = i)
  BY <1>1, <1>2
<1>5. \A i, j \in 1..Len(t) : i + 1 = j + 1 => i = j
  BY <1>1, <1>2
<1>6. ASSUME NEW M PROVE SomeIn(t, M) => SomeIn(s, M)
  BY <1>2, <1>3 DEF SomeIn
<1>7. ASSUME NEW M, SomeIn(s, M) PROVE SomeIn(t, M) \/ s[1] \in M
  <2>1. PICK i \in 1..Len(s) : s[i] \in M
    BY <1>7 DEF SomeIn
  <2>2. CASE i # 1
    <3>1. i - 1 \in 1..Len(t) /\ t[i - 1] = s[i]
      BY <1>2, <1>4, <2>2
    <3> QED BY <2>1, <3>1 DEF SomeIn
  <2> QED BY <2>1, <2>2
<1>8. ASSUME NEW M, AtMostOneIn(s, M) PROVE AtMostOneIn(t, M)
  BY <1>2, <1>3, <1>5, <1>8 DEF AtMostOneIn
<1>9. ASSUME NEW M, AtMostOneIn(s, M), s[1] \in M PROVE ~SomeIn(t, M)
  BY <1>1, <1>2, <1>3, <1>9 DEF AtMostOneIn, SomeIn
<1>10. ASSUME NEW M, s[1] \in M PROVE SomeIn(s, M)
  BY <1>1, <1>10 DEF SomeIn
<1> QED BY <1>1, <1>2, <1>6, <1>7, <1>8, <1>9, <1>10 DEF t

\* What a concatenation with one or two messages is.
LEMMA Batches ==
  ASSUME NEW S, NEW s \in Seq(S), NEW m \in S, NEW e \in S
  PROVE  /\ s \o <<>> = s
         /\ s \o <<m>> = Append(s, m)
         /\ s \o Append(<<>>, e) = Append(s, e)
         /\ s \o Append(<<m>>, e) = Append(Append(s, m), e)
<1>1. Append(<<>>, e) = <<e>> /\ Append(<<m>>, e) = <<m, e>>
  <2>1. <<m>> \in Seq(S) /\ <<m, e>> \in Seq(S) /\ <<>> \in Seq(S) /\ <<e>> \in Seq(S)
    OBVIOUS
  <2>2. Append(<<>>, e) = <<e>>
    BY <2>1, AppendProperties, SeqEqual
  <2>3. Append(<<m>>, e) = <<m, e>>
    <3> DEFINE u == Append(<<m>>, e)
               w == <<m, e>>
    <3>1. /\ u \in Seq(S) /\ Len(u) = 2 /\ u[1] = m /\ u[2] = e
          /\ w \in Seq(S) /\ Len(w) = 2 /\ w[1] = m /\ w[2] = e
      BY <2>1, AppendProperties
    <3> HIDE DEF u, w
    <3>2. \A i \in 1..2 : i = 1 \/ i = 2
      OBVIOUS
    <3>3. u = w
      BY <3>1, <3>2, SeqEqual
    <3> QED BY <3>3 DEF u, w
  <2> QED BY <2>2, <2>3
<1>2. s \o <<>> = s
  OBVIOUS
<1>3. s \o <<m>> = Append(s, m) /\ s \o <<e>> = Append(s, e)
  BY AppendIsConcat
<1>4. s \o <<m, e>> = Append(Append(s, m), e)
  <2> DEFINE u == s \o <<m, e>>
             w == Append(Append(s, m), e)
  <2>1. Len(u) = Len(s) + 2 /\ Len(w) = Len(s) + 2 /\ u \in Seq(S) /\ w \in Seq(S)
    OBVIOUS
  <2>2. ASSUME NEW i \in 1..Len(s) + 2 PROVE u[i] = w[i]
    OBVIOUS
  <2> HIDE DEF u, w
  <2>3. u = w
    BY <2>1, <2>2, SeqEqual
  <2> QED BY <2>3 DEF u, w
<1> QED BY <1>1, <1>2, <1>3, <1>4

\* Who stands before whom in a channel: a new message comes after all others.
LEMMA SentBefore ==
  ASSUME NEW S, NEW s \in Seq(S), NEW e \in S
  PROVE  /\ \A c, d : Before(s, c, d) => Before(Append(s, e), c, d)
         /\ \A c : SomeIn(s, {c}) => Before(Append(s, e), c, e)
         /\ \A c, d : Before(Append(s, e), c, d)
                        => Before(s, c, d) \/ (d = e /\ SomeIn(s, {c}))
<1> DEFINE t == Append(s, e)
<1>1. /\ Len(t) = Len(s) + 1 /\ Len(s) \in Nat
      /\ \A i \in 1..Len(s) : t[i] = s[i]
      /\ t[Len(s) + 1] = e
  BY AppendProperties
<1> HIDE DEF t
<1>2. \A i \in 1..Len(s) : i \in 1..Len(t) /\ i < Len(s) + 1
  BY <1>1
<1>3. Len(s) + 1 \in 1..Len(t)
  BY <1>1
<1>4. \A i, j \in 1..Len(t) :
        i < j => i \in 1..Len(s) /\ (j \in 1..Len(s) \/ j = Len(s) + 1)
  BY <1>1
<1>5. ASSUME NEW c, NEW d, Before(s, c, d) PROVE Before(t, c, d)
  BY <1>1, <1>2, <1>5 DEF Before
<1>6. ASSUME NEW c, SomeIn(s, {c}) PROVE Before(t, c, e)
  BY <1>1, <1>2, <1>3, <1>6 DEF Before, SomeIn
<1>7. ASSUME NEW c, NEW d, Before(t, c, d)
      PROVE  Before(s, c, d) \/ (d = e /\ SomeIn(s, {c}))
  <2>1. PICK i \in 1..Len(t), j \in 1..Len(t) : i < j /\ t[i] = c /\ t[j] = d
    BY <1>7 DEF Before
  <2>2. i \in 1..Len(s) /\ s[i] = c /\ (j \in 1..Len(s) \/ j = Len(s) + 1)
    BY <1>1, <1>4, <2>1
  <2>3. CASE j \in 1..Len(s)
    BY <1>1, <2>1, <2>2, <2>3 DEF Before
  <2>4. CASE j = Len(s) + 1
    BY <1>1, <2>1, <2>2, <2>4 DEF SomeIn
  <2> QED BY <2>2, <2>3, <2>4
<1> QED BY <1>5, <1>6, <1>7 DEF t

\* The first message, once it is taken, stood before all others.
LEMMA ReceivedBefore ==
  ASSUME NEW S, NEW s \in Seq(S), s # <<>>
  PROVE  /\ \A c, d : Before(Tail(s), c, d) => Before(s, c, d)
         /\ \A c, d : Before(s, c, d) => Before(Tail(s), c, d) \/ c = Head(s)
         /\ \A d : SomeIn(Tail(s), {d}) => Before(s, Head(s), d)
         /\ \A c : AtMostOneIn(s, {Head(s)}) => ~Before(s, c, Head(s))
<1> DEFINE t == Tail(s)
<1>1. Head(s) = s[1] /\ Len(s) \in Nat /\ 1 \in 1..Len(s)
  BY HeadFacts
<1>2. /\ t \in Seq(S) /\ Len(t) = Len(s) - 1
      /\ \A i \in 1..Len(t) : t[i] = s[i + 1]
  BY HeadTailProperties
<1> HIDE DEF t
<1>3. \A i \in 1..Len(t) : i + 1 \in 1..Len(s) /\ 1 < i + 1
  BY <1>1, <1>2
<1>4. \A i \in 1..Len(s) : i = 1 \/ (i - 1 \in 1..Len(t) /\ i - 1 + 1 = i)
  BY <1>1, <1>2
<1>5. ASSUME NEW c, NEW d, Before(t, c, d) PROVE Before(s, c, d)
  <2>1. PICK i \in 1..Len(t), j \in 1..Len(t) : i < j /\ t[i] = c /\ t[j] = d
    BY <1>5 DEF Before
  <2>2. i + 1 \in 1..Len(s) /\ j + 1 \in 1..Len(s) /\ i + 1 < j + 1
    BY <1>2, <1>3, <2>1
  <2> QED BY <1>2, <2>1, <2>2 DEF Before
<1>6. ASSUME NEW c, NEW d, Before(s, c, d) PROVE Before(t, c, d) \/ c = s[1]
  <2>1. PICK i \in 1..Len(s), j \in 1..Len(s) : i < j /\ s[i] = c /\ s[j] = d
    BY <1>6 DEF Before
  <2>2. CASE i # 1
    <3>1. j # 1
      BY <1>1, <2>1, <2>2
    <3>2. i - 1 \in 1..Len(t) /\ j - 1 \in 1..Len(t) /\ i - 1 < j - 1
      BY <1>1, <1>4, <2>1, <2>2, <3>1
    <3>3. t[i - 1] = s[i] /\ t[j - 1] = s[j]
      BY <1>2, <1>4, <2>2, <3>1, <3>2
    <3> QED BY <2>1, <3>2, <3>3 DEF Before
  <2> QED BY <2>1, <2>2
<1>7. ASSUME NEW d, SomeIn(t, {d}) PROVE Before(s, s[1], d)
  <2>1. PICK i \in 1..Len(t) : t[i] = d
    BY <1>7 DEF SomeIn
  <2>2. i + 1 \in 1..Len(s) /\ 1 < i + 1 /\ s[i + 1] = d
    BY <1>2, <1>3, <2>1
  <2> QED BY <1>1, <2>2 DEF Before
<1>8. ASSUME NEW c, AtMostOneIn(s, {s[1]}) PROVE ~Before(s, c, s[1])
  <2> SUFFICES ASSUME NEW i \in 1..Len(s), NEW j \in 1..Len(s), i < j, s[j] = s[1]
               PROVE  FALSE
    BY DEF Before
  <2>1. j = 1
    BY <1>1, <1>8 DEF AtMostOneIn
  <2> QED BY <1>1, <2>1
<1> QED BY <1>1, <1>5, <1>6, <1>7, <1>8 DEF t

\* Whoever stands before another is there, and so is the other.
LEMMA BothThere ==
  ASSUME NEW s, NEW c, NEW d, Before(s, c, d)
  PROVE  SomeIn(s, {c}) /\ SomeIn(s, {d})
BY DEF Before, SomeIn
=============================================================================
