------------------------------ MODULE WebLemmas ------------------------------
(***************************************************************************)
(* Lemmas about the operators the web modules are built from: an answer    *)
(* taken out of those under way, the sequence of a set, and induction on   *)
(* the numbers below a bound.                                              *)
(***************************************************************************)
EXTENDS Integers, Sequences, FiniteSets, SequencesExt, FiniteSetTheorems,
        SequenceTheorems, TLAPS

\* RemoveAt leaves out one element and moves those behind it.
LEMMA RemoveAtFacts ==
  ASSUME NEW S, NEW s \in Seq(S), NEW i \in 1 .. Len(s)
  PROVE  /\ RemoveAt(s, i) \in Seq(S)
         /\ Len(RemoveAt(s, i)) = Len(s) - 1
         /\ \A k \in 1 .. Len(s) - 1 :
              RemoveAt(s, i)[k] = IF k < i THEN s[k] ELSE s[k + 1]
<1> DEFINE a == SubSeq(s, 1, i - 1)
           b == SubSeq(s, i + 1, Len(s))
<1>1. a \in Seq(S) /\ Len(a) = i - 1 /\ \A k \in 1 .. i - 1 : a[k] = s[k]
  OBVIOUS
<1>2. b \in Seq(S) /\ Len(b) = Len(s) - i /\ \A k \in 1 .. Len(s) - i : b[k] = s[i + k]
  <2>1. Len(s) \in Nat /\ i + 1 \in Int
    OBVIOUS
  <2> QED BY SubSeqProperties, <2>1
<1>3. RemoveAt(s, i) = a \o b
  BY DEF RemoveAt
<1> HIDE DEF a, b
<1>4. /\ a \o b \in Seq(S)
      /\ Len(a \o b) = Len(a) + Len(b)
      /\ \A k \in 1 .. Len(a) + Len(b) : (a \o b)[k] = IF k <= Len(a) THEN a[k] ELSE b[k - Len(a)]
  BY <1>1, <1>2, ConcatProperties
<1>5. Len(a) + Len(b) = Len(s) - 1
  BY <1>1, <1>2
<1>6. ASSUME NEW k \in 1 .. Len(s) - 1
      PROVE  (a \o b)[k] = IF k < i THEN s[k] ELSE s[k + 1]
  <2>1. CASE k < i
    BY <1>1, <1>4, <1>5, <2>1
  <2>2. CASE ~(k < i)
    <3>1. (a \o b)[k] = b[k - (i - 1)] /\ k - (i - 1) \in 1 .. Len(s) - i
      BY <1>1, <1>4, <1>5, <2>2
    <3>2. b[k - (i - 1)] = s[i + (k - (i - 1))] /\ i + (k - (i - 1)) = k + 1
      BY <1>2, <3>1
    <3> QED BY <2>2, <3>1, <3>2
  <2> QED BY <2>1, <2>2
<1> QED BY <1>3, <1>4, <1>5, <1>6

\* Elements that tell whether they are late.
TellLate(S) ==
  \A r \in S : /\ r.late \in BOOLEAN /\ [r EXCEPT !.late = @] = r
               /\ \A b \in BOOLEAN : /\ [r EXCEPT !.late = b] \in S
                                     /\ [r EXCEPT !.late = b].late = b

\* Answer i taken out of those under way: the ones before it are late from then on.
Settled(s, i) == RemoveAt([k \in DOMAIN s |-> [s[k] EXCEPT !.late = @ \/ k < i]], i)

\* Taking answer i out marks those before it as late and changes nothing else.
LEMMA SettleFacts ==
  ASSUME NEW S, TellLate(S), NEW s \in Seq(S), NEW i \in DOMAIN s
  PROVE  /\ Settled(s, i) \in Seq(S)
         /\ Len(Settled(s, i)) = Len(s) - 1
         /\ \A k \in 1 .. Len(s) - 1 : k < i => Settled(s, i)[k] = [s[k] EXCEPT !.late = TRUE]
         /\ \A k \in 1 .. Len(s) - 1 : k >= i => Settled(s, i)[k] = s[k + 1]
<1> DEFINE t == Settled(s, i)
<1>a. /\ \A r \in S : r.late \in BOOLEAN /\ [r EXCEPT !.late = @] = r
      /\ \A r \in S, b \in BOOLEAN : [r EXCEPT !.late = b] \in S
  BY DEF TellLate
<1> DEFINE m == [k \in DOMAIN s |-> [s[k] EXCEPT !.late = @ \/ k < i]]
<1>1. DOMAIN s = 1 .. Len(s) /\ Len(s) \in Nat
  OBVIOUS
<1>2. \A k \in 1 .. Len(s) : m[k] \in S
  <2> SUFFICES ASSUME NEW k \in 1 .. Len(s)
               PROVE  [s[k] EXCEPT !.late = @ \/ k < i] \in S
    BY <1>1
  <2>1. (s[k].late \/ k < i) \in BOOLEAN /\ s[k] \in S
    OBVIOUS
  <2> QED BY <1>a, <2>1
<1>3. m \in Seq(S) /\ Len(m) = Len(s)
  BY <1>1, <1>2
<1>4. \A k \in 1 .. Len(s) : k < i => m[k] = [s[k] EXCEPT !.late = TRUE]
  <2> SUFFICES ASSUME NEW k \in 1 .. Len(s), k < i
               PROVE  [s[k] EXCEPT !.late = @ \/ k < i] = [s[k] EXCEPT !.late = TRUE]
    BY <1>1
  <2>1. (s[k].late \/ k < i) = TRUE
    OBVIOUS
  <2> QED BY <2>1
<1>5. \A k \in 1 .. Len(s) : k > i => m[k] = [s[k] EXCEPT !.late = @ \/ FALSE]
  <2> SUFFICES ASSUME NEW k \in 1 .. Len(s), k > i
               PROVE  [s[k] EXCEPT !.late = @ \/ k < i] = [s[k] EXCEPT !.late = @ \/ FALSE]
    BY <1>1
  <2>1. (k < i) = FALSE
    BY <1>1
  <2> QED BY <2>1
<1>6. t = RemoveAt(m, i)
  BY DEF Settled
<1> HIDE DEF m, t
<1>7. i \in 1 .. Len(m)
  BY <1>1, <1>3
<1>8. /\ t \in Seq(S) /\ Len(t) = Len(s) - 1
      /\ \A k \in 1 .. Len(s) - 1 : t[k] = IF k < i THEN m[k] ELSE m[k + 1]
  <2>1. \A S_, s_, i_ : s_ \in Seq(S_) /\ i_ \in 1 .. Len(s_) =>
          /\ RemoveAt(s_, i_) \in Seq(S_) /\ Len(RemoveAt(s_, i_)) = Len(s_) - 1
          /\ \A k \in 1 .. Len(s_) - 1 :
               RemoveAt(s_, i_)[k] = IF k < i_ THEN s_[k] ELSE s_[k + 1]
    BY RemoveAtFacts
  <2>2. /\ RemoveAt(m, i) \in Seq(S) /\ Len(RemoveAt(m, i)) = Len(m) - 1
        /\ \A k \in 1 .. Len(m) - 1 : RemoveAt(m, i)[k] = IF k < i THEN m[k] ELSE m[k + 1]
    BY <2>1, <1>3, <1>7
  <2> QED BY <2>2, <1>3, <1>6
<1>9. ASSUME NEW k \in 1 .. Len(s) - 1, k < i
      PROVE  t[k] = [s[k] EXCEPT !.late = TRUE]
  <2>1. k \in 1 .. Len(s)
    BY <1>1
  <2>2. t[k] = m[k]
    BY <2>1, <1>8, <1>9
  <2> QED BY <2>1, <2>2, <1>4, <1>9
<1>10. ASSUME NEW k \in 1 .. Len(s) - 1, k >= i
       PROVE  t[k] = s[k + 1]
  <2>0. k + 1 \in 1 .. Len(s) /\ k + 1 > i
    BY <1>1, <1>10
  <2>1. k + 1 \in 1 .. Len(s) /\ k + 1 > i /\ t[k] = m[k + 1]
    <3>1. ~(k < i)
      BY <1>1, <1>10
    <3> QED BY <2>0, <3>1, <1>8
  <2>2. m[k + 1] = [s[k + 1] EXCEPT !.late = @ \/ FALSE]
    BY <2>1, <1>5
  <2>3. (s[k + 1].late \/ FALSE) = s[k + 1].late
    BY <1>a, <2>1
  <2>4. [s[k + 1] EXCEPT !.late = @] = s[k + 1]
    BY <1>a, <2>1
  <2> QED BY <2>1, <2>2, <2>3, <2>4
<1> QED BY <1>8, <1>9, <1>10 DEF t

\* Induction on the natural numbers, with the set of those that have a property:
\* were x not in it, n |-> n + 1 would map the numbers up to x that are into a
\* smaller set of the same numbers.
LEMMA NatSetInduction ==
  ASSUME NEW G, 0 \in G, \A n \in Nat : n \in G => n + 1 \in G,
         NEW x \in Nat
  PROVE x \in G
<1> SUFFICES ASSUME x \notin G PROVE FALSE
  OBVIOUS
<1> DEFINE A == {n \in 0 .. x : n \in G}
           B == A \ {0}
           f == [n \in A |-> n + 1]
<1>1. IsFiniteSet(0 .. x) /\ A \subseteq 0 .. x /\ 0 \in A
  BY FS_Interval
<1>2. IsFiniteSet(A)
  BY <1>1, FS_Subset
<1>3. IsFiniteSet(B) /\ Cardinality(B) = Cardinality(A) - 1
  BY <1>1, <1>2, FS_RemoveElement
<1>4. Cardinality(A) \in Nat
  BY <1>2, FS_CardinalityType
<1>5. f \in [A -> B]
  <2> SUFFICES ASSUME NEW n \in A PROVE n + 1 \in B
    OBVIOUS
  <2>1. n # x
    OBVIOUS
  <2> QED BY <2>1
<1>6. \A m, n \in A : f[m] = f[n] => m = n
  OBVIOUS
<1> HIDE DEF A, B, f
<1>7. \E m, n \in A : m # n /\ f[m] = f[n]
  BY <1>2, <1>3, <1>4, <1>5, FS_PigeonHole
<1> QED BY <1>6, <1>7

\* The sequence of a finite set has each of its elements once.
LEMMA SetToSeqFacts ==
  ASSUME NEW S, IsFiniteSet(S)
  PROVE  /\ SetToSeq(S) \in [1 .. Cardinality(S) -> S]
         /\ IsInjective(SetToSeq(S))
<1>1. Cardinality(S) \in Nat /\ ExistsBijection(1 .. Cardinality(S), S)
  <2>1. PICK n \in Nat : ExistsBijection(1 .. n, S)
    BY FS_NatBijection
  <2>2. Cardinality(S) = n
    BY <2>1, FS_CountingElements
  <2> QED BY <2>1, <2>2
<1>2. \E f \in [1 .. Cardinality(S) -> S] : IsInjective(f)
  BY <1>1 DEF ExistsBijection, Bijection, Injection, IsInjective
<1> QED BY <1>2 DEF SetToSeq

\* A slice holds the elements at its places.
LEMMA SliceFacts ==
  ASSUME NEW S, NEW s \in Seq(S), NEW m \in 1 .. Len(s) + 1, NEW n \in 0 .. Len(s), m <= n + 1
  PROVE  /\ SubSeq(s, m, n) \in Seq(S)
         /\ ToSet(SubSeq(s, m, n)) = {s[k] : k \in m .. n}
<1> DEFINE t == SubSeq(s, m, n)
<1>0. Len(s) \in Nat /\ m \in Nat /\ n \in Nat
  OBVIOUS
<1>1. /\ t \in Seq(S) /\ Len(t) = n - m + 1
      /\ \A i \in 1 .. n - m + 1 : t[i] = s[m + i - 1]
  BY <1>0, SubSeqProperties
<1> HIDE DEF t
<1>2. DOMAIN t = 1 .. n - m + 1
  BY <1>1
<1>3. ASSUME NEW i \in 1 .. n - m + 1 PROVE \E k \in m .. n : t[i] = s[k]
  <2>1. m + i - 1 \in m .. n
    BY <1>0
  <2> QED BY <1>1, <2>1
<1>4. ASSUME NEW k \in m .. n PROVE \E i \in 1 .. n - m + 1 : t[i] = s[k]
  <2>1. k - m + 1 \in 1 .. n - m + 1 /\ m + (k - m + 1) - 1 = k
    BY <1>0
  <2>2. t[k - m + 1] = s[m + (k - m + 1) - 1]
    BY <1>1, <2>1
  <2> QED BY <2>1, <2>2
<1>5. ToSet(t) = {s[k] : k \in m .. n}
  <2> DEFINE T == {s[k] : k \in m .. n}
  <2>0. ToSet(t) = {t[i] : i \in 1 .. n - m + 1}
    BY <1>2 DEF ToSet
  <2>1. ASSUME NEW x \in ToSet(t) PROVE x \in T
    <3>1. PICK i \in 1 .. n - m + 1 : x = t[i]
      BY <2>0
    <3>2. PICK k \in m .. n : t[i] = s[k]
      BY <1>3
    <3> QED BY <3>1, <3>2
  <2>2. ASSUME NEW x \in T PROVE x \in ToSet(t)
    <3>1. PICK k \in m .. n : x = s[k]
      OBVIOUS
    <3>2. PICK i \in 1 .. n - m + 1 : t[i] = s[k]
      BY <1>4
    <3> QED BY <2>0, <3>1, <3>2
  <2> QED BY <2>1, <2>2
<1> QED BY <1>1, <1>5 DEF t

\* Different elements, followed by different ones that are not among them.
LEMMA JoinFacts ==
  ASSUME NEW S, NEW s \in Seq(S), NEW t \in Seq(S), IsInjective(s), IsInjective(t),
         ToSet(s) \cap ToSet(t) = {}
  PROVE  s \o t \in Seq(S) /\ IsInjective(s \o t)
<1>1. /\ s \o t \in Seq(S) /\ Len(s \o t) = Len(s) + Len(t)
      /\ \A k \in 1 .. Len(s) + Len(t) : (s \o t)[k] = IF k <= Len(s) THEN s[k] ELSE t[k - Len(s)]
  BY ConcatProperties
<1>2. /\ Len(s) \in Nat /\ Len(t) \in Nat
      /\ \A i, j \in 1 .. Len(s) : s[i] = s[j] => i = j
      /\ \A i, j \in 1 .. Len(t) : t[i] = t[j] => i = j
      /\ \A i \in 1 .. Len(s), j \in 1 .. Len(t) : s[i] # t[j]
  BY DEF IsInjective, ToSet
<1> DEFINE u == s \o t
<1> HIDE DEF u
<1>3. ASSUME NEW i \in 1 .. Len(s) + Len(t), NEW j \in 1 .. Len(s) + Len(t), u[i] = u[j]
      PROVE  i = j
  <2>0. u[i] = (IF i <= Len(s) THEN s[i] ELSE t[i - Len(s)])
        /\ u[j] = (IF j <= Len(s) THEN s[j] ELSE t[j - Len(s)])
    BY <1>1 DEF u
  <2>1. CASE i <= Len(s) /\ j <= Len(s)
    <3>1. i \in 1 .. Len(s) /\ j \in 1 .. Len(s)
      BY <1>2, <2>1
    <3>2. s[i] = s[j]
      BY <1>3, <2>0, <2>1
    <3> QED BY <1>2, <3>1, <3>2
  <2>2. CASE i <= Len(s) /\ ~(j <= Len(s))
    <3>1. i \in 1 .. Len(s) /\ j - Len(s) \in 1 .. Len(t)
      BY <1>2, <2>2
    <3> QED BY <1>2, <1>3, <2>0, <2>2, <3>1
  <2>3. CASE ~(i <= Len(s)) /\ j <= Len(s)
    <3>1. j \in 1 .. Len(s) /\ i - Len(s) \in 1 .. Len(t)
      BY <1>2, <2>3
    <3> QED BY <1>2, <1>3, <2>0, <2>3, <3>1
  <2>4. CASE ~(i <= Len(s)) /\ ~(j <= Len(s))
    <3>1. i - Len(s) \in 1 .. Len(t) /\ j - Len(s) \in 1 .. Len(t)
      BY <1>2, <2>4
    <3>2. i - Len(s) = j - Len(s)
      BY <1>2, <1>3, <2>0, <2>4, <3>1
    <3> QED BY <1>2, <3>2
  <2> QED BY <2>1, <2>2, <2>3, <2>4
<1> QED BY <1>1, <1>3 DEF IsInjective, u



\* The elements at the places from m to n.
SliceOf(s, m, n) == {s[k] : k \in m .. n}

\* What is left behind the first elements.
LEMMA RestFacts ==
  ASSUME NEW S, NEW s \in Seq(S), IsInjective(s), NEW m \in Nat
  PROVE  /\ SubSeq(s, m + 1, Len(s)) \in Seq(S)
         /\ IsInjective(SubSeq(s, m + 1, Len(s)))
         /\ m <= Len(s) =>
              ToSet(SubSeq(s, m + 1, Len(s))) = ToSet(s) \ {s[k] : k \in 1 .. m}
<1> DEFINE t == SubSeq(s, m + 1, Len(s))
<1>0. Len(s) \in Nat /\ \A i, j \in 1 .. Len(s) : s[i] = s[j] => i = j
  BY DEF IsInjective
<1>1. CASE m > Len(s)
  <2>1. t = <<>>
    BY <1>0, <1>1
  <2>2. t \in Seq(S) /\ IsInjective(t)
    BY <2>1 DEF IsInjective
  <2> QED BY <1>0, <1>1, <2>2
<1>2. CASE m <= Len(s)
  <2>1. /\ t \in Seq(S) /\ Len(t) = Len(s) - m
        /\ \A i \in 1 .. Len(s) - m : t[i] = s[m + i]
    <3>1. /\ \A i \in m + 1 .. Len(s) : s[i] \in S
          /\ m + 1 \in Int /\ Len(s) \in Int
      BY <1>0
    <3>2. \A i \in 1 .. Len(s) - m : (m + 1) + i - 1 = m + i
      BY <1>0
    <3>3. Len(s) - (m + 1) + 1 = Len(s) - m
      BY <1>0
    <3>4. t \in Seq(S)
      BY <3>1, SubSeqProperties
    <3>5. Len(t) = IF m + 1 <= Len(s) THEN Len(s) - (m + 1) + 1 ELSE 0
      BY <3>1, SubSeqProperties
    <3>6. \A i \in 1 .. Len(s) - m : t[i] = s[(m + 1) + i - 1]
      BY <3>1, <3>3, SubSeqProperties
    <3>7. Len(t) = Len(s) - m
      BY <1>0, <1>2, <3>5
    <3> HIDE DEF t
    <3> QED BY <3>2, <3>4, <3>6, <3>7
  <2> HIDE DEF t
  <2>2. IsInjective(t)
    <3>1. DOMAIN t = 1 .. Len(s) - m
      BY <2>1
    <3>2. ASSUME NEW i \in 1 .. Len(s) - m, NEW j \in 1 .. Len(s) - m, t[i] = t[j]
          PROVE  i = j
      <4>1. s[m + i] = s[m + j] /\ m + i \in 1 .. Len(s) /\ m + j \in 1 .. Len(s)
        BY <1>0, <2>1, <3>2
      <4>2. m + i = m + j
        BY <1>0, <4>1
      <4> QED BY <4>2
    <3> QED BY <3>1, <3>2 DEF IsInjective
  <2>3. ToSet(t) = ToSet(s) \ {s[k] : k \in 1 .. m}
    <3>1. SliceOf(s, m + 1, Len(s)) = ToSet(t)
      <4>1. ToSet(SubSeq(s, m + 1, Len(s))) = {s[k] : k \in m + 1 .. Len(s)}
        <5>1. m + 1 \in 1 .. Len(s) + 1 /\ Len(s) \in 0 .. Len(s) /\ m + 1 <= Len(s) + 1
          BY <1>0, <1>2
        <5> QED BY <5>1, SliceFacts
      <4> QED BY <4>1 DEF SliceOf, t
    <3>2. ToSet(s) = {s[k] : k \in 1 .. Len(s)}
      BY DEF ToSet
    <3>3. ASSUME NEW x \in SliceOf(s, m + 1, Len(s))
          PROVE  x \in ToSet(s) /\ x \notin {s[k] : k \in 1 .. m}
      <4>1. PICK k \in m + 1 .. Len(s) : x = s[k]
        BY DEF SliceOf
      <4>2. k \in 1 .. Len(s) /\ \A i \in 1 .. m : i \in 1 .. Len(s) /\ i # k
        BY <1>0, <1>2
      <4> QED BY <1>0, <3>2, <4>1, <4>2
    <3>4. ASSUME NEW x \in ToSet(s), x \notin {s[k] : k \in 1 .. m}
          PROVE  x \in SliceOf(s, m + 1, Len(s))
      <4>1. PICK k \in 1 .. Len(s) : x = s[k]
        BY <3>2
      <4>2. k \in m + 1 .. Len(s)
        BY <1>0, <1>2, <3>4, <4>1
      <4> QED BY <4>1, <4>2 DEF SliceOf
    <3> QED BY <3>1, <3>3, <3>4
  <2> QED BY <2>1, <2>2, <2>3 DEF t
<1> QED BY <1>0, <1>1, <1>2

\* A new element at the end.
LEMMA AppendFacts ==
  ASSUME NEW S, NEW s \in Seq(S), IsInjective(s), NEW x \in S, x \notin ToSet(s)
  PROVE  Append(s, x) \in Seq(S) /\ IsInjective(Append(s, x))
<1>1. /\ Len(s) \in Nat
      /\ \A i, j \in 1 .. Len(s) : s[i] = s[j] => i = j
      /\ \A i \in 1 .. Len(s) : s[i] # x
  BY DEF IsInjective, ToSet
<1> DEFINE t == Append(s, x)
<1>2. t \in Seq(S) /\ Len(t) = Len(s) + 1 /\ t[Len(s) + 1] = x
      /\ \A i \in 1 .. Len(s) : t[i] = s[i]
  OBVIOUS
<1> HIDE DEF t
<1>3. \A i, j \in 1 .. Len(t) : t[i] = t[j] => i = j
  BY <1>1, <1>2
<1> QED BY <1>2, <1>3 DEF IsInjective, t


-----------------------------------------------------------------------------
(* The answers that are awaited. *)

\* What has been overtaken by an answer was asked for before what has not.
Overtaken(s) == \A i, k \in DOMAIN s : i < k /\ s[k].late => s[i].late

\* The last question has not been overtaken.
Awaited(s) == s # <<>> /\ ~s[Len(s)].late

\* With answer i the last question stays awaited, unless it is the one answered
\* or i was overtaken.
LEMMA AnswerFacts ==
  ASSUME NEW S, TellLate(S), NEW s \in Seq(S), Overtaken(s), NEW i \in DOMAIN s, ~s[i].late
  PROVE  /\ Overtaken(Settled(s, i))
         /\ Awaited(s)
         /\ IF i = Len(s) THEN ~Awaited(Settled(s, i))
            ELSE Awaited(Settled(s, i)) /\ Settled(s, i)[Len(Settled(s, i))] = s[Len(s)]
<1> DEFINE t == Settled(s, i)
<1>0. Len(s) \in Nat /\ i \in 1 .. Len(s) /\ DOMAIN s = 1 .. Len(s)
  OBVIOUS
<1>1. /\ t \in Seq(S) /\ Len(t) = Len(s) - 1
      /\ \A k \in 1 .. Len(s) - 1 : k < i => t[k] = [s[k] EXCEPT !.late = TRUE]
      /\ \A k \in 1 .. Len(s) - 1 : k >= i => t[k] = s[k + 1]
  BY SettleFacts
<1> HIDE DEF t
<1>2. DOMAIN t = 1 .. Len(s) - 1
  BY <1>0, <1>1
<1>3. \A k \in 1 .. Len(s) - 1 : k < i => t[k].late
  <2> SUFFICES ASSUME NEW k \in 1 .. Len(s) - 1, k < i PROVE t[k].late
    OBVIOUS
  <2>1. t[k] = [s[k] EXCEPT !.late = TRUE] /\ s[k] \in S
    BY <1>0, <1>1
  <2>2. [s[k] EXCEPT !.late = TRUE].late
    BY <2>1 DEF TellLate
  <2> QED BY <2>1, <2>2
<1>4. Overtaken(t)
  <2> SUFFICES ASSUME NEW j \in 1 .. Len(s) - 1, NEW k \in 1 .. Len(s) - 1, j < k, t[k].late
               PROVE  t[j].late
    BY <1>2 DEF Overtaken
  <2>1. CASE j < i
    BY <1>3, <2>1
  <2>2. CASE j >= i
    <3>1. t[j] = s[j + 1] /\ t[k] = s[k + 1] /\ j + 1 \in DOMAIN s /\ k + 1 \in DOMAIN s
          /\ j + 1 < k + 1
      BY <1>0, <1>1, <2>2
    <3> QED BY <3>1 DEF Overtaken
  <2> QED BY <2>1, <2>2
<1>5. Awaited(s)
  <2>1. Len(s) \in DOMAIN s /\ s # <<>>
    BY <1>0
  <2>2. i < Len(s) \/ i = Len(s)
    BY <1>0
  <2> QED BY <2>1, <2>2 DEF Overtaken, Awaited
<1>6. CASE i = Len(s)
  <2>1. t # <<>> => Len(t) \in 1 .. Len(s) - 1 /\ Len(t) < i
    BY <1>0, <1>1, <1>6
  <2>2. ~Awaited(t)
    BY <1>3, <2>1 DEF Awaited
  <2> QED BY <1>4, <1>5, <1>6, <2>2 DEF t
<1>7. CASE i # Len(s)
  <2>1. Len(t) \in 1 .. Len(s) - 1 /\ Len(t) >= i /\ Len(t) + 1 = Len(s) /\ t # <<>>
    BY <1>0, <1>1, <1>7
  <2>2. t[Len(t)] = s[Len(s)]
    BY <1>1, <2>1
  <2>3. Awaited(t)
    BY <1>5, <2>1, <2>2 DEF Awaited
  <2> QED BY <1>4, <1>5, <1>7, <2>2, <2>3 DEF t
<1> QED BY <1>6, <1>7

\* A new question is the last one, and awaited.
LEMMA QuestionFacts ==
  ASSUME NEW S, NEW s \in Seq(S), NEW r \in S, ~r.late
  PROVE  /\ Append(s, r) \in Seq(S)
         /\ Overtaken(s) => Overtaken(Append(s, r))
         /\ Awaited(Append(s, r)) /\ Append(s, r)[Len(Append(s, r))] = r
<1> DEFINE t == Append(s, r)
<1>1. /\ Len(s) \in Nat /\ DOMAIN s = 1 .. Len(s)
      /\ t \in Seq(S) /\ Len(t) = Len(s) + 1 /\ t[Len(s) + 1] = r /\ DOMAIN t = 1 .. Len(s) + 1
      /\ \A k \in 1 .. Len(s) : t[k] = s[k]
  OBVIOUS
<1> HIDE DEF t
<1>2. Awaited(t) /\ t[Len(t)] = r
  <2>1. t # <<>>
    BY <1>1
  <2> QED BY <1>1, <2>1 DEF Awaited
<1>3. ASSUME Overtaken(s) PROVE Overtaken(t)
  <2> SUFFICES ASSUME NEW j \in 1 .. Len(s) + 1, NEW k \in 1 .. Len(s) + 1, j < k, t[k].late
               PROVE  t[j].late
    BY <1>1 DEF Overtaken
  <2>1. k # Len(s) + 1
    BY <1>1
  <2>2. j \in 1 .. Len(s) /\ k \in 1 .. Len(s)
    BY <1>1, <2>1
  <2> QED BY <1>1, <1>3, <2>2 DEF Overtaken
<1> QED BY <1>1, <1>2, <1>3 DEF t

=============================================================================
