----------------------------- MODULE DataLemmas -----------------------------
(***************************************************************************)
(* Facts about sets of numbers, about queues and about sequences that are  *)
(* gathered from others, which the proofs of several components cite.      *)
(***************************************************************************)
EXTENDS Integers, SequencesExt, SequenceTheorems, FiniteSetTheorems, WellFoundedInduction,
        TLAPS

\* A nonempty set of numbers up to N has a largest element: what justifies every
\* CHOOSE of a latest event.
LEMMA LargestExists ==
  ASSUME NEW N \in Nat, NEW S \in SUBSET (0..N), S # {}
  PROVE  \E d \in S : \A f \in S : f <= d
<1> DEFINE R == OpToRel(<, Nat)
           T == {k \in Nat : N - k \in S}
<1>1. T \subseteq Nat /\ T # {}
  <2>1. PICK s \in S : TRUE
    OBVIOUS
  <2>2. N - s \in T
    <3>1. N - s \in Nat /\ N - (N - s) = s
      OBVIOUS
    <3> QED BY <3>1, <2>1
  <2> QED BY <2>2
<1>2. PICK x \in T : \A y \in T : ~ (<<y, x>> \in R)
  <2> HIDE DEF T, R
  <2>1. IsWellFoundedOn(R, Nat)
    BY NatLessThanWellFounded DEF R
  <2> QED BY <1>1, <2>1, WFMin
<1>3. \A y \in T : ~ (y < x)
  BY <1>1, <1>2 DEF OpToRel
<1>4. ASSUME NEW f \in S  PROVE  f <= N - x
  <2>1. N - f \in Nat /\ N - (N - f) = f
    OBVIOUS
  <2>2. N - f \in T
    BY <2>1
  <2> QED BY <1>3, <2>1, <2>2
<1> QED BY <1>4

\* A nonempty set of indices has a smallest one: the first that a search finds.
LEMMA SmallestExists ==
  ASSUME NEW S \in SUBSET Nat, S # {}
  PROVE  \E d \in S : \A f \in S : d <= f
<1> DEFINE R == OpToRel(<, Nat)
<1>1. PICK d \in S : \A f \in S : ~ (<<f, d>> \in R)
  <2> HIDE DEF R
  <2>1. IsWellFoundedOn(R, Nat)
    BY NatLessThanWellFounded DEF R
  <2> QED BY <2>1, WFMin
<1>2. \A f \in S : ~ (f < d)
  BY <1>1 DEF OpToRel
<1> QED BY <1>2

\* Appending an element that is not there keeps a queue free of repeats.
LEMMA AppendElements ==
  ASSUME NEW S, NEW s \in Seq(S), NEW e \in S
  PROVE  /\ Range(Append(s, e)) = Range(s) \cup {e}
         /\ IsInjective(s) /\ e \notin Range(s) => IsInjective(Append(s, e))
<1> DEFINE t == Append(s, e)
<1>1. /\ DOMAIN s = 1..Len(s)
      /\ DOMAIN t = 1..(Len(s) + 1)
      /\ Len(s) \in Nat
      /\ \A i \in 1..Len(s) : t[i] = s[i]
      /\ t[Len(s) + 1] = e
  BY AppendProperties, LenProperties
<1> HIDE DEF t
<1>2. Range(t) = Range(s) \cup {e}
  BY <1>1 DEF Range
<1>3. ASSUME IsInjective(s), e \notin Range(s)  PROVE IsInjective(t)
  BY <1>1, <1>3 DEF IsInjective, Range
<1> QED BY <1>2, <1>3 DEF t

\* What is left of a queue without repeats when its head is taken.
LEMMA TailElements ==
  ASSUME NEW S, NEW s \in Seq(S), s # <<>>, IsInjective(s)
  PROVE  /\ Head(s) \in Range(s)
         /\ Range(Tail(s)) = Range(s) \ {Head(s)}
         /\ IsInjective(Tail(s))
<1> DEFINE t == Tail(s)
<1>1. /\ DOMAIN s = 1..Len(s)
      /\ Len(s) \in Nat \ {0}
      /\ DOMAIN t = 1..(Len(s) - 1)
      /\ \A i \in 1..(Len(s) - 1) : t[i] = s[i + 1]
      /\ Head(s) = s[1]
  BY HeadTailProperties, LenProperties, EmptySeq
<1> HIDE DEF t
<1>2. Head(s) \in Range(s)
  BY <1>1 DEF Range
<1>3. IsInjective(t)
  BY <1>1 DEF IsInjective
<1>4. ASSUME NEW x \in Range(t)  PROVE  x \in Range(s) \ {Head(s)}
  <2>1. PICK i \in 1..(Len(s) - 1) : x = s[i + 1]
    BY <1>1, <1>4 DEF Range
  <2>2. i + 1 \in 1..Len(s) /\ i + 1 # 1 /\ 1 \in 1..Len(s)
    BY <1>1
  <2> QED BY <2>1, <2>2, <1>1 DEF Range, IsInjective
<1>5. ASSUME NEW x \in Range(s) \ {Head(s)}  PROVE  x \in Range(t)
  <2>1. PICK i \in 1..Len(s) : x = s[i]
    BY <1>1, <1>5 DEF Range
  <2>2. i # 1
    BY <2>1, <1>1, <1>5
  <2>3. i - 1 \in 1..(Len(s) - 1) /\ (i - 1) + 1 = i
    BY <2>2, <1>1
  <2>4. t[i - 1] = x
    BY <2>1, <2>3, <1>1
  <2> QED BY <2>3, <2>4, <1>1 DEF Range
<1> QED BY <1>2, <1>3, <1>4, <1>5 DEF t

\* Two disjoint queues without repeats, one put behind the other.
LEMMA ConcatElements ==
  ASSUME NEW S, NEW s \in Seq(S), NEW t \in Seq(S)
  PROVE  /\ Range(s \o t) = Range(s) \cup Range(t)
         /\ IsInjective(s) /\ IsInjective(t) /\ Range(s) \cap Range(t) = {}
              => IsInjective(s \o t)
<1> DEFINE u == s \o t
<1>1. /\ DOMAIN s = 1..Len(s) /\ Len(s) \in Nat
      /\ DOMAIN t = 1..Len(t) /\ Len(t) \in Nat
      /\ DOMAIN u = 1..(Len(s) + Len(t))
      /\ \A i \in 1..(Len(s) + Len(t)) : u[i] = IF i <= Len(s) THEN s[i] ELSE t[i - Len(s)]
  BY ConcatProperties, LenProperties
<1> HIDE DEF u
<1>2. ASSUME NEW x \in Range(u)  PROVE  x \in Range(s) \cup Range(t)
  <2>1. PICK i \in 1..(Len(s) + Len(t)) : x = u[i]
    BY <1>1, <1>2 DEF Range
  <2>2. CASE i <= Len(s)
    BY <2>1, <2>2, <1>1 DEF Range
  <2>3. CASE ~(i <= Len(s))
    <3>1. i - Len(s) \in 1..Len(t)
      BY <2>3, <1>1
    <3> QED BY <2>1, <2>3, <3>1, <1>1 DEF Range
  <2> QED BY <2>2, <2>3
<1>3. ASSUME NEW x \in Range(s)  PROVE  x \in Range(u)
  BY <1>1, <1>3 DEF Range
<1>4. ASSUME NEW x \in Range(t)  PROVE  x \in Range(u)
  <2>1. PICK i \in 1..Len(t) : x = t[i]
    BY <1>1, <1>4 DEF Range
  <2>2. /\ Len(s) + i \in 1..(Len(s) + Len(t))
        /\ ~(Len(s) + i <= Len(s)) /\ (Len(s) + i) - Len(s) = i
    BY <1>1
  <2> QED BY <2>1, <2>2, <1>1 DEF Range
<1>5. ASSUME IsInjective(s), IsInjective(t), Range(s) \cap Range(t) = {}
      PROVE  IsInjective(u)
  <2>1. \A i \in 1..Len(s), j \in 1..Len(t) : s[i] # t[j]
    BY <1>5, <1>1 DEF Range
  <2>2. \A i, j \in 1..Len(s) : s[i] = s[j] => i = j
    BY <1>5, <1>1 DEF IsInjective
  <2>3. \A i, j \in 1..Len(t) : t[i] = t[j] => i = j
    BY <1>5, <1>1 DEF IsInjective
  <2>4. \A i \in 1..(Len(s) + Len(t)) : ~(i <= Len(s)) => i - Len(s) \in 1..Len(t)
    BY <1>1
  <2> QED BY <1>1, <2>1, <2>2, <2>3, <2>4 DEF IsInjective
<1> QED BY <1>2, <1>3, <1>4, <1>5 DEF u

\* How often an element is in a queue.
Copies(s, x) == Cardinality({i \in DOMAIN s : s[i] = x})

LEMMA NoCopies == \A x : Copies(<<>>, x) = 0
<1> SUFFICES ASSUME NEW x PROVE Copies(<<>>, x) = 0
  OBVIOUS
<1>1. {i \in DOMAIN <<>> : <<>>[i] = x} = {}
  OBVIOUS
<1> QED BY <1>1, FS_EmptySet DEF Copies

\* One is appended, or the head is taken.
LEMMA CopiesAppend ==
  ASSUME NEW S, NEW s \in Seq(S), NEW e \in S, NEW x
  PROVE  /\ Copies(s, x) \in Nat
         /\ Copies(Append(s, e), x) = Copies(s, x) + IF e = x THEN 1 ELSE 0
<1> DEFINE t == Append(s, e)
           A == {i \in DOMAIN s : s[i] = x}
           B == {i \in DOMAIN t : t[i] = x}
           n == Len(s)
<1>1. /\ n \in Nat /\ DOMAIN s = 1..n /\ DOMAIN t = 1..(n + 1)
      /\ \A i \in 1..n : t[i] = s[i]
      /\ t[n + 1] = e
  BY AppendProperties, LenProperties
<1> HIDE DEF t, n
<1>2. IsFiniteSet(A) /\ Cardinality(A) \in Nat
  <2>1. IsFiniteSet(1..n)
    BY <1>1, FS_Interval
  <2> QED BY <1>1, <2>1, FS_Subset, FS_CardinalityType
<1>3. n + 1 \notin A
  BY <1>1
<1>4. B = IF e = x THEN A \cup {n + 1} ELSE A
  BY <1>1
<1> HIDE DEF A, B
<1>5. Cardinality(B) = Cardinality(A) + IF e = x THEN 1 ELSE 0
  <2>1. Cardinality(A \cup {n + 1}) = Cardinality(A) + 1
    BY <1>2, <1>3, FS_AddElement
  <2>2. CASE e = x
    BY <1>4, <2>1, <2>2
  <2>3. CASE e # x
    BY <1>2, <1>4, <2>3
  <2> QED BY <2>2, <2>3
<1> QED BY <1>2, <1>5 DEF A, B, t, Copies

LEMMA CopiesTail ==
  ASSUME NEW S, NEW s \in Seq(S), s # <<>>, NEW x
  PROVE  /\ Copies(Tail(s), x) \in Nat
         /\ Copies(s, x) = Copies(Tail(s), x) + IF Head(s) = x THEN 1 ELSE 0
<1> DEFINE t == Tail(s)
           A == {i \in DOMAIN s : s[i] = x}
           B == {i \in DOMAIN t : t[i] = x}
           n == Len(s)
           f == [i \in B |-> i + 1]
<1>1. /\ n \in Nat \ {0} /\ DOMAIN s = 1..n /\ DOMAIN t = 1..(n - 1)
      /\ \A i \in 1..(n - 1) : t[i] = s[i + 1]
      /\ Head(s) = s[1]
  <2>1. n \in Nat \ {0}
    BY EmptySeq
  <2> QED BY <2>1, HeadTailProperties, LenProperties
<1> HIDE DEF t, n
<1>2. IsFiniteSet(A) /\ IsFiniteSet(B) /\ Cardinality(B) \in Nat
  <2>1. IsFiniteSet(1..n) /\ IsFiniteSet(1..(n - 1))
    BY <1>1, FS_Interval
  <2>2. A \in SUBSET (1..n) /\ B \in SUBSET (1..(n - 1))
    BY <1>1
  <2> QED BY <2>1, <2>2, FS_Subset, FS_CardinalityType
<1>3. f \in Bijection(B, A \ {1})
  <2>1. f \in [B -> A \ {1}]
    BY <1>1
  <2>2. \A i, j \in B : f[i] = f[j] => i = j
    BY <1>1
  <2>3. ASSUME NEW k \in A \ {1} PROVE \E i \in B : f[i] = k
    <3>1. k - 1 \in 1..(n - 1) /\ (k - 1) + 1 = k
      BY <1>1, <2>3
    <3> QED BY <1>1, <2>3, <3>1
  <2> HIDE DEF A, B, f
  <2> QED BY <2>1, <2>2, <2>3 DEF Bijection, Injection, Surjection, IsInjective
<1>4. 1 \in A <=> Head(s) = x
  BY <1>1
<1> HIDE DEF A, B, f
<1>5. Cardinality(A \ {1}) = Cardinality(B)
  BY <1>2, <1>3, FS_Bijection DEF ExistsBijection
<1>6. Cardinality(A) = Cardinality(B) + IF Head(s) = x THEN 1 ELSE 0
  <2>1. Cardinality(A \ {1}) = IF 1 \in A THEN Cardinality(A) - 1 ELSE Cardinality(A)
    BY <1>2, FS_RemoveElement
  <2>2. Cardinality(A) \in Nat
    BY <1>2, FS_CardinalityType
  <2>3. CASE 1 \in A
    BY <1>4, <1>5, <2>1, <2>2, <2>3
  <2>4. CASE 1 \notin A
    BY <1>4, <1>5, <2>1, <2>2, <2>4
  <2> QED BY <2>3, <2>4
<1> QED BY <1>2, <1>6 DEF A, B, t, Copies

\* Elements with different ranks can be counted off in the order of their ranks.
CountedTo(E, rank, p) == {q \in E : rank[q] <= rank[p]}

LEMMA CountedOff ==
  ASSUME NEW E, IsFiniteSet(E), NEW rank, \A e \in E : rank[e] \in Nat,
         \A e, f \in E : rank[e] = rank[f] => e = f
  PROVE  /\ \A p \in E : Cardinality(CountedTo(E, rank, p)) \in 1..Cardinality(E)
         /\ \A p, q \in E : rank[p] < rank[q] =>
              Cardinality(CountedTo(E, rank, p)) < Cardinality(CountedTo(E, rank, q))
         /\ \A i \in 1..Cardinality(E) : \E p \in E : Cardinality(CountedTo(E, rank, p)) = i
<1> DEFINE n == Cardinality(E)
           C(p) == Cardinality(CountedTo(E, rank, p))
           f == [p \in E |-> C(p)]
<1>1. ASSUME NEW p \in E
      PROVE  /\ IsFiniteSet(CountedTo(E, rank, p)) /\ C(p) \in Nat /\ n \in Nat
             /\ C(p) <= n /\ C(p) # 0
  <2>1. CountedTo(E, rank, p) \in SUBSET E /\ p \in CountedTo(E, rank, p)
    BY DEF CountedTo
  <2>2. IsFiniteSet(CountedTo(E, rank, p)) /\ C(p) <= n
    BY <2>1, FS_Subset
  <2>3. C(p) \in Nat /\ n \in Nat
    BY <2>2, FS_CardinalityType
  <2>4. C(p) # 0
    BY <2>1, <2>2, FS_EmptySet
  <2> QED BY <2>2, <2>3, <2>4
<1>2. ASSUME NEW p \in E, NEW q \in E, rank[p] < rank[q] PROVE C(p) < C(q)
  <2>1. CountedTo(E, rank, p) \in SUBSET CountedTo(E, rank, q)
    BY <1>2 DEF CountedTo
  <2>2. q \in CountedTo(E, rank, q) /\ q \notin CountedTo(E, rank, p)
    BY <1>2 DEF CountedTo
  <2>3. C(p) <= C(q) /\ C(p) # C(q)
    BY <1>1, <2>1, <2>2, FS_Subset
  <2> HIDE DEF C
  <2> QED BY <1>1, <2>3
<1>3. f \in Injection(E, 1..n)
  <2>1. \A p \in E : C(p) \in 1..n
    <3> HIDE DEF C, n
    <3> QED BY <1>1
  <2>2. \A p, q \in E : C(p) = C(q) => p = q
    <3> SUFFICES ASSUME NEW p \in E, NEW q \in E, p # q PROVE C(p) # C(q)
      OBVIOUS
    <3>1. rank[p] \in Nat /\ rank[q] \in Nat /\ rank[p] # rank[q]
      OBVIOUS
    <3>2. rank[p] < rank[q] \/ rank[q] < rank[p]
      BY <3>1
    <3>3. C(p) < C(q) \/ C(q) < C(p)
      BY <1>2, <3>2
    <3> HIDE DEF C
    <3> QED BY <1>1, <3>3
  <2>3. f \in [E -> 1..n]
    BY <2>1
  <2> HIDE DEF C, n
  <2> QED BY <2>2, <2>3 DEF Injection, IsInjective
<1>4. f \in Surjection(E, 1..n)
  <2>1. n \in Nat
    BY FS_CardinalityType
  <2>2. IsFiniteSet(1..n) /\ Cardinality(1..n) = n
    BY <2>1, FS_Interval
  <2> HIDE DEF f
  <2> QED BY <1>3, <2>2, FS_Injection
<1>5. \A i \in 1..n : \E p \in E : C(p) = i
  <2>1. \A i \in 1..n : \E p \in E : f[p] = i
    BY <1>4 DEF Surjection
  <2> QED BY <2>1
<1>6. \A p \in E : C(p) \in 1..n
  <2> HIDE DEF C, n
  <2> QED BY <1>1
<1> QED BY <1>2, <1>5, <1>6

\* Induction, for sets of numbers.
LEMMA SetInduction ==
  ASSUME NEW U, 0 \in U, \A n \in Nat : n \in U => n + 1 \in U
  PROVE  Nat \subseteq U
<1> SUFFICES ASSUME Nat \ U # {} PROVE FALSE
  OBVIOUS
<1>1. PICK d \in Nat \ U : \A f \in Nat \ U : d <= f
  <2> DEFINE V == Nat \ U
  <2>1. V \in SUBSET Nat /\ V # {}
    OBVIOUS
  <2> HIDE DEF V
  <2>2. \E d \in V : \A f \in V : d <= f
    BY <2>1, SmallestExists
  <2> QED BY <2>2 DEF V
<1>2. d - 1 \in Nat /\ (d - 1) + 1 = d /\ ~(d <= d - 1)
  <2>1. d # 0
    BY <1>1
  <2> QED BY <2>1
<1>3. d - 1 \in U
  BY <1>1, <1>2
<1> QED BY <1>1, <1>2, <1>3

\* The parts of a sequence of sequences that have been put together after each of them.
Flattens(f, ss, n, S) ==
  /\ f \in [1..n -> S]
  /\ \A i \in 1..n : f[i] = IF i = 1 THEN ss[i] ELSE f[i - 1] \o ss[i]

LEMMA FlattensExists ==
  ASSUME NEW U, NEW ss \in Seq(Seq(U)), NEW m \in Nat, m <= Len(ss)
  PROVE  \E f : Flattens(f, ss, m, Seq(U))
<1> DEFINE V == {n \in Nat : n <= Len(ss) => \E f : Flattens(f, ss, n, Seq(U))}
<1>1. 0 \in V
  <2>1. Flattens([i \in 1..0 |-> <<>>], ss, 0, Seq(U))
    BY DEF Flattens
  <2> QED BY <2>1
<1>2. ASSUME NEW n \in Nat, n \in V PROVE n + 1 \in V
  <2> SUFFICES ASSUME n + 1 <= Len(ss) PROVE \E f : Flattens(f, ss, n + 1, Seq(U))
    OBVIOUS
  <2>1. Len(ss) \in Nat /\ n + 1 \in Nat /\ n <= Len(ss)
    OBVIOUS
  <2>2. PICK f : Flattens(f, ss, n, Seq(U))
    BY <1>2, <2>1
  <2> DEFINE e == IF n = 0 THEN ss[n + 1] ELSE f[n] \o ss[n + 1]
             g == [i \in 1..(n + 1) |-> IF i = n + 1 THEN e ELSE f[i]]
  <2>3. e \in Seq(U)
    <3>1. ss[n + 1] \in Seq(U)
      BY <2>1, ElementOfSeq
    <3>2. n # 0 => f[n] \in Seq(U)
      BY <2>2 DEF Flattens
    <3> QED BY <3>1, <3>2, ConcatProperties
  <2>4. g \in [1..(n + 1) -> Seq(U)]
    <3> HIDE DEF e
    <3> QED BY <2>2, <2>3 DEF Flattens
  <2>5. ASSUME NEW i \in 1..(n + 1) PROVE g[i] = IF i = 1 THEN ss[i] ELSE g[i - 1] \o ss[i]
    <3>1. CASE i = n + 1
      <4>1. g[i] = e
        BY <3>1
      <4>2. CASE n = 0
        BY <3>1, <4>1, <4>2
      <4>3. CASE n # 0
        <5>1. i # 1 /\ i - 1 = n /\ n \in 1..(n + 1) /\ n # n + 1
          BY <3>1, <4>3
        <5>2. g[i - 1] = f[n]
          BY <5>1
        <5> QED BY <3>1, <4>1, <4>3, <5>1, <5>2
      <4> QED BY <4>2, <4>3
    <3>2. CASE i # n + 1
      <4>1. i \in 1..n /\ (i # 1 => i - 1 \in 1..n)
        BY <3>2
      <4>2. g[i] = f[i] /\ (i # 1 => g[i - 1] = f[i - 1])
        BY <4>1
      <4>3. f[i] = IF i = 1 THEN ss[i] ELSE f[i - 1] \o ss[i]
        BY <2>2, <4>1 DEF Flattens
      <4> HIDE DEF g
      <4> QED BY <4>2, <4>3
    <3> QED BY <3>1, <3>2
  <2> HIDE DEF g
  <2> QED BY <2>4, <2>5 DEF Flattens
<1>3. Nat \subseteq V
  <2> HIDE DEF V
  <2> QED BY <1>1, <1>2, SetInduction
<1> QED BY <1>3

\* One sequence more leaves the parts before it as they are.
LEMMA FlattensMore ==
  ASSUME NEW U, NEW ss \in Seq(Seq(U)), NEW s \in Seq(U), NEW f, NEW g,
         Flattens(f, ss, Len(ss), Seq(U)), Flattens(g, Append(ss, s), Len(ss) + 1, Seq(U))
  PROVE  \A i \in 1..Len(ss) : f[i] = g[i]
<1> DEFINE n == Len(ss)
           tt == Append(ss, s)
<1>1. n \in Nat /\ \A i \in 1..n : ss[i] = tt[i]
  BY AppendProperties
<1> HIDE DEF n, tt
<1>2. Flattens(f, ss, n, Seq(U)) /\ Flattens(g, tt, n + 1, Seq(U))
  BY DEF n, tt
<1> DEFINE V == {j \in Nat : j <= n => \A i \in 1..j : f[i] = g[i]}
<1>3. 0 \in V
  OBVIOUS
<1>4. ASSUME NEW j \in Nat, j \in V PROVE j + 1 \in V
  <2> SUFFICES ASSUME j + 1 <= n, NEW i \in 1..(j + 1) PROVE f[i] = g[i]
    OBVIOUS
  <2>1. \A h \in 1..j : f[h] = g[h]
    BY <1>1, <1>4
  <2>2. i \in 1..n /\ i \in 1..(n + 1) /\ (i # 1 => i - 1 \in 1..j)
    BY <1>1
  <2>3. /\ f[i] = IF i = 1 THEN ss[i] ELSE f[i - 1] \o ss[i]
        /\ g[i] = IF i = 1 THEN tt[i] ELSE g[i - 1] \o tt[i]
    BY <1>2, <2>2 DEF Flattens
  <2> QED BY <1>1, <2>1, <2>2, <2>3
<1>5. Nat \subseteq V
  <2> HIDE DEF V
  <2> QED BY <1>3, <1>4, SetInduction
<1> QED BY <1>1, <1>5 DEF n

LEMMA FlattenDef ==
  ASSUME NEW U, NEW ss \in Seq(Seq(U))
  PROVE  /\ ss = <<>> => FlattenSeq(ss) = <<>>
         /\ ss # <<>> => \E f : Flattens(f, ss, Len(ss), Seq(U)) /\ FlattenSeq(ss) = f[Len(ss)]
<1> DEFINE n == Len(ss)
           flat == CHOOSE f : f = [i \in 1..n |-> IF i = 1 THEN ss[i] ELSE f[i - 1] \o ss[i]]
<1>1. FlattenSeq(ss) = IF n = 0 THEN ss ELSE flat[n]
  BY DEF FlattenSeq
<1>2. n \in Nat /\ (n = 0 <=> ss = <<>>)
  BY EmptySeq
<1>3. Flattens(flat, ss, n, Seq(U))
  <2>1. PICK f : Flattens(f, ss, n, Seq(U))
    BY <1>2, FlattensExists
  <2>2. f = [i \in 1..n |-> IF i = 1 THEN ss[i] ELSE f[i - 1] \o ss[i]]
    BY <2>1 DEF Flattens
  <2>3. flat = [i \in 1..n |-> IF i = 1 THEN ss[i] ELSE flat[i - 1] \o ss[i]]
    BY <2>2
  <2> HIDE DEF flat
  <2>4. /\ DOMAIN flat = 1..n
        /\ \A i \in 1..n : flat[i] = IF i = 1 THEN ss[i] ELSE flat[i - 1] \o ss[i]
    BY <2>3
  <2> DEFINE V == {j \in Nat : j <= n => \A i \in 1..j : flat[i] = f[i]}
  <2>5. 0 \in V
    OBVIOUS
  <2>6. ASSUME NEW j \in Nat, j \in V PROVE j + 1 \in V
    <3> SUFFICES ASSUME j + 1 <= n, NEW i \in 1..(j + 1) PROVE flat[i] = f[i]
      OBVIOUS
    <3>1. \A h \in 1..j : flat[h] = f[h]
      BY <2>6
    <3>2. i \in 1..n /\ (i # 1 => i - 1 \in 1..j)
      BY <1>2
    <3>3. f[i] = IF i = 1 THEN ss[i] ELSE f[i - 1] \o ss[i]
      BY <2>1, <3>2 DEF Flattens
    <3> QED BY <2>4, <3>1, <3>2, <3>3
  <2>7. Nat \subseteq V
    <3> HIDE DEF V
    <3> QED BY <2>5, <2>6, SetInduction
  <2>8. \A i \in 1..n : flat[i] = f[i]
    <3>1. n \in V
      <4> HIDE DEF V
      <4> QED BY <1>2, <2>7
    <3> HIDE DEF n
    <3> QED BY <1>2, <3>1
  <2>9. flat \in [1..n -> Seq(U)]
    <3>1. flat = [i \in 1..n |-> flat[i]]
      BY <2>3, <2>4
    <3> QED BY <2>1, <2>8, <3>1 DEF Flattens
  <2> QED BY <2>4, <2>9 DEF Flattens
<1> HIDE DEF flat
<1> QED BY <1>1, <1>2, <1>3

LEMMA FlattensAdds ==
  ASSUME NEW U, NEW ss \in Seq(Seq(U)), NEW s \in Seq(U), NEW f, NEW g,
         Flattens(f, ss, Len(ss), Seq(U)), Flattens(g, Append(ss, s), Len(ss) + 1, Seq(U))
  PROVE  g[Len(ss) + 1] = IF Len(ss) = 0 THEN s ELSE f[Len(ss)] \o s
<1> DEFINE n == Len(ss)
           tt == Append(ss, s)
<1>1. n \in Nat /\ n + 1 \in 1..(n + 1) /\ (n + 1) - 1 = n /\ (n # 0 => n \in 1..n)
  OBVIOUS
<1>2. g[n + 1] = IF n + 1 = 1 THEN tt[n + 1] ELSE g[n] \o tt[n + 1]
  <2> HIDE DEF n, tt
  <2>1. Flattens(g, tt, n + 1, Seq(U))
    BY DEF n, tt
  <2> QED BY <1>1, <2>1 DEF Flattens
<1>3. n # 0 => f[n] = g[n]
  BY <1>1, FlattensMore
<1>4. tt[n + 1] = s
  BY AppendProperties
<1> HIDE DEF n, tt
<1> QED BY <1>1, <1>2, <1>3, <1>4 DEF n

\* Putting sequences together, none or one at a time.
LEMMA FlattenEmpty == FlattenSeq(<<>>) = <<>>
BY FlattenDef, EmptySeq

LEMMA FlattenAppend ==
  ASSUME NEW U, NEW ss \in Seq(Seq(U)), NEW s \in Seq(U)
  PROVE  /\ FlattenSeq(ss) \in Seq(U)
         /\ FlattenSeq(Append(ss, s)) = FlattenSeq(ss) \o s
<1>1. FlattenSeq(<<>>) = <<>>
  BY FlattenEmpty
<1>2. FlattenSeq(ss) \in Seq(U)
  <2>1. CASE ss = <<>>
    BY <1>1, <2>1, EmptySeq
  <2>2. CASE ss # <<>>
    <3>1. PICK f : Flattens(f, ss, Len(ss), Seq(U)) /\ FlattenSeq(ss) = f[Len(ss)]
      BY <2>2, FlattenDef
    <3>2. Len(ss) \in 1..Len(ss)
      BY <2>2, EmptySeq
    <3> QED BY <3>1, <3>2 DEF Flattens
  <2> QED BY <2>1, <2>2
<1>3. FlattenSeq(Append(ss, s)) = FlattenSeq(ss) \o s
  <2> DEFINE tt == Append(ss, s)
             n == Len(ss)
  <2>1. tt \in Seq(Seq(U)) /\ tt # <<>> /\ n \in Nat /\ Len(tt) = n + 1
    BY AppendProperties
  <2>2. PICK g : Flattens(g, tt, n + 1, Seq(U)) /\ FlattenSeq(tt) = g[n + 1]
    <3> HIDE DEF tt
    <3> QED BY <2>1, FlattenDef
  <2>3. PICK f : ss # <<>> => Flattens(f, ss, n, Seq(U)) /\ FlattenSeq(ss) = f[n]
    BY FlattenDef
  <2>4. CASE ss = <<>>
    <3>1. n = 0 /\ n \in Nat /\ n <= Len(ss)
      BY <2>4
    <3>2. PICK e : Flattens(e, ss, n, Seq(U))
      BY <3>1, FlattensExists
    <3>3. g[n + 1] = IF n = 0 THEN s ELSE e[n] \o s
      BY <2>2, <3>2, FlattensAdds
    <3>4. g[n + 1] = s
      BY <3>1, <3>3
    <3> QED BY <1>1, <2>2, <2>4, <3>4, ConcatEmptySeq
  <2>5. CASE ss # <<>>
    <3>1. n # 0
      BY <2>5, EmptySeq
    <3>2. g[n + 1] = f[n] \o s
      BY <2>2, <2>3, <2>5, <3>1, FlattensAdds
    <3> QED BY <2>2, <2>3, <2>5, <3>2
  <2> QED BY <2>4, <2>5
<1> QED BY <1>2, <1>3

LEMMA ThreeParts == \A U : \A x, y, z \in Seq(U) : (x \o y) \o z = x \o (y \o z)
BY ConcatAssociative

\* Sequences are the functions on the first numbers.
LEMMA FunctionIsSeq ==
  ASSUME NEW S, NEW n \in Nat, NEW s \in [1..n -> S]
  PROVE  s \in Seq(S) /\ Len(s) = n
<1>1. s \in Seq(S) /\ DOMAIN s = 1..n
  BY SeqDef
<1>2. Len(s) \in Nat /\ DOMAIN s = 1..Len(s)
  BY <1>1, LenProperties
<1>3. ~(Len(s) < n)
  <2>1. SUFFICES ASSUME Len(s) < n PROVE FALSE
    OBVIOUS
  <2>2. n \in 1..n /\ n \notin 1..Len(s)
    BY <1>2, <2>1
  <2> QED BY <1>1, <1>2, <2>2
<1>4. ~(n < Len(s))
  <2>1. SUFFICES ASSUME n < Len(s) PROVE FALSE
    OBVIOUS
  <2>2. Len(s) \in 1..Len(s) /\ Len(s) \notin 1..n
    BY <1>2, <2>1
  <2> QED BY <1>1, <1>2, <2>2
<1> QED BY <1>1, <1>2, <1>3, <1>4

\* What f says of each element of a sequence, put together.
Listings(A, U) == [A -> Seq(U)]

Gathered(f, s) == FlattenSeq([i \in DOMAIN s |-> f[s[i]]])

LEMMA GatheredEmpty == \A f : Gathered(f, <<>>) = <<>>
<1> SUFFICES ASSUME NEW f PROVE Gathered(f, <<>>) = <<>>
  OBVIOUS
<1>1. [i \in DOMAIN <<>> |-> f[<<>>[i]]] = <<>>
  OBVIOUS
<1> QED BY <1>1, FlattenEmpty DEF Gathered

LEMMA GatheredAppend ==
  ASSUME NEW U, NEW A, NEW f \in Listings(A, U)
  PROVE  \A s \in Seq(A) : \A a \in A : /\ Gathered(f, s) \in Seq(U)
                                       /\ Gathered(f, Append(s, a)) = Gathered(f, s) \o f[a]
<1> SUFFICES ASSUME NEW s \in Seq(A), NEW a \in A
             PROVE  /\ Gathered(f, s) \in Seq(U)
                    /\ Gathered(f, Append(s, a)) = Gathered(f, s) \o f[a]
  OBVIOUS
<1> DEFINE t == Append(s, a)
           ss == [i \in DOMAIN s |-> f[s[i]]]
           tt == [i \in DOMAIN t |-> f[t[i]]]
           n == Len(s)
<1>1. /\ n \in Nat /\ DOMAIN s = 1..n /\ DOMAIN t = 1..(n + 1)
      /\ \A i \in 1..n : s[i] \in A /\ t[i] = s[i]
      /\ t[n + 1] = a
  BY AppendProperties, LenProperties, ElementOfSeq
<1>2. f[a] \in Seq(U) /\ f \in [A -> Seq(U)]
  BY DEF Listings
<1> HIDE DEF n, t
<1>3. ss \in Seq(Seq(U)) /\ Len(ss) = n
  <2>1. ss \in [1..n -> Seq(U)]
    BY <1>1, <1>2
  <2> HIDE DEF ss
  <2> QED BY <1>1, <2>1, FunctionIsSeq
<1>4. tt = Append(ss, f[a])
  <2> DEFINE uu == Append(ss, f[a])
  <2>1. tt \in [1..(n + 1) -> Seq(U)] /\ tt[n + 1] = f[a]
    BY <1>1, <1>2
  <2>2. \A i \in 1..n : ss[i] = f[s[i]] /\ tt[i] = f[s[i]]
    BY <1>1
  <2> HIDE DEF ss, tt
  <2>3. /\ uu \in Seq(Seq(U)) /\ Len(uu) = n + 1
        /\ \A i \in 1..n : uu[i] = ss[i]
        /\ uu[n + 1] = f[a]
    BY <1>1, <1>2, <1>3, AppendProperties
  <2> HIDE DEF uu
  <2>4. tt \in Seq(Seq(U)) /\ Len(tt) = n + 1
    <3>1. n + 1 \in Nat
      BY <1>1
    <3> QED BY <2>1, <3>1, FunctionIsSeq
  <2>5. \A i \in 1..(n + 1) : i \in 1..n \/ i = n + 1
    BY <1>1
  <2>6. \A i \in 1..(n + 1) : tt[i] = uu[i]
    BY <2>1, <2>2, <2>3, <2>5
  <2>7. tt = uu
    BY <2>3, <2>4, <2>6, SeqEqual
  <2> QED BY <2>7 DEF uu
<1> HIDE DEF ss, tt
<1>5. FlattenSeq(ss) \in Seq(U) /\ FlattenSeq(Append(ss, f[a])) = FlattenSeq(ss) \o f[a]
  BY <1>2, <1>3, FlattenAppend
<1>6. Gathered(f, s) = FlattenSeq(ss) /\ Gathered(f, t) = FlattenSeq(tt)
  BY DEF Gathered, ss, tt
<1> QED BY <1>4, <1>5, <1>6 DEF t

LEMMA GatheredOne ==
  ASSUME NEW U, NEW A, NEW f \in Listings(A, U), NEW a \in A
  PROVE  Gathered(f, <<a>>) = f[a]
<1> DEFINE e == <<>>
<1>1. e \in Seq(A) /\ <<a>> = Append(e, a)
  BY EmptySeq
<1>2. Gathered(f, e) = <<>> /\ f[a] \in Seq(U)
  BY GatheredEmpty DEF Listings
<1> HIDE DEF e
<1>3. Gathered(f, Append(e, a)) = Gathered(f, e) \o f[a]
  BY <1>1, GatheredAppend
<1> QED BY <1>1, <1>2, <1>3, ConcatEmptySeq

LEMMA GatheredType ==
  ASSUME NEW U, NEW A, NEW f \in Listings(A, U), NEW s \in Seq(A)
  PROVE  Gathered(f, s) \in Seq(U)
<1>1. CASE s = <<>>
  BY <1>1, GatheredEmpty, EmptySeq
<1>2. CASE s # <<>>
  <2>1. Head(s) \in A
    BY <1>2, HeadTailProperties
  <2> QED BY <2>1, GatheredAppend
<1> QED BY <1>1, <1>2

LEMMA AppendBehind == \A S : \A s, t \in Seq(S) : \A a \in S : s \o Append(t, a) = Append(s \o t, a)
<1> SUFFICES ASSUME NEW S, NEW s \in Seq(S), NEW t \in Seq(S), NEW a \in S
             PROVE  s \o Append(t, a) = Append(s \o t, a)
  OBVIOUS
<1>1. Append(t, a) = t \o <<a>> /\ <<a>> \in Seq(S) /\ s \o t \in Seq(S)
  BY AppendIsConcat, ConcatProperties
<1>2. Append(s \o t, a) = (s \o t) \o <<a>> /\ s \o (t \o <<a>>) = (s \o t) \o <<a>>
  BY <1>1, AppendIsConcat, ConcatAssociative
<1> QED BY <1>1, <1>2

Joins(f, s, v) == Gathered(f, s \o v) = Gathered(f, s) \o Gathered(f, v)

LEMMA GatheredLast ==
  ASSUME NEW U, NEW A, NEW f \in Listings(A, U)
  PROVE  \A s, v \in Seq(A) : \A a \in A : Joins(f, s, v) => Joins(f, s, Append(v, a))
<1>0. SUFFICES ASSUME NEW s \in Seq(A), NEW v \in Seq(A), NEW a \in A,
                      Joins(f, s, v)
               PROVE  Joins(f, s, Append(v, a))
  OBVIOUS
<1>all. \A t \in Seq(A) : \A b \in A : Gathered(f, Append(t, b)) = Gathered(f, t) \o f[b]
  BY GatheredAppend
<1> DEFINE w == s \o v
           x == Gathered(f, s)
           y == Gathered(f, v)
           z == f[a]
<1>1. s \o Append(v, a) = Append(w, a) /\ w \in Seq(A)
  BY AppendBehind, ConcatProperties
<1> HIDE DEF w
<1>2. Gathered(f, Append(w, a)) = Gathered(f, w) \o z
  BY <1>all, <1>1
<1>3. Gathered(f, Append(v, a)) = y \o z
  BY <1>all
<1>4. x \in Seq(U) /\ y \in Seq(U) /\ z \in Seq(U)
  BY GatheredType DEF Listings
<1> HIDE DEF x, y, z
<1>5. (x \o y) \o z = x \o (y \o z)
  BY <1>4, ThreeParts, SMTT(30)
<1> QED BY <1>0, <1>1, <1>2, <1>3, <1>5 DEF w, x, y, Joins

\* Two sequences of elements, one behind the other.
LEMMA GatheredConcat ==
  ASSUME NEW U, NEW A, NEW f \in Listings(A, U)
  PROVE  \A s, t \in Seq(A) : Joins(f, s, t)
<1> SUFFICES ASSUME NEW s \in Seq(A) PROVE \A t \in Seq(A) : Joins(f, s, t)
  OBVIOUS
<1>all. \A v \in Seq(A) : \A a \in A : Joins(f, s, v) => Joins(f, s, Append(v, a))
  BY GatheredLast
<1> DEFINE V == {n \in Nat : \A u \in Seq(A) : Len(u) = n => Joins(f, s, u)}
<1>0. \A u \in Seq(A) : Gathered(f, u) \in Seq(U)
  BY GatheredType
<1>1. 0 \in V
  <2> SUFFICES ASSUME NEW u \in Seq(A), Len(u) = 0
               PROVE  Joins(f, s, u)
    OBVIOUS
  <2>1. u = <<>> /\ s \o <<>> = s
    BY EmptySeq, ConcatEmptySeq
  <2>2. Gathered(f, <<>>) = <<>> /\ Gathered(f, s) \in Seq(U)
    BY <1>0, GatheredEmpty
  <2>3. Gathered(f, s) \o <<>> = Gathered(f, s)
    BY <2>2, ConcatEmptySeq
  <2> QED BY <2>1, <2>2, <2>3 DEF Joins
<1>2. ASSUME NEW n \in Nat, n \in V PROVE n + 1 \in V
  <2> SUFFICES ASSUME NEW u \in Seq(A), Len(u) = n + 1
               PROVE  Joins(f, s, u)
    OBVIOUS
  <2>1. PICK v \in Seq(A), a \in A : u = Append(v, a)
    <3>1. u # <<>>
      OBVIOUS
    <3> QED BY <3>1, SequenceEmptyOrAppend
  <2>2. Len(v) = n
    <3>1. Len(u) = Len(v) + 1 /\ Len(v) \in Nat
      BY <2>1, AppendProperties
    <3> QED BY <3>1
  <2>3. Joins(f, s, v)
    BY <1>2, <2>2
  <2> QED BY <1>all, <2>1, <2>3
<1>3. Nat \subseteq V
  <2> HIDE DEF V
  <2> QED BY <1>1, <1>2, SetInduction
<1> QED BY <1>3

LEMMA HeadAndTail ==
  ASSUME NEW S, NEW s \in Seq(S), s # <<>>
  PROVE  s = <<Head(s)>> \o Tail(s) /\ <<Head(s)>> \in Seq(S)
<1> DEFINE h == <<Head(s)>>
           t == Tail(s)
           u == h \o t
<1>1. /\ Len(s) \in Nat \ {0} /\ t \in Seq(S) /\ Len(t) = Len(s) - 1
      /\ \A i \in 1..Len(t) : t[i] = s[i + 1]
      /\ h \in Seq(S) /\ Len(h) = 1 /\ h[1] = s[1]
  BY HeadTailProperties, EmptySeq
<1> HIDE DEF h, t
<1>2. /\ u \in Seq(S) /\ Len(u) = Len(s)
      /\ \A i \in 1..Len(s) : u[i] = IF i <= 1 THEN h[i] ELSE t[i - 1]
  <2> DEFINE m == Len(h) + Len(t)
  <2>1. u \in Seq(S) /\ Len(u) = m /\ \A i \in 1..m : u[i] = IF i <= Len(h) THEN h[i] ELSE t[i - Len(h)]
    BY <1>1, ConcatProperties
  <2>2. m = Len(s)
    BY <1>1
  <2> HIDE DEF m, u
  <2> QED BY <1>1, <2>1, <2>2
<1> HIDE DEF u
<1>3. \A i \in 1..Len(s) : i = 1 \/ (~(i <= 1) /\ i - 1 \in 1..Len(t) /\ (i - 1) + 1 = i)
  BY <1>1
<1>4. ASSUME NEW i \in 1..Len(s) PROVE u[i] = s[i]
  <2>1. CASE i = 1
    BY <1>1, <1>2, <2>1
  <2>2. CASE ~(i <= 1) /\ i - 1 \in 1..Len(t) /\ (i - 1) + 1 = i
    <3>1. u[i] = t[i - 1]
      BY <1>2, <2>2
    <3>2. t[i - 1] = s[(i - 1) + 1]
      BY <1>1, <2>2
    <3> QED BY <2>2, <3>1, <3>2
  <2> QED BY <1>3, <2>1, <2>2
<1>5. u = s
  BY <1>2, <1>4, SeqEqual
<1> QED BY <1>1, <1>5 DEF h, t, u

\* What holds of the empty sequence and stays true behind every element holds of all.
LEMMA SeqInduction ==
  ASSUME NEW A, NEW V, <<>> \in V, \A s \in Seq(A) : \A a \in A : s \in V => Append(s, a) \in V
  PROVE  Seq(A) \subseteq V
<1> DEFINE W == {n \in Nat : \A s \in Seq(A) : Len(s) = n => s \in V}
<1>1. 0 \in W
  BY EmptySeq
<1>2. ASSUME NEW n \in Nat, n \in W PROVE n + 1 \in W
  <2> SUFFICES ASSUME NEW s \in Seq(A), Len(s) = n + 1 PROVE s \in V
    OBVIOUS
  <2>1. PICK t \in Seq(A), a \in A : s = Append(t, a)
    <3>1. s # <<>>
      OBVIOUS
    <3> QED BY <3>1, SequenceEmptyOrAppend
  <2>2. Len(t) = n
    <3>1. Len(s) = Len(t) + 1 /\ Len(t) \in Nat
      BY <2>1, AppendProperties
    <3> QED BY <3>1
  <2> QED BY <1>2, <2>1, <2>2
<1>3. Nat \subseteq W
  <2> HIDE DEF W
  <2> QED BY <1>1, <1>2, SetInduction
<1> QED BY <1>3, LenProperties

\* What every part is, the whole is.
LEMMA GatheredAll ==
  ASSUME NEW U, NEW A, NEW f \in Listings(A, U), NEW B, B \subseteq A, NEW G,
         <<>> \in G, \A x, y \in G : x \o y \in G, \A b \in B : f[b] \in G
  PROVE  \A s \in Seq(B) : Gathered(f, s) \in G
<1> DEFINE V == {s \in Seq(B) : Gathered(f, s) \in G}
<1>1. <<>> \in V
  BY GatheredEmpty, EmptySeq
<1>2. ASSUME NEW s \in Seq(B), NEW b \in B, s \in V PROVE Append(s, b) \in V
  <2>1. s \in Seq(A) /\ b \in A /\ Append(s, b) \in Seq(B)
    BY SeqMonotonic, AppendProperties
  <2>2. Gathered(f, Append(s, b)) = Gathered(f, s) \o f[b]
    BY <2>1, GatheredAppend
  <2> QED BY <1>2, <2>1, <2>2
<1> HIDE DEF V
<1>3. Seq(B) \subseteq V
  BY <1>1, <1>2, SeqInduction
<1> QED BY <1>3 DEF V

\* What one part is, the whole is, if nothing before or behind it changes it.
LEMMA GatheredSome ==
  ASSUME NEW U, NEW A, NEW f \in Listings(A, U), NEW H,
         \A x \in H : \A y \in Seq(U) : x \o y \in H /\ y \o x \in H
  PROVE  \A s \in Seq(A) : (\E i \in DOMAIN s : f[s[i]] \in H) => Gathered(f, s) \in H
<1>all. \A s \in Seq(A) : \A a \in A : /\ Gathered(f, s) \in Seq(U)
                                      /\ Gathered(f, Append(s, a)) = Gathered(f, s) \o f[a]
  BY GatheredAppend
<1> DEFINE V == {s \in Seq(A) : (\E i \in DOMAIN s : f[s[i]] \in H) => Gathered(f, s) \in H}
<1>1. <<>> \in V
  BY EmptySeq
<1>2. ASSUME NEW s \in Seq(A), NEW a \in A, s \in V PROVE Append(s, a) \in V
  <2> DEFINE t == Append(s, a)
             n == Len(s)
  <2>1. /\ n \in Nat /\ t \in Seq(A) /\ DOMAIN s = 1..n /\ DOMAIN t = 1..(n + 1)
        /\ \A i \in 1..n : t[i] = s[i]
        /\ t[n + 1] = a
    BY AppendProperties, LenProperties
  <2>2. /\ Gathered(f, s) \in Seq(U) /\ Gathered(f, t) = Gathered(f, s) \o f[a]
        /\ f[a] \in Seq(U)
    <3>1. f[a] \in Seq(U)
      BY DEF Listings
    <3> QED BY <1>all, <3>1
  <2> HIDE DEF t, n
  <2>3. SUFFICES ASSUME NEW i \in DOMAIN t, f[t[i]] \in H PROVE Gathered(f, t) \in H
    BY <2>1 DEF t
  <2>4. CASE i = n + 1
    BY <2>1, <2>2, <2>3, <2>4
  <2>5. CASE i # n + 1
    <3>1. i \in 1..n
      BY <2>1, <2>5
    <3>2. Gathered(f, s) \in H
      BY <1>2, <2>1, <2>3, <3>1
    <3> QED BY <2>2, <3>2
  <2> QED BY <2>4, <2>5
<1> HIDE DEF V
<1>3. Seq(A) \subseteq V
  BY <1>1, <1>2, SeqInduction
<1> QED BY <1>3 DEF V
=============================================================================
