--------------------------- MODULE BlockListProofs ---------------------------
(***************************************************************************)
(* Proofs about BlockList for every block size, every set of items and     *)
(* every finite set of addresses: the blocks from head on are the heap,    *)
(* len counts what they hold, and what they hold is the abstract queue.    *)
(***************************************************************************)
EXTENDS BlockList, SequenceTheorems, FiniteSetTheorems, TLAPS

-----------------------------------------------------------------------------
(* Induction, with a set in place of the predicate *)

\* A set of naturals that is not empty has a least element: the interval up to
\* it is minimal among the intervals up to the elements.
LEMMA LeastElement ==
  ASSUME NEW T \in SUBSET Nat, NEW t \in T
  PROVE  \E m \in T : \A k \in T : ~(k < m)
<1> DEFINE U == {k \in T : k <= t}
           F == {0..k : k \in U}
<1>1. IsFiniteSet(0..t) /\ t \in Nat
  BY FS_Interval
<1>2. FiniteSubsetsOf(0..t) = SUBSET (0..t)
  BY <1>1, FS_FiniteSubsetsOfFinite
<1>3. IsWellFoundedOn(StrictSubsetOrdering(0..t), SUBSET (0..t))
  BY <1>2, FS_StrictSubsetOrderingWellFounded
<1>4. F \subseteq SUBSET (0..t)
  <2>1. \A k \in U : 0..k \subseteq 0..t
    BY <1>1
  <2> QED BY <2>1
<1>5. 0..t \in F
  <2>1. t \in U
    BY <1>1
  <2> QED BY <2>1
<1>6. \E x \in F : \A y \in F : ~(<<y, x>> \in StrictSubsetOrdering(0..t))
  <2> HIDE DEF F
  <2>1. F /= {}
    BY <1>5
  <2> QED BY <1>3, <1>4, <2>1, WFMin
<1>7. PICK m \in U : \A y \in F : ~(<<y, 0..m>> \in StrictSubsetOrdering(0..t))
  BY <1>6
<1>8. ASSUME NEW k \in T, k < m PROVE FALSE
  <2>1. k \in U /\ k \in Nat /\ m \in Nat /\ m <= t
    BY <1>1, <1>7, <1>8
  <2>2. 0..k \in F
    BY <2>1
  <2>3. 0..k \subseteq 0..m /\ m \in 0..m /\ m \notin 0..k /\ 0..m \subseteq 0..t
    BY <1>1, <1>8, <2>1
  <2>4. <<0..k, 0..m>> \in StrictSubsetOrdering(0..t)
    BY <2>3 DEF StrictSubsetOrdering
  <2> QED BY <1>7, <2>2, <2>4
<1> QED BY <1>7, <1>8

\* Induction from 1 on.
LEMMA SetInduction ==
  ASSUME NEW S, 1 \in S, \A n \in Nat \ {0} : n \in S => n + 1 \in S
  PROVE  \A n \in Nat \ {0} : n \in S
<1> DEFINE T == {n \in Nat \ {0} : n \notin S}
<1> SUFFICES ASSUME NEW t \in T PROVE FALSE
  OBVIOUS
<1>1. PICK m \in T : \A k \in T : ~(k < m)
  BY LeastElement
<1>2. m \in Nat /\ m > 1 /\ m - 1 \in Nat \ {0} /\ m - 1 \notin T
  BY <1>1
<1>3. m - 1 \in S
  BY <1>2
<1> QED BY <1>2, <1>3

-----------------------------------------------------------------------------
(* A sequence of sequences in a row *)

\* p, then q.
Cat(p, q) == p \o q

\* Joining is associative.
LEMMA CatAssociative ==
  ASSUME NEW S, NEW p \in Seq(S), NEW q \in Seq(S), NEW r \in Seq(S)
  PROVE  Cat(Cat(p, q), r) = Cat(p, Cat(q, r))
BY SMTT(30) DEF Cat

\* f joins the first n parts of ss, one after the other.
Joins(f, ss, n) == f = [i \in 1..n |-> IF i = 1 THEN ss[i] ELSE Cat(f[i - 1], ss[i])]

\* The first value, and how one follows from the other.
LEMMA JoinsAt ==
  ASSUME NEW f, NEW ss, NEW n \in Nat \ {0}, Joins(f, ss, n)
  PROVE  f[1] = ss[1] /\ \A i \in 1..n - 1 : f[i + 1] = Cat(f[i], ss[i + 1])
<1>1. \A i \in 1..n : f[i] = IF i = 1 THEN ss[i] ELSE Cat(f[i - 1], ss[i])
  BY DEF Joins
<1>2. f[1] = ss[1]
  BY <1>1
<1>3. ASSUME NEW i \in 1..n - 1 PROVE f[i + 1] = Cat(f[i], ss[i + 1])
  <2>1. i + 1 \in 1..n /\ i + 1 /= 1 /\ (i + 1) - 1 = i
    OBVIOUS
  <2> QED BY <1>1, <2>1
<1> QED BY <1>2, <1>3

\* There is such a function, and its values are sequences.
LEMMA JoinsExists ==
  ASSUME NEW S, NEW ss \in Seq(Seq(S))
  PROVE  \A n \in Nat \ {0} :
           n <= Len(ss) => \E f \in [1..n -> Seq(S)] : Joins(f, ss, n)
<1> DEFINE P == {n \in Nat \ {0} : n <= Len(ss) => \E f \in [1..n -> Seq(S)] : Joins(f, ss, n)}
<1>1. 1 \in P
  <2> SUFFICES ASSUME 1 <= Len(ss) PROVE \E f \in [1..1 -> Seq(S)] : Joins(f, ss, 1)
    OBVIOUS
  <2> DEFINE f == [i \in 1..1 |-> ss[1]]
  <2>1. f \in [1..1 -> Seq(S)]
    OBVIOUS
  <2>2. f = [i \in 1..1 |-> IF i = 1 THEN ss[i] ELSE Cat(f[i - 1], ss[i])]
    OBVIOUS
  <2> QED BY <2>1, <2>2 DEF Joins
<1>2. ASSUME NEW n \in Nat \ {0}, n \in P PROVE n + 1 \in P
  <2> SUFFICES ASSUME n + 1 <= Len(ss)
               PROVE  \E g \in [1..n + 1 -> Seq(S)] : Joins(g, ss, n + 1)
    OBVIOUS
  <2>1. Len(ss) \in Nat /\ n <= Len(ss) /\ n + 1 \in 1..Len(ss) /\ ss[n + 1] \in Seq(S)
    OBVIOUS
  <2>2. PICK f \in [1..n -> Seq(S)] : Joins(f, ss, n)
    BY <1>2, <2>1
  <2> DEFINE g == [i \in 1..n + 1 |-> IF i <= n THEN f[i] ELSE Cat(f[n], ss[n + 1])]
  <2>3. Cat(f[n], ss[n + 1]) \in Seq(S)
    BY <2>1 DEF Cat
  <2>4. g \in [1..n + 1 -> Seq(S)]
    BY <2>3
  <2>5. ASSUME NEW i \in 1..n + 1
        PROVE  g[i] = IF i = 1 THEN ss[i] ELSE Cat(g[i - 1], ss[i])
    <3> HIDE DEF g
    <3>0. \A j \in 1..n + 1 : g[j] = IF j <= n THEN f[j] ELSE Cat(f[n], ss[n + 1])
      BY DEF g
    <3>1. CASE i = 1
      <4>1. g[1] = f[1]
        BY <3>0
      <4> QED BY <2>2, <3>1, <4>1, JoinsAt
    <3>2. CASE i \in 2..n
      <4>1. i - 1 \in 1..n - 1 /\ (i - 1) + 1 = i
        BY <3>2
      <4>2. f[(i - 1) + 1] = Cat(f[i - 1], ss[(i - 1) + 1])
        BY <2>2, <4>1, JoinsAt
      <4>3. g[i] = f[i] /\ g[i - 1] = f[i - 1]
        BY <3>0, <3>2, <4>1
      <4> QED BY <3>2, <4>1, <4>2, <4>3
    <3>3. CASE i = n + 1
      <4>1. i /= 1 /\ i - 1 = n
        BY <3>3
      <4>2. n + 1 \in 1..n + 1 /\ ~(n + 1 <= n) /\ n \in 1..n + 1 /\ n <= n
        OBVIOUS
      <4>3. g[n + 1] = Cat(f[n], ss[n + 1]) /\ g[n] = f[n]
        BY <3>0, <4>2
      <4> QED BY <3>3, <4>1, <4>3
    <3> QED BY <3>1, <3>2, <3>3
  <2>6. Joins(g, ss, n + 1)
    <3> DEFINE r == [i \in 1..n + 1 |-> IF i = 1 THEN ss[i] ELSE Cat(g[i - 1], ss[i])]
    <3>1. \A i \in 1..n + 1 : g[i] = r[i]
      BY <2>5
    <3>2. g = r
      BY <3>1
    <3> QED BY <3>2 DEF Joins
  <2> QED BY <2>4, <2>6
<1> HIDE DEF P
<1>3. \A n \in Nat \ {0} : n \in P
  BY <1>1, <1>2, SetInduction
<1> QED BY <1>3 DEF P

\* The first m elements are the same.
Agree(s, t, m) == \A i \in 1..m : s[i] = t[i]

\* Two of them agree as far as their parts do.
LEMMA JoinsUnique ==
  ASSUME NEW ss, NEW tt, NEW m \in Nat, NEW n \in Nat, m <= n, NEW f, NEW g,
         Joins(f, ss, m), Joins(g, tt, n), Agree(ss, tt, m)
  PROVE  Agree(f, g, m)
<1> DEFINE P == {i \in Nat \ {0} : i <= m => f[i] = g[i]}
<1>1. 1 \in P
  <2> SUFFICES ASSUME 1 <= m PROVE f[1] = g[1]
    OBVIOUS
  <2>1. m \in Nat \ {0} /\ n \in Nat \ {0} /\ 1 \in 1..m
    OBVIOUS
  <2>2. f[1] = ss[1] /\ g[1] = tt[1]
    BY <2>1, JoinsAt
  <2> QED BY <2>1, <2>2 DEF Agree
<1>2. ASSUME NEW i \in Nat \ {0}, i \in P PROVE i + 1 \in P
  <2> SUFFICES ASSUME i + 1 <= m PROVE f[i + 1] = g[i + 1]
    OBVIOUS
  <2>1. i \in 1..m - 1 /\ i \in 1..n - 1 /\ i + 1 \in 1..m /\ m /= 0 /\ n /= 0
    OBVIOUS
  <2>2. f[i] = g[i]
    BY <1>2, <2>1
  <2>3. \A j \in 1..m - 1 : f[j + 1] = Cat(f[j], ss[j + 1])
    BY <2>1, JoinsAt
  <2>4. \A j \in 1..n - 1 : g[j + 1] = Cat(g[j], tt[j + 1])
    BY <2>1, JoinsAt
  <2> QED BY <2>1, <2>2, <2>3, <2>4 DEF Agree
<1> HIDE DEF P
<1>3. \A i \in Nat \ {0} : i \in P
  BY <1>1, <1>2, SetInduction
<1> QED BY <1>3 DEF P, Agree

\* FlattenSeq is the last value of any of them.
LEMMA FlattenIsJoins ==
  ASSUME NEW ss, Len(ss) \in Nat \ {0}, NEW f, Joins(f, ss, Len(ss))
  PROVE  FlattenSeq(ss) = f[Len(ss)]
<1> DEFINE n == Len(ss)
           g == CHOOSE h : h = [i \in 1..n |-> IF i = 1 THEN ss[i] ELSE h[i - 1] \o ss[i]]
<1>1. FlattenSeq(ss) = g[n]
  BY DEF FlattenSeq
<1>2. Joins(g, ss, n)
  BY DEF Joins, Cat
<1> HIDE DEF g
<1>3. g[n] = f[n]
  <2>1. Agree(ss, ss, n) /\ n <= n /\ n \in Nat /\ n \in 1..n
    BY DEF Agree
  <2>2. Agree(g, f, n)
    BY <1>2, <2>1, JoinsUnique
  <2> QED BY <2>1, <2>2 DEF Agree
<1> QED BY <1>1, <1>3

\* Nothing in a row is nothing.
LEMMA FlattenNone == FlattenSeq(<<>>) = <<>>
BY DEF FlattenSeq

\* What is joined is a sequence of the same items.
LEMMA FlattenType ==
  ASSUME NEW S, NEW ss \in Seq(Seq(S))
  PROVE  FlattenSeq(ss) \in Seq(S)
<1>1. CASE ss = <<>>
  <2>1. <<>> \in Seq(S)
    OBVIOUS
  <2> QED BY <1>1, <2>1, FlattenNone
<1>2. CASE ss /= <<>>
  <2>1. Len(ss) \in Nat \ {0}
    BY <1>2, EmptySeq
  <2>2. PICK f \in [1..Len(ss) -> Seq(S)] : Joins(f, ss, Len(ss))
    BY <2>1, JoinsExists
  <2>3. FlattenSeq(ss) = f[Len(ss)]
    BY <2>1, <2>2, FlattenIsJoins
  <2>4. Len(ss) \in 1..Len(ss)
    BY <2>1
  <2> QED BY <2>2, <2>3, <2>4
<1> QED BY <1>1, <1>2

\* A part at the end.
LEMMA FlattenAppend ==
  ASSUME NEW S, NEW ss \in Seq(Seq(S)), NEW s \in Seq(S)
  PROVE  FlattenSeq(Append(ss, s)) = FlattenSeq(ss) \o s
<1>1. PICK tt \in Seq(Seq(S)) : tt = Append(ss, s)
  <2>1. Append(ss, s) \in Seq(Seq(S))
    OBVIOUS
  <2> QED BY <2>1
<1>2. PICK n \in Nat : n = Len(ss)
  OBVIOUS
<1>3. Len(tt) = n + 1 /\ tt[n + 1] = s /\ \A i \in 1..n : ss[i] = tt[i]
  BY <1>1, <1>2
<1>4. PICK g \in [1..n + 1 -> Seq(S)] : Joins(g, tt, n + 1)
  <2>1. n + 1 \in Nat \ {0} /\ n + 1 <= Len(tt)
    BY <1>3
  <2> QED BY <2>1, JoinsExists
<1>5. FlattenSeq(tt) = g[n + 1]
  <2>1. Len(tt) \in Nat \ {0} /\ Joins(g, tt, Len(tt))
    BY <1>3, <1>4
  <2>2. FlattenSeq(tt) = g[Len(tt)]
    BY <2>1, FlattenIsJoins
  <2> QED BY <1>3, <2>2
<1>6. CASE n = 0
  <2>1. ss = <<>>
    BY <1>2, <1>6, EmptySeq
  <2>2. g[1] = tt[1]
    <3>1. n + 1 \in Nat \ {0}
      OBVIOUS
    <3> QED BY <1>4, <3>1, JoinsAt
  <2>3. <<>> \o s = s
    BY ConcatEmptySeq
  <2> QED BY <1>1, <1>3, <1>5, <1>6, <2>1, <2>2, <2>3, FlattenNone
<1>7. CASE n /= 0
  <2>1. PICK f \in [1..n -> Seq(S)] : Joins(f, ss, n)
    BY <1>2, <1>7, JoinsExists
  <2>2. FlattenSeq(ss) = f[n]
    BY <1>2, <1>7, <2>1, FlattenIsJoins
  <2>3. n <= n + 1 /\ n + 1 \in Nat \ {0} /\ n \in 1..n /\ n \in 1..(n + 1) - 1
    BY <1>7
  <2>4. f[n] = g[n]
    <3>1. Agree(ss, tt, n)
      BY <1>3 DEF Agree
    <3>2. PICK k \in Nat : k = n + 1
      OBVIOUS
    <3>3. n <= k /\ Joins(f, ss, n) /\ Joins(g, tt, k)
      BY <1>4, <2>1, <2>3, <3>2
    <3>4. Agree(f, g, n)
      BY <3>1, <3>3, JoinsUnique
    <3> QED BY <2>3, <3>4 DEF Agree
  <2>5. g[n + 1] = Cat(g[n], tt[n + 1])
    <3>1. PICK k \in Nat \ {0} : k = n + 1
      OBVIOUS
    <3>2. \A i \in 1..k - 1 : g[i + 1] = Cat(g[i], tt[i + 1])
      BY <1>4, <3>1, JoinsAt
    <3>3. n \in 1..k - 1
      BY <2>3, <3>1
    <3> QED BY <3>2, <3>3
  <2> QED BY <1>1, <1>3, <1>5, <2>2, <2>4, <2>5 DEF Cat
<1> QED BY <1>6, <1>7

\* A part at the front.
LEMMA FlattenFirst ==
  ASSUME NEW S, NEW ss \in Seq(Seq(S)), ss /= <<>>
  PROVE  FlattenSeq(ss) = Head(ss) \o FlattenSeq(Tail(ss))
<1>1. PICK tt \in Seq(Seq(S)) : tt = Tail(ss)
  <2>1. Tail(ss) \in Seq(Seq(S))
    BY HeadTailProperties
  <2> QED BY <2>1
<1>2. PICK n \in Nat : n = Len(tt)
  OBVIOUS
<1>3. PICK h \in Seq(S) : h = Head(ss)
  OBVIOUS
<1>4. Len(ss) = n + 1 /\ h = ss[1] /\ \A i \in 1..n : tt[i] = ss[i + 1] /\ tt[i] \in Seq(S)
  BY <1>1, <1>2, <1>3
<1>5. PICK g \in [1..n + 1 -> Seq(S)] : Joins(g, ss, n + 1)
  <2>1. n + 1 \in Nat \ {0} /\ n + 1 <= Len(ss)
    BY <1>4
  <2> QED BY <2>1, JoinsExists
<1>6. FlattenSeq(ss) = g[n + 1]
  <2>1. Len(ss) \in Nat \ {0} /\ Joins(g, ss, Len(ss))
    BY <1>4, <1>5
  <2>2. FlattenSeq(ss) = g[Len(ss)]
    BY <2>1, FlattenIsJoins
  <2> QED BY <1>4, <2>2
<1>7. g[1] = h /\ \A i \in 1..n : g[i + 1] = Cat(g[i], ss[i + 1])
  <2>1. n + 1 \in Nat \ {0} /\ (n + 1) - 1 = n
    OBVIOUS
  <2>2. g[1] = ss[1] /\ \A i \in 1..(n + 1) - 1 : g[i + 1] = Cat(g[i], ss[i + 1])
    BY <1>5, <2>1, JoinsAt
  <2> QED BY <1>4, <2>1, <2>2
<1>8. CASE n = 0
  <2>1. tt = <<>>
    BY <1>2, <1>8, EmptySeq
  <2>2. h \o <<>> = h
    BY ConcatEmptySeq
  <2>3. g[n + 1] = h
    BY <1>7, <1>8
  <2> QED BY <1>1, <1>3, <1>6, <2>1, <2>2, <2>3, FlattenNone
<1>9. CASE n /= 0
  <2>1. PICK f \in [1..n -> Seq(S)] : Joins(f, tt, n)
    BY <1>2, <1>9, JoinsExists
  <2>2. FlattenSeq(tt) = f[n]
    BY <1>2, <1>9, <2>1, FlattenIsJoins
  <2>3. f[1] = tt[1] /\ \A i \in 1..n - 1 : f[i + 1] = Cat(f[i], tt[i + 1])
    BY <1>9, <2>1, JoinsAt
  <2> DEFINE P == {i \in Nat \ {0} : i <= n => g[i + 1] = Cat(h, f[i])}
  <2>4. 1 \in P
    <3>1. 1 \in 1..n
      BY <1>9
    <3>2. g[1 + 1] = Cat(h, f[1])
      BY <1>4, <1>7, <2>3, <3>1
    <3> QED BY <3>2
  <2>5. ASSUME NEW i \in Nat \ {0}, i \in P PROVE i + 1 \in P
    <3>0. SUFFICES ASSUME i + 1 <= n PROVE g[(i + 1) + 1] = Cat(h, f[i + 1])
      OBVIOUS
    <3>1. i \in 1..n /\ i \in 1..n - 1 /\ i + 1 \in 1..n
      BY <3>0
    <3>2. g[(i + 1) + 1] = Cat(g[i + 1], tt[i + 1])
      BY <1>4, <1>7, <3>1
    <3>3. f[i + 1] = Cat(f[i], tt[i + 1])
      BY <2>3, <3>1
    <3>4. g[i + 1] = Cat(h, f[i])
      <4>1. i <= n => g[i + 1] = Cat(h, f[i])
        BY <2>5
      <4> QED BY <3>1, <4>1
    <3>5. f[i] \in Seq(S) /\ tt[i + 1] \in Seq(S)
      BY <1>4, <2>1, <3>1
    <3>6. Cat(Cat(h, f[i]), tt[i + 1]) = Cat(h, Cat(f[i], tt[i + 1]))
      <4>1. PICK u \in Seq(S), w \in Seq(S) : u = f[i] /\ w = tt[i + 1]
        BY <3>5
      <4>2. Cat(Cat(h, u), w) = Cat(h, Cat(u, w))
        BY CatAssociative
      <4> QED BY <4>1, <4>2
    <3> QED BY <3>2, <3>3, <3>4, <3>6
  <2> HIDE DEF P
  <2>6. \A i \in Nat \ {0} : i \in P
    BY <2>4, <2>5, SetInduction
  <2>7. g[n + 1] = Cat(h, f[n])
    BY <1>9, <2>6 DEF P
  <2> QED BY <1>1, <1>3, <1>6, <2>2, <2>7 DEF Cat
<1> QED BY <1>8, <1>9

-----------------------------------------------------------------------------
(* The chain *)

\* c is the blocks of h that follow from b, each of them allocated and there once.
Linked(h, b, c) ==
  /\ c \in Seq(Addrs)
  /\ b = IF c = <<>> THEN None ELSE c[1]
  /\ \A n \in 1..Len(c) : h[c[n]] /= Freed
  /\ \A n \in 1..Len(c) - 1 : h[c[n]].next = c[n + 1]
  /\ c /= <<>> => h[c[Len(c)]].next = None
  /\ \A m, n \in 1..Len(c) : c[m] = c[n] => m = n

\* No block is allocated but the ones of c.
Covers(h, c) == \A a \in Addrs : h[a] /= Freed => \E n \in 1..Len(c) : c[n] = a

\* A chain has as many blocks as it is long, and not more than there are
\* addresses.
LEMMA ChainSize ==
  ASSUME NEW h, NEW b, NEW c, Linked(h, b, c)
  PROVE  /\ Cardinality(Addrs) \in Nat /\ Len(c) <= Cardinality(Addrs)
         /\ Cardinality({c[n] : n \in 1..Len(c)}) = Len(c)
<1>1. c \in [1..Len(c) -> Addrs] /\ Len(c) \in Nat
  BY DEF Linked
<1>2. \A m, n \in 1..Len(c) : c[m] = c[n] => m = n
  BY DEF Linked
<1>3. IsFiniteSet(Addrs) /\ Cardinality(Addrs) \in Nat
  BY BlockListAssumption, FS_CardinalityType
<1>4. Cardinality(1..Len(c)) = Len(c) /\ IsFiniteSet(1..Len(c))
  <2>1. 1 \in Int /\ Len(c) \in Int
    BY <1>1
  <2>2. /\ IsFiniteSet(1..Len(c))
        /\ Cardinality(1..Len(c)) = IF 1 > Len(c) THEN 0 ELSE Len(c) - 1 + 1
    BY <2>1, FS_Interval
  <2> QED BY <1>1, <2>2
<1>5. c \in Injection(1..Len(c), Addrs)
  BY <1>1, <1>2 DEF Injection, IsInjective
<1>6. Len(c) <= Cardinality(Addrs)
  BY <1>3, <1>4, <1>5, FS_Injection
<1> DEFINE R == {c[n] : n \in 1..Len(c)}
<1>7. c \in Bijection(1..Len(c), R)
  <2>1. c \in [1..Len(c) -> R]
    BY <1>1
  <2>2. \A r \in R : \E n \in 1..Len(c) : c[n] = r
    OBVIOUS
  <2> QED BY <1>2, <2>1, <2>2 DEF Bijection, Injection, Surjection, IsInjective
<1>8. ExistsBijection(1..Len(c), R)
  BY <1>7 DEF ExistsBijection
<1>9. Cardinality(R) = Len(c)
  <2> HIDE DEF R
  <2> QED BY <1>1, <1>8, FS_CountingElements
<1> QED BY <1>3, <1>6, <1>9

\* One turn of the walk: the n-th block is known, the next one is looked up.
WalkStep(h, c, n) ==
  IF Len(c) < n \/ h[Last(c)] = Freed \/ h[Last(c)].next = None THEN c
  ELSE Append(c, h[Last(c)].next)

\* The first n + 1 blocks, or all of them.
Begin(c, n) == SubSeq(c, 1, IF n < Len(c) THEN n + 1 ELSE Len(c))

\* What such a beginning is.
LEMMA BeginAt ==
  ASSUME NEW c \in Seq(Addrs), NEW n \in Nat
  PROVE  /\ Begin(c, n) \in Seq(Addrs)
         /\ Len(Begin(c, n)) = IF n < Len(c) THEN n + 1 ELSE Len(c)
         /\ \A i \in 1..Len(Begin(c, n)) : Begin(c, n)[i] = c[i]
BY DEF Begin

\* The walk begins with the first block.
LEMMA WalkFirst ==
  ASSUME NEW h, NEW b, NEW c, Linked(h, b, c)
  PROVE  Begin(c, 0) = IF b = None THEN <<>> ELSE <<b>>
<1>1. c \in Seq(Addrs) /\ Len(c) \in Nat
  BY DEF Linked
<1>b. /\ Begin(c, 0) \in Seq(Addrs)
      /\ Len(Begin(c, 0)) = IF 0 < Len(c) THEN 0 + 1 ELSE Len(c)
      /\ \A i \in 1..Len(Begin(c, 0)) : Begin(c, 0)[i] = c[i]
  <2>1. 0 \in Nat
    OBVIOUS
  <2> QED BY <1>1, <2>1, BeginAt
<1>2. CASE c = <<>>
  <2>1. b = None /\ Len(c) = 0
    BY <1>2 DEF Linked
  <2>2. Begin(c, 0) \in Seq(Addrs) /\ Len(Begin(c, 0)) = 0
    BY <1>b, <2>1
  <2>3. Begin(c, 0) = <<>>
    BY <2>2, EmptySeq
  <2> QED BY <2>1, <2>3
<1>3. CASE c /= <<>>
  <2>1. Len(c) > 0
    BY <1>1, <1>3, EmptySeq
  <2>2. b = c[1] /\ c[1] \in Addrs
    BY <1>1, <1>3, <2>1 DEF Linked
  <2>3. b /= None
    BY <2>2, BlockListAssumption
  <2>4. Begin(c, 0) \in Seq(Addrs) /\ Len(Begin(c, 0)) = 1 /\ Begin(c, 0)[1] = b
    BY <1>1, <1>b, <2>1, <2>2
  <2>5. Begin(c, 0) = <<b>>
    BY <2>4
  <2> QED BY <2>3, <2>5
<1> QED BY <1>2, <1>3

\* Each turn finds the next one, until there is none.
LEMMA WalkNext ==
  ASSUME NEW h, NEW b, NEW c, Linked(h, b, c), NEW n \in Nat \ {0}
  PROVE  WalkStep(h, Begin(c, n - 1), n) = Begin(c, n)
<1>1. c \in Seq(Addrs) /\ Len(c) \in Nat /\ n - 1 \in Nat
  BY DEF Linked
<1>2. PICK p \in Seq(Addrs) : p = Begin(c, n - 1)
  BY <1>1, BeginAt
<1>3. PICK q \in Seq(Addrs) : q = Begin(c, n)
  BY <1>1, BeginAt
<1>4. /\ Len(p) = IF n <= Len(c) THEN n ELSE Len(c)
      /\ \A i \in 1..Len(p) : p[i] = c[i]
  <2>1. n - 1 < Len(c) <=> n <= Len(c)
    BY <1>1
  <2> QED BY <1>1, <1>2, <2>1, BeginAt
<1>5. /\ Len(q) = IF n < Len(c) THEN n + 1 ELSE Len(c)
      /\ \A i \in 1..Len(q) : q[i] = c[i]
  BY <1>1, <1>3, BeginAt
<1>6. CASE Len(c) < n
  <2>1. Len(p) = Len(c) /\ Len(q) = Len(c)
    BY <1>1, <1>4, <1>5, <1>6
  <2>2. p = q
    BY <1>4, <1>5, <2>1
  <2>3. WalkStep(h, p, n) = p
    BY <1>6, <2>1 DEF WalkStep
  <2> QED BY <1>2, <1>3, <2>2, <2>3
<1>7. CASE n <= Len(c)
  <2>1. Len(p) = n /\ n \in 1..Len(c) /\ c /= <<>> /\ ~(Len(p) < n)
    BY <1>1, <1>4, <1>7
  <2>2. Last(p) = c[n]
    BY <1>4, <2>1 DEF Last
  <2>3. h[c[n]] /= Freed
    BY <2>1 DEF Linked
  <2>4. CASE n = Len(c)
    <3>1. h[c[n]].next = None
      BY <2>1, <2>4 DEF Linked
    <3>2. WalkStep(h, p, n) = p
      BY <2>2, <3>1 DEF WalkStep
    <3>3. Len(q) = n
      BY <1>5, <2>4
    <3>4. p = q
      BY <1>4, <1>5, <2>1, <3>3
    <3> QED BY <1>2, <1>3, <3>2, <3>4
  <2>5. CASE n < Len(c)
    <3>1. n \in 1..Len(c) - 1 /\ n + 1 \in 1..Len(c)
      BY <1>1, <2>5
    <3>2. h[c[n]].next = c[n + 1]
      BY <3>1 DEF Linked
    <3>3. c[n + 1] \in Addrs /\ c[n + 1] /= None
      BY <1>1, <3>1, BlockListAssumption
    <3>4. WalkStep(h, p, n) = Append(p, c[n + 1])
      BY <2>1, <2>2, <2>3, <3>2, <3>3 DEF WalkStep
    <3>5. Len(q) = n + 1 /\ Len(Append(p, c[n + 1])) = n + 1
      BY <1>5, <2>1, <2>5, <3>3
    <3>6. \A i \in 1..n + 1 : Append(p, c[n + 1])[i] = c[i]
      BY <1>4, <2>1, <3>3
    <3>7. Append(p, c[n + 1]) \in Seq(Addrs) /\ \A i \in 1..n + 1 : q[i] = c[i]
      BY <1>5, <3>3, <3>5
    <3>8. PICK r \in Seq(Addrs) : r = Append(p, c[n + 1])
      BY <3>7
    <3>9. r = q
      BY <3>5, <3>6, <3>7, <3>8, SeqEqual
    <3> QED BY <1>2, <1>3, <3>4, <3>8, <3>9
  <2> QED BY <1>1, <1>7, <2>4, <2>5
<1> QED BY <1>1, <1>6, <1>7

\* The walk finds the chain, whichever way it is known that there is one.
LEMMA ChainUnique ==
  ASSUME NEW h, NEW b, NEW c, Linked(h, b, c)
  PROVE  ChainFrom(h, b) = c
<1>1. PICK C \in Nat : C = Cardinality(Addrs) /\ Len(c) <= C
  BY ChainSize
<1>2. c \in Seq(Addrs) /\ Len(c) \in Nat
  BY DEF Linked
<1> DEFINE First == IF b = None THEN <<>> ELSE <<b>>
           Walk(w) == w = [n \in 0..C |-> IF n = 0 THEN First ELSE WalkStep(h, w[n - 1], n)]
           w0 == [n \in 0..C |-> Begin(c, n)]
           g == CHOOSE w : Walk(w)
<1>3. ChainFrom(h, b) = g[C]
  BY <1>1 DEF ChainFrom, WalkStep
<1>4. Walk(w0)
  <2> DEFINE r == [n \in 0..C |-> IF n = 0 THEN First ELSE WalkStep(h, w0[n - 1], n)]
  <2>1. ASSUME NEW n \in 0..C PROVE w0[n] = r[n]
    <3>1. CASE n = 0
      BY <3>1, WalkFirst
    <3>2. CASE n /= 0
      <4>1. n \in Nat \ {0} /\ n - 1 \in 0..C
        BY <3>2
      <4>2. w0[n - 1] = Begin(c, n - 1)
        BY <4>1
      <4>3. r[n] = WalkStep(h, Begin(c, n - 1), n)
        BY <3>2, <4>2
      <4>4. w0[n] = Begin(c, n)
        OBVIOUS
      <4> QED BY <4>1, <4>3, <4>4, WalkNext
    <3> QED BY <3>1, <3>2
  <2>2. w0 = r
    BY <2>1
  <2> QED BY <2>2
<1>5. Walk(g)
  <2> HIDE DEF Walk, w0
  <2> QED BY <1>4
<1> HIDE DEF g
<1>6. g[0] = Begin(c, 0)
  BY <1>5, WalkFirst
<1>7. \A n \in 1..C : g[n] = WalkStep(h, g[n - 1], n)
  BY <1>5
<1> HIDE DEF Walk, First
<1> DEFINE P == {n \in Nat \ {0} : n <= C => g[n] = Begin(c, n)}
<1>8. ASSUME NEW n \in 1..C, g[n - 1] = Begin(c, n - 1) PROVE g[n] = Begin(c, n)
  BY <1>7, <1>8, WalkNext
<1>9. 1 \in P
  <2>1. 1 <= C => 1 \in 1..C /\ 1 - 1 = 0
    OBVIOUS
  <2> QED BY <1>6, <1>8, <2>1
<1>10. ASSUME NEW n \in Nat \ {0}, n \in P PROVE n + 1 \in P
  <2>1. n + 1 <= C => n + 1 \in 1..C /\ n <= C /\ (n + 1) - 1 = n
    OBVIOUS
  <2> QED BY <1>8, <1>10, <2>1
<1>11. \A n \in Nat \ {0} : n \in P
  <2> HIDE DEF P
  <2> QED BY <1>9, <1>10, SetInduction
<1>12. g[C] = Begin(c, C)
  BY <1>6, <1>11
<1>13. Begin(c, C) = c
  <2>1. PICK p \in Seq(Addrs) : p = Begin(c, C)
    BY <1>2, BeginAt
  <2>2. Len(p) = Len(c) /\ \A i \in 1..Len(p) : p[i] = c[i]
    BY <1>1, <1>2, <2>1, BeginAt
  <2> QED BY <1>2, <2>1, <2>2, SeqEqual
<1> QED BY <1>3, <1>12, <1>13

-----------------------------------------------------------------------------
(* What a step does to a chain *)

\* A change of blocks that leaves their links alone.
LEMMA LinkedSame ==
  ASSUME NEW h, NEW k, NEW b, NEW c, Linked(h, b, c),
         \A n \in 1..Len(c) : k[c[n]] /= Freed /\ k[c[n]].next = h[c[n]].next
  PROVE  Linked(k, b, c)
<1>1. c \in Seq(Addrs) /\ (c /= <<>> => Len(c) \in 1..Len(c))
  BY EmptySeq DEF Linked
<1> QED BY <1>1 DEF Linked

\* A new block behind the last one.
LEMMA LinkedAppend ==
  ASSUME NEW h, NEW k, NEW b, NEW c, Linked(h, b, c), c /= <<>>,
         NEW new \in Addrs, h[new] = Freed,
         \A n \in 1..Len(c) - 1 : k[c[n]] = h[c[n]],
         k[c[Len(c)]] /= Freed, k[c[Len(c)]].next = new,
         k[new] /= Freed, k[new].next = None
  PROVE  Linked(k, b, Append(c, new))
<1>1. c \in Seq(Addrs) /\ Len(c) \in Nat /\ Len(c) >= 1
  BY EmptySeq DEF Linked
<1>2. PICK m \in Nat : m = Len(c)
  BY <1>1
<1>3. PICK d \in Seq(Addrs) : d = Append(c, new)
  <2>1. Append(c, new) \in Seq(Addrs)
    BY <1>1
  <2> QED BY <2>1
<1>4. Len(d) = m + 1 /\ d[m + 1] = new /\ \A n \in 1..m : d[n] = c[n]
  BY <1>1, <1>2, <1>3
<1>5. d /= <<>> /\ m >= 1
  BY <1>1, <1>2, <1>4
<1>6. b = d[1]
  BY <1>1, <1>2, <1>4 DEF Linked
<1>7. ASSUME NEW n \in 1..m + 1 PROVE k[d[n]] /= Freed
  <2>1. CASE n = m + 1
    BY <1>4, <2>1
  <2>2. CASE n = m
    BY <1>2, <1>4, <1>5, <2>2
  <2>3. CASE n \in 1..m - 1
    <3>1. k[c[n]] = h[c[n]] /\ h[c[n]] /= Freed /\ d[n] = c[n]
      BY <1>2, <1>4, <2>3 DEF Linked
    <3> QED BY <3>1
  <2> QED BY <2>1, <2>2, <2>3
<1>8. ASSUME NEW n \in 1..m PROVE k[d[n]].next = d[n + 1]
  <2>1. CASE n = m
    BY <1>2, <1>4, <1>5, <2>1
  <2>2. CASE n \in 1..m - 1
    <3>1. k[c[n]] = h[c[n]] /\ h[c[n]].next = c[n + 1] /\ d[n] = c[n] /\ d[n + 1] = c[n + 1]
      BY <1>2, <1>4, <2>2 DEF Linked
    <3> QED BY <3>1
  <2> QED BY <2>1, <2>2
<1>9. \A n \in 1..m : d[n] /= new
  <2>1. \A n \in 1..m : h[c[n]] /= Freed
    BY <1>2 DEF Linked
  <2> QED BY <1>4, <2>1
<1>10. ASSUME NEW i \in 1..m + 1, NEW n \in 1..m + 1, d[i] = d[n] PROVE i = n
  <2>1. \A x, y \in 1..m : c[x] = c[y] => x = y
    BY <1>2 DEF Linked
  <2> QED BY <1>4, <1>9, <1>10, <2>1
<1>11. k[d[Len(d)]].next = None
  BY <1>4
<1>12. Linked(k, b, d)
  <2>1. Len(d) - 1 = m
    BY <1>4
  <2> QED BY <1>4, <1>5, <1>6, <1>7, <1>8, <1>10, <1>11, <2>1 DEF Linked
<1> QED BY <1>3, <1>12

\* The first block goes.
LEMMA LinkedTail ==
  ASSUME NEW h, NEW k, NEW b, NEW c, Linked(h, b, c), c /= <<>>,
         \A n \in 2..Len(c) : k[c[n]] = h[c[n]]
  PROVE  Linked(k, h[b].next, Tail(c))
<1>1. c \in Seq(Addrs) /\ Len(c) \in Nat /\ Len(c) >= 1
  BY EmptySeq DEF Linked
<1>2. PICK m \in Nat : m = Len(c)
  BY <1>1
<1>3. PICK d \in Seq(Addrs) : d = Tail(c)
  <2>1. Tail(c) \in Seq(Addrs)
    BY <1>1, HeadTailProperties
  <2> QED BY <2>1
<1>4. Len(d) = m - 1 /\ \A n \in 1..m - 1 : d[n] = c[n + 1]
  BY <1>1, <1>2, <1>3
<1>5. b = c[1] /\ m >= 1
  BY <1>1, <1>2 DEF Linked
<1>6. h[b].next = IF d = <<>> THEN None ELSE d[1]
  <2>1. CASE m = 1
    <3>1. d = <<>>
      BY <1>4, <2>1, EmptySeq
    <3> QED BY <1>2, <1>5, <2>1, <3>1 DEF Linked
  <2>2. CASE m /= 1
    <3>1. d /= <<>> /\ 1 \in 1..m - 1
      BY <1>4, <1>5, <2>2
    <3>2. h[c[1]].next = c[1 + 1]
      BY <1>2, <3>1 DEF Linked
    <3> QED BY <1>4, <1>5, <3>1, <3>2
  <2> QED BY <2>1, <2>2
<1>7. ASSUME NEW n \in 1..m - 1 PROVE k[d[n]] = h[c[n + 1]] /\ h[c[n + 1]] /= Freed
  <2>1. n + 1 \in 2..m /\ n + 1 \in 1..m
    OBVIOUS
  <2>2. h[c[n + 1]] /= Freed
    BY <1>2, <2>1 DEF Linked
  <2> QED BY <1>2, <1>4, <2>1, <2>2
<1>8. ASSUME NEW n \in 1..(m - 1) - 1 PROVE k[d[n]].next = d[n + 1]
  <2>1. n \in 1..m - 1 /\ n + 1 \in 1..m - 1
    OBVIOUS
  <2>2. h[c[n + 1]].next = c[(n + 1) + 1]
    BY <1>2, <2>1 DEF Linked
  <2> QED BY <1>4, <1>7, <2>1, <2>2
<1>9. d /= <<>> => k[d[Len(d)]].next = None
  <2> SUFFICES ASSUME d /= <<>> PROVE k[d[Len(d)]].next = None
    OBVIOUS
  <2>1. m - 1 \in 1..m - 1 /\ (m - 1) + 1 = m
    BY <1>4, EmptySeq
  <2>2. h[c[m]].next = None
    BY <1>2 DEF Linked
  <2> QED BY <1>4, <1>7, <2>1, <2>2
<1>10. ASSUME NEW i \in 1..m - 1, NEW n \in 1..m - 1, d[i] = d[n] PROVE i = n
  <2>1. i + 1 \in 1..m /\ n + 1 \in 1..m /\ c[i + 1] = c[n + 1]
    BY <1>4, <1>10
  <2>2. \A x, y \in 1..m : c[x] = c[y] => x = y
    BY <1>2 DEF Linked
  <2>3. i + 1 = n + 1
    BY <2>1, <2>2
  <2> QED BY <2>3
<1>11. Linked(k, h[b].next, d)
  BY <1>4, <1>6, <1>7, <1>8, <1>9, <1>10 DEF Linked
<1> QED BY <1>3, <1>11

-----------------------------------------------------------------------------
(* The items of a chain *)

\* A block as the list keeps it: its values are the slots that were written.
Proper == {b \in Blocks : b.begin <= b.end /\ Len(b.values) = b.end}

\* The fields of a block.
LEMMA ProperBlock ==
  ASSUME NEW b \in Proper
  PROVE  /\ b \in Blocks /\ b /= Freed
         /\ b.begin \in 0..b.end /\ b.end \in 0..N /\ b.next \in Addrs \cup {None}
         /\ b.values \in Seq(Items) /\ Len(b.values) = b.end
BY BlockListAssumption DEF Proper, Blocks

\* What a block holds.
IsHeld(p, b) ==
  /\ Len(p) = b.end - b.begin
  /\ \A i \in 1..Len(p) : p[i] = b.values[b.begin + i]

\* Held, said by its items.
LEMMA HeldOf ==
  ASSUME NEW h, NEW a, h[a] \in Proper
  PROVE  Held(h, a) \in Seq(Items) /\ IsHeld(Held(h, a), h[a])
<1>1. /\ h[a] /= Freed /\ h[a].begin \in 0..h[a].end /\ h[a].end \in 0..N
      /\ h[a].values \in Seq(Items) /\ Len(h[a].values) = h[a].end
  BY ProperBlock
<1>2. PICK v \in Seq(Items), x \in Nat, y \in Nat :
        v = h[a].values /\ x = h[a].begin /\ y = h[a].end /\ x <= y /\ Len(v) = y
  BY <1>1
<1>3. Held(h, a) = SubSeq(v, x + 1, y)
  BY <1>1, <1>2 DEF Held
<1>4. /\ SubSeq(v, x + 1, y) \in Seq(Items) /\ Len(SubSeq(v, x + 1, y)) = y - x
      /\ \A i \in 1..y - x : SubSeq(v, x + 1, y)[i] = v[x + i]
  <2>1. x + 1 \in Int /\ y \in Int /\ \A i \in x + 1..y : v[i] \in Items
    BY <1>2
  <2>2. /\ SubSeq(v, x + 1, y) \in Seq(Items)
        /\ Len(SubSeq(v, x + 1, y)) = IF x + 1 <= y THEN y - (x + 1) + 1 ELSE 0
        /\ \A i \in 1..y - (x + 1) + 1 : SubSeq(v, x + 1, y)[i] = v[(x + 1) + i - 1]
    BY <2>1, SubSeqProperties
  <2>3. ASSUME NEW i \in 1..y - x PROVE SubSeq(v, x + 1, y)[i] = v[x + i]
    <3>1. i \in 1..y - (x + 1) + 1 /\ (x + 1) + i - 1 = x + i
      OBVIOUS
    <3> QED BY <2>2, <3>1
  <2>4. Len(SubSeq(v, x + 1, y)) = y - x
    <3>1. x + 1 <= y \/ x = y
      BY <1>2
    <3> QED BY <2>2, <3>1
  <2> QED BY <2>2, <2>3, <2>4
<1> QED BY <1>2, <1>3, <1>4 DEF IsHeld

\* The parts of ItemsOf.
HeldSeq(h, c) == [n \in 1..Len(c) |-> Held(h, c[n])]

\* The blocks of c are proper.
Allocated(h, c) == c \in Seq(Addrs) /\ \A n \in 1..Len(c) : h[c[n]] \in Proper

\* What the blocks hold, block by block.
LEMMA HeldSeqType ==
  ASSUME NEW h, NEW c, Allocated(h, c)
  PROVE  /\ HeldSeq(h, c) \in Seq(Seq(Items)) /\ Len(HeldSeq(h, c)) = Len(c)
         /\ \A n \in 1..Len(c) : HeldSeq(h, c)[n] = Held(h, c[n])
<1>1. Len(c) \in Nat /\ \A n \in 1..Len(c) : Held(h, c[n]) \in Seq(Items)
  BY HeldOf DEF Allocated
<1> QED BY <1>1 DEF HeldSeq

\* And in a row.
LEMMA ItemsType ==
  ASSUME NEW h, NEW c, Allocated(h, c)
  PROVE  ItemsOf(h, c) \in Seq(Items)
BY HeldSeqType, FlattenType DEF ItemsOf, HeldSeq

\* Without blocks there are no items.
LEMMA ItemsNone == \A h : ItemsOf(h, <<>>) = <<>>
<1> TAKE h
<1>1. [n \in 1..Len(<<>>) |-> Held(h, <<>>[n])] = <<>>
  OBVIOUS
<1> QED BY <1>1, FlattenNone DEF ItemsOf

\* Blocks that hold the same make the same items.
LEMMA ItemsSame ==
  ASSUME NEW h, NEW k, NEW c, \A n \in 1..Len(c) : Held(k, c[n]) = Held(h, c[n])
  PROVE  ItemsOf(k, c) = ItemsOf(h, c)
<1>1. [n \in 1..Len(c) |-> Held(k, c[n])] = [n \in 1..Len(c) |-> Held(h, c[n])]
  OBVIOUS
<1> QED BY <1>1 DEF ItemsOf

\* The items of the first block come first.
LEMMA ItemsFirst ==
  ASSUME NEW h, NEW c, Allocated(h, c), c /= <<>>
  PROVE  /\ Allocated(h, Tail(c))
         /\ ItemsOf(h, c) = Held(h, c[1]) \o ItemsOf(h, Tail(c))
<1>1. c \in Seq(Addrs) /\ Len(c) \in Nat /\ Len(c) >= 1
  BY EmptySeq DEF Allocated
<1>2. PICK d \in Seq(Addrs) : d = Tail(c)
  <2>1. Tail(c) \in Seq(Addrs)
    BY <1>1, HeadTailProperties
  <2> QED BY <2>1
<1>3. Len(d) = Len(c) - 1 /\ \A n \in 1..Len(d) : d[n] = c[n + 1] /\ n + 1 \in 1..Len(c)
  BY <1>1, <1>2
<1>4. Allocated(h, d)
  BY <1>3 DEF Allocated
<1>5. PICK ss \in Seq(Seq(Items)) : ss = HeldSeq(h, c)
  BY HeldSeqType
<1>6. PICK tt \in Seq(Seq(Items)) : tt = HeldSeq(h, d)
  BY <1>4, HeldSeqType
<1>7. Len(ss) = Len(c) /\ \A n \in 1..Len(c) : ss[n] = Held(h, c[n])
  BY <1>5, HeldSeqType
<1>8. Len(tt) = Len(d) /\ \A n \in 1..Len(d) : tt[n] = Held(h, d[n])
  BY <1>4, <1>6, HeldSeqType
<1>9. ss /= <<>> /\ Head(ss) = Held(h, c[1])
  BY <1>1, <1>7
<1>10. Tail(ss) = tt
  <2>1. PICK uu \in Seq(Seq(Items)) : uu = Tail(ss)
    BY <1>9, HeadTailProperties
  <2>2. Len(uu) = Len(ss) - 1 /\ \A n \in 1..Len(uu) : uu[n] = ss[n + 1]
    BY <1>9, <2>1
  <2>3. Len(uu) = Len(tt) /\ \A n \in 1..Len(uu) : uu[n] = tt[n]
    BY <1>3, <1>7, <1>8, <2>2
  <2> QED BY <2>1, <2>3, SeqEqual
<1>11. FlattenSeq(ss) = Held(h, c[1]) \o FlattenSeq(tt)
  BY <1>9, <1>10, FlattenFirst
<1> QED BY <1>2, <1>4, <1>5, <1>6, <1>11 DEF ItemsOf, HeldSeq

\* The items of a block at the end come last.
LEMMA ItemsLast ==
  ASSUME NEW h, NEW c, NEW a \in Addrs, Allocated(h, Append(c, a)), c \in Seq(Addrs)
  PROVE  /\ Allocated(h, c)
         /\ ItemsOf(h, Append(c, a)) = ItemsOf(h, c) \o Held(h, a)
<1>1. PICK d \in Seq(Addrs) : d = Append(c, a)
  <2>1. Append(c, a) \in Seq(Addrs)
    OBVIOUS
  <2> QED BY <2>1
<1>2. PICK m \in Nat : m = Len(c)
  OBVIOUS
<1>3. Len(d) = m + 1 /\ d[m + 1] = a /\ \A n \in 1..m : d[n] = c[n]
  BY <1>1, <1>2
<1>4. Allocated(h, c) /\ Allocated(h, d)
  BY <1>1, <1>2, <1>3 DEF Allocated
<1>5. PICK ss \in Seq(Seq(Items)) : ss = HeldSeq(h, c)
  BY <1>4, HeldSeqType
<1>6. PICK tt \in Seq(Seq(Items)) : tt = HeldSeq(h, d)
  BY <1>4, HeldSeqType
<1>7. Len(ss) = m /\ \A n \in 1..m : ss[n] = Held(h, c[n])
  <2>1. Len(ss) = Len(c) /\ \A n \in 1..Len(c) : ss[n] = Held(h, c[n])
    BY <1>4, <1>5, HeldSeqType
  <2> QED BY <1>2, <2>1
<1>8. Len(tt) = m + 1 /\ \A n \in 1..m + 1 : tt[n] = Held(h, d[n])
  <2>1. Len(tt) = Len(d) /\ \A n \in 1..Len(d) : tt[n] = Held(h, d[n])
    BY <1>4, <1>6, HeldSeqType
  <2> QED BY <1>3, <2>1
<1>9. Held(h, a) \in Seq(Items) /\ tt[m + 1] = Held(h, a)
  <2>1. m + 1 \in 1..m + 1
    OBVIOUS
  <2>2. tt[m + 1] = Held(h, a)
    BY <1>3, <1>8, <2>1
  <2>3. tt[m + 1] \in Seq(Items)
    BY <1>8, <2>1
  <2> QED BY <2>2, <2>3
<1>10. tt = Append(ss, Held(h, a))
  <2>1. PICK uu \in Seq(Seq(Items)) : uu = Append(ss, Held(h, a))
    <3>1. Append(ss, Held(h, a)) \in Seq(Seq(Items))
      BY <1>9
    <3> QED BY <3>1
  <2>2. Len(uu) = m + 1 /\ uu[m + 1] = Held(h, a) /\ \A n \in 1..m : uu[n] = ss[n]
    BY <1>7, <1>9, <2>1
  <2>3. \A n \in 1..m : tt[n] = ss[n]
    BY <1>3, <1>7, <1>8
  <2>4. ASSUME NEW n \in 1..m + 1 PROVE uu[n] = tt[n]
    <3>1. n \in 1..m \/ n = m + 1
      OBVIOUS
    <3> QED BY <1>9, <2>2, <2>3, <3>1
  <2>5. Len(uu) = Len(tt) /\ \A n \in 1..Len(uu) : uu[n] = tt[n]
    BY <1>8, <2>2, <2>4
  <2> QED BY <2>1, <2>5, SeqEqual
<1>11. FlattenSeq(tt) = FlattenSeq(ss) \o Held(h, a)
  BY <1>9, <1>10, FlattenAppend
<1> QED BY <1>1, <1>4, <1>5, <1>6, <1>11 DEF ItemsOf, HeldSeq

-----------------------------------------------------------------------------
(* What a step does to the items *)

\* An item is written behind the others of a block.
Written(b, k, i) ==
  k.begin = b.begin /\ k.end = b.end + 1 /\ k.values = Append(b.values, i)

\* q is p with i behind it.
Added(p, i, q) == q = Append(p, i)

\* Such a block holds one item more.
LEMMA HeldPush ==
  ASSUME NEW h, NEW k, NEW a, h[a] \in Proper, k[a] \in Proper, NEW i \in Items,
         Written(h[a], k[a], i)
  PROVE  Added(Held(h, a), i, Held(k, a))
<1>1. /\ h[a].begin \in 0..h[a].end /\ h[a].end \in 0..N
      /\ h[a].values \in Seq(Items) /\ Len(h[a].values) = h[a].end
  BY ProperBlock
<1>2. PICK v \in Seq(Items), x \in Nat, y \in Nat :
        v = h[a].values /\ x = h[a].begin /\ y = h[a].end /\ x <= y /\ Len(v) = y
  BY <1>1
<1>3. PICK p \in Seq(Items) : p = Held(h, a)
  BY HeldOf
<1>4. PICK q \in Seq(Items) : q = Held(k, a)
  BY HeldOf
<1>5. Len(p) = y - x /\ \A n \in 1..Len(p) : p[n] = v[x + n]
  <2>1. IsHeld(p, h[a])
    BY <1>3, HeldOf
  <2> QED BY <1>2, <2>1 DEF IsHeld
<1>6. Len(q) = (y - x) + 1 /\ \A n \in 1..Len(q) : q[n] = Append(v, i)[x + n]
  <2>1. IsHeld(q, k[a])
    BY <1>4, HeldOf
  <2>2. k[a].begin = x /\ k[a].end = y + 1 /\ k[a].values = Append(v, i)
    BY <1>2 DEF Written
  <2>3. (y + 1) - x = (y - x) + 1
    OBVIOUS
  <2> QED BY <2>1, <2>2, <2>3 DEF IsHeld
<1>7. PICK r \in Seq(Items) : r = Append(p, i)
  <2>1. Append(p, i) \in Seq(Items)
    OBVIOUS
  <2> QED BY <2>1
<1>8. /\ Len(r) = (y - x) + 1 /\ r[(y - x) + 1] = i
      /\ \A n \in 1..y - x : r[n] = v[x + n]
  BY <1>2, <1>5, <1>7
<1>9. Append(v, i)[y + 1] = i /\ \A n \in 1..y : Append(v, i)[n] = v[n]
  BY <1>2
<1>10. ASSUME NEW n \in 1..Len(r) PROVE r[n] = q[n]
  <2>1. CASE n = (y - x) + 1
    <3>1. x + n = y + 1 /\ n \in 1..Len(q)
      BY <1>6, <1>8, <2>1
    <3>2. q[n] = i
      BY <1>6, <1>9, <3>1
    <3> QED BY <1>8, <2>1, <3>2
  <2>2. CASE n \in 1..y - x
    <3>1. x + n \in 1..y
      BY <2>2
    <3>2. q[n] = v[x + n]
      BY <1>6, <1>8, <1>9, <3>1
    <3> QED BY <1>8, <2>2, <3>2
  <2>3. n = (y - x) + 1 \/ n \in 1..y - x
    <3>1. y - x \in Nat
      BY <1>2
    <3>2. PICK m \in Nat : m = y - x
      BY <3>1
    <3>3. n \in 1..m + 1
      BY <1>8, <3>2
    <3>4. n = m + 1 \/ n \in 1..m
      BY <3>3
    <3> QED BY <3>2, <3>4
  <2> QED BY <2>1, <2>2, <2>3
<1>11. Len(r) = Len(q)
  BY <1>2, <1>6, <1>8
<1>12. r = q
  BY <1>10, <1>11, SeqEqual
<1> QED BY <1>3, <1>4, <1>7, <1>12 DEF Added

\* The first item of a block is moved out.
Taken(b, k) ==
  /\ b.begin < b.end /\ k.begin = b.begin + 1 /\ k.end = b.end /\ k.values = b.values

\* Such a block holds what was behind its first item.
LEMMA HeldTake ==
  ASSUME NEW h, NEW k, NEW a, h[a] \in Proper, k[a] \in Proper, Taken(h[a], k[a])
  PROVE  /\ Held(h, a) /= <<>> /\ Head(Held(h, a)) = h[a].values[h[a].begin + 1]
         /\ Held(k, a) = Tail(Held(h, a))
<1>1. /\ h[a].begin \in 0..h[a].end /\ h[a].end \in 0..N
      /\ h[a].values \in Seq(Items) /\ Len(h[a].values) = h[a].end
  BY ProperBlock
<1>2. PICK v \in Seq(Items), x \in Nat, y \in Nat :
        v = h[a].values /\ x = h[a].begin /\ y = h[a].end /\ x < y /\ Len(v) = y
  BY <1>1 DEF Taken
<1>3. PICK p \in Seq(Items) : p = Held(h, a)
  BY HeldOf
<1>4. PICK q \in Seq(Items) : q = Held(k, a)
  BY HeldOf
<1>5. Len(p) = y - x /\ \A n \in 1..Len(p) : p[n] = v[x + n]
  <2>1. IsHeld(p, h[a])
    BY <1>3, HeldOf
  <2> QED BY <1>2, <2>1 DEF IsHeld
<1>6. Len(q) = (y - x) - 1 /\ \A n \in 1..Len(q) : q[n] = v[(x + 1) + n]
  <2>1. IsHeld(q, k[a])
    BY <1>4, HeldOf
  <2>2. k[a].begin = x + 1 /\ k[a].end = y /\ k[a].values = v
    BY <1>2 DEF Taken
  <2>3. y - (x + 1) = (y - x) - 1
    OBVIOUS
  <2> QED BY <2>1, <2>2, <2>3 DEF IsHeld
<1>7. p /= <<>> /\ Head(p) = v[x + 1]
  <2>1. Len(p) >= 1 /\ 1 \in 1..Len(p)
    BY <1>2, <1>5
  <2>2. p /= <<>> /\ Head(p) = p[1]
    BY <2>1
  <2> QED BY <1>5, <2>1, <2>2
<1>8. PICK r \in Seq(Items) : r = Tail(p)
  <2>1. Tail(p) \in Seq(Items)
    BY <1>7, HeadTailProperties
  <2> QED BY <2>1
<1>9. Len(r) = Len(p) - 1 /\ \A n \in 1..Len(r) : r[n] = p[n + 1]
  BY <1>7, <1>8
<1>10. ASSUME NEW n \in 1..Len(r) PROVE r[n] = q[n]
  <2>1. n \in 1..Len(q) /\ n + 1 \in 1..Len(p)
    <3>1. Len(r) = (y - x) - 1 /\ Len(q) = (y - x) - 1 /\ Len(p) = y - x
      BY <1>5, <1>6, <1>9
    <3>2. n \in 1..(y - x) - 1 /\ n + 1 \in 1..y - x
      BY <3>1
    <3> QED BY <3>1, <3>2
  <2>2. q[n] = v[(x + 1) + n]
    BY <1>6, <2>1
  <2>3. p[n + 1] = v[x + (n + 1)]
    BY <1>5, <2>1
  <2>4. x + (n + 1) = (x + 1) + n
    OBVIOUS
  <2> QED BY <1>9, <2>2, <2>3, <2>4
<1>11. Len(r) = Len(q)
  BY <1>2, <1>5, <1>6, <1>9
<1>12. r = q
  BY <1>10, <1>11, SeqEqual
<1> QED BY <1>2, <1>3, <1>4, <1>7, <1>8, <1>12

\* A sequence is its last element behind the others.
LEMMA SplitLast ==
  ASSUME NEW S, NEW c \in Seq(S), c /= <<>>
  PROVE  \E f \in Seq(S) : c = Append(f, c[Len(c)]) /\ Len(f) = Len(c) - 1
                           /\ \A n \in 1..Len(f) : f[n] = c[n]
<1>1. PICK m \in Nat : m = Len(c) /\ m >= 1
  BY EmptySeq
<1>2. PICK f \in Seq(S) : f = SubSeq(c, 1, m - 1)
  <2>1. 1 \in Int /\ m - 1 \in Int /\ \A i \in 1..m - 1 : c[i] \in S
    BY <1>1
  <2>2. SubSeq(c, 1, m - 1) \in Seq(S)
    BY <2>1, SubSeqProperties
  <2> QED BY <2>2
<1>3. Len(f) = m - 1 /\ \A n \in 1..m - 1 : f[n] = c[n]
  BY <1>1, <1>2
<1>4. PICK r \in Seq(S) : r = Append(f, c[m])
  <2>1. c[m] \in S
    BY <1>1
  <2>2. Append(f, c[m]) \in Seq(S)
    BY <2>1
  <2> QED BY <2>2
<1>5. Len(r) = m /\ r[m] = c[m] /\ \A n \in 1..m - 1 : r[n] = f[n]
  BY <1>1, <1>3, <1>4
<1>6. Len(r) = Len(c) /\ \A n \in 1..Len(r) : r[n] = c[n]
  BY <1>1, <1>3, <1>5
<1>7. r = c
  BY <1>6, SeqEqual
<1> QED BY <1>1, <1>3, <1>4, <1>7

\* An item written in the last block is the last item.
LEMMA ItemsPush ==
  ASSUME NEW h, NEW k, NEW c, Allocated(h, c), Allocated(k, c), c /= <<>>, NEW i \in Items,
         \A n \in 1..Len(c) - 1 : k[c[n]] = h[c[n]],
         Added(Held(h, c[Len(c)]), i, Held(k, c[Len(c)]))
  PROVE  Added(ItemsOf(h, c), i, ItemsOf(k, c))
<1>1. c \in Seq(Addrs) /\ Len(c) \in 1..Len(c)
  BY EmptySeq DEF Allocated
<1>2. PICK t \in Addrs : t = c[Len(c)]
  BY <1>1
<1>3. PICK f \in Seq(Addrs) : c = Append(f, t) /\ Len(f) = Len(c) - 1
                              /\ \A n \in 1..Len(f) : f[n] = c[n]
  BY <1>1, <1>2, SplitLast
<1>4. Allocated(h, f) /\ ItemsOf(h, c) = ItemsOf(h, f) \o Held(h, t)
  BY <1>3, ItemsLast
<1>5. ItemsOf(k, c) = ItemsOf(k, f) \o Held(k, t)
  BY <1>3, ItemsLast
<1>6. ItemsOf(k, f) = ItemsOf(h, f)
  <2>1. \A n \in 1..Len(f) : Held(k, f[n]) = Held(h, f[n])
    BY <1>3 DEF Held
  <2> QED BY <2>1, ItemsSame
<1>7. ItemsOf(h, f) \in Seq(Items)
  BY <1>4, ItemsType
<1>8. Held(h, t) \in Seq(Items)
  BY <1>1, <1>2, HeldOf DEF Allocated
<1>9. PICK p \in Seq(Items), q \in Seq(Items) : p = ItemsOf(h, f) /\ q = Held(h, t)
  BY <1>7, <1>8
<1>10. p \o Append(q, i) = Append(p \o q, i)
  OBVIOUS
<1> QED BY <1>2, <1>4, <1>5, <1>6, <1>9, <1>10 DEF Added

\* The items of a new block come last.
LEMMA ItemsNew ==
  ASSUME NEW h, NEW k, NEW c, Allocated(h, c), NEW a \in Addrs, Allocated(k, Append(c, a)),
         \A n \in 1..Len(c) : Held(k, c[n]) = Held(h, c[n])
  PROVE  ItemsOf(k, Append(c, a)) = ItemsOf(h, c) \o Held(k, a)
<1>1. c \in Seq(Addrs)
  BY DEF Allocated
<1>2. ItemsOf(k, Append(c, a)) = ItemsOf(k, c) \o Held(k, a)
  BY <1>1, ItemsLast
<1>3. ItemsOf(k, c) = ItemsOf(h, c)
  BY ItemsSame
<1> QED BY <1>2, <1>3

\* The first item of the first block is the first item.
LEMMA ItemsTake ==
  ASSUME NEW h, NEW k, NEW c, Allocated(h, c), Allocated(k, c), c /= <<>>,
         \A n \in 2..Len(c) : k[c[n]] = h[c[n]],
         Held(h, c[1]) /= <<>>, Held(k, c[1]) = Tail(Held(h, c[1]))
  PROVE  /\ ItemsOf(h, c) /= <<>> /\ Head(ItemsOf(h, c)) = Head(Held(h, c[1]))
         /\ ItemsOf(k, c) = Tail(ItemsOf(h, c))
<1>1. c \in Seq(Addrs) /\ 1 \in 1..Len(c)
  BY EmptySeq DEF Allocated
<1>2. Allocated(h, Tail(c)) /\ ItemsOf(h, c) = Held(h, c[1]) \o ItemsOf(h, Tail(c))
  BY ItemsFirst
<1>3. ItemsOf(k, c) = Held(k, c[1]) \o ItemsOf(k, Tail(c))
  BY ItemsFirst
<1>4. ItemsOf(k, Tail(c)) = ItemsOf(h, Tail(c))
  <2>1. \A n \in 1..Len(Tail(c)) : Tail(c)[n] = c[n + 1] /\ n + 1 \in 2..Len(c)
    BY <1>1
  <2>2. \A n \in 1..Len(Tail(c)) : Held(k, Tail(c)[n]) = Held(h, Tail(c)[n])
    BY <2>1 DEF Held
  <2> QED BY <2>2, ItemsSame
<1>5. PICK p \in Seq(Items), q \in Seq(Items) : p = Held(h, c[1]) /\ q = ItemsOf(h, Tail(c))
  <2>1. Held(h, c[1]) \in Seq(Items)
    BY <1>1, HeldOf DEF Allocated
  <2>2. ItemsOf(h, Tail(c)) \in Seq(Items)
    BY <1>2, ItemsType
  <2> QED BY <2>1, <2>2
<1>6. p /= <<>> => p \o q /= <<>> /\ Head(p \o q) = Head(p) /\ Tail(p \o q) = Tail(p) \o q
  OBVIOUS
<1> QED BY <1>2, <1>3, <1>4, <1>5, <1>6

\* What is left without the first block, when the others are as they were.
SameTail(h, k, c) == \A n \in 2..Len(c) : k[c[n]] = h[c[n]]

\* The first block is given up.
LEMMA ItemsDrop ==
  ASSUME NEW h, NEW k, NEW c, Allocated(h, c), c /= <<>>, SameTail(h, k, c)
  PROVE  /\ Allocated(k, Tail(c))
         /\ ItemsOf(h, c) = Cat(Held(h, c[1]), ItemsOf(k, Tail(c)))
<1>1. c \in Seq(Addrs) /\ 1 \in 1..Len(c)
  BY EmptySeq DEF Allocated
<1>2. Allocated(h, Tail(c)) /\ ItemsOf(h, c) = Held(h, c[1]) \o ItemsOf(h, Tail(c))
  BY ItemsFirst
<1>3. \A n \in 1..Len(Tail(c)) : Tail(c)[n] = c[n + 1] /\ n + 1 \in 2..Len(c)
  BY <1>1
<1>4. Allocated(k, Tail(c))
  BY <1>2, <1>3 DEF Allocated, SameTail
<1>5. \A n \in 1..Len(Tail(c)) : Held(k, Tail(c)[n]) = Held(h, Tail(c)[n])
  BY <1>3 DEF Held, SameTail
<1> QED BY <1>2, <1>4, <1>5, ItemsSame DEF Cat

-----------------------------------------------------------------------------
(* The inductive invariant *)

\* Only the first block can be partly read and only the last one partly written.
Filled(h, c) ==
  /\ \A n \in 2..Len(c) : h[c[n]].begin = 0 /\ h[c[n]].end > 0
  /\ \A n \in 1..Len(c) - 1 : h[c[n]].end = N

ChainInv(h, b, c) == Linked(h, b, c) /\ Covers(h, c) /\ Filled(h, c)

BlockInv ==
  /\ heap \in [Addrs -> Proper \cup {Freed}]
  /\ phase \in {"idle", "pop", "drop", "unwound"}
  /\ ChainInv(heap, head, Chain)
  /\ InUse => Chain /= <<>> /\ tail = Chain[Len(Chain)] /\ len = Len(Contents)

\* The blocks of the chain in this state.
LEMMA InvChain ==
  ASSUME BlockInv
  PROVE  /\ Chain \in Seq(Addrs) /\ Allocated(heap, Chain)
         /\ \A n \in 1..Len(Chain) : Chain[n] \in Addrs /\ heap[Chain[n]] \in Proper
         /\ \A m, n \in 1..Len(Chain) : Chain[m] = Chain[n] => m = n
         /\ Contents \in Seq(Items)
<1>1. Chain \in Seq(Addrs) /\ \A n \in 1..Len(Chain) : heap[Chain[n]] /= Freed
  BY DEF BlockInv, ChainInv, Linked
<1>2. \A n \in 1..Len(Chain) : Chain[n] \in Addrs
  BY <1>1
<1>3. \A n \in 1..Len(Chain) : heap[Chain[n]] \in Proper
  BY <1>1, <1>2 DEF BlockInv
<1>4. Allocated(heap, Chain)
  BY <1>1, <1>3 DEF Allocated
<1>5. Contents \in Seq(Items)
  BY <1>4, ItemsType DEF Contents
<1>6. \A m, n \in 1..Len(Chain) : Chain[m] = Chain[n] => m = n
  BY DEF BlockInv, ChainInv, Linked
<1> QED BY <1>1, <1>2, <1>3, <1>4, <1>5, <1>6

\* The first block, while there is one.
LEMMA InvHead ==
  ASSUME BlockInv, Chain /= <<>>
  PROVE  /\ Len(Chain) \in Nat /\ Len(Chain) >= 1 /\ head = Chain[1]
         /\ head \in Addrs /\ heap[head] \in Proper
         /\ \A n \in 2..Len(Chain) : Chain[n] /= head
<1>1. Len(Chain) \in Nat /\ Len(Chain) >= 1 /\ 1 \in 1..Len(Chain)
  BY InvChain, EmptySeq
<1>2. head = Chain[1]
  BY DEF BlockInv, ChainInv, Linked
<1>3. head \in Addrs /\ heap[head] \in Proper
  BY <1>1, <1>2, InvChain
<1>4. \A n \in 2..Len(Chain) : n \in 1..Len(Chain) /\ n /= 1
  BY <1>1
<1>5. \A n \in 2..Len(Chain) : Chain[n] /= Chain[1]
  BY <1>1, <1>4, InvChain
<1> QED BY <1>1, <1>2, <1>3, <1>5

\* The last block, while the list is in use.
LEMMA InvTail ==
  ASSUME BlockInv, InUse
  PROVE  /\ Chain /= <<>> /\ Len(Chain) \in 1..Len(Chain) /\ tail = Chain[Len(Chain)]
         /\ tail \in Addrs /\ heap[tail] \in Proper /\ len = Len(Contents)
         /\ \A n \in 1..Len(Chain) - 1 : Chain[n] /= tail
<1>1. Chain /= <<>> /\ tail = Chain[Len(Chain)] /\ len = Len(Contents)
  BY DEF BlockInv
<1>2. Len(Chain) \in 1..Len(Chain)
  BY <1>1, InvChain, EmptySeq
<1>3. tail \in Addrs /\ heap[tail] \in Proper
  BY <1>1, <1>2, InvChain
<1>4. \A n \in 1..Len(Chain) - 1 : n \in 1..Len(Chain) /\ n /= Len(Chain)
  BY <1>2
<1>5. \A n \in 1..Len(Chain) - 1 : Chain[n] /= Chain[Len(Chain)]
  BY <1>2, <1>4, InvChain
<1> QED BY <1>1, <1>2, <1>3, <1>5

\* A step has shown its chain once it has named it.
LEMMA NextChain ==
  ASSUME NEW c, Linked(heap', head', c)
  PROVE  Chain' = c /\ Contents' = ItemsOf(heap', c)
<1>1. ChainFrom(heap', head') = c
  BY ChainUnique
<1>2. Chain' = c
  BY <1>1 DEF Chain
<1> QED BY <1>2 DEF Contents

\* A fresh block.
LEMMA FreshBlock ==
  ASSUME NEW v \in Seq(Items), Len(v) <= N
  PROVE  /\ Block(v) \in Proper /\ Block(v).next = None /\ Block(v).begin = 0
         /\ Block(v).end = Len(v) /\ Block(v).values = v
<1>1. Len(v) \in 0..N /\ 0 \in 0..N
  BY BlockListAssumption
<1>2. Block(v) = [next |-> None, begin |-> 0, end |-> Len(v), values |-> v]
  BY DEF Block
<1>3. Block(v) \in Blocks
  BY <1>1, <1>2 DEF Blocks
<1>4. /\ Block(v).next = None /\ Block(v).begin = 0
      /\ Block(v).end = Len(v) /\ Block(v).values = v
  BY <1>2
<1> QED BY <1>1, <1>3, <1>4 DEF Proper

\* A new list is one empty block.
LEMMA InitBlock == Init => BlockInv
<1> SUFFICES ASSUME Init PROVE BlockInv
  OBVIOUS
<1>1. PICK b \in Addrs : /\ heap = [c \in Addrs |-> IF c = b THEN Block(<<>>) ELSE Freed]
                         /\ head = b /\ tail = b
  BY DEF Init
<1>2. len = 0 /\ phase = "idle"
  BY DEF Init
<1>3. PICK k \in Proper : k = Block(<<>>) /\ k.next = None /\ k.begin = 0 /\ k.end = 0
  <2>1. <<>> \in Seq(Items) /\ Len(<<>>) = 0 /\ 0 <= N
    BY BlockListAssumption
  <2> QED BY <2>1, FreshBlock
<1>4. heap \in [Addrs -> Proper \cup {Freed}] /\ heap[b] = k /\ k /= Freed
      /\ \A a \in Addrs : heap[a] /= Freed => a = b
  BY <1>1, <1>3, ProperBlock
<1>5. PICK c \in Seq(Addrs) : c = <<b>> /\ Len(c) = 1 /\ c[1] = b /\ c /= <<>>
  <2>1. <<b>> \in Seq(Addrs)
    OBVIOUS
  <2> QED BY <2>1
<1>6. Linked(heap, head, c)
  BY <1>1, <1>3, <1>4, <1>5 DEF Linked
<1>7. Covers(heap, c) /\ Filled(heap, c)
  BY <1>4, <1>5 DEF Covers, Filled
<1>8. Chain = c
  BY <1>6, ChainUnique DEF Chain
<1>9. Contents = <<>>
  <2>1. Allocated(heap, c)
    BY <1>3, <1>4, <1>5 DEF Allocated
  <2>2. ItemsOf(heap, c) = Held(heap, b) \o ItemsOf(heap, Tail(c))
    BY <1>5, <2>1, ItemsFirst
  <2>3. Tail(c) = <<>>
    BY <1>5
  <2>4. Held(heap, b) = <<>>
    <3>1. Held(heap, b) \in Seq(Items) /\ Len(Held(heap, b)) = 0
      BY <1>3, <1>4, HeldOf DEF IsHeld
    <3> QED BY <3>1, EmptySeq
  <2>5. <<>> \o <<>> = <<>>
    OBVIOUS
  <2> QED BY <1>8, <2>2, <2>3, <2>4, <2>5, ItemsNone DEF Contents
<1>10. len = Len(Contents)
  BY <1>2, <1>9
<1> QED BY <1>1, <1>2, <1>4, <1>5, <1>6, <1>7, <1>8, <1>10 DEF BlockInv, ChainInv

-----------------------------------------------------------------------------
(* The steps, each with what it does to the items *)

\* A change of one block that leaves its link alone and keeps the chain filled.
LEMMA ChangeBlock ==
  ASSUME BlockInv, NEW a \in Addrs, NEW k \in Proper, heap[a] \in Proper,
         heap' = [heap EXCEPT ![a] = k], head' = head, k.next = heap[a].next,
         \A n \in 2..Len(Chain) : a = Chain[n] => k.begin = 0 /\ k.end > 0,
         \A n \in 1..Len(Chain) - 1 : a = Chain[n] => k.end = N
  PROVE  /\ heap' \in [Addrs -> Proper \cup {Freed}] /\ ChainInv(heap', head', Chain)
         /\ Chain' = Chain /\ Contents' = ItemsOf(heap', Chain) /\ Allocated(heap', Chain)
<1>1. heap \in [Addrs -> Proper \cup {Freed}]
  BY DEF BlockInv
<1>2. heap' \in [Addrs -> Proper \cup {Freed}] /\ heap'[a] = k
      /\ \A b \in Addrs : b /= a => heap'[b] = heap[b]
  BY <1>1
<1>3. k /= Freed /\ heap[a] /= Freed
  BY ProperBlock
<1>4. Linked(heap, head, Chain) /\ Covers(heap, Chain) /\ Filled(heap, Chain)
  BY DEF BlockInv, ChainInv
<1>5. \A n \in 1..Len(Chain) : /\ heap'[Chain[n]] \in Proper
                               /\ heap'[Chain[n]] /= Freed
                               /\ heap'[Chain[n]].next = heap[Chain[n]].next
  BY <1>2, <1>3, InvChain, ProperBlock
<1>6. Linked(heap', head', Chain)
  BY <1>4, <1>5, LinkedSame
<1>7. Covers(heap', Chain)
  BY <1>2, <1>3, <1>4 DEF Covers
<1>8. Filled(heap', Chain)
  <2>1. Len(Chain) \in Nat
    BY InvChain
  <2>2. ASSUME NEW n \in 2..Len(Chain)
        PROVE  heap'[Chain[n]].begin = 0 /\ heap'[Chain[n]].end > 0
    <3>1. heap[Chain[n]].begin = 0 /\ heap[Chain[n]].end > 0 /\ Chain[n] \in Addrs
      BY <1>4, <2>1, InvChain DEF Filled
    <3> QED BY <1>2, <3>1
  <2>3. ASSUME NEW n \in 1..Len(Chain) - 1 PROVE heap'[Chain[n]].end = N
    <3>1. heap[Chain[n]].end = N /\ Chain[n] \in Addrs
      BY <1>4, <2>1, InvChain DEF Filled
    <3> QED BY <1>2, <3>1
  <2> QED BY <2>2, <2>3 DEF Filled
<1>9. Chain' = Chain /\ Contents' = ItemsOf(heap', Chain)
  BY <1>6, NextChain
<1>10. Allocated(heap', Chain)
  BY <1>5, InvChain DEF Allocated
<1> QED BY <1>2, <1>6, <1>7, <1>8, <1>9, <1>10 DEF ChainInv

\* push into the tail block.
LEMMA PushStep ==
  ASSUME BlockInv, NEW i \in Items, Push(i)
  PROVE  BlockInv' /\ Contents' = Append(Contents, i)
<1>1. InUse /\ phase = "idle" /\ heap[tail].end < N
  BY DEF Push, InUse
<1>2. /\ Chain /= <<>> /\ Len(Chain) \in 1..Len(Chain) /\ tail = Chain[Len(Chain)]
      /\ tail \in Addrs /\ heap[tail] \in Proper /\ len = Len(Contents)
      /\ \A n \in 1..Len(Chain) - 1 : Chain[n] /= tail
  BY <1>1, InvTail
<1>3. PICK b \in Proper : b = heap[tail]
  BY <1>2
<1>4. /\ b \in Blocks /\ b.begin \in 0..b.end /\ b.end \in 0..N
      /\ b.values \in Seq(Items) /\ Len(b.values) = b.end /\ b.end < N
  BY <1>1, <1>3, ProperBlock
<1>5. PICK k \in Proper : /\ k = [b EXCEPT !.values = Append(@, i), !.end = @ + 1]
                          /\ k.next = b.next /\ k.begin = b.begin
                          /\ k.end = b.end + 1 /\ k.values = Append(b.values, i)
  <2> DEFINE k == [b EXCEPT !.values = Append(@, i), !.end = @ + 1]
  <2>1. Append(b.values, i) \in Seq(Items) /\ Len(Append(b.values, i)) = b.end + 1
    BY <1>4
  <2>2. b.end + 1 \in 0..N /\ b.begin <= b.end + 1 /\ b.begin \in 0..N
    BY <1>4, BlockListAssumption
  <2>3. /\ k.next = b.next /\ k.begin = b.begin
        /\ k.end = b.end + 1 /\ k.values = Append(b.values, i)
    BY <1>4 DEF Blocks
  <2>4. k \in Blocks
    BY <1>4, <2>1, <2>2 DEF Blocks
  <2>5. k \in Proper
    BY <2>1, <2>2, <2>3, <2>4 DEF Proper
  <2> QED BY <2>3, <2>5
<1>6. /\ heap' = [heap EXCEPT ![tail] = k] /\ head' = head /\ tail' = tail
      /\ len' = len + 1 /\ phase' = phase
  BY <1>3, <1>5 DEF Push, Pushed
<1>7. \A n \in 2..Len(Chain) : tail = Chain[n] => k.begin = 0 /\ k.end > 0
  <2>1. \A n \in 2..Len(Chain) : heap[Chain[n]].begin = 0
    BY DEF BlockInv, ChainInv, Filled
  <2>2. k.end > 0
    BY <1>4, <1>5
  <2> QED BY <1>3, <1>5, <2>1, <2>2
<1>8. /\ heap' \in [Addrs -> Proper \cup {Freed}] /\ ChainInv(heap', head', Chain)
      /\ Chain' = Chain /\ Contents' = ItemsOf(heap', Chain) /\ Allocated(heap', Chain)
  <2>1. \A n \in 1..Len(Chain) - 1 : tail = Chain[n] => k.end = N
    BY <1>2
  <2>2. k.next = heap[tail].next
    BY <1>3, <1>5
  <2> QED BY <1>2, <1>6, <1>7, <2>1, <2>2, ChangeBlock
<1>9. heap \in [Addrs -> Proper \cup {Freed}]
  BY DEF BlockInv
<1>10. heap'[tail] = k /\ \A n \in 1..Len(Chain) - 1 : heap'[Chain[n]] = heap[Chain[n]]
  <2>1. \A n \in 1..Len(Chain) - 1 : Chain[n] \in Addrs
    BY <1>2, InvChain
  <2> QED BY <1>2, <1>6, <1>9, <2>1
<1>11. Added(Held(heap, tail), i, Held(heap', tail))
  <2>1. heap'[tail] \in Proper /\ Written(heap[tail], heap'[tail], i)
    BY <1>3, <1>5, <1>10 DEF Written
  <2> QED BY <1>2, <2>1, HeldPush
<1>12. Contents' = Append(Contents, i)
  <2>1. Added(ItemsOf(heap, Chain), i, ItemsOf(heap', Chain))
    BY <1>2, <1>8, <1>10, <1>11, InvChain, ItemsPush
  <2> QED BY <1>8, <2>1 DEF Contents, Added
<1>13. len' = Len(Contents')
  BY <1>2, <1>6, <1>12, InvChain
<1> QED BY <1>1, <1>2, <1>6, <1>8, <1>12, <1>13 DEF BlockInv

\* push into a new block behind a full tail block.
LEMMA PushBlockStep ==
  ASSUME BlockInv, NEW i \in Items, NEW new \in Addrs, PushBlock(i, new)
  PROVE  BlockInv' /\ Contents' = Append(Contents, i)
<1>1. InUse /\ phase = "idle" /\ heap[tail].end = N /\ heap[new] = Freed
  BY DEF PushBlock, InUse
<1>2. /\ Chain /= <<>> /\ Len(Chain) \in 1..Len(Chain) /\ tail = Chain[Len(Chain)]
      /\ tail \in Addrs /\ heap[tail] \in Proper /\ len = Len(Contents)
      /\ \A n \in 1..Len(Chain) - 1 : Chain[n] /= tail
  BY <1>1, InvTail
<1>3. PICK b \in Proper : b = heap[tail]
  BY <1>2
<1>4. /\ b \in Blocks /\ b /= Freed /\ b.begin \in 0..b.end /\ b.end \in 0..N
      /\ b.values \in Seq(Items) /\ Len(b.values) = b.end /\ b.end = N
  BY <1>1, <1>3, ProperBlock
<1>5. PICK k \in Proper : /\ k = [b EXCEPT !.next = new] /\ k.next = new
                          /\ k.begin = b.begin /\ k.end = b.end /\ k.values = b.values
  <2> DEFINE k == [b EXCEPT !.next = new]
  <2>1. k.next = new /\ k.begin = b.begin /\ k.end = b.end /\ k.values = b.values
    BY <1>4 DEF Blocks
  <2>2. k \in Blocks
    BY <1>4 DEF Blocks
  <2>3. k \in Proper
    BY <1>4, <2>1, <2>2 DEF Proper
  <2> QED BY <2>1, <2>3
<1>6. PICK f \in Proper : /\ f = Block(<<i>>) /\ f.next = None /\ f.begin = 0 /\ f.end = 1
                          /\ f.values = <<i>>
  <2>1. <<i>> \in Seq(Items) /\ Len(<<i>>) = 1 /\ 1 <= N
    BY BlockListAssumption
  <2> QED BY <2>1, FreshBlock
<1>7. new /= tail /\ k /= Freed /\ f /= Freed
  BY <1>1, <1>3, <1>4, ProperBlock
<1>8. heap \in [Addrs -> Proper \cup {Freed}]
  BY DEF BlockInv
<1>9. /\ heap' = [heap EXCEPT ![new] = f, ![tail] = k] /\ head' = head /\ tail' = new
      /\ len' = len + 1 /\ phase' = phase
  <2>1. heap' = [heap EXCEPT ![new] = f, ![tail].next = new]
    BY <1>6 DEF PushBlock
  <2>2. [heap EXCEPT ![new] = f, ![tail].next = new] = [heap EXCEPT ![new] = f, ![tail] = k]
    BY <1>2, <1>3, <1>5, <1>7, <1>8
  <2> QED BY <2>1, <2>2 DEF PushBlock, Pushed
<1>10. /\ heap' \in [Addrs -> Proper \cup {Freed}] /\ heap'[new] = f /\ heap'[tail] = k
       /\ \A a \in Addrs : a /= new /\ a /= tail => heap'[a] = heap[a]
  BY <1>2, <1>7, <1>8, <1>9
<1>11. PICK m \in Nat : m = Len(Chain) /\ m >= 1 /\ Chain[m] = tail
  BY <1>2
<1>12. ASSUME NEW n \in 1..m - 1
       PROVE  /\ Chain[n] \in Addrs /\ Chain[n] /= tail /\ Chain[n] /= new
              /\ heap'[Chain[n]] = heap[Chain[n]]
  <2>1. n \in 1..Len(Chain) /\ n \in 1..Len(Chain) - 1
    BY <1>11
  <2>2. heap[Chain[n]] \in Proper /\ Chain[n] \in Addrs
    BY <2>1, InvChain
  <2>3. Chain[n] /= new
    BY <1>1, <2>2, ProperBlock
  <2> QED BY <1>2, <1>10, <2>1, <2>2, <2>3
<1>13. PICK d \in Seq(Addrs) : d = Append(Chain, new)
  <2>1. Append(Chain, new) \in Seq(Addrs)
    BY InvChain
  <2> QED BY <2>1
<1>14. Len(d) = m + 1 /\ d[m + 1] = new /\ d[m] = tail /\ \A n \in 1..m - 1 : d[n] = Chain[n]
  BY <1>11, <1>13, InvChain
<1>15. Linked(heap', head', d)
  <2>1. Linked(heap, head, Chain)
    BY DEF BlockInv, ChainInv
  <2>2. Linked(heap', head, Append(Chain, new))
    <3>1. \A n \in 1..Len(Chain) - 1 : heap'[Chain[n]] = heap[Chain[n]]
      BY <1>11, <1>12
    <3>2. heap'[Chain[Len(Chain)]] /= Freed /\ heap'[Chain[Len(Chain)]].next = new
      BY <1>2, <1>5, <1>7, <1>10
    <3>3. heap'[new] /= Freed /\ heap'[new].next = None
      BY <1>6, <1>7, <1>10
    <3> QED BY <1>1, <1>2, <2>1, <3>1, <3>2, <3>3, LinkedAppend
  <2> QED BY <1>9, <1>13, <2>2
<1>16. Covers(heap', d)
  <2> SUFFICES ASSUME NEW a \in Addrs, heap'[a] /= Freed
               PROVE  \E n \in 1..m + 1 : d[n] = a
    BY <1>14 DEF Covers
  <2>1. CASE a = new
    BY <1>14, <2>1
  <2>2. CASE a = tail
    <3>1. m \in 1..m + 1
      BY <1>11
    <3> QED BY <1>14, <2>2, <3>1
  <2>3. CASE a /= new /\ a /= tail
    <3>1. heap[a] /= Freed
      BY <1>10, <2>3
    <3>2. PICK n \in 1..m : Chain[n] = a
      BY <1>11, <3>1 DEF BlockInv, ChainInv, Covers
    <3>3. n \in 1..m - 1
      BY <1>11, <2>3, <3>2
    <3> QED BY <1>14, <3>2, <3>3
  <2> QED BY <2>1, <2>2, <2>3
<1>17. Filled(heap', d)
  <2>1. Filled(heap, Chain)
    BY DEF BlockInv, ChainInv
  <2>2. ASSUME NEW n \in 2..m + 1 PROVE heap'[d[n]].begin = 0 /\ heap'[d[n]].end > 0
    <3>1. CASE n = m + 1
      BY <1>6, <1>10, <1>14, <3>1
    <3>2. CASE n = m
      <4>1. heap[Chain[m]].begin = 0 /\ heap[Chain[m]].end > 0
        BY <1>11, <2>1, <3>2 DEF Filled
      <4>2. heap'[d[n]] = k /\ heap[Chain[m]] = b
        BY <1>3, <1>10, <1>11, <1>14, <3>2
      <4> QED BY <1>5, <4>1, <4>2
    <3>3. CASE n \in 2..m - 1
      <4>1. heap[Chain[n]].begin = 0 /\ heap[Chain[n]].end > 0
        BY <1>11, <2>1, <3>3 DEF Filled
      <4>2. n \in 1..m - 1
        BY <3>3
      <4> QED BY <1>12, <1>14, <4>1, <4>2
    <3> QED BY <3>1, <3>2, <3>3
  <2>3. ASSUME NEW n \in 1..m PROVE heap'[d[n]].end = N
    <3>1. CASE n = m
      BY <1>4, <1>5, <1>10, <1>14, <3>1
    <3>2. CASE n \in 1..m - 1
      <4>1. heap[Chain[n]].end = N
        BY <1>11, <2>1, <3>2 DEF Filled
      <4> QED BY <1>12, <1>14, <3>2, <4>1
    <3> QED BY <3>1, <3>2
  <2>4. Len(d) - 1 = m
    BY <1>14
  <2> QED BY <1>14, <2>2, <2>3, <2>4 DEF Filled
<1>18. Chain' = d /\ Contents' = ItemsOf(heap', d)
  BY <1>15, NextChain
<1>19. Held(heap', new) = <<i>>
  <2>1. PICK p \in Seq(Items) : p = Held(heap', new)
    BY <1>10, HeldOf
  <2>2. Len(p) = f.end - f.begin /\ \A n \in 1..Len(p) : p[n] = f.values[f.begin + n]
    BY <1>10, <2>1, HeldOf DEF IsHeld
  <2>3. Len(p) = 1 /\ p[1] = i
    BY <1>6, <2>2
  <2> QED BY <2>1, <2>3
<1>20. \A n \in 1..Len(Chain) : Held(heap', Chain[n]) = Held(heap, Chain[n])
  <2>1. Held(heap', tail) = Held(heap, tail)
    BY <1>3, <1>4, <1>5, <1>7, <1>10 DEF Held
  <2>2. \A n \in 1..m - 1 : Held(heap', Chain[n]) = Held(heap, Chain[n])
    BY <1>12 DEF Held
  <2> QED BY <1>11, <2>1, <2>2
<1>21. Contents' = Append(Contents, i)
  <2>1. Allocated(heap', d)
    <3>1. \A n \in 1..Len(d) : heap'[d[n]] /= Freed /\ d[n] \in Addrs
      BY <1>15 DEF Linked
    <3>2. \A n \in 1..Len(d) : heap'[d[n]] \in Proper
      BY <1>10, <3>1
    <3> QED BY <3>2 DEF Allocated
  <2>2. Allocated(heap, Chain) /\ Allocated(heap', Append(Chain, new))
    BY <1>13, <2>1, InvChain
  <2>3. ItemsOf(heap', Append(Chain, new)) = ItemsOf(heap, Chain) \o Held(heap', new)
    BY <1>20, <2>2, ItemsNew
  <2>4. PICK p \in Seq(Items) : p = Contents
    BY InvChain
  <2>5. p \o <<i>> = Append(p, i)
    BY AppendIsConcat
  <2> QED BY <1>13, <1>18, <1>19, <2>3, <2>4, <2>5 DEF Contents
<1>22. len' = Len(Contents')
  BY <1>2, <1>9, <1>21, InvChain
<1>23. d /= <<>> /\ tail' = d[Len(d)]
  BY <1>9, <1>14
<1> QED BY <1>1, <1>9, <1>10, <1>15, <1>16, <1>17, <1>18, <1>21, <1>22, <1>23
        DEF BlockInv, ChainInv

\* pop with an unread item in the head block.
LEMMA TakeStep ==
  ASSUME BlockInv, PopTake
  PROVE  /\ BlockInv' /\ Contents /= <<>>
         /\ ret' = <<"some", Head(Contents)>> /\ Contents' = Tail(Contents)
<1>1. InUse /\ phase' = "idle" /\ head' = head /\ tail' = tail /\ len' = len - 1
  BY DEF PopTake
<1>2. /\ Chain /= <<>> /\ tail = Chain[Len(Chain)] /\ len = Len(Contents)
  BY <1>1, InvTail
<1>3. /\ Len(Chain) \in Nat /\ Len(Chain) >= 1 /\ head = Chain[1]
      /\ head \in Addrs /\ heap[head] \in Proper
      /\ \A n \in 2..Len(Chain) : Chain[n] /= head
  BY <1>2, InvHead
<1>4. PICK b \in Proper : b = heap[head]
  BY <1>3
<1>5. /\ b \in Blocks /\ b.begin \in 0..b.end /\ b.end \in 0..N
      /\ b.values \in Seq(Items) /\ Len(b.values) = b.end /\ b.begin < b.end
  <2>1. b.begin /= b.end
    BY <1>4 DEF PopTake, Exhausted
  <2> QED BY <2>1, ProperBlock
<1>6. PICK k \in Proper : /\ k = [b EXCEPT !.begin = @ + 1] /\ k.next = b.next
                          /\ k.begin = b.begin + 1 /\ k.end = b.end /\ k.values = b.values
  <2> DEFINE k == [b EXCEPT !.begin = @ + 1]
  <2>1. k.next = b.next /\ k.begin = b.begin + 1 /\ k.end = b.end /\ k.values = b.values
    BY <1>5 DEF Blocks
  <2>2. b.begin + 1 \in 0..N /\ b.begin + 1 <= b.end
    BY <1>5, BlockListAssumption
  <2>3. k \in Blocks
    BY <1>5, <2>2 DEF Blocks
  <2>4. k \in Proper
    BY <1>5, <2>1, <2>2, <2>3 DEF Proper
  <2> QED BY <2>1, <2>4
<1>7. heap' = [heap EXCEPT ![head] = k] /\ ret' = <<"some", b.values[b.begin + 1]>>
  BY <1>4, <1>6 DEF PopTake
<1>8. \A n \in 1..Len(Chain) - 1 : head = Chain[n] => k.end = N
  <2>1. \A n \in 1..Len(Chain) - 1 : heap[Chain[n]].end = N
    BY DEF BlockInv, ChainInv, Filled
  <2> QED BY <1>4, <1>6, <2>1
<1>9. /\ heap' \in [Addrs -> Proper \cup {Freed}] /\ ChainInv(heap', head', Chain)
      /\ Chain' = Chain /\ Contents' = ItemsOf(heap', Chain) /\ Allocated(heap', Chain)
  <2>1. \A n \in 2..Len(Chain) : head = Chain[n] => k.begin = 0 /\ k.end > 0
    BY <1>3
  <2>2. k.next = heap[head].next
    BY <1>4, <1>6
  <2> QED BY <1>1, <1>3, <1>7, <1>8, <2>1, <2>2, ChangeBlock
<1>10. heap'[head] = k /\ \A n \in 2..Len(Chain) : heap'[Chain[n]] = heap[Chain[n]]
  <2>1. \A n \in 2..Len(Chain) : Chain[n] \in Addrs
    BY <1>3, InvChain
  <2>2. heap \in [Addrs -> Proper \cup {Freed}]
    BY DEF BlockInv
  <2> QED BY <1>3, <1>7, <2>1, <2>2
<1>11. /\ Held(heap, head) /= <<>> /\ Head(Held(heap, head)) = b.values[b.begin + 1]
       /\ Held(heap', head) = Tail(Held(heap, head))
  <2>1. heap'[head] \in Proper /\ Taken(heap[head], heap'[head])
    <3>1. heap'[head] = k /\ heap[head] = b
      BY <1>4, <1>10
    <3>2. Taken(b, k)
      BY <1>5, <1>6 DEF Taken
    <3> QED BY <1>6, <3>1, <3>2
  <2>2. /\ Held(heap, head) /= <<>>
        /\ Head(Held(heap, head)) = heap[head].values[heap[head].begin + 1]
        /\ Held(heap', head) = Tail(Held(heap, head))
    BY <1>3, <2>1, HeldTake
  <2> QED BY <1>4, <2>2
<1>12. /\ Contents /= <<>> /\ Head(Contents) = b.values[b.begin + 1]
       /\ Contents' = Tail(Contents)
  <2>1. Allocated(heap, Chain) /\ Allocated(heap', Chain)
    BY <1>9, InvChain
  <2>2. Held(heap, Chain[1]) /= <<>> /\ Held(heap', Chain[1]) = Tail(Held(heap, Chain[1]))
    BY <1>3, <1>11
  <2>3. /\ ItemsOf(heap, Chain) /= <<>>
        /\ Head(ItemsOf(heap, Chain)) = Head(Held(heap, Chain[1]))
        /\ ItemsOf(heap', Chain) = Tail(ItemsOf(heap, Chain))
    BY <1>2, <1>10, <2>1, <2>2, ItemsTake
  <2> QED BY <1>3, <1>9, <1>11, <2>3 DEF Contents
<1>13. len' = Len(Contents')
  <2>1. Len(Tail(Contents)) = Len(Contents) - 1
    BY <1>12, InvChain, HeadTailProperties
  <2> QED BY <1>1, <1>2, <1>12, <2>1
<1>14. phase' \in {"idle", "pop", "drop", "unwound"}
  BY <1>1
<1>15. BlockInv'
  BY <1>1, <1>2, <1>9, <1>13, <1>14 DEF BlockInv
<1> QED BY <1>7, <1>12, <1>15

\* A head block without unread items adds nothing.
LEMMA ExhaustedHead ==
  ASSUME BlockInv, Chain /= <<>>, Exhausted(head)
  PROVE  Held(heap, head) = <<>>
<1>1. heap[head] \in Proper
  BY InvHead
<1>2. PICK p \in Seq(Items) : p = Held(heap, head)
  BY <1>1, HeldOf
<1>3. Len(p) = heap[head].end - heap[head].begin
  BY <1>1, <1>2, HeldOf DEF IsHeld
<1>4. heap[head].end \in Nat /\ heap[head].begin = heap[head].end
  BY <1>1, ProperBlock DEF Exhausted
<1>5. Len(p) = 0
  BY <1>3, <1>4
<1> QED BY <1>2, <1>5, EmptySeq

\* pop on an empty list.
LEMMA NoneStep ==
  ASSUME BlockInv, PopNone
  PROVE  BlockInv' /\ Contents = <<>> /\ Contents' = Contents
<1>1. /\ InUse /\ Exhausted(head) /\ head = tail /\ phase' = "idle"
      /\ heap' = heap /\ head' = head /\ tail' = tail /\ len' = len
  BY DEF PopNone
<1>2. Chain /= <<>> /\ tail = Chain[Len(Chain)] /\ len = Len(Contents)
  BY <1>1, InvTail
<1>3. /\ Len(Chain) \in Nat /\ Len(Chain) >= 1 /\ head = Chain[1]
      /\ \A n \in 2..Len(Chain) : Chain[n] /= head
  BY <1>2, InvHead
<1>4. Len(Chain) = 1
  <2>1. Chain[Len(Chain)] = head
    BY <1>1, <1>2
  <2>2. Len(Chain) \notin 2..Len(Chain)
    BY <1>3, <2>1
  <2> QED BY <1>3, <2>2
<1>5. Tail(Chain) = <<>>
  <2>1. Tail(Chain) \in Seq(Addrs) /\ Len(Tail(Chain)) = 0
    BY <1>2, <1>4, InvChain, HeadTailProperties
  <2> QED BY <2>1, EmptySeq
<1>6. ItemsOf(heap, Chain) = Held(heap, Chain[1]) \o ItemsOf(heap, Tail(Chain))
  BY <1>2, InvChain, ItemsFirst
<1>7. Held(heap, head) = <<>>
  BY <1>1, <1>2, ExhaustedHead
<1>8. <<>> \o <<>> = <<>>
  OBVIOUS
<1>9. Contents = <<>>
  BY <1>3, <1>5, <1>6, <1>7, <1>8, ItemsNone DEF Contents
<1>10. Chain' = Chain /\ Contents' = Contents
  BY <1>1 DEF Chain, Contents
<1>11. BlockInv'
  BY <1>1, <1>2, <1>10 DEF BlockInv
<1> QED BY <1>9, <1>10, <1>11

\* The head block is freed and the next one is the head.
LEMMA FreeHead ==
  ASSUME BlockInv, Chain /= <<>>,
         heap' = [heap EXCEPT ![head] = Freed], head' = heap[head].next
  PROVE  /\ heap' \in [Addrs -> Proper \cup {Freed}] /\ ChainInv(heap', head', Chain')
         /\ Chain' = Tail(Chain)
         /\ Contents = Held(heap, head) \o Contents' /\ Contents' \in Seq(Items)
<1>1. /\ Len(Chain) \in Nat /\ Len(Chain) >= 1 /\ head = Chain[1]
      /\ head \in Addrs /\ heap[head] \in Proper
      /\ \A n \in 2..Len(Chain) : Chain[n] /= head
  BY InvHead
<1>2. heap \in [Addrs -> Proper \cup {Freed}]
  BY DEF BlockInv
<1>3. /\ heap' \in [Addrs -> Proper \cup {Freed}] /\ heap'[head] = Freed
      /\ \A a \in Addrs : a /= head => heap'[a] = heap[a]
  BY <1>1, <1>2
<1>4. \A n \in 2..Len(Chain) : Chain[n] \in Addrs /\ heap'[Chain[n]] = heap[Chain[n]]
  <2>1. \A n \in 2..Len(Chain) : Chain[n] \in Addrs
    BY <1>1, InvChain
  <2> QED BY <1>1, <1>3, <2>1
<1>5. Linked(heap, head, Chain) /\ Covers(heap, Chain) /\ Filled(heap, Chain)
  BY DEF BlockInv, ChainInv
<1>6. Linked(heap', head', Tail(Chain))
  <2>1. \A n \in 2..Len(Chain) : heap'[Chain[n]] = heap[Chain[n]]
    BY <1>4
  <2>2. Linked(heap', heap[head].next, Tail(Chain))
    BY <1>5, <2>1, LinkedTail
  <2> QED BY <2>2
<1>7. Chain' = Tail(Chain) /\ Contents' = ItemsOf(heap', Tail(Chain))
  BY <1>6, NextChain
<1>8. PICK d \in Seq(Addrs) : d = Tail(Chain)
  <2>1. Tail(Chain) \in Seq(Addrs)
    BY InvChain, HeadTailProperties
  <2> QED BY <2>1
<1>9. Len(d) = Len(Chain) - 1 /\ \A n \in 1..Len(d) : d[n] = Chain[n + 1]
  BY <1>1, <1>8, InvChain
<1>10. Covers(heap', d)
  <2> SUFFICES ASSUME NEW a \in Addrs, heap'[a] /= Freed
               PROVE  \E n \in 1..Len(d) : d[n] = a
    BY DEF Covers
  <2>1. a /= head /\ heap[a] /= Freed
    BY <1>3
  <2>2. PICK n \in 1..Len(Chain) : Chain[n] = a
    BY <1>5, <2>1 DEF Covers
  <2>3. n /= 1
    BY <1>1, <2>1, <2>2
  <2>4. n - 1 \in 1..Len(d) /\ (n - 1) + 1 = n
    BY <1>1, <1>9, <2>3
  <2>5. d[n - 1] = a
    BY <1>9, <2>2, <2>4
  <2> QED BY <2>4, <2>5
<1>11. Filled(heap', d)
  <2>1. ASSUME NEW n \in 2..Len(d) PROVE heap'[d[n]].begin = 0 /\ heap'[d[n]].end > 0
    <3>1. n + 1 \in 2..Len(Chain) /\ n \in 1..Len(d)
      BY <1>1, <1>9
    <3>2. heap[Chain[n + 1]].begin = 0 /\ heap[Chain[n + 1]].end > 0
      BY <1>5, <3>1 DEF Filled
    <3> QED BY <1>4, <1>9, <3>1, <3>2
  <2>2. ASSUME NEW n \in 1..Len(d) - 1 PROVE heap'[d[n]].end = N
    <3>1. n + 1 \in 2..Len(Chain) /\ n + 1 \in 1..Len(Chain) - 1 /\ n \in 1..Len(d)
      BY <1>1, <1>9
    <3>2. heap[Chain[n + 1]].end = N
      BY <1>5, <3>1 DEF Filled
    <3> QED BY <1>4, <1>9, <3>1, <3>2
  <2> QED BY <2>1, <2>2 DEF Filled
<1>12. ChainInv(heap', head', Chain')
  BY <1>6, <1>7, <1>8, <1>10, <1>11 DEF ChainInv
<1>13. /\ Allocated(heap', Tail(Chain))
       /\ ItemsOf(heap, Chain) = Held(heap, Chain[1]) \o ItemsOf(heap', Tail(Chain))
  <2>1. SameTail(heap, heap', Chain)
    BY <1>4 DEF SameTail
  <2>2. Allocated(heap, Chain)
    BY InvChain
  <2>3. Chain /= <<>>
    OBVIOUS
  <2>4. /\ Allocated(heap', Tail(Chain))
        /\ ItemsOf(heap, Chain) = Cat(Held(heap, Chain[1]), ItemsOf(heap', Tail(Chain)))
    BY <2>1, <2>2, <2>3, ItemsDrop
  <2> QED BY <2>4 DEF Cat
<1>14. Contents' \in Seq(Items)
  BY <1>7, <1>13, ItemsType
<1>15. Contents = Held(heap, head) \o Contents'
  BY <1>1, <1>7, <1>13 DEF Contents
<1> QED BY <1>3, <1>7, <1>12, <1>14, <1>15

\* pop moves on from a drained head block.
LEMMA AdvanceStep ==
  ASSUME BlockInv, PopAdvance
  PROVE  BlockInv' /\ Contents' = Contents
<1>1. /\ InUse /\ Exhausted(head) /\ head /= tail /\ phase' = "pop"
      /\ heap' = [heap EXCEPT ![head] = Freed] /\ head' = heap[head].next
      /\ tail' = tail /\ len' = len
  BY DEF PopAdvance
<1>2. Chain /= <<>> /\ tail = Chain[Len(Chain)] /\ len = Len(Contents)
  BY <1>1, InvTail
<1>3. Len(Chain) \in Nat /\ Len(Chain) >= 1 /\ head = Chain[1]
  BY <1>2, InvHead
<1>4. /\ heap' \in [Addrs -> Proper \cup {Freed}] /\ ChainInv(heap', head', Chain')
      /\ Chain' = Tail(Chain)
      /\ Contents = Held(heap, head) \o Contents' /\ Contents' \in Seq(Items)
  BY <1>1, <1>2, FreeHead
<1>5. Held(heap, head) = <<>>
  BY <1>1, <1>2, ExhaustedHead
<1>6. Contents' = Contents
  <2>1. PICK q \in Seq(Items) : q = Contents'
    BY <1>4
  <2>2. <<>> \o q = q
    BY ConcatEmptySeq
  <2> QED BY <1>4, <1>5, <2>1, <2>2
<1>7. Len(Chain) >= 2
  <2>1. PICK m \in Nat : m = Len(Chain)
    BY <1>3
  <2>2. m /= 1 /\ m >= 1
    BY <1>1, <1>2, <1>3, <2>1
  <2>3. m >= 2
    BY <2>2
  <2> QED BY <2>1, <2>3
<1>8. Chain' /= <<>> /\ tail' = Chain'[Len(Chain')]
  <2>1. PICK d \in Seq(Addrs) : d = Tail(Chain)
    <3>1. Tail(Chain) \in Seq(Addrs)
      BY <1>2, InvChain, HeadTailProperties
    <3> QED BY <3>1
  <2>2. Len(d) = Len(Chain) - 1 /\ \A n \in 1..Len(d) : d[n] = Chain[n + 1]
    BY <1>2, <2>1, InvChain, HeadTailProperties
  <2>3. Len(d) \in 1..Len(d) /\ Len(d) + 1 = Len(Chain) /\ d /= <<>>
    BY <1>3, <1>7, <2>2
  <2>4. d[Len(d)] = Chain[Len(Chain)]
    BY <2>2, <2>3
  <2> QED BY <1>1, <1>2, <1>4, <2>1, <2>3, <2>4
<1>9. len' = Len(Contents')
  BY <1>1, <1>2, <1>6
<1>10. phase' \in {"idle", "pop", "drop", "unwound"}
  BY <1>1
<1>11. BlockInv'
  BY <1>4, <1>8, <1>9, <1>10 DEF BlockInv
<1> QED BY <1>6, <1>11

\* The list has a first block as long as the walk of its drop is not over.
LEMMA DropHead ==
  ASSUME BlockInv, head /= None
  PROVE  Chain /= <<>>
BY DEF BlockInv, ChainInv, Linked

\* Dropping the list: the items of a block, all of them.
LEMMA DropStep ==
  ASSUME BlockInv, DropBlock
  PROVE  /\ BlockInv' /\ Contents \in Seq(Items) /\ Contents' \in Seq(Items)
         /\ Contents = Held(heap, head) \o Contents' /\ Held(heap, head) \in Seq(Items)
         /\ ret' = IF Held(heap, head) = <<>> THEN ret ELSE <<"dropped">> \o Held(heap, head)
<1>1. /\ head /= None /\ phase' = "drop"
      /\ heap' = [heap EXCEPT ![head] = Freed] /\ head' = heap[head].next
      /\ ret' = IF Exhausted(head) THEN ret
                ELSE <<"dropped">> \o
                     SubSeq(heap[head].values, heap[head].begin + 1, heap[head].end)
  BY DEF DropBlock
<1>2. Chain /= <<>>
  BY <1>1, DropHead
<1>3. heap[head] \in Proper
  BY <1>2, InvHead
<1>4. /\ heap' \in [Addrs -> Proper \cup {Freed}] /\ ChainInv(heap', head', Chain')
      /\ Contents = Held(heap, head) \o Contents' /\ Contents' \in Seq(Items)
  BY <1>1, <1>2, FreeHead
<1>5. Held(heap, head) = SubSeq(heap[head].values, heap[head].begin + 1, heap[head].end)
  BY <1>3, ProperBlock DEF Held
<1>6. Exhausted(head) <=> Held(heap, head) = <<>>
  <2>1. PICK p \in Seq(Items) : p = Held(heap, head)
    BY <1>3, HeldOf
  <2>2. Len(p) = heap[head].end - heap[head].begin
    BY <1>3, <2>1, HeldOf DEF IsHeld
  <2>3. heap[head].end \in Nat /\ heap[head].begin \in Nat
    BY <1>3, ProperBlock
  <2>4. Len(p) = 0 <=> heap[head].begin = heap[head].end
    BY <2>2, <2>3
  <2>5. Len(p) = 0 <=> p = <<>>
    BY EmptySeq
  <2> QED BY <2>1, <2>4, <2>5 DEF Exhausted
<1>7. ~InUse'
  BY <1>1 DEF InUse
<1>8. phase' \in {"idle", "pop", "drop", "unwound"}
  BY <1>1
<1>9. BlockInv'
  BY <1>4, <1>7, <1>8 DEF BlockInv
<1>10. ret' = IF Held(heap, head) = <<>> THEN ret ELSE <<"dropped">> \o Held(heap, head)
  BY <1>1, <1>5, <1>6
<1>11. Held(heap, head) \in Seq(Items) /\ Contents \in Seq(Items)
  BY <1>3, HeldOf, InvChain
<1> QED BY <1>4, <1>9, <1>10, <1>11

\* Or up to the one whose destructor panics.
LEMMA PanicStep ==
  ASSUME BlockInv, NEW n \in Nat, DropPanics(n)
  PROVE  /\ BlockInv' /\ Contents \in Seq(Items) /\ Contents' \in Seq(Items)
         /\ Contents = Held(heap, head) \o Contents' /\ Held(heap, head) \in Seq(Items)
         /\ n \in 1..Len(Held(heap, head))
         /\ ret' = <<"unwound">> \o SubSeq(Held(heap, head), 1, n)
<1>1. /\ head /= None /\ phase' = "unwound" /\ n \in 1..heap[head].end - heap[head].begin
      /\ heap' = [heap EXCEPT ![head] = Freed] /\ head' = heap[head].next
      /\ ret' = <<"unwound">> \o
                SubSeq(heap[head].values, heap[head].begin + 1, heap[head].begin + n)
  BY DEF DropPanics
<1>2. Chain /= <<>>
  BY <1>1, DropHead
<1>3. heap[head] \in Proper
  BY <1>2, InvHead
<1>4. /\ heap' \in [Addrs -> Proper \cup {Freed}] /\ ChainInv(heap', head', Chain')
      /\ Contents = Held(heap, head) \o Contents' /\ Contents' \in Seq(Items)
  BY <1>1, <1>2, FreeHead
<1>5. PICK p \in Seq(Items) : p = Held(heap, head)
  BY <1>3, HeldOf
<1>6. PICK v \in Seq(Items), x \in Nat, y \in Nat :
        /\ v = heap[head].values /\ x = heap[head].begin /\ y = heap[head].end
        /\ x <= y /\ Len(v) = y
  <2>1. /\ heap[head].begin \in 0..heap[head].end /\ heap[head].end \in 0..N
        /\ heap[head].values \in Seq(Items) /\ Len(heap[head].values) = heap[head].end
    BY <1>3, ProperBlock
  <2> QED BY <2>1
<1>7. Len(p) = y - x /\ \A i \in 1..Len(p) : p[i] = v[x + i]
  BY <1>3, <1>5, <1>6, HeldOf DEF IsHeld
<1>8. n \in 1..Len(p)
  BY <1>1, <1>6, <1>7
<1>9. SubSeq(v, x + 1, x + n) = SubSeq(p, 1, n)
  <2>1. x + 1 \in Int /\ x + n \in Int /\ \A i \in x + 1..x + n : v[i] \in Items
    <3>1. Len(p) \in Nat /\ Len(p) = y - x /\ n <= Len(p)
      BY <1>5, <1>7, <1>8
    <3>2. x + n <= y
      BY <3>1
    <3>3. ASSUME NEW i \in x + 1..x + n PROVE i \in 1..y
      BY <3>2
    <3>4. \A i \in 1..y : v[i] \in Items
      BY <1>6
    <3>5. \A i \in x + 1..x + n : v[i] \in Items
      BY <3>3, <3>4
    <3>6. x + 1 \in Int /\ x + n \in Int
      OBVIOUS
    <3> QED BY <3>5, <3>6
  <2>2. 1 \in Int /\ n \in Int /\ \A i \in 1..n : p[i] \in Items
    BY <1>8
  <2>3. /\ SubSeq(v, x + 1, x + n) \in Seq(Items)
        /\ Len(SubSeq(v, x + 1, x + n)) = IF x + 1 <= x + n THEN (x + n) - (x + 1) + 1 ELSE 0
        /\ \A i \in 1..(x + n) - (x + 1) + 1 : SubSeq(v, x + 1, x + n)[i] = v[(x + 1) + i - 1]
    BY <2>1, SubSeqProperties
  <2>4. /\ SubSeq(p, 1, n) \in Seq(Items)
        /\ Len(SubSeq(p, 1, n)) = IF 1 <= n THEN n - 1 + 1 ELSE 0
        /\ \A i \in 1..n - 1 + 1 : SubSeq(p, 1, n)[i] = p[1 + i - 1]
    BY <2>2, SubSeqProperties
  <2>5. PICK r \in Seq(Items) : r = SubSeq(v, x + 1, x + n)
    BY <2>3
  <2>6. PICK t \in Seq(Items) : t = SubSeq(p, 1, n)
    BY <2>4
  <2>7. Len(r) = n /\ \A i \in 1..n : r[i] = v[x + i]
    <3>1. x + 1 <= x + n /\ (x + n) - (x + 1) + 1 = n
      BY <1>8
    <3>2. \A i \in 1..n : (x + 1) + i - 1 = x + i
      OBVIOUS
    <3> QED BY <2>3, <2>5, <3>1, <3>2
  <2>8. Len(t) = n /\ \A i \in 1..n : t[i] = p[i]
    <3>1. 1 <= n /\ n - 1 + 1 = n /\ \A i \in 1..n : 1 + i - 1 = i
      BY <1>8
    <3> QED BY <2>4, <2>6, <3>1
  <2>9. \A i \in 1..n : r[i] = t[i]
    <3>1. \A i \in 1..n : i \in 1..Len(p)
      BY <1>8
    <3> QED BY <1>7, <2>7, <2>8, <3>1
  <2>10. r = t
    BY <2>7, <2>8, <2>9, SeqEqual
  <2> QED BY <2>5, <2>6, <2>10
<1>10. ret' = <<"unwound">> \o SubSeq(Held(heap, head), 1, n)
  BY <1>1, <1>5, <1>6, <1>9
<1>11. ~InUse'
  BY <1>1 DEF InUse
<1>12. phase' \in {"idle", "pop", "drop", "unwound"}
  BY <1>1
<1>13. BlockInv'
  BY <1>4, <1>11, <1>12 DEF BlockInv
<1>14. Contents \in Seq(Items)
  BY InvChain
<1> QED BY <1>4, <1>5, <1>8, <1>10, <1>13, <1>14

\* A step that changes nothing.
LEMMA SameStep ==
  ASSUME UNCHANGED vars
  PROVE  (BlockInv => BlockInv') /\ Contents' = Contents /\ ret' = ret
<1>1. heap' = heap /\ head' = head /\ tail' = tail /\ len' = len /\ phase' = phase /\ ret' = ret
  BY DEF vars
<1>2. Chain' = Chain /\ Contents' = Contents
  BY <1>1 DEF Chain, Contents
<1> QED BY <1>1, <1>2 DEF BlockInv, InUse

-----------------------------------------------------------------------------
(* The theorems *)

\* Every step keeps the invariant.
LEMMA NextBlock == BlockInv /\ [Next]_vars => BlockInv'
<1> SUFFICES ASSUME BlockInv, [Next]_vars PROVE BlockInv'
  OBVIOUS
<1>1. ASSUME NEW i \in Items, Push(i) PROVE BlockInv'
  BY <1>1, PushStep
<1>2. ASSUME NEW i \in Items, NEW new \in Addrs, PushBlock(i, new) PROVE BlockInv'
  BY <1>2, PushBlockStep
<1>3. ASSUME NEW n \in 1..N, DropPanics(n) PROVE BlockInv'
  <2>1. n \in Nat
    OBVIOUS
  <2> QED BY <1>3, <2>1, PanicStep
<1>4. CASE PopTake
  BY <1>4, TakeStep
<1>5. CASE PopNone
  BY <1>5, NoneStep
<1>6. CASE PopAdvance
  BY <1>6, AdvanceStep
<1>7. CASE DropBlock
  BY <1>7, DropStep
<1>8. CASE Dropped \/ UNCHANGED vars
  <2>1. UNCHANGED vars
    BY <1>8 DEF Dropped
  <2> QED BY <2>1, SameStep
<1> QED BY <1>1, <1>2, <1>3, <1>4, <1>5, <1>6, <1>7, <1>8 DEF Next

\* So it always holds.
LEMMA BlockInvariance == Spec => []BlockInv
BY InitBlock, NextBlock, PTL DEF Spec

\* For every block size, every set of items and every finite set of addresses:
\* the pointers of the list lead from head through every block that is
\* allocated, once, and to tail, so that pop and push never touch a freed block
\* and none is leaked before a destructor panics.
THEOREM ChainCorrect == Spec => []ChainIsHeap
<1>1. BlockInv => ChainIsHeap
  <2> SUFFICES ASSUME BlockInv PROVE ChainIsHeap
    OBVIOUS
  <2>1. Linked(heap, head, Chain) /\ Covers(heap, Chain)
    BY DEF BlockInv, ChainInv
  <2>2. {Chain[n] : n \in 1..Len(Chain)} = {b \in Addrs : heap[b] /= Freed}
    <3>1. \A n \in 1..Len(Chain) : Chain[n] \in Addrs /\ heap[Chain[n]] /= Freed
      BY <2>1, InvChain DEF Linked
    <3>2. \A b \in Addrs : heap[b] /= Freed => \E n \in 1..Len(Chain) : Chain[n] = b
      BY <2>1 DEF Covers
    <3> QED BY <3>1, <3>2
  <2>3. Cardinality({Chain[n] : n \in 1..Len(Chain)}) = Len(Chain)
    BY <2>1, ChainSize
  <2>4. InUse => Chain /= <<>> /\ Last(Chain) = tail
    BY InvTail DEF Last
  <2> QED BY <2>2, <2>3, <2>4 DEF ChainIsHeap
<1> QED BY <1>1, BlockInvariance, PTL

\* Likewise len is the number of unread items in the blocks, and only the head
\* block is ever partly read and only the tail block partly written.
THEOREM LenCorrect == Spec => []LenExact
<1>1. BlockInv => LenExact
  <2> SUFFICES ASSUME BlockInv, InUse
               PROVE  /\ len = Len(Contents)
                      /\ \A n \in 2..Len(Chain) : heap[Chain[n]].begin = 0 /\ heap[Chain[n]].end > 0
                      /\ \A n \in 1..Len(Chain) - 1 : heap[Chain[n]].end = N
    BY DEF LenExact
  <2>1. len = Len(Contents)
    BY InvTail
  <2>2. Filled(heap, Chain)
    BY DEF BlockInv, ChainInv
  <2> QED BY <2>1, <2>2 DEF Filled
<1> QED BY <1>1, BlockInvariance, PTL

\* Splitting what two sequences make together.
LEMMA Parts ==
  ASSUME NEW S, NEW p \in Seq(S), NEW q \in Seq(S)
  PROVE  /\ Len(p \o q) = Len(p) + Len(q) /\ p \o q \in Seq(S)
         /\ \A n \in 0..Len(p) : SubSeq(p \o q, 1, n) = SubSeq(p, 1, n)
         /\ SubSeq(p \o q, Len(p) + 1, Len(p \o q)) = q
         /\ SubSeq(p, 1, Len(p)) = p
OBVIOUS

\* Every step of the list is a step of the abstract queue.
LEMMA BlockStep ==
  ASSUME BlockInv, [Next]_vars
  PROVE  [Fifo!Next]_(Fifo!vars)
<1>1. ASSUME NEW i \in Items, Push(i) PROVE Fifo!Next
  <2>1. Contents' = Append(Contents, i) /\ ret' = <<"ok">>
    BY <1>1, PushStep DEF Push, Pushed
  <2>2. Fifo!Push(i)
    BY <2>1 DEF Fifo!Push
  <2> QED BY <2>2 DEF Fifo!Next
<1>2. ASSUME NEW i \in Items, NEW new \in Addrs, PushBlock(i, new) PROVE Fifo!Next
  <2>1. Contents' = Append(Contents, i) /\ ret' = <<"ok">>
    BY <1>2, PushBlockStep DEF PushBlock, Pushed
  <2>2. Fifo!Push(i)
    BY <2>1 DEF Fifo!Push
  <2> QED BY <2>2 DEF Fifo!Next
<1>3. ASSUME NEW n \in 1..N, DropPanics(n) PROVE Fifo!Next
  <2>1. n \in Nat
    OBVIOUS
  <2>2. /\ Contents' \in Seq(Items)
        /\ Contents = Held(heap, head) \o Contents' /\ Held(heap, head) \in Seq(Items)
        /\ n \in 1..Len(Held(heap, head))
        /\ ret' = <<"unwound">> \o SubSeq(Held(heap, head), 1, n)
    BY <1>3, <2>1, PanicStep
  <2>3. PICK p \in Seq(Items), q \in Seq(Items) : p = Held(heap, head) /\ q = Contents'
    BY <2>2
  <2>4. Contents = p \o q /\ n \in 1..Len(p) /\ ret' = <<"unwound">> \o SubSeq(p, 1, n)
    BY <2>2, <2>3
  <2>5. /\ Len(p \o q) = Len(p) + Len(q)
        /\ SubSeq(p \o q, 1, n) = SubSeq(p, 1, n)
        /\ SubSeq(p \o q, Len(p) + 1, Len(p \o q)) = q
    <3>1. n \in 0..Len(p)
      BY <2>4
    <3> QED BY <3>1, Parts
  <2>6. n \in 1..Len(Contents) /\ Len(p) \in n..Len(Contents)
    BY <2>4, <2>5
  <2>7. ret' = <<"unwound">> \o SubSeq(Contents, 1, n)
    BY <2>4, <2>5
  <2>8. Contents' = SubSeq(Contents, Len(p) + 1, Len(Contents))
    BY <2>3, <2>4, <2>5
  <2>9. Fifo!DiscardPanics
    BY <2>6, <2>7, <2>8 DEF Fifo!DiscardPanics
  <2> QED BY <2>9 DEF Fifo!Next
<1>4. CASE PopTake
  <2>1. Contents /= <<>> /\ ret' = <<"some", Head(Contents)>> /\ Contents' = Tail(Contents)
    BY <1>4, TakeStep
  <2>2. Fifo!Pop
    BY <2>1 DEF Fifo!Pop
  <2> QED BY <2>2 DEF Fifo!Next
<1>5. CASE PopNone
  <2>1. Contents = <<>> /\ ret' = <<"none">> /\ Contents' = Contents
    BY <1>5, NoneStep DEF PopNone
  <2>2. Fifo!PopNone
    BY <2>1 DEF Fifo!PopNone
  <2> QED BY <2>2 DEF Fifo!Next
<1>6. CASE PopAdvance
  <2>1. Contents' = Contents /\ ret' = ret
    BY <1>6, AdvanceStep DEF PopAdvance
  <2> QED BY <2>1 DEF Fifo!vars
<1>7. CASE DropBlock
  <2>1. /\ Contents' \in Seq(Items)
        /\ Contents = Held(heap, head) \o Contents' /\ Held(heap, head) \in Seq(Items)
        /\ ret' = IF Held(heap, head) = <<>> THEN ret ELSE <<"dropped">> \o Held(heap, head)
    BY <1>7, DropStep
  <2>2. PICK p \in Seq(Items), q \in Seq(Items) : p = Held(heap, head) /\ q = Contents'
    BY <2>1
  <2>3. Contents = p \o q /\ ret' = IF p = <<>> THEN ret ELSE <<"dropped">> \o p
    BY <2>1, <2>2
  <2>4. CASE p = <<>>
    <3>1. Contents' = Contents /\ ret' = ret
      BY <2>2, <2>3, <2>4, ConcatEmptySeq
    <3> QED BY <3>1 DEF Fifo!vars
  <2>5. CASE p /= <<>>
    <3>1. Len(p) \in Nat /\ Len(p) >= 1 /\ Len(q) \in Nat
      BY <2>5, EmptySeq
    <3>2. /\ Len(p \o q) = Len(p) + Len(q)
          /\ SubSeq(p \o q, 1, Len(p)) = SubSeq(p, 1, Len(p))
          /\ SubSeq(p \o q, Len(p) + 1, Len(p \o q)) = q
          /\ SubSeq(p, 1, Len(p)) = p
      <4>1. Len(p) \in 0..Len(p)
        BY <3>1
      <4> QED BY <4>1, Parts
    <3>3. Len(p) \in 1..Len(Contents)
      BY <2>3, <3>1, <3>2
    <3>4. ret' = <<"dropped">> \o SubSeq(Contents, 1, Len(p))
      BY <2>3, <2>5, <3>2
    <3>5. Contents' = SubSeq(Contents, Len(p) + 1, Len(Contents))
      BY <2>2, <2>3, <3>2
    <3>6. Fifo!Discard
      BY <3>3, <3>4, <3>5 DEF Fifo!Discard
    <3> QED BY <3>6 DEF Fifo!Next
  <2> QED BY <2>4, <2>5
<1>8. CASE Dropped \/ UNCHANGED vars
  <2>1. UNCHANGED vars
    BY <1>8 DEF Dropped
  <2>2. Contents' = Contents /\ ret' = ret
    BY <2>1, SameStep
  <2> QED BY <2>2 DEF Fifo!vars
<1> QED BY <1>1, <1>2, <1>3, <1>4, <1>5, <1>6, <1>7, <1>8 DEF Next

\* For every block size and every finite set of addresses the list is a
\* first-in first-out queue across its blocks, and its drop gives up what is
\* left in order, each item at most once.
THEOREM BlockListImplementsFifo == Spec => ImplementsFifo
<1>1. Init => Fifo!Init
  <2> SUFFICES ASSUME Init PROVE Fifo!Init
    OBVIOUS
  <2>1. BlockInv /\ InUse /\ len = 0 /\ ret = <<"none">>
    BY InitBlock DEF Init, InUse
  <2>2. Contents \in Seq(Items) /\ Len(Contents) = 0
    BY <2>1, InvTail, InvChain
  <2>3. Contents = <<>>
    BY <2>2, EmptySeq
  <2> QED BY <2>1, <2>3 DEF Fifo!Init
<1> QED BY <1>1, BlockStep, BlockInvariance, PTL DEF Spec, ImplementsFifo, Fifo!Spec

=============================================================================
