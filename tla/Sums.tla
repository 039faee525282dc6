-------------------------------- MODULE Sums --------------------------------
(***************************************************************************)
(* Sums and other recursions, by induction.  MapThenSumSet is a recursive  *)
(* function that takes the elements in an order of its own; what the       *)
(* proofs about money and limits need of it is that the order does not     *)
(* matter: adding an element to a set adds its weight to the sum.          *)
(* FoldLeft takes the positions of a sequence, the last one first; what    *)
(* the proofs about replies need of it is that it goes step by step        *)
(* (FoldSteps).  A recursive function that goes on at a place of its own   *)
(* choice, as reading a text does, exists when that place is always nearer *)
(* to where it stops (RecursionExists).                                    *)
(*                                                                         *)
(* The weights are a function here.  A sum of an operator's values is      *)
(* brought to this form where it is used, with Adds and SumIsUnique.       *)
(***************************************************************************)
EXTENDS FiniteSetsExt, FiniteSetTheorems, TLAPS

\* The element MapThenSumSet takes first.
Some(s) == CHOOSE x \in s : TRUE

\* g[s] is the sum of the weights of s, for every subset s of B.
Adds(g, w, B) ==
    g = [s \in SUBSET B |->
            IF s = {} THEN 0 ELSE w[Some(s)] + g[s \ {Some(s)}]]

SumOf(w, B) == MapThenSumSet(LAMBDA x : w[x], B)

-----------------------------------------------------------------------------
(* Induction, for sets given as such.                                      *)

\* A set of numbers that has 0 and the successor of each member has them all.
LEMMA NumberInduction ==
    ASSUME NEW T, 0 \in T, \A n \in Nat : n \in T => n + 1 \in T
    PROVE  \A n \in Nat : n \in T
<1> SUFFICES ASSUME NEW k \in Nat, k \notin T PROVE FALSE
  OBVIOUS
<1> DEFINE bad == {n \in Nat : n \notin T}
           less == {p \in Nat \X Nat : p[1] < p[2]}
<1>1. IsWellFoundedOn(less, Nat)
  BY NatLessThanWellFounded DEF OpToRel
<1>2. bad \subseteq Nat /\ bad /= {}
  OBVIOUS
<1> HIDE DEF less
<1>3. PICK n \in bad : \A m \in bad : ~(<<m, n>> \in less)
  BY <1>1, <1>2, WFMin
<1>4. n \in Nat /\ n \notin T /\ n /= 0
  OBVIOUS
<1>5. n - 1 \in Nat /\ n - 1 \notin T /\ n - 1 < n
  BY <1>4
<1>6. <<n - 1, n>> \in less
  BY <1>4, <1>5 DEF less
<1> QED
  BY <1>3, <1>5, <1>6

\* Downwards: what holds at i if it holds from i + 1 on holds everywhere.
LEMMA DownInduction ==
    ASSUME NEW n \in Nat, NEW P,
           \A i \in 1..n : (\A j \in (i + 1)..n : j \in P) => i \in P
    PROVE  \A i \in 1..n : i \in P
<1> DEFINE T == {k \in Nat : \A i \in 1..n : n < i + k => i \in P}
<1>1. 0 \in T
  OBVIOUS
<1>2. ASSUME NEW k \in Nat, k \in T PROVE k + 1 \in T
  <2> SUFFICES ASSUME NEW i \in 1..n, n < i + (k + 1) PROVE i \in P
    OBVIOUS
  <2>1. \A j \in (i + 1)..n : j \in 1..n /\ n < j + k
    OBVIOUS
  <2>2. \A j \in (i + 1)..n : j \in P
    BY <1>2, <2>1
  <2> QED
    BY <2>2
<1>3. \A k \in Nat : k \in T
  <2> HIDE DEF T
  <2> QED
    BY <1>1, <1>2, NumberInduction
<1>4. n \in T
  BY <1>3
<1> QED
  BY <1>4

\* A set that has a subset of B whenever it has all smaller ones has them all.
LEMMA SubsetInduction ==
    ASSUME NEW B, IsFiniteSet(B), NEW T,
           \A s \in SUBSET B :
               (\A u \in SUBSET s : u /= s => u \in T) => s \in T
    PROVE  \A s \in SUBSET B : s \in T
<1> SUFFICES ASSUME NEW k \in SUBSET B, k \notin T PROVE FALSE
  OBVIOUS
<1> DEFINE bad == {s \in SUBSET B : s \notin T}
           R == StrictSubsetOrdering(B)
<1>1. IsWellFoundedOn(R, SUBSET B)
  <2>1. IsWellFoundedOn(StrictSubsetOrdering(B), FiniteSubsetsOf(B))
    BY FS_StrictSubsetOrderingWellFounded
  <2>2. FiniteSubsetsOf(B) = SUBSET B
    BY FS_FiniteSubsetsOfFinite
  <2> QED
    BY <2>1, <2>2
<1>2. bad \subseteq SUBSET B /\ bad /= {}
  OBVIOUS
<1> HIDE DEF R
<1>3. PICK s \in bad : \A u \in bad : ~(<<u, s>> \in R)
  <2> HIDE DEF bad
  <2> QED
    BY <1>1, <1>2, WFMin
<1>4. ASSUME NEW u \in SUBSET s, u /= s, u \notin T PROVE FALSE
  <2>1. u \in bad /\ <<u, s>> \in StrictSubsetOrdering(B)
    BY <1>3, <1>4 DEF StrictSubsetOrdering
  <2> QED
    BY <1>3, <2>1 DEF R
<1> QED
  BY <1>3, <1>4

-----------------------------------------------------------------------------
(* Repetition.                                                             *)

\* h[n] is what n steps make of base.
Iterates(h, base, step) ==
    h[0] = base /\ \A n \in Nat : h[n + 1] = step[<<h[n], n>>]

\* By induction over the length, a step can be repeated any number of times.
LEMMA Iteration ==
    ASSUME NEW A, NEW base \in A, NEW step \in [A \X Nat -> A]
    PROVE  \E h \in [Nat -> A] : Iterates(h, base, step)
<1> DEFINE Upto(g, n) == /\ g \in [0..n -> A]
                         /\ g[0] = base
                         /\ \A k \in 0..n : k < n => g[k + 1] = step[<<g[k], k>>]
           T == {n \in Nat : \E g : Upto(g, n)}
<1>1. 0 \in T
  <2>1. Upto([k \in 0..0 |-> base], 0)
    OBVIOUS
  <2> QED
    BY <2>1
<1>2. ASSUME NEW n \in Nat, n \in T PROVE n + 1 \in T
  <2>1. PICK g : Upto(g, n)
    BY <1>2
  <2> DEFINE h == [k \in 0..(n + 1) |->
                      IF k \in 0..n THEN g[k] ELSE step[<<g[n], n>>]]
  <2>2. step[<<g[n], n>>] \in A
    BY <2>1
  <2>3. h \in [0..(n + 1) -> A]
    BY <2>1, <2>2
  <2>4. \A k \in 0..n : h[k] = g[k]
    OBVIOUS
  <2>5. h[n + 1] = step[<<g[n], n>>]
    OBVIOUS
  <2> HIDE DEF h
  <2>6. \A k \in 0..(n + 1) : k < n + 1 => h[k + 1] = step[<<h[k], k>>]
    <3> SUFFICES ASSUME NEW k \in 0..n PROVE h[k + 1] = step[<<h[k], k>>]
      OBVIOUS
    <3>1. CASE k = n
      BY <3>1, <2>4, <2>5
    <3>2. CASE k < n
      BY <3>2, <2>1, <2>4
    <3> QED
      BY <3>1, <3>2
  <2>7. Upto(h, n + 1)
    BY <2>1, <2>3, <2>4, <2>6
  <2>8. \E f : Upto(f, n + 1)
    BY <2>7
  <2> QED
    BY <2>8
<1>3. \A n \in Nat : \E g : Upto(g, n)
  <2>1. \A n \in Nat : n \in T
    <3> HIDE DEF T
    <3> QED
      BY <1>1, <1>2, NumberInduction
  <2> QED
    BY <2>1
<1> DEFINE G(n) == CHOOSE g : Upto(g, n)
<1>4. \A n \in Nat : Upto(G(n), n)
  <2> HIDE DEF Upto
  <2> QED
    BY <1>3, Zenon
<1> HIDE DEF G
<1>5. \A n \in Nat, m \in Nat : \A k \in Nat : k <= n /\ k <= m => G(n)[k] = G(m)[k]
  <2> SUFFICES ASSUME NEW n \in Nat, NEW m \in Nat
               PROVE  \A k \in Nat : k <= n /\ k <= m => G(n)[k] = G(m)[k]
    OBVIOUS
  <2> DEFINE S == {k \in Nat : k <= n /\ k <= m => G(n)[k] = G(m)[k]}
  <2>1. 0 \in S
    BY <1>4
  <2>2. ASSUME NEW k \in Nat, k \in S PROVE k + 1 \in S
    <3> SUFFICES ASSUME k + 1 <= n, k + 1 <= m
                 PROVE  G(n)[k + 1] = G(m)[k + 1]
      OBVIOUS
    <3>1. k <= n /\ k <= m /\ k < n /\ k < m /\ k \in 0..n /\ k \in 0..m
      OBVIOUS
    <3>2. G(n)[k] = G(m)[k]
      BY <2>2, <3>1
    <3> QED
      BY <1>4, <3>1, <3>2
  <2> HIDE DEF S
  <2>3. \A k \in Nat : k \in S
    BY <2>1, <2>2, NumberInduction
  <2> QED
    BY <2>3 DEF S
<1> DEFINE h == [n \in Nat |-> G(n)[n]]
<1>6. h \in [Nat -> A]
  BY <1>4
<1>7. h[0] = base
  BY <1>4
<1>8. \A n \in Nat : h[n + 1] = step[<<h[n], n>>]
  <2> SUFFICES ASSUME NEW n \in Nat PROVE h[n + 1] = step[<<h[n], n>>]
    OBVIOUS
  <2>1. G(n + 1)[n + 1] = step[<<G(n + 1)[n], n>>]
    <3>1. n + 1 \in Nat /\ n \in 0..(n + 1) /\ n < n + 1
      OBVIOUS
    <3> QED
      BY <1>4, <3>1
  <2>2. G(n + 1)[n] = G(n)[n]
    <3>1. n + 1 \in Nat /\ n <= n /\ n <= n + 1
      OBVIOUS
    <3> QED
      BY <1>5, <3>1
  <2> QED
    BY <2>1, <2>2
<1> HIDE DEF h
<1> QED
  BY <1>6, <1>7, <1>8 DEF Iterates

-----------------------------------------------------------------------------
(* The recursion.                                                          *)

\* What is taken first is an element, and leaves a smaller set.
LEMMA SomeIsIn == ASSUME NEW s, s /= {} PROVE Some(s) \in s
  BY DEF Some

\* By induction over the size of the subsets, there is such a function.
LEMMA SumExists == ASSUME NEW B, IsFiniteSet(B), NEW w PROVE \E g : Adds(g, w, B)
<1> DEFINE Level(n) == {s \in SUBSET B : Cardinality(s) <= n}
           Upto(g, n) == g = [s \in Level(n) |->
                IF s = {} THEN 0 ELSE w[Some(s)] + g[s \ {Some(s)}]]
           T == {n \in Nat : \E g : Upto(g, n)}
<1>1. \A s \in SUBSET B : IsFiniteSet(s) /\ Cardinality(s) \in Nat
                          /\ (Cardinality(s) = 0 <=> s = {})
  BY FS_Subset, FS_CardinalityType, FS_EmptySet
<1>2. 0 \in T
  <2> DEFINE g == [s \in Level(0) |-> 0]
  <2>1. \A s \in Level(0) : s = {}
    BY <1>1
  <2>2. Upto(g, 0)
    BY <2>1
  <2> QED
    BY <2>2
<1>3. ASSUME NEW n \in Nat, n \in T PROVE n + 1 \in T
  <2>1. PICK g : Upto(g, n)
    BY <1>3
  <2> DEFINE h == [s \in Level(n + 1) |->
                IF s = {} THEN 0 ELSE w[Some(s)] + g[s \ {Some(s)}]]
  <2>2. \A s \in Level(n) : s \in Level(n + 1) /\ h[s] = g[s]
    <3>1. \A s \in Level(n) : s \in Level(n + 1)
      BY <1>1
    <3>2. \A s \in Level(n) :
              g[s] = IF s = {} THEN 0 ELSE w[Some(s)] + g[s \ {Some(s)}]
      BY <2>1
    <3> HIDE DEF Level
    <3> QED
      BY <3>1, <3>2
  <2>3. \A s \in Level(n + 1) : s /= {} => s \ {Some(s)} \in Level(n)
    <3> SUFFICES ASSUME NEW s \in Level(n + 1), s /= {}
                 PROVE  s \ {Some(s)} \in Level(n)
      OBVIOUS
    <3>1. IsFiniteSet(s) /\ Some(s) \in s /\ Cardinality(s) \in Nat
          /\ Cardinality(s) <= n + 1
      BY <1>1, SomeIsIn
    <3>2. Cardinality(s \ {Some(s)}) = Cardinality(s) - 1
      BY <3>1, FS_RemoveElement
    <3> QED
      BY <3>1, <3>2
  <2>4. Upto(h, n + 1)
    <3> HIDE DEF Level
    <3>1. h = [s \in Level(n + 1) |->
                IF s = {} THEN 0 ELSE w[Some(s)] + h[s \ {Some(s)}]]
      BY <2>2, <2>3
    <3> QED
      BY <3>1
  <2>5. \E f : Upto(f, n + 1)
    <3> HIDE DEF Upto, h
    <3> QED
      BY <2>4
  <2> HIDE DEF Upto
  <2> QED
    BY <2>5
<1>4. Cardinality(B) \in T
  <2> HIDE DEF T
  <2> QED
    BY <1>2, <1>3, NumberInduction, FS_CardinalityType
<1>5. Level(Cardinality(B)) = SUBSET B
  BY FS_Subset
<1> QED
  BY <1>4, <1>5 DEF Adds

\* MapThenSumSet is such a sum ...
LEMMA SumRecurs ==
    ASSUME NEW B, IsFiniteSet(B), NEW w
    PROVE  \E g : Adds(g, w, B) /\ SumOf(w, B) = g[B]
<1>1. SumOf(w, B) = (CHOOSE g : Adds(g, w, B))[B]
  BY DEF SumOf, MapThenSumSet, MapThenFoldSet, Adds, Some
<1>2. \E g : Adds(g, w, B)
  BY SumExists
<1>3. Adds(CHOOSE g : Adds(g, w, B), w, B)
  BY <1>2, Zenon
<1> QED
  BY <1>1, <1>3

\* ... and sums of the same weights agree.
LEMMA SumsAgree ==
    ASSUME NEW D, IsFiniteSet(D), NEW B, NEW C, D \subseteq B, D \subseteq C,
           NEW g, NEW v, Adds(g, v, B), NEW h, NEW w, Adds(h, w, C),
           \A x \in D : v[x] = w[x]
    PROVE  g[D] = h[D]
<1> DEFINE T == {s \in SUBSET D : g[s] = h[s]}
<1>1. ASSUME NEW s \in SUBSET D, \A u \in SUBSET s : u /= s => u \in T
      PROVE  s \in T
  <2>1. /\ g[s] = IF s = {} THEN 0 ELSE v[Some(s)] + g[s \ {Some(s)}]
        /\ h[s] = IF s = {} THEN 0 ELSE w[Some(s)] + h[s \ {Some(s)}]
    BY DEF Adds
  <2>2. CASE s = {}
    BY <2>1, <2>2
  <2>3. CASE s /= {}
    <3>1. Some(s) \in s
      BY <2>3, SomeIsIn
    <3>2. s \ {Some(s)} \in T
      BY <1>1, <3>1
    <3> QED
      BY <2>1, <2>3, <3>1, <3>2
  <2> QED
    BY <2>2, <2>3
<1> HIDE DEF T
<1>2. \A s \in SUBSET D : s \in T
  BY <1>1, SubsetInduction
<1> QED
  BY <1>2 DEF T

-----------------------------------------------------------------------------
(* Any element may be taken first.                                         *)

\* The sum of integers is one.
LEMMA SumsAreInt ==
    ASSUME NEW B, IsFiniteSet(B), NEW g, NEW w, Adds(g, w, B),
           \A x \in B : w[x] \in Int
    PROVE  \A s \in SUBSET B : g[s] \in Int
<1> DEFINE T == {s \in SUBSET B : g[s] \in Int}
<1>1. ASSUME NEW s \in SUBSET B, \A u \in SUBSET s : u /= s => u \in T
      PROVE  s \in T
  <2>1. g[s] = IF s = {} THEN 0 ELSE w[Some(s)] + g[s \ {Some(s)}]
    BY DEF Adds
  <2>2. CASE s = {}
    BY <2>1, <2>2
  <2>3. CASE s /= {}
    <3>1. Some(s) \in s
      BY <2>3, SomeIsIn
    <3>2. s \ {Some(s)} \in T
      BY <1>1, <3>1
    <3> QED
      BY <2>1, <2>3, <3>1, <3>2
  <2> QED
    BY <2>2, <2>3
<1> HIDE DEF T
<1>2. \A s \in SUBSET B : s \in T
  BY <1>1, SubsetInduction
<1> QED
  BY <1>2 DEF T

\* Whichever element is taken first, the rest has the same sum.
LEMMA AnyFirst ==
    ASSUME NEW B, IsFiniteSet(B), NEW g, NEW w, Adds(g, w, B),
           \A x \in B : w[x] \in Int
    PROVE  \A x \in B : g[B] = w[x] + g[B \ {x}]
<1> DEFINE T == {s \in SUBSET B : \A x \in s : g[s] = w[x] + g[s \ {x}]}
<1>1. \A s \in SUBSET B : s /= {} =>
          Some(s) \in s /\ g[s] = w[Some(s)] + g[s \ {Some(s)}]
  BY SomeIsIn DEF Adds
<1>2. \A s \in SUBSET B : g[s] \in Int
  BY SumsAreInt
<1>3. ASSUME NEW s \in SUBSET B, \A u \in SUBSET s : u /= s => u \in T
      PROVE  s \in T
  <2> SUFFICES ASSUME NEW x \in s PROVE g[s] = w[x] + g[s \ {x}]
    OBVIOUS
  <2> DEFINE y == Some(s)
             r == (s \ {x}) \ {y}
  <2>1. y \in s /\ g[s] = w[y] + g[s \ {y}]
    BY <1>1
  <2> HIDE DEF y
  <2>2. CASE y = x
    BY <2>1, <2>2
  <2>3. CASE y /= x
    <3>1. g[s \ {y}] = w[x] + g[(s \ {y}) \ {x}]
      BY <1>3, <2>1, <2>3
    <3>2. g[s \ {x}] = w[y] + g[r]
      BY <1>3, <2>1, <2>3
    <3>3. (s \ {y}) \ {x} = r
      OBVIOUS
    <3>4. PICK i \in Int, j \in Int, k \in Int : i = w[x] /\ j = w[y] /\ k = g[r]
      <4>1. x \in B /\ y \in B /\ r \in SUBSET B
        BY <2>1
      <4> QED
        BY <1>2, <4>1
    <3> HIDE DEF r
    <3>5. g[s] = j + (i + k)
      BY <2>1, <3>1, <3>3, <3>4
    <3>6. w[x] + g[s \ {x}] = i + (j + k)
      BY <3>2, <3>4
    <3> QED
      BY <3>4, <3>5, <3>6
  <2> QED
    BY <2>2, <2>3
<1> HIDE DEF T
<1>4. \A s \in SUBSET B : s \in T
  BY <1>3, SubsetInduction
<1>5. B \in T
  BY <1>4
<1> QED
  BY <1>5 DEF T

-----------------------------------------------------------------------------
(* What the proofs use.                                                    *)

\* Whatever adds the weights of a set gives its sum.
LEMMA SumIsUnique ==
    ASSUME NEW B, IsFiniteSet(B), NEW g, NEW w, Adds(g, w, B)
    PROVE  g[B] = SumOf(w, B)
<1>1. PICK h : Adds(h, w, B) /\ SumOf(w, B) = h[B]
  BY SumRecurs
<1> QED
  BY <1>1, SumsAgree

\* The sum depends on nothing but the weights of the elements.
LEMMA SumSame ==
    ASSUME NEW B, IsFiniteSet(B), NEW v, NEW w, \A x \in B : v[x] = w[x]
    PROVE  SumOf(v, B) = SumOf(w, B)
<1>1. PICK g : Adds(g, v, B) /\ SumOf(v, B) = g[B]
  BY SumRecurs
<1>2. PICK h : Adds(h, w, B) /\ SumOf(w, B) = h[B]
  BY SumRecurs
<1> QED
  BY <1>1, <1>2, SumsAgree

\* The sum of integers is one ...
LEMMA SumInt ==
    ASSUME NEW B, IsFiniteSet(B), NEW w, \A x \in B : w[x] \in Int
    PROVE  SumOf(w, B) \in Int
<1>1. PICK g : Adds(g, w, B) /\ SumOf(w, B) = g[B]
  BY SumRecurs
<1>2. \A s \in SUBSET B : g[s] \in Int
  BY <1>1, SumsAreInt
<1> QED
  BY <1>1, <1>2

\* ... that of nothing is 0 ...
LEMMA SumEmpty == ASSUME NEW w PROVE SumOf(w, {}) = 0
<1>1. PICK g : Adds(g, w, {}) /\ SumOf(w, {}) = g[{}]
  BY SumRecurs, FS_EmptySet
<1> QED
  BY <1>1 DEF Adds

\* ... and any element adds its weight to the others'.
LEMMA SumSplit ==
    ASSUME NEW C, IsFiniteSet(C), NEW w, \A x \in C : w[x] \in Int, NEW e \in C
    PROVE  SumOf(w, C) = w[e] + SumOf(w, C \ {e})
<1>1. PICK g : Adds(g, w, C) /\ SumOf(w, C) = g[C]
  BY SumRecurs
<1>2. Adds(g, w, C)
  BY <1>1
<1>3. g[C] = w[e] + g[C \ {e}]
  BY <1>2, AnyFirst
<1>4. IsFiniteSet(C \ {e})
  BY FS_RemoveElement
<1>5. PICK h : Adds(h, w, C \ {e}) /\ SumOf(w, C \ {e}) = h[C \ {e}]
  BY <1>4, SumRecurs
<1>6. h[C \ {e}] = g[C \ {e}]
  BY <1>2, <1>4, <1>5, SumsAgree
<1> QED
  BY <1>1, <1>3, <1>5, <1>6

\* The same, for an element that joins.
LEMMA SumAdd ==
    ASSUME NEW B, IsFiniteSet(B), NEW w, \A x \in B : w[x] \in Int,
           NEW e, e \notin B, w[e] \in Int
    PROVE  SumOf(w, B \cup {e}) = SumOf(w, B) + w[e]
<1>1. PICK C : C = B \cup {e}
  OBVIOUS
<1>2. IsFiniteSet(C) /\ e \in C /\ C \ {e} = B /\ (\A x \in C : w[x] \in Int)
  BY <1>1, FS_AddElement
<1>3. SumOf(w, C) = w[e] + SumOf(w, B)
  BY <1>2, SumSplit
<1>4. SumOf(w, B) \in Int
  BY SumInt
<1> QED
  BY <1>1, <1>3, <1>4

\* The sum of naturals is one ...
LEMMA SumNat ==
    ASSUME NEW B, IsFiniteSet(B), NEW w, \A x \in B : w[x] \in Nat
    PROVE  SumOf(w, B) \in Nat
<1>1. PICK g : Adds(g, w, B) /\ SumOf(w, B) = g[B]
  BY SumRecurs
<1> DEFINE T == {s \in SUBSET B : g[s] \in Nat}
<1>2. ASSUME NEW s \in SUBSET B, \A u \in SUBSET s : u /= s => u \in T
      PROVE  s \in T
  <2>1. g[s] = IF s = {} THEN 0 ELSE w[Some(s)] + g[s \ {Some(s)}]
    BY <1>1 DEF Adds
  <2>2. CASE s = {}
    BY <2>1, <2>2
  <2>3. CASE s /= {}
    <3>1. Some(s) \in s
      BY <2>3, SomeIsIn
    <3>2. s \ {Some(s)} \in T
      BY <1>2, <3>1
    <3> QED
      BY <2>1, <2>3, <3>1, <3>2
  <2> QED
    BY <2>2, <2>3
<1> HIDE DEF T
<1>3. \A s \in SUBSET B : s \in T
  BY <1>2, SubsetInduction
<1> QED
  BY <1>1, <1>3 DEF T

\* ... and grows with the set.
LEMMA SumGrows ==
    ASSUME NEW B, IsFiniteSet(B), NEW w, \A x \in B : w[x] \in Nat,
           NEW A \in SUBSET B
    PROVE  SumOf(w, A) <= SumOf(w, B)
<1> DEFINE T == {s \in SUBSET B : SumOf(w, s \cap A) <= SumOf(w, s)}
<1>1. ASSUME NEW s \in SUBSET B, \A u \in SUBSET s : u /= s => u \in T
      PROVE  s \in T
  <2>1. CASE s = {}
    <3>1. s \cap A = s /\ SumOf(w, s) = 0
      BY <2>1, SumEmpty
    <3> QED
      BY <3>1
  <2>2. CASE s /= {}
    <3>1. PICK x \in s : TRUE
      BY <2>2
    <3>2. PICK r : r = s \ {x}
      OBVIOUS
    <3>3. /\ IsFiniteSet(r) /\ IsFiniteSet(r \cap A) /\ x \notin r
          /\ s = r \cup {x} /\ r \in T
      <4>1. r \in SUBSET B /\ r \cap A \in SUBSET B
        BY <3>2
      <4> QED
        BY <1>1, <3>1, <3>2, <4>1, FS_Subset
    <3>4. /\ \A y \in r : w[y] \in Int
          /\ \A y \in r \cap A : w[y] \in Int
          /\ w[x] \in Nat /\ w[x] \in Int
      BY <3>1, <3>2
    <3>5. SumOf(w, s) = SumOf(w, r) + w[x]
      BY <3>3, <3>4, SumAdd
    <3>6. SumOf(w, s \cap A) \in {SumOf(w, r \cap A), SumOf(w, r \cap A) + w[x]}
      <4>1. CASE x \in A
        <5>1. s \cap A = (r \cap A) \cup {x} /\ x \notin r \cap A
          BY <3>3, <4>1
        <5> QED
          BY <3>3, <3>4, <5>1, SumAdd
      <4>2. CASE x \notin A
        <5>1. s \cap A = r \cap A
          BY <3>3, <4>2
        <5> QED
          BY <5>1
      <4> QED
        BY <4>1, <4>2
    <3>7. SumOf(w, r) \in Int /\ SumOf(w, r \cap A) \in Int
      BY <3>3, <3>4, SumInt
    <3>8. SumOf(w, r \cap A) <= SumOf(w, r)
      BY <3>3
    <3> QED
      BY <3>4, <3>5, <3>6, <3>7, <3>8
  <2> QED
    BY <2>1, <2>2
<1> HIDE DEF T
<1>2. \A s \in SUBSET B : s \in T
  BY <1>1, SubsetInduction
<1>3. SumOf(w, B \cap A) <= SumOf(w, B)
  BY <1>2 DEF T
<1>4. B \cap A = A
  OBVIOUS
<1> QED
  BY <1>3, <1>4

-----------------------------------------------------------------------------
(* Folds over positions.                                                   *)

\* A set of positions has a last one.
LEMMA LastPosition ==
    ASSUME NEW n \in Nat, NEW s \in SUBSET (1..n), s /= {}
    PROVE  Max(s) \in s /\ \A y \in s : y <= Max(s)
<1> DEFINE T == {k \in Nat : \A r \in SUBSET (1..k) : r /= {} =>
                                \E x \in r : \A y \in r : x >= y}
<1>1. 0 \in T
  <2>1. 1..0 = {}
    OBVIOUS
  <2> QED
    BY <2>1
<1>2. ASSUME NEW k \in Nat, k \in T PROVE k + 1 \in T
  <2> SUFFICES ASSUME NEW r \in SUBSET (1..(k + 1)), r /= {}
               PROVE  \E x \in r : \A y \in r : x >= y
    OBVIOUS
  <2>1. CASE k + 1 \in r
    BY <2>1
  <2>2. CASE k + 1 \notin r
    <3>1. r \in SUBSET (1..k)
      BY <2>2
    <3> QED
      BY <1>2, <3>1
  <2> QED
    BY <2>1, <2>2
<1> HIDE DEF T
<1>3. \A k \in Nat : k \in T
  BY <1>1, <1>2, NumberInduction
<1>4. \E x \in s : \A y \in s : x >= y
  BY <1>3 DEF T
<1>5. Max(s) \in s /\ \A y \in s : Max(s) >= y
  BY <1>4, Zenon DEF Max
<1> QED
  BY <1>5

\* ... which is any that all others come before.
LEMMA LastIs ==
    ASSUME NEW n \in Nat, NEW s \in SUBSET (1..n), NEW x \in s,
           \A y \in s : y <= x
    PROVE  Max(s) = x
<1>1. Max(s) \in s /\ \A y \in s : y <= Max(s)
  BY LastPosition
<1>2. PICK m \in 1..n : m = Max(s)
  BY <1>1
<1> QED
  BY <1>1, <1>2

\* A step, of what was made so far and the next position, that stays in A.
StaysIn(A, step, n) == \A a \in A, k \in 1..n : step[<<a, k>>] \in A

\* g[s] is what the steps at the positions s, in order, make of base.
Follows(g, base, step, n) ==
    \A s \in SUBSET (1..n) :
        g[s] = IF s = {} THEN base ELSE step[<<g[s \ {Max(s)}], Max(s)>>]

\* The same of a g that is known to take the steps only as long as it stays
\* in A.
FollowsIn(A, g, base, step, n) ==
    /\ g[{}] = base
    /\ \A s \in SUBSET (1..n) : s /= {} /\ g[s \ {Max(s)}] \in A =>
           g[s] = step[<<g[s \ {Max(s)}], Max(s)>>]

\* h[k] is what the first k steps make of base.
Steps(A, h, base, step, n) ==
    /\ \A k \in 0..n : h[k] \in A
    /\ h[0] = base
    /\ \A k \in 1..n : h[k] = step[<<h[k - 1], k>>]

\* By induction over the length, there is such a function.
LEMMA FoldExists ==
    ASSUME NEW n \in Nat, NEW A, NEW base \in A, NEW step, StaysIn(A, step, n)
    PROVE  \E g \in [SUBSET (1..n) -> A] : Follows(g, base, step, n)
<1> DEFINE Folds(k) == \E g \in [SUBSET (1..k) -> A] : Follows(g, base, step, k)
           T == {k \in Nat : k <= n => Folds(k)}
<1>1. Folds(0)
  <2> DEFINE g == [s \in SUBSET (1..0) |-> base]
  <2>1. g \in [SUBSET (1..0) -> A] /\ Follows(g, base, step, 0)
    BY DEF Follows
  <2> QED
    BY <2>1
<1>2. ASSUME NEW k \in Nat, k + 1 <= n, Folds(k) PROVE Folds(k + 1)
  <2>1. PICK g \in [SUBSET (1..k) -> A] : Follows(g, base, step, k)
    BY <1>2
  <2>2. PICK m \in 1..n : m = k + 1
    BY <1>2
  <2> DEFINE h == [s \in SUBSET (1..m) |->
                      IF m \in s THEN step[<<g[s \ {m}], m>>] ELSE g[s]]
  <2>3. \A s \in SUBSET (1..m) : s \ {m} \in SUBSET (1..k)
    BY <2>2
  <2>4. h \in [SUBSET (1..m) -> A]
    <3> SUFFICES ASSUME NEW s \in SUBSET (1..m)
                 PROVE  (IF m \in s THEN step[<<g[s \ {m}], m>>] ELSE g[s]) \in A
      OBVIOUS
    <3>1. CASE m \in s
      <4>1. g[s \ {m}] \in A
        BY <2>1, <2>3
      <4> QED
        BY <3>1, <4>1 DEF StaysIn
    <3>2. CASE m \notin s
      <4>1. s \in SUBSET (1..k)
        BY <2>2, <3>2
      <4> QED
        BY <2>1, <3>2, <4>1
    <3> QED
      BY <3>1, <3>2
  <2>5. \A s \in SUBSET (1..k) : s \in SUBSET (1..m) /\ h[s] = g[s]
    BY <2>2
  <2>6. \A s \in SUBSET (1..m) :
            m \in s => h[s] = step[<<g[s \ {m}], m>>] /\ Max(s) = m
    <3> SUFFICES ASSUME NEW s \in SUBSET (1..m), m \in s PROVE Max(s) = m
      OBVIOUS
    <3>1. \A y \in s : y <= m
      OBVIOUS
    <3>2. m \in Nat
      OBVIOUS
    <3> HIDE DEF h
    <3> QED
      BY <3>1, <3>2, LastIs
  <2> HIDE DEF h
  <2>7. ASSUME NEW s \in SUBSET (1..m)
        PROVE  h[s] = IF s = {} THEN base ELSE step[<<h[s \ {Max(s)}], Max(s)>>]
    <3>1. CASE m \in s
      BY <2>3, <2>5, <2>6, <3>1
    <3>2. CASE m \notin s
      <4>1. s \in SUBSET (1..k)
        BY <2>2, <3>2
      <4>2. g[s] = IF s = {} THEN base ELSE step[<<g[s \ {Max(s)}], Max(s)>>]
        BY <2>1, <4>1 DEF Follows
      <4> QED
        BY <2>5, <4>1, <4>2
    <3> QED
      BY <3>1, <3>2
  <2>8. Follows(h, base, step, m)
    BY <2>7 DEF Follows
  <2> QED
    BY <2>2, <2>4, <2>8
<1> HIDE DEF Folds
<1>3. \A k \in Nat : k \in T
  <2>1. 0 \in T
    BY <1>1
  <2>2. \A k \in Nat : k \in T => k + 1 \in T
    BY <1>2
  <2> HIDE DEF T
  <2> QED
    BY <2>1, <2>2, NumberInduction
<1>4. Folds(n)
  BY <1>3
<1> QED
  BY <1>4 DEF Folds

\* A fold goes step by step.
LEMMA FoldSteps ==
    ASSUME NEW n \in Nat, NEW A, NEW base \in A, NEW step, StaysIn(A, step, n),
           NEW g, FollowsIn(A, g, base, step, n)
    PROVE  \E h : Steps(A, h, base, step, n) /\ h[n] = g[1..n]
<1> DEFINE T == {k \in Nat : k <= n => g[1..k] \in A}
           h == [k \in 0..n |-> g[1..k]]
<1>1. 1..0 = {}
  OBVIOUS
<1>2. ASSUME NEW k \in 1..n, g[1..(k - 1)] \in A
      PROVE  g[1..k] = step[<<g[1..(k - 1)], k>>]
  <2>1. PICK s : s = 1..k
    OBVIOUS
  <2> HIDE DEF T, h
  <2> k \in s
    BY <2>1
  <2> s /= {}
    OBVIOUS
  <2> s \in SUBSET (1..n)
    <3>1. \A y \in 1..k : y \in 1..n
      OBVIOUS
    <3> QED
      BY <2>1, <3>1
  <2>2. \A y \in s : y <= k
    BY <2>1
  <2>3. Max(s) = k
    BY <2>1, <2>2, LastIs
  <2>4. s \ {k} = 1..(k - 1)
    BY <2>1
  <2> QED
    BY <1>2, <2>1, <2>3, <2>4 DEF FollowsIn
<1>3. 0 \in T
  BY <1>1 DEF FollowsIn
<1>4. ASSUME NEW k \in Nat, k \in T PROVE k + 1 \in T
  <2> SUFFICES ASSUME k + 1 <= n PROVE g[1..(k + 1)] \in A
    OBVIOUS
  <2>1. PICK m \in 1..n : m = k + 1 /\ m - 1 = k
    OBVIOUS
  <2>2. PICK a \in A : a = g[1..(m - 1)]
    BY <1>4, <2>1
  <2>3. g[1..m] = step[<<a, m>>]
    BY <1>2, <2>2
  <2>4. step[<<a, m>>] \in A
    BY DEF StaysIn
  <2> QED
    BY <2>1, <2>3, <2>4
<1>5. \A k \in 0..n : g[1..k] \in A
  <2>1. \A k \in Nat : k \in T
    <3> HIDE DEF T
    <3> QED
      BY <1>3, <1>4, NumberInduction
  <2> QED
    BY <2>1
<1>6. (\A k \in 0..n : h[k] \in A) /\ h[0] = base /\ h[n] = g[1..n]
  BY <1>1, <1>5 DEF FollowsIn
<1>7. \A k \in 1..n : h[k] = step[<<h[k - 1], k>>]
  <2> SUFFICES ASSUME NEW k \in 1..n PROVE h[k] = step[<<h[k - 1], k>>]
    OBVIOUS
  <2>1. k - 1 \in 0..n /\ k \in 0..n
    OBVIOUS
  <2> QED
    BY <1>2, <1>5, <2>1
<1> HIDE DEF h
<1> QED
  BY <1>6, <1>7 DEF Steps

-----------------------------------------------------------------------------
(* Recursive functions: one that is computed at x from its value at        *)
(* next[x] exists when next leads down to where it stops.                  *)

\* f is computed at x from its value at next[x], unless x is in stop.
Computes(f, X, stop, base, next, comb) ==
    \A x \in X : f[x] = IF x \in stop THEN base[x] ELSE comb[<<x, f[next[x]]>>]

\* next leads down to stop.
Descends(X, stop, next, rank, N) ==
    \A x \in X : /\ rank[x] \in 0..N
                 /\ x \notin stop => next[x] \in X /\ rank[next[x]] < rank[x]

\* What base and comb make stays in A.
Makes(A, X, stop, base, comb) ==
    \A x \in X : IF x \in stop THEN base[x] \in A
                 ELSE \A a \in A : comb[<<x, a>>] \in A

\* There is such a function.
LEMMA RecursionExists ==
    ASSUME NEW X, NEW A, NEW stop, NEW base, NEW next, NEW comb, NEW rank,
           NEW N \in Nat, Descends(X, stop, next, rank, N),
           Makes(A, X, stop, base, comb)
    PROVE  \E f \in [X -> A] : Computes(f, X, stop, base, next, comb)
<1> DEFINE Low(r) == {x \in X : rank[x] < r}
           Value(f, x) == IF x \in stop THEN base[x] ELSE comb[<<x, f[next[x]]>>]
           Done(r) == \E f \in [Low(r) -> A] : \A x \in Low(r) : f[x] = Value(f, x)
           T == {r \in Nat : Done(r)}
<1>1. \A x \in X : rank[x] \in Nat /\ rank[x] < N + 1
  BY DEF Descends
<1>2. Done(0)
  <2>1. Low(0) = {}
    BY <1>1
  <2>2. PICK f : f = [x \in {} |-> 0]
    OBVIOUS
  <2>3. f \in [{} -> A]
    BY <2>2
  <2> QED
    BY <2>1, <2>3
<1>3. ASSUME NEW r \in Nat, Done(r) PROVE Done(r + 1)
  <2>1. PICK f \in [Low(r) -> A] : \A x \in Low(r) : f[x] = Value(f, x)
    BY <1>3
  <2>2. PICK g : g = [x \in Low(r + 1) |-> Value(f, x)]
    OBVIOUS
  <2>3. ASSUME NEW x \in Low(r + 1), x \notin stop
        PROVE  next[x] \in Low(r)
    <3>1. rank[x] \in Nat /\ rank[x] < r + 1 /\ next[x] \in X /\ rank[next[x]] \in Nat
          /\ rank[next[x]] < rank[x]
      BY <1>1, <2>3 DEF Descends
    <3> QED
      BY <3>1
  <2>4. \A x \in Low(r + 1) : Value(f, x) \in A
    <3> SUFFICES ASSUME NEW x \in Low(r + 1) PROVE Value(f, x) \in A
      OBVIOUS
    <3>1. CASE x \in stop
      BY <3>1 DEF Makes
    <3>2. CASE x \notin stop
      <4>1. PICK a \in A : a = f[next[x]]
        BY <2>1, <2>3, <3>2
      <4>2. comb[<<x, a>>] \in A
        BY <3>2 DEF Makes
      <4> QED
        BY <3>2, <4>1, <4>2
    <3> QED
      BY <3>1, <3>2
  <2>5. g \in [Low(r + 1) -> A] /\ \A x \in Low(r + 1) : g[x] = Value(f, x)
    <3> HIDE DEF Low, Value
    <3> QED
      BY <2>2, <2>4
  <2>6. \A x \in Low(r) : x \in Low(r + 1)
    BY <1>1
  <2>7. \A x \in Low(r) : g[x] = f[x]
    <3> HIDE DEF Low, Value
    <3> QED
      BY <2>1, <2>5, <2>6
  <2>8. \A x \in Low(r + 1) : Value(g, x) = Value(f, x)
    BY <2>3, <2>7
  <2> HIDE DEF Low, Value
  <2>9. \A x \in Low(r + 1) : g[x] = Value(g, x)
    BY <2>5, <2>8
  <2> QED
    BY <2>5, <2>9
<1>4. \A r \in Nat : r \in T
  <2>1. 0 \in T
    BY <1>2
  <2>2. \A r \in Nat : r \in T => r + 1 \in T
    <3> HIDE DEF Done
    <3>1. ASSUME NEW r \in Nat, Done(r) PROVE r + 1 \in T
      <4>1. Done(r + 1)
        BY <1>3, <3>1
      <4> QED
        BY <4>1
    <3> QED
      BY <3>1
  <2> HIDE DEF T
  <2> QED
    BY <2>1, <2>2, NumberInduction
<1>5. PICK m \in Nat : m = N + 1
  OBVIOUS
<1>6. Low(m) = X
  BY <1>1, <1>5
<1>7. m \in T
  <2> HIDE DEF T
  <2> QED
    BY <1>4
<1>8. Done(m)
  <2> HIDE DEF Done
  <2> QED
    BY <1>7
<1>9. PICK f \in [X -> A] : \A x \in X : f[x] = Value(f, x)
  <2> HIDE DEF Low, Value
  <2> QED
    BY <1>6, <1>8
<1>10. Computes(f, X, stop, base, next, comb)
  BY <1>9 DEF Computes
<1> QED
  BY <1>10

\* What holds at stop, and at x if it holds at next[x], holds everywhere.
LEMMA RecursionInduction ==
    ASSUME NEW X, NEW stop, NEW next, NEW rank, NEW N \in Nat, NEW P,
           Descends(X, stop, next, rank, N),
           \A x \in X : (x \in stop \/ next[x] \in P) => x \in P
    PROVE  \A x \in X : x \in P
<1> DEFINE T == {r \in Nat : \A x \in X : rank[x] < r => x \in P}
<1>1. \A x \in X : rank[x] \in Nat /\ rank[x] < N + 1
  BY DEF Descends
<1>2. 0 \in T
  BY <1>1
<1>3. ASSUME NEW r \in Nat, r \in T PROVE r + 1 \in T
  <2> SUFFICES ASSUME NEW x \in X, rank[x] < r + 1 PROVE x \in P
    OBVIOUS
  <2>1. CASE x \in stop
    BY <2>1
  <2>2. CASE x \notin stop
    <3>1. rank[x] \in Nat /\ next[x] \in X /\ rank[next[x]] \in Nat
          /\ rank[next[x]] < rank[x]
      BY <1>1, <2>2 DEF Descends
    <3>2. next[x] \in P
      BY <1>3, <3>1
    <3> QED
      BY <3>2
  <2> QED
    BY <2>1, <2>2
<1>4. \A r \in Nat : r \in T
  <2> HIDE DEF T
  <2> QED
    BY <1>2, <1>3, NumberInduction
<1>5. N + 1 \in T
  <2>1. N + 1 \in Nat
    OBVIOUS
  <2> HIDE DEF T
  <2> QED
    BY <1>4, <2>1
<1> QED
  BY <1>1, <1>5

=============================================================================
