--------------------------- MODULE TxFundingProofs ---------------------------
(***************************************************************************)
(* The safety of the funding of a proposal, for any wallet, any outputs,   *)
(* any options and any fee estimates, changing while the request runs.     *)
(*                                                                         *)
(* The proof has three layers.  Sums and orders: a sum over a set does not *)
(* depend on the order it is taken in, and of the sorted outputs the first *)
(* k are worth the most of any k.  The algorithms: what selectTxInputs and *)
(* getSendMaxInfo return, whatever they are given (Filled, InfoFound).     *)
(* The handler: an invariant FInv of the request, which carries what was   *)
(* found from one step to the next.                                        *)
(***************************************************************************)
EXTENDS TxFunding, DataLemmas, FiniteSetTheorems

-----------------------------------------------------------------------------
(* Sums.  SumFunctionOnSet takes the elements in an order of its own; the   *)
(* sum is the same in any.                                                  *)

\* A set of subsets has all of them, if it has each that it has the largest
\* proper subsets of.
LEMMA SubsetInduction ==
  ASSUME NEW S, IsFiniteSet(S), NEW P,
         \A T \in SUBSET S : (\A x \in T : T \ {x} \in P) => T \in P
  PROVE  SUBSET S \subseteq P
<1> DEFINE Q == {n \in 0..Cardinality(S) :
                   \A T \in SUBSET S : Cardinality(T) = n => T \in P}
<1>1. \A T \in SUBSET S : /\ IsFiniteSet(T)
                          /\ Cardinality(T) \in 0..Cardinality(S)
                          /\ Cardinality(T) = 0 <=> T = {}
                          /\ \A x \in T : Cardinality(T \ {x}) = Cardinality(T) - 1
  BY FS_Subset, FS_CardinalityType, FS_EmptySet, FS_RemoveElement
<1>2. Cardinality(S) \in Nat
  BY FS_CardinalityType
<1>3. 0 \in Q
  BY <1>1, <1>2
<1>4. ASSUME NEW n \in 0..Cardinality(S), n + 1 \in 0..Cardinality(S), n \in Q
      PROVE  n + 1 \in Q
  <2> SUFFICES ASSUME NEW T \in SUBSET S, Cardinality(T) = n + 1
               PROVE  T \in P
    BY <1>4
  <2>1. \A x \in T : T \ {x} \in SUBSET S /\ Cardinality(T \ {x}) = n
    BY <1>1
  <2> QED
    BY <1>4, <2>1
<1>5. 0..Cardinality(S) \subseteq Q
  <2> HIDE DEF Q
  <2> QED
    BY <1>2, <1>3, <1>4, Induction
<1> QED
  BY <1>1, <1>5

\* The element that a sum takes first.
AnyOf(s) == CHOOSE x \in s : TRUE

\* g sums up the subsets of S of at most n elements, as SumFunctionOnSet does.
SumsUp(g, f, S, n) ==
  g = [s \in {T \in SUBSET S : Cardinality(T) <= n} |->
        IF s = {} THEN 0 ELSE f[AnyOf(s)] + g[s \ {AnyOf(s)}]]

\* It is one.
LEMMA AnyMember ==
  ASSUME NEW s, s # {}
  PROVE  AnyOf(s) \in s
BY DEF AnyOf

\* There is such a function.
LEMMA SumsUpExists ==
  ASSUME NEW f, NEW S, IsFiniteSet(S), NEW N \in Nat
  PROVE  \E g : SumsUp(g, f, S, N)
<1> DEFINE Q == {n \in 0..N : \E g : SumsUp(g, f, S, n)}
           Small(n) == {T \in SUBSET S : Cardinality(T) <= n}
<1>1. \A T \in SUBSET S : /\ IsFiniteSet(T)
                          /\ Cardinality(T) \in Nat
                          /\ Cardinality(T) = 0 <=> T = {}
                          /\ \A x \in T : Cardinality(T \ {x}) = Cardinality(T) - 1
  BY FS_Subset, FS_CardinalityType, FS_EmptySet, FS_RemoveElement
<1>2. 0 \in Q
  <2> DEFINE g == [s \in Small(0) |-> 0]
  <2>1. \A s \in Small(0) : s = {}
    BY <1>1
  <2>2. g = [s \in Small(0) |->
              IF s = {} THEN 0 ELSE f[AnyOf(s)] + g[s \ {AnyOf(s)}]]
    BY <2>1
  <2>3. SumsUp(g, f, S, 0)
    BY <2>2 DEF SumsUp
  <2> QED
    BY <2>3
<1>3. ASSUME NEW n \in 0..N, n + 1 \in 0..N, n \in Q
      PROVE  n + 1 \in Q
  <2>1. PICK g : SumsUp(g, f, S, n)
    BY <1>3
  <2> DEFINE h == [s \in Small(n + 1) |->
         IF s = {} THEN 0 ELSE f[AnyOf(s)] + g[s \ {AnyOf(s)}]]
  <2>2. ASSUME NEW s \in Small(n), s # {}
        PROVE  s \ {AnyOf(s)} \in Small(n) /\ AnyOf(s) \in s
    BY <1>1, <2>2, AnyMember
  <2>3. \A s \in Small(n) : g[s] = IF s = {} THEN 0 ELSE f[AnyOf(s)] + g[s \ {AnyOf(s)}]
    BY <2>1, Zenon DEF SumsUp
  <2>4. \A s \in Small(n) : s \in Small(n + 1) /\ g[s] = h[s]
    <3> SUFFICES ASSUME NEW s \in Small(n)
                 PROVE  s \in Small(n + 1) /\ g[s] = h[s]
      OBVIOUS
    <3>1. s \in Small(n + 1)
      BY <1>1
    <3> QED
      BY <2>3, <3>1, Zenon
  <2>5. ASSUME NEW s \in Small(n + 1), s # {}
        PROVE  h[s \ {AnyOf(s)}] = g[s \ {AnyOf(s)}]
    <3>1. s \ {AnyOf(s)} \in Small(n)
      BY <1>1, <2>5, AnyMember
    <3> QED
      BY <2>4, <3>1
  <2>6. h = [s \in Small(n + 1) |->
              IF s = {} THEN 0 ELSE f[AnyOf(s)] + h[s \ {AnyOf(s)}]]
    BY <2>5, Zenon
  <2>7. SumsUp(h, f, S, n + 1)
    BY <2>6, Zenon DEF SumsUp
  <2> HIDE DEF h
  <2> QED
    BY <1>3, <2>7
<1>4. 0..N \subseteq Q
  <2> HIDE DEF Q
  <2> QED
    BY <1>2, <1>3, Induction
<1> QED
  BY <1>4

\* g sums up all the subsets of S.
SumsAll(g, f, S) ==
  g = [s \in SUBSET S |-> IF s = {} THEN 0 ELSE f[AnyOf(s)] + g[s \ {AnyOf(s)}]]

\* SumFunctionOnSet is such a function.
LEMMA SumAs ==
  ASSUME NEW f, NEW S, IsFiniteSet(S)
  PROVE  \E g : SumsAll(g, f, S) /\ SumFunctionOnSet(f, S) = g[S]
<1> DEFINE it == CHOOSE g : g = [s \in SUBSET S |->
        IF s = {} THEN 0 ELSE f[AnyOf(s)] + g[s \ {AnyOf(s)}]]
<1>1. Cardinality(S) \in Nat
  BY FS_CardinalityType
<1>2. {T \in SUBSET S : Cardinality(T) <= Cardinality(S)} = SUBSET S
  BY FS_Subset
<1>3. \E g : SumsAll(g, f, S)
  <2>1. PICK g : SumsUp(g, f, S, Cardinality(S))
    BY <1>1, SumsUpExists
  <2>2. SumsAll(g, f, S)
    BY <1>2, <2>1, Zenon DEF SumsUp, SumsAll
  <2> QED
    BY <2>2
<1>4. \E g : g = [s \in SUBSET S |->
        IF s = {} THEN 0 ELSE f[AnyOf(s)] + g[s \ {AnyOf(s)}]]
  BY <1>3, Zenon DEF SumsAll
<1>5. SumsAll(it, f, S)
  BY <1>4, Zenon DEF SumsAll
<1>6. SumFunctionOnSet(f, S) = it[S]
  BY Zenon DEF SumFunctionOnSet, FoldFunctionOnSet, MapThenFoldSet, AnyOf
<1> HIDE DEF it
<1> QED
  BY <1>5, <1>6

\* Functions that sum up the subsets of two sets agree on the common ones.
LEMMA SumsAgree ==
  ASSUME NEW f, NEW S, IsFiniteSet(S), NEW T \in SUBSET S,
         NEW g, SumsAll(g, f, S), NEW h, SumsAll(h, f, T)
  PROVE  \A s \in SUBSET T : g[s] = h[s]
<1> DEFINE P == {s \in SUBSET T : g[s] = h[s]}
<1>1. /\ \A s \in SUBSET S : g[s] = IF s = {} THEN 0 ELSE f[AnyOf(s)] + g[s \ {AnyOf(s)}]
      /\ \A s \in SUBSET T : h[s] = IF s = {} THEN 0 ELSE f[AnyOf(s)] + h[s \ {AnyOf(s)}]
  BY Zenon DEF SumsAll
<1>2. ASSUME NEW s \in SUBSET T, \A x \in s : s \ {x} \in P
      PROVE  s \in P
  <2>0. s \in SUBSET S
    OBVIOUS
  <2>1. CASE s = {}
    BY <1>1, <2>0, <2>1
  <2>2. CASE s # {}
    <3>1. AnyOf(s) \in s
      BY <2>2, AnyMember
    <3>2. g[s \ {AnyOf(s)}] = h[s \ {AnyOf(s)}]
      BY <1>2, <3>1
    <3>3. g[s] = f[AnyOf(s)] + g[s \ {AnyOf(s)}] /\ h[s] = f[AnyOf(s)] + h[s \ {AnyOf(s)}]
      BY <1>1, <2>0, <2>2, Zenon
    <3> QED
      BY <3>2, <3>3
  <2> QED
    BY <2>1, <2>2
<1>3. IsFiniteSet(T)
  BY FS_Subset
<1>4. SUBSET T \subseteq P
  <2> HIDE DEF P
  <2> QED
    BY <1>2, <1>3, SubsetInduction
<1> QED
  BY <1>4

\* A sum is an element and the sum of the rest.
LEMMA SumUnfold ==
  ASSUME NEW f, NEW S, IsFiniteSet(S)
  PROVE  SumFunctionOnSet(f, S) =
           IF S = {} THEN 0
           ELSE f[AnyOf(S)] + SumFunctionOnSet(f, S \ {AnyOf(S)})
<1> DEFINE T == S \ {AnyOf(S)}
<1>1. IsFiniteSet(T) /\ T \in SUBSET S /\ S \in SUBSET S
  BY FS_RemoveElement
<1>2. PICK g : SumsAll(g, f, S) /\ SumFunctionOnSet(f, S) = g[S]
  BY SumAs
<1>3. PICK h : SumsAll(h, f, T) /\ SumFunctionOnSet(f, T) = h[T]
  BY <1>1, SumAs
<1>4. g[T] = h[T]
  <2>1. \A s \in SUBSET T : g[s] = h[s]
    BY <1>1, <1>2, <1>3, SumsAgree
  <2> QED
    BY <2>1
<1>5. g[S] = IF S = {} THEN 0 ELSE f[AnyOf(S)] + g[T]
  BY <1>1, <1>2, Zenon DEF SumsAll
<1> QED
  BY <1>2, <1>3, <1>4, <1>5, Zenon

\* The sum is that of the rest and any element.
LEMMA SumFacts ==
  ASSUME NEW f, NEW S, IsFiniteSet(S), \A x \in S : f[x] \in Int
  PROVE  /\ SumFunctionOnSet(f, {}) = 0
         /\ SumFunctionOnSet(f, S) \in Int
         /\ \A x \in S : SumFunctionOnSet(f, S) = f[x] + SumFunctionOnSet(f, S \ {x})
<1> DEFINE F(T) == SumFunctionOnSet(f, T)
           P == {T \in SUBSET S : /\ F(T) \in Int
                                    /\ \A x \in T : /\ F(T \ {x}) \in Int
                                                    /\ F(T) = f[x] + F(T \ {x})}
<1>1. \A T \in SUBSET S : IsFiniteSet(T)
  BY FS_Subset
<1>2. \A T \in SUBSET S : F(T) = IF T = {} THEN 0 ELSE f[AnyOf(T)] + F(T \ {AnyOf(T)})
  BY <1>1, SumUnfold, Zenon
<1> HIDE DEF F
<1>3. F({}) = 0
  BY <1>2
<1>4. ASSUME NEW T \in SUBSET S, \A x \in T : T \ {x} \in P
      PROVE  T \in P
  <2>1. CASE T = {}
    BY <1>3, <2>1
  <2>2. CASE T # {}
    <3> DEFINE c == AnyOf(T)
    <3>1. c \in T /\ f[c] \in Int
      BY <2>2, AnyMember
    <3>2. F(T) = f[c] + F(T \ {c})
      BY <1>2, <2>2, Zenon
    <3> HIDE DEF c
    <3>3. F(T) \in Int
      BY <1>4, <3>1, <3>2
    <3>4. ASSUME NEW x \in T
          PROVE  F(T \ {x}) \in Int /\ F(T) = f[x] + F(T \ {x})
      <4>1. CASE x = c
        BY <1>4, <3>2, <4>1
      <4>2. CASE x # c
        <5>1. x \in T \ {c} /\ c \in T \ {x} /\ (T \ {c}) \ {x} = (T \ {x}) \ {c}
          BY <3>1, <4>2
        <5>2. T \ {c} \in P /\ T \ {x} \in P
          BY <1>4, <3>1
        <5>3. F(T \ {c}) = f[x] + F((T \ {c}) \ {x}) /\ F(T \ {x}) = f[c] + F((T \ {x}) \ {c})
          BY <5>1, <5>2
        <5>4. F(T \ {x}) \in Int /\ F((T \ {x}) \ {c}) \in Int /\ f[x] \in Int
          BY <5>1, <5>2
        <5> DEFINE r == (T \ {x}) \ {c}
                   y == f[x]
                   d == f[c]
        <5>5. F(T) = d + F(T \ {c}) /\ F(T \ {c}) = y + F(r) /\ F(T \ {x}) = d + F(r)
          BY <3>2, <5>1, <5>3, Zenon
        <5>6. F(r) \in Int /\ y \in Int /\ d \in Int
          BY <3>1, <5>4
        <5> HIDE DEF r, y, d
        <5>7. F(T) = y + F(T \ {x})
          BY <5>5, <5>6
        <5> QED
          BY <5>4, <5>7 DEF y
      <4> QED
        BY <4>1, <4>2
    <3> QED
      BY <3>3, <3>4
  <2> QED
    BY <2>1, <2>2
<1>5. SUBSET S \subseteq P
  <2> HIDE DEF P
  <2> QED
    BY <1>4, SubsetInduction
<1> QED
  BY <1>3, <1>5 DEF F

\* A sum over a set is one over a part of it and one over the rest.
LEMMA SumSplit ==
  ASSUME NEW f, NEW S, IsFiniteSet(S), \A x \in S : f[x] \in Int, NEW T \in SUBSET S
  PROVE  /\ SumFunctionOnSet(f, T) \in Int
         /\ SumFunctionOnSet(f, S \ T) \in Int
         /\ SumFunctionOnSet(f, S) = SumFunctionOnSet(f, T) + SumFunctionOnSet(f, S \ T)
<1> DEFINE F(s) == SumFunctionOnSet(f, s)
           P == {s \in SUBSET S : F(S) = F(s) + F(S \ s)}
<1>1. \A s \in SUBSET S : /\ IsFiniteSet(s)
                          /\ F(s) \in Int
                          /\ \A x \in s : F(s) = f[x] + F(s \ {x})
  <2> SUFFICES ASSUME NEW s \in SUBSET S
               PROVE  /\ IsFiniteSet(s)
                      /\ F(s) \in Int
                      /\ \A x \in s : F(s) = f[x] + F(s \ {x})
    OBVIOUS
  <2>1. IsFiniteSet(s) /\ \A x \in s : f[x] \in Int
    BY FS_Subset
  <2> QED
    BY <2>1, SumFacts
<1>2. F({}) = 0
  BY SumFacts
<1> HIDE DEF F
<1>3. ASSUME NEW s \in SUBSET S, \A x \in s : s \ {x} \in P
      PROVE  s \in P
  <2>1. CASE s = {}
    <3>1. S \ s = S /\ S \in SUBSET S
      BY <2>1
    <3> QED
      BY <1>1, <1>2, <2>1, <3>1
  <2>2. CASE s # {}
    <3>1. PICK x : x \in s
      BY <2>2
    <3> DEFINE r == S \ s
               q == s \ {x}
    <3>2. /\ S \ q \in SUBSET S /\ x \in S \ q /\ (S \ q) \ {x} = r
          /\ q \in SUBSET S /\ r \in SUBSET S
      BY <3>1
    <3>3. F(S) = F(q) + F(S \ q)
      BY <1>3, <3>1
    <3>4. F(S \ q) = f[x] + F(r) /\ F(s) = f[x] + F(q)
      BY <1>1, <3>1, <3>2
    <3>5. F(q) \in Int /\ F(r) \in Int /\ f[x] \in Int
      BY <1>1, <3>1, <3>2
    <3>6. F(S) = F(s) + F(r)
      <4> HIDE DEF q, r
      <4> QED
        BY <3>3, <3>4, <3>5
    <3> QED
      BY <3>6
  <2> QED
    BY <2>1, <2>2
<1>4. SUBSET S \subseteq P
  <2> HIDE DEF P
  <2> QED
    BY <1>3, SubsetInduction
<1>5. F(T) \in Int /\ F(S \ T) \in Int /\ F(S) = F(T) + F(S \ T)
  <2>1. T \in SUBSET S /\ S \ T \in SUBSET S
    OBVIOUS
  <2> QED
    BY <1>1, <1>4, <2>1
<1> QED
  BY <1>5 DEF F

\* What each element is worth at least, or at most, in thousandths.
LEMMA SumBounds ==
  ASSUME NEW f, NEW S, IsFiniteSet(S), \A x \in S : f[x] \in Int, NEW c \in Int
  PROVE  /\ Cardinality(S) \in Nat
         /\ SumFunctionOnSet(f, S) \in Int
         /\ (\A x \in S : c <= f[x] * 1000)
              => c * Cardinality(S) <= SumFunctionOnSet(f, S) * 1000
         /\ (\A x \in S : f[x] * 1000 <= c)
              => SumFunctionOnSet(f, S) * 1000 <= c * Cardinality(S)
<1> DEFINE F(s) == SumFunctionOnSet(f, s)
           N(s) == Cardinality(s)
           P == {s \in SUBSET S :
                   /\ (\A x \in S : c <= f[x] * 1000) => c * N(s) <= F(s) * 1000
                   /\ (\A x \in S : f[x] * 1000 <= c) => F(s) * 1000 <= c * N(s)}
<1>1. \A s \in SUBSET S : /\ N(s) \in Nat
                          /\ F(s) \in Int
                          /\ \A x \in s : /\ F(s) = f[x] + F(s \ {x})
                                          /\ N(s \ {x}) = N(s) - 1
  <2> SUFFICES ASSUME NEW s \in SUBSET S
               PROVE  /\ N(s) \in Nat
                      /\ F(s) \in Int
                      /\ \A x \in s : /\ F(s) = f[x] + F(s \ {x})
                                      /\ N(s \ {x}) = N(s) - 1
    OBVIOUS
  <2>1. IsFiniteSet(s) /\ \A x \in s : f[x] \in Int
    BY FS_Subset
  <2>2. N(s) \in Nat /\ \A x \in s : N(s \ {x}) = N(s) - 1
    BY <2>1, FS_CardinalityType, FS_RemoveElement
  <2> QED
    BY <2>1, <2>2, SumFacts
<1>2. F({}) = 0 /\ N({}) = 0
  BY SumFacts, FS_EmptySet
<1> HIDE DEF F, N
<1>3. ASSUME NEW s \in SUBSET S, \A x \in s : s \ {x} \in P
      PROVE  s \in P
  <2>1. CASE s = {}
    BY <1>2, <2>1
  <2>2. CASE s # {}
    <3>1. PICK x : x \in s
      BY <2>2
    <3> DEFINE q == s \ {x}
               y == f[x]
    <3>2. /\ q \in SUBSET S /\ y \in Int /\ F(q) \in Int /\ N(q) \in Nat
          /\ F(s) = y + F(q) /\ N(s) = N(q) + 1
      BY <1>1, <3>1
    <3>3. q \in P
      BY <1>3, <3>1
    <3>4. (\A z \in S : c <= f[z] * 1000) => c * N(s) <= F(s) * 1000
      <4> SUFFICES ASSUME \A z \in S : c <= f[z] * 1000
                   PROVE  c * N(s) <= F(s) * 1000
        OBVIOUS
      <4>1. c <= y * 1000 /\ c * N(q) <= F(q) * 1000
        BY <3>1, <3>3
      <4> HIDE DEF q, y
      <4>2. c * N(s) = c * N(q) + c /\ c * N(q) \in Int
        BY <3>2
      <4> QED
        BY <3>2, <4>1, <4>2
    <3>5. (\A z \in S : f[z] * 1000 <= c) => F(s) * 1000 <= c * N(s)
      <4> SUFFICES ASSUME \A z \in S : f[z] * 1000 <= c
                   PROVE  F(s) * 1000 <= c * N(s)
        OBVIOUS
      <4>1. y * 1000 <= c /\ F(q) * 1000 <= c * N(q)
        BY <3>1, <3>3
      <4> HIDE DEF q, y
      <4>2. c * N(s) = c * N(q) + c /\ c * N(q) \in Int
        BY <3>2
      <4> QED
        BY <3>2, <4>1, <4>2
    <3> QED
      BY <3>4, <3>5
  <2> QED
    BY <2>1, <2>2
<1>4. SUBSET S \subseteq P
  <2> HIDE DEF P
  <2> QED
    BY <1>3, SubsetInduction
<1>5. S \in P /\ S \in SUBSET S
  BY <1>4
<1>6. /\ (\A x \in S : c <= f[x] * 1000) => c * N(S) <= F(S) * 1000
      /\ (\A x \in S : f[x] * 1000 <= c) => F(S) * 1000 <= c * N(S)
  BY <1>5
<1>7. N(S) \in Nat /\ F(S) \in Int
  BY <1>1, <1>5
<1> QED
  BY <1>6, <1>7 DEF F, N

\* More elements are worth more.
LEMMA SumMonotone ==
  ASSUME NEW f, NEW S, IsFiniteSet(S), \A x \in S : f[x] \in Nat, NEW T \in SUBSET S
  PROVE  /\ SumFunctionOnSet(f, T) \in Nat
         /\ SumFunctionOnSet(f, S) \in Nat
         /\ SumFunctionOnSet(f, T) <= SumFunctionOnSet(f, S)
<1> DEFINE F(s) == SumFunctionOnSet(f, s)
<1>1. \A s \in SUBSET S : F(s) \in Nat
  <2> SUFFICES ASSUME NEW s \in SUBSET S PROVE F(s) \in Nat
    OBVIOUS
  <2>1. IsFiniteSet(s) /\ (\A x \in s : f[x] \in Int) /\ \A x \in s : 0 <= f[x] * 1000
    BY FS_Subset
  <2>2. Cardinality(s) \in Nat /\ F(s) \in Int /\ 0 * Cardinality(s) <= F(s) * 1000
    <3>1. 0 \in Int
      OBVIOUS
    <3>2. Cardinality(s) \in Nat /\ F(s) \in Int
      BY <2>1, FS_CardinalityType, SumFacts
    <3>3. 0 * Cardinality(s) <= F(s) * 1000
      BY ONLY <2>1, <3>1, SumBounds DEF F
    <3> QED
      BY <3>2, <3>3
  <2> HIDE DEF F
  <2> QED
    BY <2>2
<1>2. F(S) = F(T) + F(S \ T)
  <2>1. \A x \in S : f[x] \in Int
    OBVIOUS
  <2> QED
    BY ONLY IsFiniteSet(S), T \in SUBSET S, <2>1, SumSplit DEF F
<1>3. F(S) \in Nat /\ F(T) \in Nat /\ F(S \ T) \in Nat
  <2>1. S \in SUBSET S /\ T \in SUBSET S /\ S \ T \in SUBSET S
    OBVIOUS
  <2> HIDE DEF F
  <2> QED
    BY <1>1, <2>1
<1>4. F(T) <= F(S)
  <2> HIDE DEF F
  <2> QED
    BY <1>2, <1>3
<1> QED
  BY <1>3, <1>4

-----------------------------------------------------------------------------
(* The outputs by their value.                                             *)

\* What the explorer says of the outputs, and what they are worth.
LEMMA OutputFacts ==
  ASSUME NEW u \in [Output -> Utxo], NEW S \in SUBSET Output
  PROVE  /\ IsFiniteSet(S)
         /\ Cardinality(S) \in Nat
         /\ \A o \in S : /\ u[o].satoshis \in Nat
                         /\ u[o].confirmations \in Nat
                         /\ u[o].locked \in BOOLEAN
                         /\ Satoshis(u)[o] = u[o].satoshis
<1>1. IsFiniteSet(S)
  BY FundingAssumption, FS_Subset
<1>2. Cardinality(S) \in Nat
  BY <1>1, FS_CardinalityType
<1>3. ASSUME NEW o \in S
      PROVE  /\ u[o].satoshis \in Nat
             /\ u[o].confirmations \in Nat
             /\ u[o].locked \in BOOLEAN
             /\ Satoshis(u)[o] = u[o].satoshis
  <2>1. u[o] \in Utxo /\ DOMAIN u = Output /\ o \in Output
    OBVIOUS
  <2> QED
    BY <2>1 DEF Utxo, Satoshis
<1> QED
  BY <1>1, <1>2, <1>3

\* Two outputs that are worth the same may come in any order.
Sorted(s, u) == \A i, j \in DOMAIN s : i < j => u[s[i]].satoshis >= u[s[j]].satoshis

\* The sequences of a set, without the operators of SequencesExt.
LEMMA SetToSeqsAs ==
  ASSUME NEW S, NEW s
  PROVE  s \in SetToSeqs(S) <=>
           /\ s \in [1..Cardinality(S) -> S]
           /\ \A i, j \in 1..Cardinality(S) : i # j => s[i] # s[j]
BY DEF SetToSeqs

\* Any outputs can be sorted by their value.
LEMMA SortedExists ==
  ASSUME NEW u \in [Output -> Utxo], NEW S \in SUBSET Output
  PROVE  \E s \in SetToSeqs(S) : Sorted(s, u)
<1> DEFINE P == {T \in SUBSET S : \E s \in SetToSeqs(T) : Sorted(s, u)}
<1>1. ASSUME NEW T \in SUBSET S, \A x \in T : T \ {x} \in P
      PROVE  T \in P
  <2>0. /\ IsFiniteSet(T) /\ Cardinality(T) \in Nat
        /\ \A o \in T : u[o].satoshis \in Nat
    <3>1. T \in SUBSET Output
      OBVIOUS
    <3> QED
      BY <3>1, OutputFacts
  <2>1. CASE T = {}
    <3> DEFINE s == [i \in 1..0 |-> 0]
    <3>1. Cardinality(T) = 0
      BY <2>1, FS_EmptySet
    <3>2. DOMAIN s = 1..0 /\ s \in [1..0 -> T] /\ \A i \in 1..0 : FALSE
      OBVIOUS
    <3> HIDE DEF s
    <3>3. s \in SetToSeqs(T)
      BY <3>1, <3>2, SetToSeqsAs
    <3>4. Sorted(s, u)
      BY <3>2 DEF Sorted
    <3> QED
      BY <3>3, <3>4
  <2>2. CASE T # {}
    <3>1. PICK x \in T : \A o \in T : u[x].satoshis <= u[o].satoshis
      <4> DEFINE V == {u[o].satoshis : o \in T}
      <4>1. V \in SUBSET Nat /\ V # {}
        BY <2>0, <2>2
      <4>2. PICK v \in V : \A w \in V : v <= w
        <5> HIDE DEF V
        <5> QED
          BY <4>1, LeastExists
      <4> QED
        BY <4>2
    <3>2. PICK r \in SetToSeqs(T \ {x}) : Sorted(r, u)
      BY <1>1, <3>1
    <3> DEFINE n == Cardinality(T \ {x})
               s == [i \in 1..(n + 1) |-> IF i = n + 1 THEN x ELSE r[i]]
    <3>3. n \in Nat /\ Cardinality(T) = n + 1
      <4>1. IsFiniteSet(T \ {x}) /\ n = Cardinality(T) - 1
        BY <2>0, <3>1, FS_RemoveElement
      <4>2. n \in Nat
        BY <4>1, FS_CardinalityType
      <4> HIDE DEF n
      <4> QED
        BY <2>0, <4>1, <4>2
    <3>4. /\ r \in [1..n -> T \ {x}]
          /\ \A i, j \in 1..n : i # j => r[i] # r[j]
      BY <3>2, SetToSeqsAs
    <3> HIDE DEF n
    <3>5. s \in [1..(n + 1) -> T]
      BY <3>3, <3>4
    <3>6. /\ s[n + 1] = x
          /\ \A i \in 1..(n + 1) : i # n + 1 => i \in 1..n /\ s[i] = r[i]
          /\ DOMAIN s = 1..(n + 1)
      BY <3>3
    <3> HIDE DEF s
    <3>7. \A i, j \in 1..(n + 1) : i # j => s[i] # s[j]
      <4> SUFFICES ASSUME NEW i \in 1..(n + 1), NEW j \in 1..(n + 1), i # j
                   PROVE  s[i] # s[j]
        OBVIOUS
      <4>1. \A k \in 1..n : r[k] \in T \ {x}
        BY <3>4
      <4>2. CASE i = n + 1
        BY <3>6, <4>1, <4>2
      <4>3. CASE j = n + 1
        BY <3>6, <4>1, <4>3
      <4>4. CASE i # n + 1 /\ j # n + 1
        BY <3>4, <3>6, <4>4
      <4> QED
        BY <4>2, <4>3, <4>4
    <3>8. Sorted(s, u)
      <4> SUFFICES ASSUME NEW i \in 1..(n + 1), NEW j \in 1..(n + 1), i < j
                   PROVE  u[s[i]].satoshis >= u[s[j]].satoshis
        BY <3>6 DEF Sorted
      <4>1. i # n + 1
        BY <3>3
      <4>2. i \in 1..n /\ s[i] = r[i] /\ r[i] \in T
        BY <3>4, <3>6, <4>1
      <4>3. CASE j = n + 1
        <5>1. s[j] = x /\ u[x].satoshis <= u[r[i]].satoshis
          BY <3>1, <3>6, <4>2, <4>3
        <5>2. u[x].satoshis \in Nat /\ u[r[i]].satoshis \in Nat
          BY <2>0, <4>2
        <5> QED
          BY <4>2, <5>1, <5>2
      <4>4. CASE j # n + 1
        <5>1. j \in 1..n /\ s[j] = r[j]
          BY <3>6, <4>4
        <5>2. DOMAIN r = 1..n
          BY <3>4
        <5> QED
          BY <3>2, <4>2, <5>1, <5>2 DEF Sorted
      <4> QED
        BY <4>3, <4>4
    <3>9. s \in SetToSeqs(T)
      BY <3>3, <3>5, <3>7, SetToSeqsAs
    <3> QED
      BY <3>8, <3>9
  <2> QED
    BY <2>1, <2>2
<1>2. IsFiniteSet(S)
  BY OutputFacts
<1>3. SUBSET S \subseteq P
  <2> HIDE DEF P
  <2> QED
    BY <1>1, <1>2, SubsetInduction
<1>4. S \in SUBSET S
  OBVIOUS
<1> QED
  BY <1>3, <1>4

\* s is the outputs of S, each once, in order.
InOrder(s, u, S) ==
  /\ s \in [1..Cardinality(S) -> S]
  /\ \A i, j \in 1..Cardinality(S) : i # j => s[i] # s[j]
  /\ \A i, j \in 1..Cardinality(S) : i < j => u[s[i]].satoshis >= u[s[j]].satoshis
  /\ \A o \in S : \E i \in 1..Cardinality(S) : s[i] = o

\* Descending is one of the sorted sequences.
LEMMA DescendingSorts ==
  ASSUME NEW u \in [Output -> Utxo], NEW S \in SUBSET Output
  PROVE  InOrder(Descending(u, S), u, S)
<1> DEFINE s == Descending(u, S)
           n == Cardinality(S)
<1>1. \E r \in SetToSeqs(S) :
        \A i, j \in DOMAIN r : i < j => u[r[i]].satoshis >= u[r[j]].satoshis
  BY SortedExists DEF Sorted
<1>2. /\ s \in SetToSeqs(S)
      /\ \A i, j \in DOMAIN s : i < j => u[s[i]].satoshis >= u[s[j]].satoshis
  BY <1>1, Zenon DEF Descending
<1> HIDE DEF s
<1>3. /\ s \in [1..n -> S]
      /\ \A i, j \in 1..n : i # j => s[i] # s[j]
  BY <1>2, SetToSeqsAs
<1>4. IsFiniteSet(S) /\ n \in Nat
  BY OutputFacts
<1>5. \A o \in S : \E i \in 1..n : s[i] = o
  <2> HIDE DEF n
  <2>1. s \in Injection(1..n, S)
    BY <1>3 DEF Injection, IsInjective
  <2>2. Cardinality(1..n) = Cardinality(S)
    BY <1>4, FS_Interval DEF n
  <2>3. s \in Surjection(1..n, S)
    BY <1>4, <2>1, <2>2, FS_Injection
  <2> QED
    BY <2>3 DEF Surjection
<1>6. DOMAIN s = 1..n
  BY <1>3
<1> QED
  BY <1>2, <1>3, <1>5, <1>6 DEF InOrder, s

\* The first k of them.
LEMMA TakenFacts ==
  ASSUME NEW u \in [Output -> Utxo], NEW S \in SUBSET Output,
         NEW s, InOrder(s, u, S)
  PROVE  \A k \in 0..Cardinality(S) :
           /\ Taken(s, k) \in SUBSET S
           /\ IsFiniteSet(Taken(s, k))
           /\ Cardinality(Taken(s, k)) = k
           /\ k < Cardinality(S) => /\ Taken(s, k + 1) = Taken(s, k) \cup {s[k + 1]}
                                    /\ s[k + 1] \in S \ Taken(s, k)
<1> DEFINE n == Cardinality(S)
           Q == {k \in 0..n : IsFiniteSet(Taken(s, k)) /\ Cardinality(Taken(s, k)) = k}
<1>1. n \in Nat
  BY OutputFacts
<1>2. /\ s \in [1..n -> S]
      /\ \A i, j \in 1..n : i # j => s[i] # s[j]
  BY DEF InOrder
<1> HIDE DEF n
<1>3. \A k \in 0..n : Taken(s, k) \in SUBSET S
  BY <1>1, <1>2 DEF Taken
<1>4. ASSUME NEW k \in 0..n, k < n
      PROVE  Taken(s, k + 1) = Taken(s, k) \cup {s[k + 1]} /\ s[k + 1] \in S \ Taken(s, k)
  <2>1. k + 1 \in 1..n /\ \A i \in 1..k : i \in 1..n /\ i # k + 1
    BY <1>1, <1>4
  <2>2. 1..(k + 1) = (1..k) \cup {k + 1}
    BY <1>1
  <2> QED
    BY <1>2, <2>1, <2>2 DEF Taken
<1>5. 0 \in Q
  <2>1. Taken(s, 0) = {}
    BY DEF Taken
  <2> QED
    BY <1>1, <2>1, FS_EmptySet
<1>6. ASSUME NEW k \in 0..n, k + 1 \in 0..n, k \in Q
      PROVE  k + 1 \in Q
  <2>1. k < n
    BY <1>1, <1>6
  <2>2. Taken(s, k + 1) = Taken(s, k) \cup {s[k + 1]} /\ s[k + 1] \notin Taken(s, k)
    BY <1>4, <2>1
  <2>3. IsFiniteSet(Taken(s, k)) /\ Cardinality(Taken(s, k)) = k
    BY <1>6
  <2>4. IsFiniteSet(Taken(s, k + 1)) /\ Cardinality(Taken(s, k + 1)) = k + 1
    BY <2>2, <2>3, FS_AddElement
  <2> QED
    BY <1>6, <2>4
<1>7. 0..n \subseteq Q
  <2> HIDE DEF Q
  <2> QED
    BY <1>1, <1>5, <1>6, Induction
<1>8. ASSUME NEW k \in 0..n
      PROVE  /\ Taken(s, k) \in SUBSET S
             /\ IsFiniteSet(Taken(s, k))
             /\ Cardinality(Taken(s, k)) = k
             /\ k < n => /\ Taken(s, k + 1) = Taken(s, k) \cup {s[k + 1]}
                         /\ s[k + 1] \in S \ Taken(s, k)
  <2>1. k \in Q
    BY <1>7
  <2> QED
    BY <1>3, <1>4, <2>1
<1> QED
  BY <1>8 DEF n

\* Sums over outputs.
LEMMA SumOf ==
  ASSUME NEW u \in [Output -> Utxo], NEW S \in SUBSET Output
  PROVE  /\ Sum(u, S) \in Nat
         /\ Sum(u, {}) = 0
         /\ \A o \in S : Sum(u, S) = u[o].satoshis + Sum(u, S \ {o})
         /\ \A T \in SUBSET S : Sum(u, T) <= Sum(u, S) /\ Sum(u, S) = Sum(u, T) + Sum(u, S \ T)
<1> DEFINE f == Satoshis(u)
<1>1. /\ IsFiniteSet(S)
      /\ \A o \in S : f[o] = u[o].satoshis /\ f[o] \in Nat
  BY OutputFacts
<1> HIDE DEF f
<1>2. \A o \in S : f[o] \in Int
  BY <1>1
<1>3. /\ SumFunctionOnSet(f, {}) = 0
      /\ \A o \in S : SumFunctionOnSet(f, S) = f[o] + SumFunctionOnSet(f, S \ {o})
  BY ONLY <1>1, <1>2, SumFacts
<1>4. SumFunctionOnSet(f, S) \in Nat
  <2>1. S \in SUBSET S /\ \A o \in S : f[o] \in Nat
    BY <1>1
  <2> QED
    BY ONLY <1>1, <2>1, SumMonotone
<1>5. ASSUME NEW T \in SUBSET S
      PROVE  /\ SumFunctionOnSet(f, T) <= SumFunctionOnSet(f, S)
             /\ SumFunctionOnSet(f, S) = SumFunctionOnSet(f, T) + SumFunctionOnSet(f, S \ T)
  <2>1. SumFunctionOnSet(f, T) <= SumFunctionOnSet(f, S)
    BY ONLY <1>1, <1>5, SumMonotone
  <2>2. SumFunctionOnSet(f, S) = SumFunctionOnSet(f, T) + SumFunctionOnSet(f, S \ T)
    BY ONLY <1>1, <1>2, <1>5, SumSplit
  <2> QED
    BY <2>1, <2>2
<1> QED
  BY <1>1, <1>3, <1>4, <1>5 DEF Sum, f

\* As many of the largest outputs are worth the most.
LEMMA LargestAreMost ==
  ASSUME NEW u \in [Output -> Utxo], NEW S \in SUBSET Output,
         NEW s, InOrder(s, u, S), NEW T \in SUBSET S
  PROVE  /\ Cardinality(T) \in 0..Cardinality(S)
         /\ Sum(u, T) <= Sum(u, Taken(s, Cardinality(T)))
<1> DEFINE n == Cardinality(S)
           F(A) == Sum(u, A)
           P == {A \in SUBSET S : F(A) <= F(Taken(s, Cardinality(A)))}
<1>1. n \in Nat /\ IsFiniteSet(S)
  BY OutputFacts
<1>2. \A A \in SUBSET S : IsFiniteSet(A) /\ Cardinality(A) \in 0..n
  BY <1>1, FS_Subset, FS_CardinalityType
<1>3. /\ s \in [1..n -> S]
      /\ \A i, j \in 1..n : i < j => u[s[i]].satoshis >= u[s[j]].satoshis
      /\ \A o \in S : \E i \in 1..n : s[i] = o
  BY DEF InOrder
<1>4. \A k \in 0..n : /\ Taken(s, k) \in SUBSET S
                      /\ Cardinality(Taken(s, k)) = k
                      /\ k < n => /\ Taken(s, k + 1) = Taken(s, k) \cup {s[k + 1]}
                                  /\ s[k + 1] \in S \ Taken(s, k)
  BY TakenFacts
<1>5. \A A \in SUBSET S : /\ F(A) \in Nat
                          /\ \A o \in A : F(A) = u[o].satoshis + F(A \ {o})
  <2> SUFFICES ASSUME NEW A \in SUBSET S
               PROVE  F(A) \in Nat /\ \A o \in A : F(A) = u[o].satoshis + F(A \ {o})
    OBVIOUS
  <2>1. A \in SUBSET Output
    OBVIOUS
  <2> QED
    BY <2>1, SumOf
<1>6. \A o \in S : u[o].satoshis \in Nat
  BY OutputFacts
<1> HIDE DEF F, n
<1>7. ASSUME NEW A \in SUBSET S, \A x \in A : A \ {x} \in P
      PROVE  A \in P
  <2>1. CASE A = {}
    <3>1. Cardinality(A) = 0 /\ Taken(s, 0) = {}
      BY <2>1, FS_EmptySet DEF Taken
    <3>2. F(A) \in Nat
      BY <1>5
    <3> QED
      BY <2>1, <3>1, <3>2
  <2>2. CASE A # {}
    <3>1. PICK m \in 1..n : s[m] \in A /\ \A i \in 1..n : s[i] \in A => i <= m
      <4> DEFINE D == {n - i : i \in {j \in 1..n : s[j] \in A}}
      <4>1. D \in SUBSET Nat
        BY <1>1
      <4>2. D # {}
        BY <1>3, <2>2
      <4>3. PICK d \in D : \A e \in D : d <= e
        <5> HIDE DEF D
        <5> QED
          BY <4>1, <4>2, LeastExists
      <4>4. PICK m \in 1..n : s[m] \in A /\ d = n - m
        BY <4>3
      <4>5. ASSUME NEW i \in 1..n, s[i] \in A
            PROVE  i <= m
        <5>1. n - m <= n - i
          BY <4>3, <4>4, <4>5
        <5> QED
          BY <1>1, <5>1
      <4> QED
        BY <4>4, <4>5
    <3> DEFINE x == s[m]
               k == Cardinality(A \ {x})
    <3>2. Cardinality(A) = k + 1 /\ k \in Nat /\ k + 1 \in 0..n
      <4>1. IsFiniteSet(A) /\ Cardinality(A) \in 0..n /\ x \in A
        BY <1>2, <3>1
      <4>2. Cardinality(A \ {x}) = Cardinality(A) - 1 /\ Cardinality(A \ {x}) \in Nat
        BY <4>1, FS_RemoveElement, FS_CardinalityType
      <4> QED
        BY <1>1, <4>1, <4>2
    <3>3. A \subseteq Taken(s, m)
      <4> SUFFICES ASSUME NEW o \in A PROVE o \in Taken(s, m)
        OBVIOUS
      <4>1. PICK i \in 1..n : s[i] = o
        BY <1>3
      <4>2. i <= m
        BY <3>1, <4>1
      <4> QED
        BY <4>1, <4>2 DEF Taken
    <3>4. k + 1 <= m
      <4>1. m \in 0..n
        BY <3>1
      <4>2. IsFiniteSet(Taken(s, m)) /\ Cardinality(Taken(s, m)) = m
        BY <1>2, <1>4, <4>1
      <4>3. Cardinality(A) <= m
        BY <3>3, <4>2, FS_Subset
      <4> QED
        BY <3>2, <4>3
    <3>5. F(A \ {x}) <= F(Taken(s, k))
      BY <1>7, <3>1
    <3>6. F(A) = u[x].satoshis + F(A \ {x}) /\ F(A \ {x}) \in Nat
      BY <1>5, <3>1
    <3> HIDE DEF k
    <3> DEFINE y == s[k + 1]
    <3>7. k \in 0..n /\ k < n /\ k + 1 \in 1..n
      BY <1>1, <3>2
    <3>8. F(Taken(s, k + 1)) = u[y].satoshis + F(Taken(s, k))
      <4>1. /\ Taken(s, k + 1) = Taken(s, k) \cup {y} /\ y \in S \ Taken(s, k)
            /\ Taken(s, k + 1) \in SUBSET S
        <5>1. k + 1 \in 0..n
          BY <3>2
        <5> QED
          BY <1>4, <3>7, <5>1
      <4>2. y \in Taken(s, k + 1) /\ Taken(s, k + 1) \ {y} = Taken(s, k)
        BY <4>1
      <4> HIDE DEF y
      <4> QED
        BY <1>5, <4>1, <4>2
    <3>9. u[y].satoshis >= u[x].satoshis
      <4>1. CASE k + 1 = m
        <5>1. u[x].satoshis \in Nat
          BY <1>3, <1>6, <3>1
        <5> QED
          BY <4>1, <5>1
      <4>2. CASE k + 1 # m
        <5>1. k + 1 < m
          BY <3>2, <3>4, <4>2
        <5> QED
          BY <1>3, <3>7, <5>1
      <4> QED
        BY <4>1, <4>2
    <3>10. u[x].satoshis \in Nat /\ u[y].satoshis \in Nat /\ F(Taken(s, k)) \in Nat
      BY <1>3, <1>4, <1>5, <1>6, <3>1, <3>7
    <3>11. F(A) <= F(Taken(s, k + 1))
      <4> HIDE DEF x, y
      <4> QED
        BY <3>5, <3>6, <3>8, <3>9, <3>10
    <3> QED
      BY <3>2, <3>11
  <2> QED
    BY <2>1, <2>2
<1>8. SUBSET S \subseteq P
  <2> HIDE DEF P
  <2> QED
    BY <1>1, <1>7, SubsetInduction
<1>9. T \in P /\ Cardinality(T) \in 0..n
  BY <1>2, <1>8
<1> QED
  BY <1>9 DEF F, n

-----------------------------------------------------------------------------
(* select.                                                                 *)

\* Min of a set of numbers is its least.
LEMMA MinIs ==
  ASSUME NEW S \in SUBSET Nat, S # {}
  PROVE  Min(S) \in S /\ \A n \in S : Min(S) <= n
<1>1. \E m \in S : \A n \in S : m <= n
  BY LeastExists
<1> QED
  BY <1>1 DEF Min

\* Max of two numbers.
LEMMA MaxOfTwo ==
  ASSUME NEW a \in Int, NEW b \in Int
  PROVE  Max({a, b}) = IF a >= b THEN a ELSE b
BY DEF Max

\* The constants of Defaults, and the dust threshold they give.
LEMMA Thresholds ==
  /\ DustThreshold = MIN_OUTPUT_AMOUNT
  /\ DustThreshold \in Nat /\ DustThreshold > 0
  /\ DUST_AMOUNT \in Nat /\ DUST_AMOUNT <= DustThreshold
  /\ MAX_TX_SIZE \in Nat /\ MAX_TX_FEE \in Nat
  /\ MAX_SINGLE_UTXO_FACTOR \in Nat /\ MAX_SINGLE_UTXO_FACTOR > 0
<1>1. /\ MIN_OUTPUT_AMOUNT \in Nat /\ DUST_AMOUNT \in Nat
      /\ MAX_TX_SIZE \in Nat /\ MAX_TX_FEE \in Nat /\ MAX_SINGLE_UTXO_FACTOR \in Nat
      /\ DUST_AMOUNT <= MIN_OUTPUT_AMOUNT /\ MIN_OUTPUT_AMOUNT > 0
      /\ MAX_SINGLE_UTXO_FACTOR > 0
  BY SelectionAssumption
<1>2. DustThreshold = MIN_OUTPUT_AMOUNT
  BY <1>1, MaxOfTwo DEF DustThreshold
<1> QED
  BY <1>1, <1>2

\* A proposal of some amount, at a rate.
Payable(t) ==
  /\ GetTotalAmount(t) \in Nat /\ GetTotalAmount(t) > 0
  /\ t.feePerKb \in Nat
  /\ GetEstimatedSize(t, 0) \in Nat
  /\ GetEstimatedSizeForSingleInput(t) \in Nat

\* Can these outputs pay for it and its fee in one transaction?
CanPay(t, u, S) ==
  /\ SizeWith(t, Cardinality(S)) <= MAX_TX_SIZE
  /\ Sum(u, S) * 1000 - FeeWith(t, Cardinality(S)) >= GetTotalAmount(t) * 1000

\* Sizes and fees are linear in the number of inputs.
LEMMA FeesGrow ==
  ASSUME NEW t, Payable(t)
  PROVE  /\ BaseFee(t) \in Nat /\ FeePerInput(t) \in Nat
         /\ \A n \in Nat : FeeWith(t, n) \in Nat /\ SizeWith(t, n) \in Nat
         /\ \A n \in Nat, k \in Nat : FeeWith(t, n + k) = FeeWith(t, n) + k * FeePerInput(t)
         /\ \A n \in Nat, k \in Nat : SizeWith(t, n) <= SizeWith(t, n + k)
<1> DEFINE b == GetEstimatedSize(t, 0)
           i == GetEstimatedSizeForSingleInput(t)
           p == t.feePerKb
<1>1. b \in Nat /\ i \in Nat /\ p \in Nat
  BY DEF Payable
<1> DEFINE c == i * p
           d == b * p
<1>2. c \in Nat /\ d \in Nat
  <2> HIDE DEF b, i, p
  <2> QED
    BY <1>1
<1>3. FeePerInput(t) = c /\ BaseFee(t) = d
  BY DEF FeePerInput, BaseFee
<1> HIDE DEF b, i, p, c, d
<1>4. \A n \in Nat : FeeWith(t, n) = d + n * c
  BY <1>3, Zenon DEF FeeWith
<1>5. \A n \in Nat : SizeWith(t, n) = b + n * i
  BY Zenon DEF SizeWith, b, i
<1>6. \A n \in Nat, k \in Nat : n + k \in Nat
  OBVIOUS
<1>7. ASSUME NEW n \in Nat, NEW k \in Nat
      PROVE  FeeWith(t, n + k) = FeeWith(t, n) + k * c
  <2>1. FeeWith(t, n + k) = d + (n + k) * c /\ FeeWith(t, n) = d + n * c
    BY <1>4, <1>6
  <2>2. (n + k) * c = n * c + k * c /\ n * c \in Int /\ k * c \in Int
    BY <1>2
  <2> QED
    BY <1>2, <2>1, <2>2
<1>8. ASSUME NEW n \in Nat, NEW k \in Nat
      PROVE  SizeWith(t, n) <= SizeWith(t, n + k)
  <2>1. SizeWith(t, n + k) = b + (n + k) * i /\ SizeWith(t, n) = b + n * i
    BY <1>5, <1>6
  <2>2. (n + k) * i = n * i + k * i /\ n * i \in Nat /\ k * i \in Nat
    BY <1>1
  <2> QED
    BY <1>1, <2>1, <2>2
<1>9. ASSUME NEW n \in Nat
      PROVE  FeeWith(t, n) \in Nat /\ SizeWith(t, n) \in Nat
  <2>1. n * c \in Nat /\ n * i \in Nat
    BY <1>1, <1>2
  <2> QED
    BY <1>1, <1>2, <1>4, <1>5, <2>1
<1> QED
  BY <1>2, <1>3, <1>7, <1>8, <1>9

\* Outputs that pay for themselves: more of them have a greater net value.
LEMMA NetGrows ==
  ASSUME NEW t, Payable(t), NEW u \in [Output -> Utxo], NEW S \in SUBSET Output,
         \A o \in S : PaysForItself(t, u[o]), NEW T \in SUBSET S
  PROVE  Net(t, u, T) \in Int /\ Net(t, u, S) \in Int /\ Net(t, u, T) <= Net(t, u, S)
<1> DEFINE R == S \ T
           c == FeePerInput(t)
           k == Cardinality(T)
           r == Cardinality(R)
           f == Satoshis(u)
<1>1. /\ IsFiniteSet(T) /\ k \in Nat /\ IsFiniteSet(R) /\ r \in Nat
      /\ \A o \in R : u[o].satoshis \in Nat /\ f[o] = u[o].satoshis
  <2>1. T \in SUBSET Output /\ R \in SUBSET Output
    OBVIOUS
  <2> HIDE DEF f
  <2> QED
    BY <2>1, OutputFacts DEF f
<1>2. Cardinality(S) = k + r
  <2>1. S = T \cup R /\ T \cap R = {}
    OBVIOUS
  <2>2. Cardinality(T \cup R) = Cardinality(T) + Cardinality(R) - Cardinality(T \cap R)
    BY <1>1, FS_Union
  <2>3. Cardinality(T \cap R) = 0
    BY <2>1, FS_EmptySet
  <2>4. Cardinality(S) = Cardinality(T) + Cardinality(R) - 0
    BY <2>1, <2>2, <2>3
  <2> HIDE DEF R
  <2> QED
    BY <1>1, <2>4
<1>3. /\ Sum(u, S) \in Nat /\ Sum(u, T) \in Nat /\ Sum(u, R) \in Nat
      /\ Sum(u, S) = Sum(u, T) + Sum(u, R)
  <2>1. T \in SUBSET Output /\ R \in SUBSET Output
    OBVIOUS
  <2> HIDE DEF R
  <2> QED
    BY <2>1, SumOf DEF R
<1>4. c \in Nat /\ FeeWith(t, k) \in Nat /\ FeeWith(t, k + r) = FeeWith(t, k) + r * c
  <2> HIDE DEF k, r, c
  <2> QED
    BY <1>1, FeesGrow DEF c
<1>5. c * r <= Sum(u, R) * 1000
  <2>1. \A o \in R : u[o].satoshis * 1000 > FeePerInput(t)
    BY DEF PaysForItself
  <2>2. (\A o \in R : f[o] \in Int) /\ \A o \in R : c <= f[o] * 1000
    <3> HIDE DEF f, R, c
    <3> QED
      BY <1>1, <1>4, <2>1 DEF c
  <2>3. c \in Int
    BY <1>4
  <2>4. c * Cardinality(R) <= SumFunctionOnSet(f, R) * 1000
    <3> HIDE DEF f, R, c
    <3> QED
      BY ONLY <1>1, <2>2, <2>3, SumBounds
  <2> QED
    BY <2>4 DEF Sum
<1>6. Net(t, u, T) = Sum(u, T) * 1000 - FeeWith(t, k)
  BY DEF Net
<1>7. Net(t, u, S) = Sum(u, S) * 1000 - FeeWith(t, k + r)
  BY <1>2 DEF Net
<1>8. c * r = r * c /\ r * c \in Int
  <2> HIDE DEF c, r
  <2> QED
    BY <1>1, <1>4
<1> HIDE DEF R, c, k, r, f
<1> QED
  BY <1>1, <1>3, <1>4, <1>5, <1>6, <1>7, <1>8

\* How many of the small outputs the loop takes.
LEMMA LoopEnds ==
  ASSUME NEW t, NEW u, NEW big, NEW small, NEW S, NEW n \in Nat, small \in [1..n -> S]
  PROVE  LET last == LastTaken(t, u, big, small)
             ends(k) == Breaks(t, u, big, small, k) \/ Covers(t, u, Taken(small, k))
         IN  /\ last \in 0..n
             /\ last < n => ends(last)
             /\ last # n => last \in 1..n
             /\ \A k \in 1..n : ends(k) => last <= k
<1> DEFINE ends(k) == Breaks(t, u, big, small, k) \/ Covers(t, u, Taken(small, k))
           K == {k \in 1..n : ends(k)} \cup {n}
<1>1. Len(small) = n /\ DOMAIN small = 1..n
  OBVIOUS
<1>2. LastTaken(t, u, big, small) = Min(K)
  BY <1>1 DEF LastTaken
<1> HIDE DEF ends
<1>3. K \in SUBSET Nat /\ K # {}
  OBVIOUS
<1>4. Min(K) \in K /\ \A k \in K : Min(K) <= k
  <2> HIDE DEF K
  <2> QED
    BY <1>3, MinIs
<1> QED
  BY <1>2, <1>4 DEF ends

\* The fee select finds pays the rate, and is covered.
LEMMA FeeCovered ==
  ASSUME NEW t, Payable(t), NEW u \in [Output -> Utxo], NEW S \in SUBSET Output,
         Covers(t, u, S), NEW stopped \in BOOLEAN
  PROVE  LET rate == Fee(t, Cardinality(S))
             left == Sum(u, S) - GetTotalAmount(t)
             fee  == FeeAndDust(rate, left - rate, stopped)
         IN  /\ rate \in Nat
             /\ fee \in rate .. (rate + DustThreshold)
             /\ fee <= left
             /\ left \in Nat
<1> DEFINE rate == Fee(t, Cardinality(S))
           left == Sum(u, S) - GetTotalAmount(t)
           w == FeeWith(t, Cardinality(S))
<1>1. Cardinality(S) \in Nat /\ Sum(u, S) \in Nat
  BY OutputFacts, SumOf
<1>2. w \in Nat
  BY <1>1, FeesGrow
<1>3. GetTotalAmount(t) \in Nat
  BY DEF Payable
<1>4. Sum(u, S) * 1000 - w >= GetTotalAmount(t) * 1000
  BY DEF Covers, Net
<1>5. rate = (w + 500) \div 1000
  BY DEF Fee, ToSatoshi
<1>6. left \in Int /\ w <= left * 1000
  <2> HIDE DEF w
  <2> QED
    BY <1>1, <1>2, <1>3, <1>4
<1> HIDE DEF w, left, rate
<1>7. rate \in Nat /\ rate <= left
  BY <1>2, <1>5, <1>6
<1>8. FeeAndDust(rate, left - rate, stopped) =
        IF ~stopped /\ left - rate \in 1..DustThreshold THEN left ELSE rate
  BY <1>6, <1>7 DEF FeeAndDust
<1>9. FeeAndDust(rate, left - rate, stopped) \in rate .. (rate + DustThreshold)
      /\ FeeAndDust(rate, left - rate, stopped) <= left
  BY <1>6, <1>7, <1>8, Thresholds
<1> QED
  BY <1>6, <1>7, <1>9 DEF rate, left

\* What select finds: outputs that cover the proposal, and a fee of its rate, or
\* of little more.
GoodChoice(t, u, S, r) ==
  /\ r.inputs \in SUBSET S
  /\ r.inputs # {}
  /\ r.fee \in Fee(t, Cardinality(r.inputs)) .. (Fee(t, Cardinality(r.inputs)) + DustThreshold)
  /\ Fee(t, Cardinality(r.inputs)) \in Nat
  /\ r.fee <= Sum(u, r.inputs) - GetTotalAmount(t)

\* No outputs, nothing covered.
LEMMA NothingCovers ==
  ASSUME NEW t, Payable(t), NEW u \in [Output -> Utxo]
  PROVE  ~Covers(t, u, {})
<1>1. Sum(u, {}) = 0 /\ Cardinality({}) = 0
  <2>1. {} \in SUBSET Output
    OBVIOUS
  <2> QED
    BY <2>1, SumOf, FS_EmptySet
<1>2. FeeWith(t, 0) \in Nat
  BY FeesGrow
<1> QED
  BY <1>1, <1>2 DEF Covers, Net, Payable

\* A big output is enough.
LEMMA BigCovers ==
  ASSUME NEW t, Payable(t), NEW u \in [Output -> Utxo], NEW o \in Output, IsBig(t, u[o])
  PROVE  Covers(t, u, {o}) /\ Cardinality({o}) = 1
<1> DEFINE a == GetTotalAmount(t)
           x == u[o].satoshis
           w == FeeWith(t, 1)
           m == MAX_SINGLE_UTXO_FACTOR
<1>1. Cardinality({o}) = 1
  BY FS_Singleton
<1>2. Sum(u, {o}) = x /\ x \in Nat
  <2>1. {o} \in SUBSET Output /\ {o} \ {o} = {}
    OBVIOUS
  <2>2. Sum(u, {o}) = x + Sum(u, {o} \ {o}) /\ Sum(u, {}) = 0
    BY <2>1, SumOf
  <2>3. x \in Nat
    BY <2>1, OutputFacts
  <2> HIDE DEF x
  <2> QED
    BY <2>1, <2>2, <2>3
<1>3. a \in Nat /\ w \in Nat /\ m \in Nat /\ m > 0
  BY FeesGrow, Thresholds DEF Payable
<1>4. x * 1000 > a * m * 1000 + w
  BY DEF IsBig
<1> HIDE DEF a, x, w, m
<1>5. a * m >= a /\ a * m \in Nat
  <2>1. PICK k \in Nat : m = k + 1
    <3>1. m - 1 \in Nat /\ m = (m - 1) + 1
      BY <1>3
    <3> QED
      BY <3>1
  <2>2. a * m = a * k + a /\ a * k \in Nat
    BY <1>3, <2>1
  <2> QED
    BY <1>3, <2>2
<1>6. x * 1000 - w >= a * 1000
  <2> DEFINE y == a * m
  <2>1. x * 1000 > y * 1000 + w /\ y >= a /\ y \in Nat
    BY <1>4, <1>5
  <2> HIDE DEF y
  <2> QED
    BY <1>2, <1>3, <2>1
<1> QED
  BY <1>1, <1>2, <1>6 DEF Covers, Net, a, w

\* Select finds outputs that cover the proposal; or no choice of those it may
\* select can pay for it.
LEMMA SelectChooses ==
  ASSUME NEW t, Payable(t), NEW u \in [Output -> Utxo], NEW S \in SUBSET Output,
         \A o \in S : PaysForItself(t, u[o])
  PROVE  /\ Select(t, u, S).error = "none" => GoodChoice(t, u, S, Select(t, u, S))
         /\ Select(t, u, S).error # "none" => \A T \in SUBSET S : ~CanPay(t, u, T)
<1> DEFINE a == GetTotalAmount(t)
           big == {o \in S : IsBig(t, u[o])}
           R == S \ big
           small == Descending(u, R)
           n == Cardinality(R)
           last == LastTaken(t, u, big, small)
           r == Select(t, u, S)
<1>1. /\ a \in Nat /\ a > 0
      /\ \A T \in SUBSET S : /\ Sum(u, T) \in Nat
                             /\ Sum(u, T) <= Sum(u, S)
                             /\ Cardinality(T) \in Nat
                             /\ FeeWith(t, Cardinality(T)) \in Nat
  <2>1. \A T \in SUBSET S : T \in SUBSET Output
    OBVIOUS
  <2>2. \A T \in SUBSET S : Sum(u, T) \in Nat /\ Sum(u, T) <= Sum(u, S)
    BY <2>1, SumOf
  <2>3. \A T \in SUBSET S : Cardinality(T) \in Nat
    BY <2>1, OutputFacts
  <2>4. \A k \in Nat : FeeWith(t, k) \in Nat
    BY FeesGrow
  <2> QED
    BY <2>2, <2>3, <2>4 DEF Payable
<1>2. \A T \in SUBSET S : /\ Net(t, u, T) \in Int
                          /\ Net(t, u, S) \in Int
                          /\ Net(t, u, T) <= Net(t, u, S)
  BY NetGrows
<1>3. ASSUME Sum(u, S) < a
      PROVE  r.error # "none" /\ \A T \in SUBSET S : ~CanPay(t, u, T)
  <2>1. r = NotSelected("INSUFFICIENT_FUNDS")
    BY <1>3 DEF Select
  <2>2. r.error # "none"
    BY <2>1 DEF NotSelected
  <2>3. ASSUME NEW T \in SUBSET S, CanPay(t, u, T)
        PROVE  FALSE
    <3>1. Sum(u, T) * 1000 - FeeWith(t, Cardinality(T)) >= a * 1000
      BY <2>3 DEF CanPay
    <3>2. /\ Sum(u, T) \in Nat /\ Sum(u, T) <= Sum(u, S) /\ Sum(u, S) \in Nat
          /\ FeeWith(t, Cardinality(T)) \in Nat
      BY <1>1
    <3> HIDE DEF a
    <3> QED
      BY <1>1, <1>3, <3>1, <3>2
  <2> QED
    BY <2>2, <2>3
<1>4. ASSUME ~(Sum(u, S) < a), ~Covers(t, u, S)
      PROVE  r.error # "none" /\ \A T \in SUBSET S : ~CanPay(t, u, T)
  <2>1. r = NotSelected("INSUFFICIENT_FUNDS_FOR_FEE")
    BY <1>4, Zenon DEF Select
  <2>2. r.error # "none"
    BY <2>1 DEF NotSelected
  <2>3. ASSUME NEW T \in SUBSET S, CanPay(t, u, T)
        PROVE  FALSE
    <3>1. Net(t, u, T) >= a * 1000
      BY <2>3 DEF CanPay, Net
    <3>2. ~(Net(t, u, S) >= a * 1000)
      BY <1>4 DEF Covers
    <3>3. Net(t, u, T) \in Int /\ Net(t, u, S) \in Int /\ Net(t, u, T) <= Net(t, u, S)
      BY <1>2
    <3> HIDE DEF a
    <3> QED
      BY <1>1, <3>1, <3>2, <3>3
  <2> QED
    BY <2>2, <2>3
<1>5. ASSUME ~(Sum(u, S) < a), Covers(t, u, S)
      PROVE  /\ r.error = "none" => GoodChoice(t, u, S, r)
             /\ r.error # "none" => \A T \in SUBSET S : ~CanPay(t, u, T)
  <2>1. r = Outcome(t, u, big, small, last)
    BY <1>5, Zenon DEF Select, SelectFrom
  <2>2. InOrder(small, u, R) /\ n \in Nat /\ R \in SUBSET Output
    <3>1. R \in SUBSET Output
      OBVIOUS
    <3> HIDE DEF R
    <3> QED
      BY <3>1, DescendingSorts, OutputFacts
  <2>3. small \in [1..n -> R]
    BY <2>2 DEF InOrder
  <2>4. \A k \in 0..n : Taken(small, k) \in SUBSET R /\ Cardinality(Taken(small, k)) = k
    <3> HIDE DEF R, small
    <3> QED
      BY <2>2, TakenFacts DEF n
  <2> DEFINE ends(k) == Breaks(t, u, big, small, k) \/ Covers(t, u, Taken(small, k))
  <2>5. /\ last \in 0..n
        /\ last < n => ends(last)
        /\ last # n => last \in 1..n
        /\ \A k \in 1..n : ends(k) => last <= k
    <3> HIDE DEF R, small, n, big
    <3> QED
      BY <2>2, <2>3, LoopEnds DEF last
  <2>6. CASE Covers(t, u, Taken(small, last))
    <3> DEFINE A == Taken(small, last)
               stopped == Breaks(t, u, big, small, last)
               fee == FeeAndDust(Fee(t, last), Sum(u, A) - GetTotalAmount(t) - Fee(t, last), stopped)
    <3>1. r = Selected(A, fee)
      BY <2>1, <2>6 DEF Outcome
    <3>2. A \in SUBSET S /\ A \in SUBSET Output /\ Cardinality(A) = last
      <4>1. A \in SUBSET R /\ Cardinality(A) = last
        <5> HIDE DEF R, small, n, last
        <5> QED
          BY <2>4, <2>5
      <4>2. R \in SUBSET S
        OBVIOUS
      <4> HIDE DEF R, A, last
      <4> QED
        BY <4>1, <4>2
    <3>3. A # {}
      BY <2>6, NothingCovers
    <3>4. stopped \in BOOLEAN
      BY DEF Breaks
    <3> DEFINE rate == Fee(t, Cardinality(A))
               left == Sum(u, A) - GetTotalAmount(t)
               fee2 == FeeAndDust(rate, left - rate, stopped)
    <3>5. rate \in Nat /\ fee2 \in rate .. (rate + DustThreshold) /\ fee2 <= left
      <4> HIDE DEF A, stopped
      <4> QED
        BY <2>6, <3>2, <3>4, FeeCovered DEF A
    <3>6. fee2 = fee /\ rate = Fee(t, last)
      <4> HIDE DEF A, stopped, last
      <4> QED
        BY <3>2
    <3>7. r.inputs = A /\ r.fee = fee
      <4> HIDE DEF A, fee, r
      <4> QED
        BY <3>1 DEF Selected
    <3> HIDE DEF A, fee, r, stopped, last, rate, left, fee2
    <3>8. r.fee \in rate .. (rate + DustThreshold) /\ r.fee <= left
      BY <3>5, <3>6, <3>7
    <3>9. GoodChoice(t, u, S, r)
      BY <3>2, <3>3, <3>5, <3>7, <3>8 DEF GoodChoice, rate, left
    <3>10. r.error = "none"
      BY <3>1 DEF Selected
    <3> QED
      BY <3>9, <3>10
  <2>7. CASE ~Covers(t, u, Taken(small, last)) /\ big # {}
    <3> DEFINE o == CHOOSE o \in big : \A p \in big : u[o].satoshis <= u[p].satoshis
    <3>1. o \in big
      <4> DEFINE V == {u[p].satoshis : p \in big}
      <4>1. V \in SUBSET Nat /\ V # {}
        <5>1. \A p \in big : u[p].satoshis \in Nat
          BY OutputFacts
        <5> QED
          BY <2>7, <5>1
      <4>2. PICK v \in V : \A w \in V : v <= w
        <5> HIDE DEF V
        <5> QED
          BY <4>1, LeastExists
      <4>3. \E p \in big : \A q \in big : u[p].satoshis <= u[q].satoshis
        BY <4>2
      <4> HIDE DEF big
      <4> QED
        BY <4>3
    <3>2. r = Selected({o}, Fee(t, 1))
      BY <2>1, <2>7 DEF Outcome
    <3> HIDE DEF o
    <3>3. o \in S /\ o \in Output /\ IsBig(t, u[o])
      BY <3>1
    <3>4. Covers(t, u, {o}) /\ Cardinality({o}) = 1 /\ {o} \in SUBSET Output
      BY <3>3, BigCovers
    <3> DEFINE rate == Fee(t, Cardinality({o}))
               left == Sum(u, {o}) - GetTotalAmount(t)
               fee2 == FeeAndDust(rate, left - rate, TRUE)
    <3>5. rate \in Nat /\ fee2 \in rate .. (rate + DustThreshold) /\ fee2 <= left
      <4>1. TRUE \in BOOLEAN
        OBVIOUS
      <4> QED
        BY <3>4, <4>1, FeeCovered
    <3>6. fee2 = rate /\ rate = Fee(t, 1)
      BY <3>4 DEF FeeAndDust
    <3>7. r.inputs = {o} /\ r.fee = rate /\ r.error = "none"
      <4> HIDE DEF r, rate
      <4> QED
        BY <3>2, <3>6 DEF Selected
    <3> HIDE DEF r, rate, left, fee2
    <3>8. r.fee \in rate .. (rate + DustThreshold) /\ r.fee <= left
      BY <3>5, <3>6, <3>7
    <3>9. {o} \in SUBSET S /\ {o} # {}
      BY <3>3
    <3>10. GoodChoice(t, u, S, r)
      BY <3>5, <3>7, <3>8, <3>9 DEF GoodChoice, rate, left
    <3> QED
      BY <3>7, <3>10
  <2>8. CASE ~Covers(t, u, Taken(small, last)) /\ big = {}
    <3>1. R = S
      BY <2>8
    <3>2. ASSUME NEW T \in SUBSET S, CanPay(t, u, T)
          PROVE  FALSE
      <4> DEFINE m == Cardinality(T)
      <4>1. m \in 0..n /\ Sum(u, T) <= Sum(u, Taken(small, m))
        <5> HIDE DEF R, small
        <5>1. T \in SUBSET R
          BY <3>1
        <5> QED
          BY <2>2, <5>1, LargestAreMost DEF n
      <4>2. T # {}
        <5>1. Net(t, u, T) >= a * 1000
          BY <3>2 DEF CanPay, Net
        <5>2. Covers(t, u, T)
          BY <5>1 DEF Covers
        <5> QED
          BY <5>2, NothingCovers
      <4>3. m # 0
        <5>1. T \in SUBSET Output
          OBVIOUS
        <5>2. IsFiniteSet(T)
          BY <5>1, OutputFacts
        <5> QED
          BY <4>2, <5>2, FS_EmptySet
      <4> HIDE DEF m, R, small, n, last, a, big
      <4>4. Taken(small, m) \in SUBSET R /\ Cardinality(Taken(small, m)) = m
        BY <2>4, <4>1
      <4>5. Sum(u, T) * 1000 - FeeWith(t, m) >= a * 1000 /\ SizeWith(t, m) <= MAX_TX_SIZE
        BY <3>2 DEF CanPay, m, a
      <4>6. /\ Sum(u, T) \in Nat /\ Sum(u, Taken(small, m)) \in Nat
            /\ FeeWith(t, m) \in Nat
        <5>1. Taken(small, m) \in SUBSET S
          BY <3>1, <4>4
        <5> QED
          BY <1>1, <5>1 DEF m
      <4>7. Net(t, u, Taken(small, m)) >= a * 1000
        <5>1. Net(t, u, Taken(small, m)) = Sum(u, Taken(small, m)) * 1000 - FeeWith(t, m)
          BY <4>4 DEF Net
        <5> QED
          BY <1>1, <4>1, <4>5, <4>6, <5>1
      <4>8. Covers(t, u, Taken(small, m))
        BY <4>7 DEF Covers, a
      <4>9. last <= m /\ m \in 1..n
        BY <2>2, <2>5, <4>1, <4>3, <4>8
      <4>10. last # m
        BY <2>8, <4>8
      <4>11. last < n /\ last \in 1..n /\ last < m
        BY <2>2, <2>5, <4>9, <4>10
      <4>12. Breaks(t, u, big, small, last)
        BY <2>5, <2>8, <4>11
      <4>13. SizeWith(t, last) > MAX_TX_SIZE
        BY <2>8, <4>12 DEF Breaks
      <4>14. /\ SizeWith(t, last) <= SizeWith(t, m)
             /\ SizeWith(t, last) \in Nat /\ SizeWith(t, m) \in Nat
        <5>1. /\ \A i \in Nat, k \in Nat : SizeWith(t, i) <= SizeWith(t, i + k)
              /\ \A i \in Nat : SizeWith(t, i) \in Nat
          BY FeesGrow
        <5>2. m - last \in Nat /\ last \in Nat /\ last + (m - last) = m /\ m \in Nat
          BY <2>2, <4>9, <4>11
        <5>3. SizeWith(t, last) <= SizeWith(t, last + (m - last))
          BY <5>1, <5>2
        <5> QED
          BY <5>1, <5>2, <5>3
      <4> QED
        BY <4>5, <4>13, <4>14, Thresholds
    <3>3. r = NotSelected("TX_MAX_SIZE_EXCEEDED")
      BY <2>1, <2>8 DEF Outcome
    <3>4. r.error # "none"
      BY <3>3 DEF NotSelected
    <3> QED
      BY <3>2, <3>4
  <2> QED
    BY <2>6, <2>7, <2>8
<1> QED
  BY <1>3, <1>4, <1>5

-----------------------------------------------------------------------------
(* _selectTxInputs.                                                        *)

\* The outputs of a group.
Candidates(t, u, X, i) ==
  {o \in Usable(t, u, X) : u[o].confirmations >= Groups(t)[i]}

\* The groups of selectTxInputs: the last one has all the usable outputs.
LEMMA GroupFacts ==
  ASSUME NEW t, NEW u \in [Output -> Utxo], NEW X
  PROVE  /\ Len(Groups(t)) \in {2, 3}
         /\ DOMAIN Groups(t) = 1..Len(Groups(t))
         /\ Groups(t)[1] = 6 /\ Groups(t)[2] = 1
         /\ Len(Groups(t)) = 3 => Groups(t)[3] = 0
         /\ Usable(t, u, X) \in SUBSET Available(t, u)
         /\ Available(t, u) \in SUBSET Output
         /\ \A o \in Usable(t, u, X) : PaysForItself(t, u[o])
         /\ \A i \in 1..Len(Groups(t)) : Candidates(t, u, X, i) \in SUBSET Usable(t, u, X)
         /\ Candidates(t, u, X, Len(Groups(t))) = Usable(t, u, X)
<1>1. /\ t.excludeUnconfirmedUtxos => Groups(t) = <<6, 1>>
      /\ ~t.excludeUnconfirmedUtxos => Groups(t) = <<6, 1, 0>>
  BY DEF Groups
<1>2. /\ Usable(t, u, X) \in SUBSET Available(t, u)
      /\ Available(t, u) \in SUBSET Output
      /\ \A o \in Usable(t, u, X) : PaysForItself(t, u[o])
      /\ \A i \in 1..Len(Groups(t)) : Candidates(t, u, X, i) \in SUBSET Usable(t, u, X)
  BY DEF Usable, Available, Candidates
<1>3. \A o \in Output : u[o].confirmations \in Nat
  BY OutputFacts
<1>4. \A o \in Usable(t, u, X) : t.excludeUnconfirmedUtxos => u[o].confirmations > 0
  BY DEF Usable, Available
<1>5. Candidates(t, u, X, Len(Groups(t))) = Usable(t, u, X)
  <2>1. CASE t.excludeUnconfirmedUtxos
    <3>0. Groups(t) = <<6, 1>>
      BY <1>1, <2>1, Zenon
    <3>1. Groups(t)[Len(Groups(t))] = 1
      BY <3>0
    <3>2. \A o \in Usable(t, u, X) : u[o].confirmations >= Groups(t)[Len(Groups(t))]
      BY <1>2, <1>3, <1>4, <2>1, <3>1
    <3> QED
      BY <3>2 DEF Candidates
  <2>2. CASE ~t.excludeUnconfirmedUtxos
    <3>1. Groups(t)[Len(Groups(t))] = 0
      BY <1>1, <2>2
    <3>2. \A o \in Usable(t, u, X) : u[o].confirmations >= Groups(t)[Len(Groups(t))]
      BY <1>2, <1>3, <3>1
    <3> QED
      BY <3>2 DEF Candidates
  <2> QED
    BY <2>1, <2>2
<1>6. /\ Len(Groups(t)) \in {2, 3}
      /\ DOMAIN Groups(t) = 1..Len(Groups(t))
      /\ Groups(t)[1] = 6 /\ Groups(t)[2] = 1
      /\ Len(Groups(t)) = 3 => Groups(t)[3] = 0
  <2>1. CASE t.excludeUnconfirmedUtxos
    <3>1. Groups(t) = <<6, 1>>
      BY <1>1, <2>1, Zenon
    <3> QED
      BY <3>1
  <2>2. CASE ~t.excludeUnconfirmedUtxos
    <3>1. Groups(t) = <<6, 1, 0>>
      BY <1>1, <2>2, Zenon
    <3> QED
      BY <3>1
  <2> QED
    BY <2>1, <2>2
<1> QED
  BY <1>2, <1>5, <1>6

\* What it finds is what select finds in a group, after it found nothing in the
\* groups before; or no usable outputs can pay.
LEMMA InputsSelected ==
  ASSUME NEW t, Payable(t), NEW u \in [Output -> Utxo], NEW X
  PROVE  LET r == SelectTxInputs(t, u, X)
         IN  /\ r.error = "none" =>
                  \E i \in 1..Len(Groups(t)) :
                    /\ GoodChoice(t, u, Candidates(t, u, X, i), r)
                    /\ \A j \in 1..(i - 1) : \A T \in SUBSET Candidates(t, u, X, j) :
                         ~CanPay(t, u, T)
             /\ r.error # "none" => \A T \in SUBSET Usable(t, u, X) : ~CanPay(t, u, T)
<1> DEFINE r == SelectTxInputs(t, u, X)
           a == GetTotalAmount(t)
           N == Len(Groups(t))
           counted == {o \in DOMAIN u : t.excludeUnconfirmedUtxos => u[o].confirmations > 0}
           found == [i \in DOMAIN Groups(t) |-> Select(t, u, Candidates(t, u, X, i))]
           Goal == /\ r.error = "none" =>
                        \E i \in 1..N :
                          /\ GoodChoice(t, u, Candidates(t, u, X, i), r)
                          /\ \A j \in 1..(i - 1) : \A T \in SUBSET Candidates(t, u, X, j) :
                               ~CanPay(t, u, T)
                   /\ r.error # "none" => \A T \in SUBSET Usable(t, u, X) : ~CanPay(t, u, T)
<1>1. /\ N \in {2, 3} /\ DOMAIN Groups(t) = 1..N
      /\ Usable(t, u, X) \in SUBSET Available(t, u)
      /\ Available(t, u) \in SUBSET Output
      /\ \A i \in 1..N : Candidates(t, u, X, i) \in SUBSET Usable(t, u, X)
      /\ Candidates(t, u, X, N) = Usable(t, u, X)
      /\ \A o \in Usable(t, u, X) : PaysForItself(t, u[o])
  BY GroupFacts
<1>2. counted \in SUBSET Output /\ Available(t, u) \in SUBSET counted
  BY DEF Available
<1>3. r = IF Sum(u, counted) < a THEN NotSelected("INSUFFICIENT_FUNDS")
          ELSE IF Sum(u, Available(t, u)) < a THEN NotSelected("LOCKED_FUNDS")
          ELSE FirstFit(found)
  BY Zenon DEF SelectTxInputs, Candidates
<1>4. \A i \in 1..N :
        /\ Select(t, u, Candidates(t, u, X, i)).error = "none"
             => GoodChoice(t, u, Candidates(t, u, X, i), Select(t, u, Candidates(t, u, X, i)))
        /\ Select(t, u, Candidates(t, u, X, i)).error # "none"
             => \A T \in SUBSET Candidates(t, u, X, i) : ~CanPay(t, u, T)
  <2> SUFFICES ASSUME NEW i \in 1..N
               PROVE  /\ Select(t, u, Candidates(t, u, X, i)).error = "none"
                           => GoodChoice(t, u, Candidates(t, u, X, i),
                                         Select(t, u, Candidates(t, u, X, i)))
                      /\ Select(t, u, Candidates(t, u, X, i)).error # "none"
                           => \A T \in SUBSET Candidates(t, u, X, i) : ~CanPay(t, u, T)
    OBVIOUS
  <2> DEFINE C == Candidates(t, u, X, i)
  <2>1. C \in SUBSET Output /\ \A o \in C : PaysForItself(t, u[o])
    BY <1>1
  <2> HIDE DEF C
  <2>2. /\ Select(t, u, C).error = "none" => GoodChoice(t, u, C, Select(t, u, C))
        /\ Select(t, u, C).error # "none" => \A T \in SUBSET C : ~CanPay(t, u, T)
    BY <2>1, SelectChooses
  <2> QED
    BY <2>2 DEF C
<1> HIDE DEF r
\* A set worth less than the amount has no part that pays.
<1>5. ASSUME NEW S \in SUBSET Output, Sum(u, S) < a, NEW T \in SUBSET S
      PROVE  ~CanPay(t, u, T)
  <2>1. Sum(u, T) \in Nat /\ Sum(u, S) \in Nat /\ Sum(u, T) <= Sum(u, S)
    <3>1. T \in SUBSET Output
      OBVIOUS
    <3> QED
      BY <3>1, SumOf
  <2>2. Cardinality(T) \in Nat
    <3>1. T \in SUBSET Output
      OBVIOUS
    <3> QED
      BY <3>1, OutputFacts
  <2>3. FeeWith(t, Cardinality(T)) \in Nat
    BY <2>2, FeesGrow
  <2>4. a \in Nat
    BY DEF Payable
  <2>5. ~(Sum(u, T) * 1000 - FeeWith(t, Cardinality(T)) >= a * 1000)
    <3> HIDE DEF a
    <3> QED
      BY <1>5, <2>1, <2>3, <2>4
  <2> QED
    BY <2>5 DEF CanPay
<1>6. ASSUME Sum(u, counted) < a PROVE Goal
  <2>1. r.error # "none"
    <3>1. r = NotSelected("INSUFFICIENT_FUNDS")
      BY <1>3, <1>6
    <3> QED
      BY <3>1 DEF NotSelected
  <2>2. \A T \in SUBSET Usable(t, u, X) : ~CanPay(t, u, T)
    <3> HIDE DEF counted, a
    <3>1. \A T \in SUBSET counted : ~CanPay(t, u, T)
      BY <1>2, <1>5, <1>6
    <3> QED
      BY <1>1, <1>2, <3>1
  <2> QED
    BY <2>1, <2>2
<1>7. ASSUME ~(Sum(u, counted) < a) /\ Sum(u, Available(t, u)) < a PROVE Goal
  <2>1. r.error # "none"
    <3>1. r = NotSelected("LOCKED_FUNDS")
      BY <1>3, <1>7
    <3> QED
      BY <3>1 DEF NotSelected
  <2>2. \A T \in SUBSET Usable(t, u, X) : ~CanPay(t, u, T)
    <3> HIDE DEF counted, a
    <3>1. \A T \in SUBSET Available(t, u) : ~CanPay(t, u, T)
      BY <1>1, <1>5, <1>7
    <3> QED
      BY <1>1, <3>1
  <2> QED
    BY <2>1, <2>2
<1>8. ASSUME ~(Sum(u, counted) < a) /\ ~(Sum(u, Available(t, u)) < a) PROVE Goal
  <2>1. r = FirstFit(found)
    BY <1>3, <1>8
  <2> DEFINE K == {i \in 1..N : found[i].error = "none"} \cup {N}
             k == Min(K)
  <2>2. K \in SUBSET Nat /\ K # {}
    BY <1>1
  <2>3. k \in K /\ \A i \in K : k <= i
    <3> HIDE DEF K
    <3> QED
      BY <2>2, MinIs DEF k
  <2>4. DOMAIN found = 1..N /\ Len(found) = N
    BY <1>1
  <2>5. r = found[k]
    BY <2>1, <2>4 DEF FirstFit
  <2>6. \A i \in 1..N : found[i] = Select(t, u, Candidates(t, u, X, i))
    BY <1>1
  <2>7. k \in 1..N
    <3>1. K \subseteq 1..N
      BY <1>1
    <3> HIDE DEF k, K
    <3> QED
      BY <2>3, <3>1
  <2> HIDE DEF found
  <2>8. \A j \in 1..(k - 1) : j \in 1..N /\ found[j].error # "none"
    <3> SUFFICES ASSUME NEW j \in 1..(k - 1) PROVE j \in 1..N /\ found[j].error # "none"
      OBVIOUS
    <3>1. j \in 1..N /\ ~(k <= j)
      <4> HIDE DEF k, K
      <4> QED
        BY <1>1, <2>7
    <3>2. j \notin K
      <4> HIDE DEF k, K
      <4> QED
        BY <2>3, <3>1
    <3> QED
      BY <3>1, <3>2
  <2>9. r.error # "none" => k = N
    BY <2>3, <2>5
  <2> HIDE DEF k, K
  <2>10. ASSUME r.error = "none"
         PROVE  \E i \in 1..N :
                  /\ GoodChoice(t, u, Candidates(t, u, X, i), r)
                  /\ \A j \in 1..(i - 1) : \A T \in SUBSET Candidates(t, u, X, j) :
                       ~CanPay(t, u, T)
    <3>1. GoodChoice(t, u, Candidates(t, u, X, k), r)
      BY <1>4, <2>5, <2>6, <2>7, <2>10
    <3>2. \A j \in 1..(k - 1) : \A T \in SUBSET Candidates(t, u, X, j) : ~CanPay(t, u, T)
      BY <1>4, <2>6, <2>8
    <3> QED
      BY <2>7, <3>1, <3>2
  <2>11. ASSUME r.error # "none"
         PROVE  \A T \in SUBSET Usable(t, u, X) : ~CanPay(t, u, T)
    <3>1. \A T \in SUBSET Candidates(t, u, X, N) : ~CanPay(t, u, T)
      BY <1>4, <2>5, <2>6, <2>7, <2>9, <2>11
    <3> QED
      BY <1>1, <3>1
  <2> QED
    BY <2>10, <2>11
<1>9. Goal
  BY <1>6, <1>7, <1>8
<1> QED
  BY <1>9 DEF r

-----------------------------------------------------------------------------
(* Rates, sizes and amounts.                                               *)

\* g is the fees of the first n levels.
Leveled(g, e, n) ==
  g = [i \in 1..n |->
        IF i = 1 THEN LevelValue(e, FEE_LEVELS[i])
                 ELSE Min({LevelValue(e, FEE_LEVELS[i]), g[i - 1]})]

\* There is such a function.
LEMMA LeveledExists ==
  ASSUME NEW e, NEW N \in Nat
  PROVE  \E g : Leveled(g, e, N)
<1> DEFINE V(i) == LevelValue(e, FEE_LEVELS[i])
           Q == {n \in 0..N : \E g : Leveled(g, e, n)}
<1>1. 0 \in Q
  <2> DEFINE g == [i \in 1..0 |-> 0]
  <2>1. Leveled(g, e, 0)
    BY DEF Leveled
  <2> QED
    BY <2>1
<1>2. ASSUME NEW n \in 0..N, n + 1 \in 0..N, n \in Q
      PROVE  n + 1 \in Q
  <2>1. PICK g : Leveled(g, e, n)
    BY <1>2
  <2> DEFINE F(h, i) == IF i = 1 THEN V(i) ELSE Min({V(i), h[i - 1]})
             h == [i \in 1..(n + 1) |-> IF i <= n THEN g[i] ELSE F(g, i)]
  <2>2. \A i \in 1..n : g[i] = F(g, i)
    BY <2>1, Zenon DEF Leveled
  <2> HIDE DEF V
  <2>3. ASSUME NEW i \in 1..(n + 1)
        PROVE  h[i] = F(h, i)
    <3>1. n \in Nat /\ (i # 1 => i - 1 \in 1..n /\ i - 1 \in 1..(n + 1) /\ i - 1 <= n)
      OBVIOUS
    <3>2. i # 1 => h[i - 1] = g[i - 1]
      BY <3>1
    <3>3. CASE i <= n
      <4>1. i \in 1..n /\ h[i] = g[i]
        BY <3>3
      <4> HIDE DEF h
      <4> QED
        BY <2>2, <3>2, <4>1, Zenon
    <3>4. CASE ~(i <= n)
      <4>1. h[i] = F(g, i)
        BY <3>4
      <4> HIDE DEF h
      <4> QED
        BY <3>2, <4>1, Zenon
    <3> QED
      BY <3>3, <3>4
  <2>4. h = [i \in 1..(n + 1) |-> F(h, i)]
    BY <2>3, Zenon
  <2>5. Leveled(h, e, n + 1)
    <3> HIDE DEF h
    <3> QED
      BY <2>4, Zenon DEF Leveled, V
  <2> HIDE DEF h
  <2> QED
    BY <1>2, <2>5
<1>3. 0..N \subseteq Q
  <2> HIDE DEF Q
  <2> QED
    BY <1>1, <1>2, Induction
<1> QED
  BY <1>3

\* An estimate or a default is a rate.
LEMMA LevelValueIsNat ==
  ASSUME NEW e \in Estimate, NEW i \in DOMAIN FEE_LEVELS
  PROVE  LevelValue(e, FEE_LEVELS[i]) \in Nat
<1> DEFINE l == FEE_LEVELS[i]
           answered == {n \in Asked(l) : e[n] >= 0}
<1>1. /\ l.nbBlocks \in Nat /\ l.tenths \in Nat /\ l.defaultValue \in Nat
      /\ FEE_LEVELS_FALLBACK \in Nat
  <2>1. l \in Level
    BY FeeLevelsAssumption
  <2> QED
    BY <2>1, FeeLevelsAssumption DEF Level
<1>2. CASE e = NoAnswer
  BY <1>1, <1>2 DEF LevelValue
<1>3. CASE e # NoAnswer
  <2>1. e \in [SamplePoints -> Nat \cup {Failed}]
    BY <1>3, FundingAssumption
  <2>2. Asked(l) \subseteq SamplePoints /\ Asked(l) \subseteq Nat
    BY <1>1 DEF SamplePoints, Asked
  <2>3. \A n \in answered : e[n] \in Nat
    BY <2>1, <2>2 DEF Failed
  <2>4. answered # {} => Min(answered) \in answered
    <3>1. answered \in SUBSET Nat
      BY <2>2
    <3> HIDE DEF answered
    <3> QED
      BY <3>1, MinIs
  <2>5. GetFeeLevel(e, l).feePerKb \in Nat
    <3>1. GetFeeLevel(e, l) = IF answered = {}
                                THEN [feePerKb |-> l.defaultValue, nbBlocks |-> NoBlocks]
                                ELSE [feePerKb |-> e[Min(answered)], nbBlocks |-> Min(answered)]
      BY DEF GetFeeLevel
    <3> HIDE DEF answered, l
    <3> QED
      BY <1>1, <2>3, <2>4, <3>1
  <2>6. LevelValue(e, l) = (GetFeeLevel(e, l).feePerKb * l.tenths + 5) \div 10
    BY <1>3 DEF LevelValue
  <2> DEFINE x == GetFeeLevel(e, l).feePerKb
             y == x * l.tenths
  <2>7. y \in Nat
    <3> HIDE DEF x, l
    <3> QED
      BY <1>1, <2>5 DEF x
  <2>8. LevelValue(e, l) = (y + 5) \div 10
    BY <2>6
  <2> HIDE DEF y, l
  <2> QED
    BY <2>7, <2>8 DEF l
<1> QED
  BY <1>2, <1>3

\* The fee of a level is a number, whatever the explorer answers.
LEMMA FeeIsNat ==
  ASSUME NEW e \in Estimate, NEW name, IsLevel(name)
  PROVE  FeeOf(e, name) \in Nat
<1> DEFINE L == Len(FEE_LEVELS)
           V(i) == LevelValue(e, FEE_LEVELS[i])
           g == CHOOSE f : f = [i \in 1..L |->
                  IF i = 1 THEN LevelValue(e, FEE_LEVELS[i])
                           ELSE Min({LevelValue(e, FEE_LEVELS[i]), f[i - 1]})]
<1>1. L \in Nat /\ DOMAIN FEE_LEVELS = 1..L
  BY FeeLevelsAssumption
<1>2. \E f : Leveled(f, e, L)
  BY <1>1, LeveledExists
<1>3. Leveled(g, e, L)
  BY <1>2, Zenon DEF Leveled
<1>4. GetFeeLevels(e) = g
  <2>1. GetFeeLevels(e) = CHOOSE f : f = [i \in DOMAIN FEE_LEVELS |->
                  IF i = 1 THEN LevelValue(e, FEE_LEVELS[i])
                           ELSE Min({LevelValue(e, FEE_LEVELS[i]), f[i - 1]})]
    BY Zenon DEF GetFeeLevels
  <2> QED
    BY <1>1, <2>1, Zenon
<1> HIDE DEF g
<1>5. \A i \in 1..L : g[i] = IF i = 1 THEN V(i) ELSE Min({V(i), g[i - 1]})
  BY <1>3, Zenon DEF Leveled
<1>6. \A i \in 1..L : V(i) \in Nat
  BY <1>1, LevelValueIsNat
<1> HIDE DEF V, L
<1> DEFINE Q == {n \in 0..L : n = 0 \/ g[n] \in Nat}
<1>7. 0 \in Q
  BY <1>1
<1>8. ASSUME NEW n \in 0..L, n + 1 \in 0..L, n \in Q
      PROVE  n + 1 \in Q
  <2>1. n + 1 \in 1..L /\ (n + 1) - 1 = n
    BY <1>1, <1>8
  <2>2. CASE n = 0
    <3>1. n + 1 = 1
      BY <2>2
    <3>2. g[n + 1] = V(n + 1)
      BY <1>5, <2>1, <3>1, Zenon
    <3> QED
      BY <1>6, <1>8, <2>1, <3>2
  <2>3. CASE n # 0
    <3>1. g[n + 1] = Min({V(n + 1), g[n]})
      <4>1. n + 1 # 1
        BY <2>3
      <4> QED
        BY <1>5, <2>1, <4>1
    <3>2. {V(n + 1), g[n]} \in SUBSET Nat /\ {V(n + 1), g[n]} # {}
      BY <1>6, <1>8, <2>1, <2>3
    <3>3. g[n + 1] \in Nat
      BY <3>1, <3>2, MinIs
    <3> QED
      BY <1>8, <3>3
  <2> QED
    BY <2>2, <2>3
<1>9. 0..L \subseteq Q
  <2> HIDE DEF Q
  <2> QED
    BY <1>1, <1>7, <1>8, Induction
<1> DEFINE J == {j \in DOMAIN FEE_LEVELS : FEE_LEVELS[j].name = name}
<1>10. J \in SUBSET Nat /\ J # {}
  BY <1>1 DEF IsLevel
<1>11. Min(J) \in J
  <2> HIDE DEF J
  <2> QED
    BY <1>10, MinIs
<1>12. Min(J) \in 1..L
  BY <1>1, <1>11
<1>13. FeeOf(e, name) = g[Min(J)]
  BY <1>4 DEF FeeOf
<1> HIDE DEF J
<1> QED
  BY <1>1, <1>9, <1>12, <1>13

\* The size of a proposal with n inputs.
LEMMA Sizes ==
  ASSUME NEW t, t.m \in Nat \ {0}, t.n \in Nat \ {0}, Len(t.outputs) \in Nat
  PROVE  LET i == GetEstimatedSizeForSingleInput(t)
             b == 26 + 34 * (Max({1, Len(t.outputs)}) + 1)
         IN  /\ i \in Nat /\ i >= 50
             /\ b \in Nat
             /\ \A n \in Nat : /\ GetEstimatedSize(t, n) = ((b + n * i) * 102 + 50) \div 100
                               /\ GetEstimatedSize(t, n) \in Nat
<1> DEFINE i == GetEstimatedSizeForSingleInput(t)
           o == Max({1, Len(t.outputs)})
           b == 26 + 34 * (o + 1)
<1>1. i \in Nat /\ i >= 50
  BY DEF GetEstimatedSizeForSingleInput
<1>2. o \in Nat
  BY MaxOfTwo
<1> HIDE DEF i, o
<1>3. b \in Nat
  BY <1>2
<1>4. ASSUME NEW n \in Nat
      PROVE  /\ GetEstimatedSize(t, n) = ((b + n * i) * 102 + 50) \div 100
             /\ GetEstimatedSize(t, n) \in Nat
  <2> DEFINE x == n * i
  <2>1. x \in Nat
    BY <1>1
  <2>2. GetEstimatedSize(t, n) = ((26 + x + 34 * (o + 1)) * 102 + 50) \div 100
    BY Zenon DEF GetEstimatedSize, o, i
  <2> HIDE DEF x
  <2>3. 26 + x + 34 * (o + 1) = b + x
    BY <1>2, <2>1
  <2>4. GetEstimatedSize(t, n) = ((b + x) * 102 + 50) \div 100
    BY <2>2, <2>3
  <2> HIDE DEF b
  <2>5. ((b + x) * 102 + 50) \div 100 \in Nat
    BY <1>3, <2>1
  <2> QED
    BY <2>4, <2>5 DEF x
<1> QED
  BY <1>1, <1>3, <1>4 DEF i, o

\* The amounts are summed up as the outputs are.
LEMMA Totals ==
  ASSUME NEW t
  PROVE  /\ t.outputs \in Seq(Nat) /\ t.outputs # << >> /\ (\A i \in DOMAIN t.outputs : t.outputs[i] > 0)
              => GetTotalAmount(t) \in Nat /\ GetTotalAmount(t) > 0
         /\ \A x \in Nat : t.outputs = <<x>> => GetTotalAmount(t) = x
<1> DEFINE f == t.outputs
           D == DOMAIN f
<1>1. GetTotalAmount(t) = SumFunctionOnSet(f, D)
  BY Zenon DEF GetTotalAmount, FoldSeq, FoldFunction, SumFunctionOnSet
<1> HIDE DEF f
<1>2. ASSUME f \in Seq(Nat), f # << >>, \A i \in D : f[i] > 0
      PROVE  SumFunctionOnSet(f, D) \in Nat /\ SumFunctionOnSet(f, D) > 0
  <2>1. D = 1..Len(f) /\ Len(f) \in Nat /\ 1 \in D /\ (\A i \in D : f[i] \in Nat)
    BY <1>2
  <2>2. IsFiniteSet(D) /\ D \in SUBSET D /\ \A i \in D : f[i] \in Int
    BY <2>1, FS_Interval
  <2> HIDE DEF D
  <2>3. SumFunctionOnSet(f, D) = f[1] + SumFunctionOnSet(f, D \ {1})
    BY ONLY <2>1, <2>2, SumFacts
  <2>4. SumFunctionOnSet(f, D \ {1}) \in Nat
    <3>1. D \ {1} \in SUBSET D
      OBVIOUS
    <3> QED
      BY ONLY <2>1, <2>2, <3>1, SumMonotone
  <2>5. f[1] \in Nat /\ f[1] > 0
    BY <1>2, <2>1
  <2> QED
    BY <2>3, <2>4, <2>5
<1>3. ASSUME NEW x \in Nat, f = <<x>>
      PROVE  SumFunctionOnSet(f, D) = x
  <2>1. D = {1} /\ f[1] = x
    BY <1>3
  <2>2. IsFiniteSet({1}) /\ (\A i \in {1} : f[i] \in Int) /\ 1 \in {1} /\ {1} \ {1} = {}
    <3>1. IsFiniteSet({1})
      BY FS_Singleton
    <3>2. f[1] \in Int
      BY <1>3
    <3> QED
      BY <3>1, <3>2
  <2>3. SumFunctionOnSet(f, {1}) = f[1] + SumFunctionOnSet(f, {1} \ {1})
    BY ONLY <2>2, SumFacts
  <2>4. SumFunctionOnSet(f, {}) = 0
    BY ONLY <2>2, SumFacts
  <2> HIDE DEF D
  <2> QED
    BY <2>1, <2>2, <2>3, <2>4
<1> QED
  BY <1>1, <1>2, <1>3 DEF f

-----------------------------------------------------------------------------
(* Sending everything.                                                     *)

\* Products keep the order; cited where there are too many products.
LEMMA Times ==
  ASSUME NEW p \in Nat, NEW a \in Int, NEW b \in Int, a <= b
  PROVE  p * a \in Int /\ p * b \in Int /\ p * a <= p * b
OBVIOUS

\* Rounding to satoshis, and to bytes.
LEMMA InSatoshis ==
  ASSUME NEW x \in Nat
  PROVE  /\ ToSatoshi(x) \in Nat
         /\ x - 499 <= ToSatoshi(x) * 1000 /\ ToSatoshi(x) * 1000 <= x + 500
BY DEF ToSatoshi

\* How far the roundings of getEstimatedSize and of SendMaxIsMax go.
LEMMA Roundings ==
  ASSUME NEW x \in Nat
  PROVE  /\ LET g == (x * 102 + 50) \div 100
            IN  g \in Nat /\ x * 102 - 49 <= g * 100 /\ g * 100 <= x * 102 + 50
         /\ (x \div 50) \in Nat /\ x - 49 <= (x \div 50) * 50
OBVIOUS

\* The margin of SendMaxIsMax is a number.
LEMMA MarginIsNat ==
  ASSUME NEW x \in Nat, NEW c \in Nat
  PROVE  ToSatoshi((x * c) \div 50) + 1 \in Nat
<1>1. x * c \in Nat
  OBVIOUS
<1>2. (x * c) \div 50 \in Nat
  <2> DEFINE y == x * c
  <2> HIDE DEF y
  <2>1. y \in Nat
    BY <1>1 DEF y
  <2>2. y \div 50 \in Nat
    BY <2>1
  <2> QED
    BY <2>2 DEF y
<1>3. ToSatoshi((x * c) \div 50) \in Nat
  <2> DEFINE y == (x * c) \div 50
  <2> HIDE DEF y
  <2>1. y \in Nat
    BY <1>2 DEF y
  <2>2. ToSatoshi(y) \in Nat
    BY ONLY <2>1, InSatoshis
  <2> QED
    BY <2>2 DEF y
<1> QED
  BY <1>3

\* The size estimated for n inputs of i bytes each and b bytes of the rest.
BytesWith(b, i, n) == ((b + n * i) * 102 + 50) \div 100

\* s outputs worth x leave no more than m outputs worth y do, but for the margin
\* of N outputs.
WithinMargin(p, i, b, s, m, N, x, y) ==
  x - ToSatoshi(p * BytesWith(b, i, s))
    <= y - ToSatoshi(p * BytesWith(b, i, m)) + (ToSatoshi((N * (i * p)) \div 50) + 1)

\* The margin covers the 2 per cent more of the size, and the roundings.
LEMMA Margin ==
  ASSUME NEW p \in Nat, p > 0, NEW i \in Nat, i >= 50, NEW b \in Nat,
         NEW s \in Nat, s > 0, NEW m \in Nat, NEW N \in Nat, m <= N,
         NEW x \in Int, NEW y \in Int, x * 1000 <= y * 1000 + (s - m) * (i * p)
  PROVE  WithinMargin(p, i, b, s, m, N, x, y)
<1> DEFINE size(n) == ((b + n * i) * 102 + 50) \div 100
           g == size(s)
           h == size(m)
           q == i * p
           si == s * i
           mi == m * i
           sq == s * q
           mq == m * q
           Nq == N * q
<1>1. q \in Nat /\ si \in Nat /\ mi \in Nat
  OBVIOUS
<1>2. sq \in Nat /\ mq \in Nat /\ Nq \in Nat
  <2> HIDE DEF q
  <2> QED
    BY <1>1
<1>3. (s - m) * q = sq - mq
  <2> HIDE DEF q
  <2> QED
    BY <1>1
<1>4. p * si = sq /\ p * mi = mq
  OBVIOUS
<1>5. /\ g \in Nat /\ g * 100 >= (b + si) * 102 - 49 /\ g * 100 <= (b + si) * 102 + 50
      /\ h \in Nat /\ h * 100 >= (b + mi) * 102 - 49 /\ h * 100 <= (b + mi) * 102 + 50
  <2> HIDE DEF si, mi
  <2>1. b + si \in Nat /\ b + mi \in Nat
    BY <1>1
  <2>2. g = ((b + si) * 102 + 50) \div 100 /\ h = ((b + mi) * 102 + 50) \div 100
    BY DEF si, mi
  <2> DEFINE v == b + si
             w == b + mi
  <2> HIDE DEF g, h, v, w
  <2>3. v \in Nat /\ w \in Nat /\ g = (v * 102 + 50) \div 100 /\ h = (w * 102 + 50) \div 100
    BY <2>1, <2>2 DEF v, w
  <2>4. g \in Nat /\ v * 102 - 49 <= g * 100 /\ g * 100 <= v * 102 + 50
    BY ONLY <2>3, Roundings
  <2>5. h \in Nat /\ w * 102 - 49 <= h * 100 /\ h * 100 <= w * 102 + 50
    BY ONLY <2>3, Roundings
  <2> QED
    BY <2>1, <2>4, <2>5 DEF v, w
<1> HIDE DEF g, h
<1> DEFINE pg == p * g
           ph == p * h
<1>6. pg \in Nat /\ ph \in Nat
  BY <1>5
<1>7. si * 102 - mi * 102 - 99 <= g * 100 - h * 100
  <2> HIDE DEF si, mi
  <2> QED
    BY <1>1, <1>5
<1>8. sq * 102 - mq * 102 - p * 99 <= pg * 100 - ph * 100
  <2> DEFINE l == si * 102 - mi * 102 - 99
             r == g * 100 - h * 100
  <2>1. p * l <= p * r
    <3>1. l \in Int /\ r \in Int /\ l <= r
      <4> HIDE DEF si, mi
      <4> QED
        BY <1>1, <1>5, <1>7
    <3> HIDE DEF l, r
    <3> QED
      BY <3>1, Times
  <2>2. p * r = pg * 100 - ph * 100
    BY <1>5
  <2>3. p * l = (p * si) * 102 - (p * mi) * 102 - p * 99
    <3> HIDE DEF si, mi
    <3> QED
      BY <1>1
  <2> HIDE DEF l, r, si, mi, pg, ph, sq, mq
  <2> QED
    BY <1>4, <2>1, <2>2, <2>3
<1> DEFINE tg == ToSatoshi(pg)
           th == ToSatoshi(ph)
           extra == Nq \div 50
           tm == ToSatoshi(extra)
<1>9. /\ tg \in Nat /\ pg - 499 <= tg * 1000
      /\ th \in Nat /\ th * 1000 <= ph + 500
      /\ extra \in Nat /\ Nq - 49 <= extra * 50
      /\ tm \in Nat /\ extra - 499 <= tm * 1000
  <2> HIDE DEF pg, ph, Nq
  <2>1. extra \in Nat /\ Nq - 49 <= extra * 50
    BY <1>2, Roundings
  <2> HIDE DEF extra
  <2>2. tg \in Nat /\ pg - 499 <= tg * 1000
    BY <1>6, InSatoshis
  <2>3. th \in Nat /\ th * 1000 <= ph + 500
    BY <1>6, InSatoshis
  <2>4. tm \in Nat /\ extra - 499 <= tm * 1000
    <3>1. extra \in Nat
      BY <2>1
    <3> QED
      BY <3>1, InSatoshis
  <2> QED
    BY <2>1, <2>2, <2>3, <2>4
<1>10. x * 1000 <= y * 1000 + (sq - mq)
  <2> HIDE DEF sq, mq
  <2> QED
    BY <1>3 DEF q
<1> SUFFICES x - tg <= y - th + (tm + 1)
  BY DEF tg, th, tm, extra, pg, ph, g, h, Nq, q, WithinMargin, BytesWith
<1> HIDE DEF tg, th, tm, extra, pg, ph, sq, mq, Nq, q
<1>11. CASE s < m
  <2>1. mq - sq + q <= Nq
    <3>1. m - s + 1 <= N /\ m - s + 1 \in Int /\ q \in Nat
      BY <1>1, <1>11
    <3>2. q * (m - s + 1) <= q * N
      BY <3>1, Times
    <3> QED
      BY <1>1, <3>2 DEF mq, sq, Nq
  <2>2. q >= p * 50
    BY DEF q
  <2> QED
    BY <1>1, <1>2, <1>6, <1>8, <1>9, <1>10, <2>1, <2>2
<1>12. CASE s = m
  <2>1. tg = th /\ sq = mq
    BY <1>12 DEF tg, th, pg, ph, g, h, sq, mq
  <2> QED
    BY <1>2, <1>9, <1>10, <2>1
<1>13. CASE s > m
  <2>1. q <= sq - mq
    <3>1. 1 <= s - m /\ s - m \in Int /\ q \in Nat
      BY <1>1, <1>13
    <3>2. q * 1 <= q * (s - m)
      BY <3>1, Times
    <3> QED
      BY <1>1, <3>2 DEF mq, sq
  <2>2. q >= p * 50
    BY DEF q
  <2> QED
    BY <1>1, <1>2, <1>6, <1>8, <1>9, <1>10, <2>1, <2>2
<1> QED
  BY <1>11, <1>12, <1>13

\* What the estimates of an empty proposal are computed from.
EmptyLike(t) ==
  /\ t.outputs = << >>
  /\ t.m \in Nat \ {0} /\ t.n \in Nat \ {0}
  /\ t.feePerKb \in Nat

\* The sizes and fees of an empty proposal.
LEMMA EmptySizes ==
  ASSUME NEW t, EmptyLike(t)
  PROVE  LET i == GetEstimatedSizeForSingleInput(t)
         IN  \E b \in Nat :
               /\ i \in Nat /\ i >= 50
               /\ FeePerInput(t) = i * t.feePerKb
               /\ \A n \in Nat :
                    /\ GetEstimatedSize(t, n) = BytesWith(b, i, n)
                    /\ GetEstimatedSize(t, n) \in Nat
                    /\ GetEstimatedFee(t, n) = ToSatoshi(t.feePerKb * GetEstimatedSize(t, n))
                    /\ GetEstimatedFee(t, n) \in Nat
                    /\ SizeWith(t, n) = GetEstimatedSize(t, 0) + n * i
<1> DEFINE i == GetEstimatedSizeForSingleInput(t)
           b == 26 + 34 * (Max({1, Len(t.outputs)}) + 1)
<1>1. /\ t.m \in Nat \ {0} /\ t.n \in Nat \ {0} /\ Len(t.outputs) \in Nat
      /\ t.feePerKb \in Nat
  BY DEF EmptyLike
<1>2. /\ i \in Nat /\ i >= 50
      /\ b \in Nat
      /\ \A n \in Nat : /\ GetEstimatedSize(t, n) = ((b + n * i) * 102 + 50) \div 100
                        /\ GetEstimatedSize(t, n) \in Nat
  <2> HIDE DEF i, b
  <2> QED
    BY <1>1, Sizes DEF i, b
<1> HIDE DEF b
<1>3. ASSUME NEW n \in Nat
      PROVE  /\ GetEstimatedFee(t, n) = ToSatoshi(t.feePerKb * GetEstimatedSize(t, n))
             /\ GetEstimatedFee(t, n) \in Nat
             /\ SizeWith(t, n) = GetEstimatedSize(t, 0) + n * i
  <2> DEFINE f == t.feePerKb * GetEstimatedSize(t, n)
  <2>1. f \in Nat
    <3> DEFINE p == t.feePerKb
               g == GetEstimatedSize(t, n)
    <3>1. p \in Nat /\ g \in Nat
      BY <1>1, <1>2
    <3> HIDE DEF p, g
    <3>2. p * g \in Nat
      BY <3>1
    <3> QED
      BY <3>2 DEF p, g
  <2>2. GetEstimatedFee(t, n) = ToSatoshi(f) /\ SizeWith(t, n) = GetEstimatedSize(t, 0) + n * i
    BY DEF GetEstimatedFee, SizeWith
  <2> HIDE DEF f
  <2>3. ToSatoshi(f) \in Nat
    BY <2>1, InSatoshis
  <2> QED
    BY <2>2, <2>3 DEF f
<1>4. FeePerInput(t) = i * t.feePerKb
  BY DEF FeePerInput
<1>5. \A n \in Nat : GetEstimatedSize(t, n) = BytesWith(b, i, n)
  BY <1>2 DEF BytesWith
<1> HIDE DEF i
<1> QED
  BY <1>2, <1>3, <1>4, <1>5 DEF i

\* As many of the outputs as Fitting says fit, and not one more.
LEMMA FittingFits ==
  ASSUME NEW t, EmptyLike(t), NEW n \in Nat, NEW S, NEW s \in [1..n -> S]
  PROVE  /\ Fitting(t, s) \in 0..n
         /\ \A k \in 0..n : SizeWith(t, k) <= MAX_TX_SIZE => k <= Fitting(t, s)
<1> DEFINE i == GetEstimatedSizeForSingleInput(t)
           z == GetEstimatedSize(t, 0)
           D == {k \in DOMAIN s : SizeWith(t, k) <= MAX_TX_SIZE}
           Over == {k \in 1..(n + 1) : k = n + 1 \/ ~(SizeWith(t, k) <= MAX_TX_SIZE)}
<1>1. i \in Nat /\ z \in Nat /\ \A k \in Nat : SizeWith(t, k) = z + k * i
  <2>1. 0 \in Nat
    OBVIOUS
  <2> HIDE DEF i, z
  <2> QED
    BY <2>1, EmptySizes, Zenon DEF i, z
<1> HIDE DEF i, z
<1>2. \A k, l \in Nat : k <= l => SizeWith(t, k) <= SizeWith(t, l)
  <2> SUFFICES ASSUME NEW k \in Nat, NEW l \in Nat, k <= l
               PROVE  SizeWith(t, k) <= SizeWith(t, l)
    OBVIOUS
  <2>1. i * k \in Int /\ i * l \in Int /\ i * k <= i * l
    BY <1>1, Times
  <2>2. SizeWith(t, k) = z + i * k /\ SizeWith(t, l) = z + i * l
    BY <1>1
  <2> DEFINE x == i * k
             y == i * l
  <2> HIDE DEF x, y
  <2> QED
    BY <1>1, <2>1, <2>2 DEF x, y
<1>3. \A k \in Nat : SizeWith(t, k) \in Int
  BY <1>1
<1>4. MAX_TX_SIZE \in Nat
  BY Thresholds
<1>5. PICK o \in Over : \A k \in Over : o <= k
  <2>1. Over \in SUBSET Nat /\ n + 1 \in Over
    OBVIOUS
  <2> HIDE DEF Over
  <2> QED
    BY <2>1, LeastExists
<1>6. D = 1..(o - 1)
  <2>1. ASSUME NEW k \in D
        PROVE  k \in 1..(o - 1)
    <3>1. k \in 1..n /\ SizeWith(t, k) <= MAX_TX_SIZE
      OBVIOUS
    <3>2. ASSUME o <= k
          PROVE  FALSE
      <4>1. o \in Nat /\ o # n + 1 /\ SizeWith(t, o) > MAX_TX_SIZE
        BY <1>3, <1>4, <3>1, <3>2
      <4>2. SizeWith(t, o) <= SizeWith(t, k)
        BY <1>2, <3>1, <3>2, <4>1
      <4> QED
        BY <1>3, <1>4, <3>1, <4>1, <4>2
    <3> QED
      BY <3>1, <3>2
  <2>2. ASSUME NEW k \in 1..(o - 1)
        PROVE  k \in D
    <3>1. k \in 1..n /\ k \notin Over
      BY <1>5
    <3> QED
      BY <3>1
  <2> QED
    BY <2>1, <2>2
<1>7. Fitting(t, s) = o - 1
  <2>1. 1 \in Int /\ o - 1 \in Int /\ o >= 1
    OBVIOUS
  <2>2. Cardinality(1..(o - 1)) = o - 1
    BY <2>1, FS_Interval
  <2> QED
    BY <1>6, <2>2 DEF Fitting
<1>8. ASSUME NEW k \in 0..n, SizeWith(t, k) <= MAX_TX_SIZE
      PROVE  k <= o - 1
  <2>1. CASE k = 0
    BY <2>1
  <2>2. CASE k # 0
    <3>1. k \in D
      BY <1>8, <2>2
    <3> QED
      BY <1>6, <3>1
  <2> QED
    BY <2>1, <2>2
<1> QED
  BY <1>7, <1>8

\* The largest of the usable outputs, as many as fit in a transaction.
Largest(t, u) == Taken(Descending(u, Usable(t, u, {})),
                       Fitting(t, Descending(u, Usable(t, u, {}))))

\* They fit, and no others that fit are worth more, an input's fee apart.
LEMMA LargestFacts ==
  ASSUME NEW t, EmptyLike(t), NEW u \in [Output -> Utxo]
  PROVE  LET C == Largest(t, u)
             m == Cardinality(C)
         IN  /\ C \in SUBSET Output /\ m \in Nat /\ m <= Cardinality(Output)
             /\ C = {} => m = 0
             /\ \A T \in SUBSET Usable(t, u, {}) :
                  LET k == Cardinality(T)
                  IN  SizeWith(t, k) <= MAX_TX_SIZE =>
                        /\ k \in Nat /\ k <= m
                        /\ Sum(u, T) * 1000 + (m - k) * FeePerInput(t) <= Sum(u, C) * 1000
<1> DEFINE U == Usable(t, u, {})
           s == Descending(u, U)
           n == Cardinality(U)
           m == Fitting(t, s)
           C == Taken(s, m)
           c == FeePerInput(t)
           f == Satoshis(u)
<1>1. U \in SUBSET Output /\ (\A o \in U : PaysForItself(t, u[o]))
  BY GroupFacts
<1>2. n \in Nat /\ n <= Cardinality(Output)
  <2>1. Output \in SUBSET Output
    OBVIOUS
  <2>2. IsFiniteSet(Output) /\ Cardinality(Output) \in Nat /\ Cardinality(U) \in Nat
    <3> HIDE DEF U
    <3> QED
      BY <1>1, <2>1, OutputFacts
  <2> QED
    BY <1>1, <2>2, FS_Subset
<1> HIDE DEF U
<1>3. InOrder(s, u, U)
  BY <1>1, DescendingSorts
<1> HIDE DEF s
<1>4. s \in [1..n -> U]
  BY <1>3 DEF InOrder
<1>5. m \in 0..n /\ \A k \in 0..n : SizeWith(t, k) <= MAX_TX_SIZE => k <= m
  <2> HIDE DEF n
  <2> QED
    BY <1>2, <1>4, FittingFits
<1>6. \A k \in 0..n : Taken(s, k) \in SUBSET U /\ Cardinality(Taken(s, k)) = k
  BY <1>1, <1>3, TakenFacts
<1> HIDE DEF m, n
<1>7. C \in SUBSET U /\ Cardinality(C) = m
  BY <1>5, <1>6
<1>8. \E i \in Nat : c = i * t.feePerKb
  BY EmptySizes, Zenon
<1>9. c \in Nat
  BY <1>8 DEF EmptyLike
<1>10. ASSUME NEW T \in SUBSET U, SizeWith(t, Cardinality(T)) <= MAX_TX_SIZE
       PROVE  LET k == Cardinality(T)
              IN  /\ k \in Nat /\ k <= m
                  /\ Sum(u, T) * 1000 + (m - k) * c <= Sum(u, C) * 1000
  <2> DEFINE k == Cardinality(T)
             K == Taken(s, k)
             R == C \ K
             r == Cardinality(R)
  <2>1. k \in 0..n /\ Sum(u, T) <= Sum(u, K)
    BY <1>1, <1>3, LargestAreMost DEF n
  <2>2. k \in Nat /\ k <= m
    BY <1>2, <1>5, <1>10, <2>1
  <2>3. K \in SUBSET C /\ K \in SUBSET U /\ Cardinality(K) = k
    <3> HIDE DEF k
    <3>1. K \subseteq C
      BY <1>2, <1>5, <2>2 DEF Taken
    <3>2. K \in SUBSET U /\ Cardinality(K) = k
      BY <1>6, <2>1
    <3> QED
      BY <3>1, <3>2
  <2> HIDE DEF C, K, k
  <2>4. /\ Sum(u, C) \in Nat /\ Sum(u, K) \in Nat /\ Sum(u, R) \in Nat /\ Sum(u, T) \in Nat
        /\ Sum(u, C) = Sum(u, K) + Sum(u, R)
    <3>1. C \in SUBSET Output /\ K \in SUBSET Output /\ R \in SUBSET Output
          /\ T \in SUBSET Output
      BY <1>1, <1>7, <2>3
    <3>2. Sum(u, C) = Sum(u, K) + Sum(u, C \ K)
      BY <2>3, <3>1, SumOf
    <3> HIDE DEF R
    <3>3. Sum(u, C) \in Nat /\ Sum(u, K) \in Nat /\ Sum(u, R) \in Nat /\ Sum(u, T) \in Nat
      BY <3>1, SumOf
    <3> QED
      BY <3>2, <3>3 DEF R
  <2>5. r = m - k /\ IsFiniteSet(R)
    <3>1. IsFiniteSet(C)
      BY <1>1, <1>7, OutputFacts
    <3>2. IsFiniteSet(R) /\ r = Cardinality(C) - Cardinality(C \cap K)
      BY <3>1, FS_Difference
    <3>3. C \cap K = K
      BY <2>3
    <3> QED
      BY <1>7, <2>3, <3>2, <3>3
  <2>6. c * r <= Sum(u, R) * 1000
    <3>1. R \in SUBSET U
      BY <1>7
    <3>2. \A o \in R : /\ u[o].satoshis \in Nat /\ f[o] = u[o].satoshis
                       /\ u[o].satoshis * 1000 > c
      <4>1. \A o \in R : u[o].satoshis * 1000 > FeePerInput(t)
        BY <1>1, <3>1 DEF PaysForItself
      <4>2. R \in SUBSET Output
        BY <1>1, <3>1
      <4>3. \A o \in R : u[o].satoshis \in Nat /\ Satoshis(u)[o] = u[o].satoshis
        <5> HIDE DEF R
        <5> QED
          BY <4>2, OutputFacts
      <4> QED
        BY <4>1, <4>3
    <3> HIDE DEF f, c, R
    <3>3. (\A o \in R : f[o] \in Int) /\ \A o \in R : c <= f[o] * 1000
      BY <1>9, <3>2
    <3>4. c \in Int
      BY <1>9
    <3>5. c * Cardinality(R) <= SumFunctionOnSet(f, R) * 1000
      BY ONLY <2>5, <3>3, <3>4, SumBounds
    <3> QED
      BY <3>5 DEF Sum, f
  <2>7. c * r = (m - k) * c /\ (m - k) * c \in Int
    <3>1. r = m - k /\ m - k \in Int
      BY <1>2, <1>5, <2>2, <2>5
    <3> HIDE DEF r, c
    <3>2. c * r = r * c /\ r * c \in Int
      BY <1>9, <3>1
    <3> QED
      BY <3>1, <3>2
  <2> DEFINE d == (m - k) * c
             v == c * r
  <2>8. v = d /\ d \in Int /\ v <= Sum(u, R) * 1000
    BY <2>6, <2>7
  <2> HIDE DEF d, v, R
  <2>9. Sum(u, T) * 1000 + d <= Sum(u, C) * 1000
    BY <2>1, <2>4, <2>8
  <2> QED
    BY <2>2, <2>9 DEF d, k
<1>11. C = Largest(t, u)
  BY DEF Largest, s, m, U
<1>12. C \in SUBSET Output /\ m \in Nat /\ m <= Cardinality(Output)
  <2>1. Output \in SUBSET Output
    OBVIOUS
  <2>2. Cardinality(Output) \in Nat
    BY <2>1, OutputFacts
  <2> QED
    BY <1>1, <1>2, <1>5, <1>7, <2>2
<1>13. C = {} => m = 0
  BY <1>7, FS_EmptySet
<1> HIDE DEF C, c
<1> QED
  BY <1>7, <1>10, <1>11, <1>12, <1>13 DEF c, U

\* Of any outputs that are not locked the receiver gets not much more.
LEMMA GainsLittle ==
  ASSUME NEW t, EmptyLike(t), t.feePerKb > 0, NEW u \in [Output -> Utxo],
         NEW S \in SUBSET Available(t, u), SizeWith(t, Cardinality(S)) <= MAX_TX_SIZE
  PROVE  LET C == Largest(t, u)
             gain(A) == Sum(u, A) - GetEstimatedFee(t, Cardinality(A))
             margin == ToSatoshi((Cardinality(Output) * FeePerInput(t)) \div 50) + 1
         IN  /\ gain(S) \in Int /\ gain(C) \in Int /\ margin \in Nat
             /\ gain(S) <= 0 \/ gain(S) <= gain(C) + margin
<1> DEFINE U == Usable(t, u, {})
           C == Largest(t, u)
           T == S \cap U
           R == S \ U
           s == Cardinality(S)
           k == Cardinality(T)
           r == Cardinality(R)
           m == Cardinality(C)
           N == Cardinality(Output)
           p == t.feePerKb
           i == GetEstimatedSizeForSingleInput(t)
           c == FeePerInput(t)
           f == Satoshis(u)
           margin == ToSatoshi((N * c) \div 50) + 1
<1>1. PICK b \in Nat :
        /\ i \in Nat /\ i >= 50
        /\ c = i * p
        /\ \A n \in Nat :
             /\ GetEstimatedSize(t, n) = BytesWith(b, i, n)
             /\ GetEstimatedSize(t, n) \in Nat
             /\ GetEstimatedFee(t, n) = ToSatoshi(p * GetEstimatedSize(t, n))
             /\ GetEstimatedFee(t, n) \in Nat
             /\ SizeWith(t, n) = GetEstimatedSize(t, 0) + n * i
  <2> HIDE DEF i, c
  <2> QED
    BY EmptySizes, Zenon DEF i, c
<1>2. p \in Nat /\ p > 0
  BY DEF EmptyLike
<1> HIDE DEF i, p
<1>3. Available(t, u) \in SUBSET Output /\ U \in SUBSET Output
  BY GroupFacts
<1>4. S \in SUBSET Output /\ T \in SUBSET Output /\ R \in SUBSET Output
  BY <1>3
<1>5. /\ IsFiniteSet(S) /\ s \in Nat /\ k \in Nat /\ r \in Nat /\ N \in Nat
      /\ IsFiniteSet(R)
      /\ Sum(u, S) \in Nat /\ Sum(u, T) \in Nat /\ Sum(u, R) \in Nat
  <2>1. Output \in SUBSET Output
    OBVIOUS
  <2> HIDE DEF T, R, U
  <2> QED
    BY <1>4, <2>1, OutputFacts, SumOf
<1>6. s = k + r
  <2>1. r = Cardinality(S) - Cardinality(S \cap U)
    <3> HIDE DEF U
    <3> QED
      BY <1>5, FS_Difference
  <2> HIDE DEF s, r, U
  <2>2. r = s - k
    BY <2>1 DEF s
  <2> HIDE DEF k
  <2> QED
    BY <1>5, <2>2
<1>7. Sum(u, S) = Sum(u, T) + Sum(u, R)
  <2>1. T \in SUBSET S /\ S \ T = R
    OBVIOUS
  <2> HIDE DEF T, R
  <2> QED
    BY <1>4, <2>1, SumOf
<1>8. c \in Nat
  <2> HIDE DEF c
  <2> QED
    BY <1>1, <1>2
<1>9. r * c \in Nat /\ Sum(u, R) * 1000 <= r * c
  <2>1. \A o \in R : u[o].satoshis \in Nat /\ f[o] = u[o].satoshis
    <3> HIDE DEF R
    <3> QED
      BY <1>4, OutputFacts
  <2>2. \A o \in R : ~(u[o].satoshis * 1000 > FeePerInput(t))
    BY DEF Usable, PaysForItself
  <2> HIDE DEF c, f, R
  <2>3. (\A o \in R : f[o] \in Int) /\ \A o \in R : f[o] * 1000 <= c
    BY <1>8, <2>1, <2>2 DEF c
  <2>4. c \in Int
    BY <1>8
  <2>5. SumFunctionOnSet(f, R) * 1000 <= c * Cardinality(R)
    BY ONLY <1>5, <2>3, <2>4, SumBounds
  <2>6. c * r = r * c /\ r * c \in Nat
    <3> HIDE DEF r
    <3> QED
      BY <1>5, <1>8
  <2> QED
    BY <2>5, <2>6 DEF Sum, f
<1>10. SizeWith(t, k) <= MAX_TX_SIZE
  <2> DEFINE z == GetEstimatedSize(t, 0)
             ik == i * k
             is == i * s
  <2>1. k <= s
    <3> HIDE DEF k, s, r
    <3> QED
      BY <1>5, <1>6
  <2>2. ik \in Int /\ is \in Int /\ ik <= is
    <3> HIDE DEF k, s
    <3> QED
      BY <1>1, <1>5, <2>1, Times
  <2>3. SizeWith(t, k) = z + ik /\ SizeWith(t, s) = z + is /\ z \in Nat
    <3> HIDE DEF k, s
    <3>1. 0 \in Nat
      OBVIOUS
    <3>2. SizeWith(t, k) = z + k * i /\ SizeWith(t, s) = z + s * i /\ z \in Nat
      BY <1>1, <1>5, <3>1
    <3>3. k * i = ik /\ s * i = is
      BY <1>1, <1>5
    <3> QED
      BY <3>2, <3>3
  <2>4. MAX_TX_SIZE \in Nat /\ SizeWith(t, s) <= MAX_TX_SIZE
    BY Thresholds
  <2> HIDE DEF ik, is, z
  <2> QED
    BY <2>2, <2>3, <2>4
<1>11. /\ C \in SUBSET Output /\ m \in Nat /\ m <= N
       /\ k <= m
       /\ Sum(u, T) * 1000 + (m - k) * c <= Sum(u, C) * 1000
  <2>1. T \in SUBSET U
    OBVIOUS
  <2> HIDE DEF T, U, c, k, m, N, C
  <2> QED
    BY <1>10, <2>1, LargestFacts DEF U, c, k, m, N, C
<1>12. Sum(u, C) \in Nat
  <2> HIDE DEF C
  <2> QED
    BY <1>11, SumOf
<1>13. Sum(u, S) * 1000 <= Sum(u, C) * 1000 + (s - m) * (i * p)
  <2> DEFINE rc == r * c
             kc == k * c
             mc == m * c
             sc == s * c
  <2> HIDE DEF s, k, r, m, c
  <2>1. (m - k) * c = mc - kc /\ (s - m) * c = sc - mc /\ sc = kc + rc
    BY <1>5, <1>6, <1>8, <1>11
  <2>2. rc \in Int /\ kc \in Int /\ mc \in Int /\ sc \in Int
    BY <1>5, <1>8, <1>11
  <2>3. Sum(u, T) * 1000 + (mc - kc) <= Sum(u, C) * 1000
    BY <1>11, <2>1
  <2>4. Sum(u, R) * 1000 <= rc
    BY <1>9
  <2> HIDE DEF rc, kc, mc, sc
  <2>5. Sum(u, S) * 1000 <= Sum(u, C) * 1000 + (sc - mc)
    BY <1>5, <1>7, <1>12, <2>1, <2>2, <2>3, <2>4
  <2> QED
    BY <1>1, <2>1, <2>5
<1> DEFINE gS == Sum(u, S) - GetEstimatedFee(t, s)
           gC == Sum(u, C) - GetEstimatedFee(t, m)
<1>14. gS \in Int /\ gC \in Int
  <2>1. GetEstimatedFee(t, s) \in Nat /\ GetEstimatedFee(t, m) \in Nat
    <3> HIDE DEF s, m
    <3> QED
      BY <1>1, <1>5, <1>11
  <2> QED
    BY <1>5, <1>12, <2>1
<1>15. margin \in Nat
  <2> HIDE DEF N, c
  <2> QED
    BY <1>5, <1>8, MarginIsNat, Zenon
<1>16. CASE S = {}
  <2>1. s = 0 /\ Sum(u, S) = 0
    <3>1. s = 0
      BY <1>16, FS_EmptySet
    <3> QED
      BY <1>4, <1>16, <3>1, SumOf
  <2>2. GetEstimatedFee(t, s) \in Nat
    BY <1>1, <1>5
  <2>3. gS <= 0
    BY <2>1, <2>2
  <2> QED
    BY <1>14, <1>15, <2>3
<1>17. CASE S # {}
  <2>1. s > 0
    BY <1>5, <1>17, FS_EmptySet
  <2> DEFINE x == Sum(u, S)
             y == Sum(u, C)
             size(n) == BytesWith(b, i, n)
  <2>2. x - ToSatoshi(p * size(s)) <= y - ToSatoshi(p * size(m)) + (ToSatoshi((N * (i * p)) \div 50) + 1)
    <3>1. x \in Int /\ y \in Int
      BY <1>5, <1>12
    <3> HIDE DEF s, m, N, x, y
    <3>2. x * 1000 <= y * 1000 + (s - m) * (i * p)
      BY <1>13 DEF x, y
    <3>3. p \in Nat /\ p > 0 /\ i \in Nat /\ i >= 50 /\ b \in Nat
      BY <1>1, <1>2
    <3>4. s \in Nat /\ s > 0 /\ m \in Nat /\ N \in Nat /\ m <= N
      BY <1>5, <1>11, <2>1
    <3>5. WithinMargin(p, i, b, s, m, N, x, y)
      BY <3>1, <3>2, <3>3, <3>4, Margin
    <3> QED
      BY <3>5 DEF WithinMargin
  <2>3. GetEstimatedFee(t, s) = ToSatoshi(p * size(s)) /\ GetEstimatedFee(t, m) = ToSatoshi(p * size(m))
    <3> HIDE DEF s, m
    <3>1. GetEstimatedSize(t, s) = size(s) /\ GetEstimatedSize(t, m) = size(m)
      BY <1>1, <1>5, <1>11, Zenon
    <3>2. s \in Nat /\ m \in Nat
      BY <1>5, <1>11
    <3>3. /\ GetEstimatedFee(t, s) = ToSatoshi(p * GetEstimatedSize(t, s))
          /\ GetEstimatedFee(t, m) = ToSatoshi(p * GetEstimatedSize(t, m))
      BY <1>1, <3>2, Zenon
    <3> HIDE DEF size
    <3> QED
      BY <3>1, <3>3, Zenon
  <2>4. gS <= gC + margin
    <3> HIDE DEF size, s, m, N, c, x, y
    <3> QED
      BY <1>1, <2>2, <2>3 DEF x, y
  <2> QED
    BY <1>14, <1>15, <2>4
<1> QED
  BY <1>16, <1>17

\* Proposals that the estimates do not tell apart.
Alike(t, v) ==
  /\ t.m = v.m /\ t.n = v.n /\ t.addressType = v.addressType
  /\ t.outputs = v.outputs
  /\ t.feePerKb = v.feePerKb
  /\ t.excludeUnconfirmedUtxos = v.excludeUnconfirmedUtxos

\* Alike proposals have the same estimates, sizes and fees.
LEMMA AlikeEstimates ==
  ASSUME NEW t, NEW v, Alike(t, v)
  PROVE  /\ GetTotalAmount(t) = GetTotalAmount(v)
         /\ GetEstimatedSizeForSingleInput(t) = GetEstimatedSizeForSingleInput(v)
         /\ \A n : /\ GetEstimatedSize(t, n) = GetEstimatedSize(v, n)
                   /\ GetEstimatedFee(t, n) = GetEstimatedFee(v, n)
                   /\ SizeWith(t, n) = SizeWith(v, n)
                   /\ FeeWith(t, n) = FeeWith(v, n)
                   /\ Fee(t, n) = Fee(v, n)
         /\ FeePerInput(t) = FeePerInput(v)
         /\ \A u, S : CanPay(t, u, S) <=> CanPay(v, u, S)
         /\ \A u : Available(t, u) = Available(v, u)
         /\ \A u, X : Usable(t, u, X) = Usable(v, u, X)
<1>1. GetTotalAmount(t) = GetTotalAmount(v)
  BY Zenon DEF GetTotalAmount, Alike
<1>2. GetEstimatedSizeForSingleInput(t) = GetEstimatedSizeForSingleInput(v)
  BY DEF GetEstimatedSizeForSingleInput, Alike
<1>3. \A n : GetEstimatedSize(t, n) = GetEstimatedSize(v, n)
  BY <1>2, Zenon DEF GetEstimatedSize, Alike
<1>4. t.feePerKb = v.feePerKb /\ t.excludeUnconfirmedUtxos = v.excludeUnconfirmedUtxos
  BY DEF Alike
<1>5. BaseFee(t) = BaseFee(v) /\ FeePerInput(t) = FeePerInput(v)
  BY <1>2, <1>3, <1>4, Zenon DEF BaseFee, FeePerInput
<1>6. \A n : /\ GetEstimatedFee(t, n) = GetEstimatedFee(v, n)
             /\ SizeWith(t, n) = SizeWith(v, n)
             /\ FeeWith(t, n) = FeeWith(v, n)
  BY <1>2, <1>3, <1>4, <1>5, Zenon DEF GetEstimatedFee, SizeWith, FeeWith
<1>7. \A n : Fee(t, n) = Fee(v, n)
  BY <1>6, Zenon DEF Fee
<1>8. ASSUME NEW u, NEW S
      PROVE  CanPay(t, u, S) <=> CanPay(v, u, S)
  <2> DEFINE n == Cardinality(S)
  <2>1. SizeWith(t, n) = SizeWith(v, n) /\ FeeWith(t, n) = FeeWith(v, n)
    BY <1>6
  <2> QED
    BY <1>1, <2>1 DEF CanPay
<1>9. \A u : Available(t, u) = Available(v, u)
  BY <1>4, Zenon DEF Available
<1>10. \A u, X : Usable(t, u, X) = Usable(v, u, X)
  BY <1>5, <1>9 DEF Usable, PaysForItself
<1> QED
  BY <1>1, <1>2, <1>3, <1>5, <1>6, <1>7, <1>8, <1>9, <1>10

\* What getSendMaxInfo finds with the empty proposal t: all the inputs are
\* worth, which is not much less than what any others give.
Bounded(info, t, u) ==
  \A S \in SUBSET Available(t, u) :
    SizeWith(t, Cardinality(S)) <= MAX_TX_SIZE =>
      Sum(u, S) - GetEstimatedFee(t, Cardinality(S))
        <= Max({info.amount, MIN_OUTPUT_AMOUNT - 1})
             + (ToSatoshi((Cardinality(Output) * FeePerInput(t)) \div 50) + 1)

\* What getSendMaxInfo returns: nothing, or an amount worth sending whose inputs
\* pay for it and for its fee, and the amount is the largest there is.
Found(info, t, u) ==
  /\ info.feePerKb \in Nat /\ info.amount \in Nat /\ info.fee \in Nat
  /\ info.inputs \in SUBSET Output
  /\ info.inputs = {} => info.amount = 0
  /\ info.inputs # {} =>
       /\ info.amount >= DustThreshold
       /\ info.amount + info.fee = Sum(u, info.inputs)
       /\ info.fee = GetEstimatedFee(t, Cardinality(info.inputs))
  /\ info.feePerKb > 0 => Bounded(info, t, u)

\* What is found for a proposal is found for an alike one.
LEMMA AlikeFound ==
  ASSUME NEW t, NEW v, Alike(t, v), NEW info, NEW u, Found(info, t, u)
  PROVE  Found(info, v, u)
<1>1. /\ \A n : GetEstimatedFee(t, n) = GetEstimatedFee(v, n) /\ SizeWith(t, n) = SizeWith(v, n)
      /\ FeePerInput(t) = FeePerInput(v)
      /\ Available(t, u) = Available(v, u)
  BY AlikeEstimates
<1>2. Bounded(info, t, u) => Bounded(info, v, u)
  BY <1>1, Zenon DEF Bounded
<1>3. info.inputs # {} => info.fee = GetEstimatedFee(v, Cardinality(info.inputs))
  BY <1>1, Zenon DEF Found
<1> QED
  BY <1>2, <1>3, Zenon DEF Found

\* What getSendMaxInfo gives, and at which rate.
LEMMA InfoFound ==
  ASSUME NEW t, EmptyLike(t), NEW u \in [Output -> Utxo]
  PROVE  LET info == GetSendMaxInfo(t, u)
         IN  /\ info.inputs # {} => info.feePerKb = t.feePerKb
             /\ info.feePerKb = t.feePerKb => Found(info, t, u)
             /\ info.feePerKb # t.feePerKb => info = Nothing(0)
<1> DEFINE info == GetSendMaxInfo(t, u)
           C == Largest(t, u)
           m == Cardinality(C)
           fee == GetEstimatedFee(t, m)
           gain == Sum(u, C) - fee
           A == Available(t, u)
<1>1. CASE A = {}
  <2>1. info = Nothing(0)
    BY <1>1, Zenon DEF GetSendMaxInfo
  <2>2. info.inputs = {} /\ info.amount = 0 /\ info.fee = 0 /\ info.feePerKb = 0
    <3> HIDE DEF info
    <3> QED
      BY <2>1 DEF Nothing
  <2>3. Found(info, t, u)
    <3> HIDE DEF info
    <3> QED
      BY <2>2 DEF Found
  <2> QED
    BY <2>1, <2>2, <2>3
<1>2. CASE A # {}
  <2>1. info = AllOf(t.feePerKb, Sum(u, C), fee, C)
    BY <1>2, Zenon DEF GetSendMaxInfo, InfoFrom, Largest
  <2>2. C \in SUBSET Output /\ m \in Nat /\ (C = {} => m = 0)
    <3> HIDE DEF C
    <3> QED
      BY LargestFacts DEF C
  <2>3. Sum(u, C) \in Nat /\ (C = {} => Sum(u, C) = 0)
    <3> HIDE DEF C
    <3> QED
      BY <2>2, SumOf
  <2>4. fee \in Nat
    <3> HIDE DEF m
    <3> QED
      BY <2>2, EmptySizes
  <2>5. MIN_OUTPUT_AMOUNT \in Nat /\ MIN_OUTPUT_AMOUNT > 0 /\ DustThreshold = MIN_OUTPUT_AMOUNT
    BY Thresholds
  <2>6. t.feePerKb \in Nat
    BY DEF EmptyLike
  <2> HIDE DEF info, C, m, fee
  <2>7. /\ info.feePerKb = t.feePerKb
        /\ info.amount \in Nat /\ info.fee \in Nat
        /\ info.inputs \in SUBSET Output
        /\ info.inputs = {} => info.amount = 0
        /\ info.inputs # {} => /\ info.inputs = C /\ info.fee = fee
                               /\ info.amount = gain /\ gain >= MIN_OUTPUT_AMOUNT
        /\ gain >= MIN_OUTPUT_AMOUNT => info.amount = gain
    <3>1. CASE C = {} \/ gain < MIN_OUTPUT_AMOUNT
      <4>1. info = Nothing(t.feePerKb)
        BY <2>1, <3>1 DEF AllOf
      <4>2. info.inputs = {} /\ info.amount = 0 /\ info.fee = 0 /\ info.feePerKb = t.feePerKb
        BY <4>1 DEF Nothing
      <4>3. ~(gain >= MIN_OUTPUT_AMOUNT)
        BY <2>3, <2>4, <2>5, <3>1
      <4> QED
        BY <4>2, <4>3
    <3>2. CASE ~(C = {} \/ gain < MIN_OUTPUT_AMOUNT)
      <4>1. info = [amount |-> gain, fee |-> fee, inputs |-> C, feePerKb |-> t.feePerKb]
        BY <2>1, <3>2 DEF AllOf
      <4>2. gain \in Int /\ gain >= MIN_OUTPUT_AMOUNT
        BY <2>3, <2>4, <2>5, <3>2
      <4> HIDE DEF gain
      <4> QED
        BY <2>2, <2>4, <2>5, <3>2, <4>1, <4>2
    <3> QED
      BY <3>1, <3>2
  <2>8. info.inputs # {} => /\ info.amount >= DustThreshold
                            /\ info.amount + info.fee = Sum(u, info.inputs)
                            /\ info.fee = GetEstimatedFee(t, Cardinality(info.inputs))
    BY <2>3, <2>4, <2>5, <2>7 DEF fee, m
  <2>9. ASSUME info.feePerKb > 0
        PROVE  Bounded(info, t, u)
    <3> DEFINE margin == ToSatoshi((Cardinality(Output) * FeePerInput(t)) \div 50) + 1
               gains(S) == Sum(u, S) - GetEstimatedFee(t, Cardinality(S))
               most == Max({info.amount, MIN_OUTPUT_AMOUNT - 1})
    <3>1. most \in Int /\ most >= gain /\ most >= 0
      <4> HIDE DEF gain
      <4>1. gain \in Int
        BY <2>3, <2>4 DEF gain
      <4>2. most = IF info.amount >= MIN_OUTPUT_AMOUNT - 1 THEN info.amount
                                                            ELSE MIN_OUTPUT_AMOUNT - 1
        <5>1. info.amount \in Int /\ MIN_OUTPUT_AMOUNT - 1 \in Int
          BY <2>5, <2>7
        <5> QED
          BY <5>1, MaxOfTwo
      <4> HIDE DEF most
      <4> QED
        BY <2>5, <2>7, <4>1, <4>2
    <3>2. t.feePerKb > 0
      BY <2>7, <2>9
    <3>3. ASSUME NEW S \in SUBSET Available(t, u), SizeWith(t, Cardinality(S)) <= MAX_TX_SIZE
          PROVE  gains(S) <= most + margin
      <4>1. /\ gains(S) \in Int /\ margin \in Nat
            /\ gains(S) <= 0 \/ gains(S) <= gains(C) + margin
        <5> HIDE DEF C, margin
        <5> QED
          BY <3>2, <3>3, GainsLittle DEF C, margin
      <4>2. gains(C) = gain
        BY DEF fee, m
      <4>3. gain \in Int
        BY <2>3, <2>4
      <4> HIDE DEF gains, margin, most, gain
      <4> QED
        BY <3>1, <4>1, <4>2, <4>3
    <3> QED
      BY <3>3 DEF Bounded
  <2>10. Found(info, t, u)
    BY <2>6, <2>7, <2>8, <2>9 DEF Found
  <2> QED
    BY <2>7, <2>10 DEF info
<1> QED
  BY <1>1, <1>2

\* The transaction of a proposal whose inputs pay for it and its fee.
LEMMA Checked ==
  ASSUME NEW v, NEW u \in [Output -> Utxo], v.inputs \in SUBSET Output,
         v.hasChangeAddress, GetTotalAmount(v) \in Nat, v.fee \in Nat,
         v.fee <= Sum(u, v.inputs) - GetTotalAmount(v)
  PROVE  LET change == Sum(u, v.inputs) - GetTotalAmount(v) - v.fee
         IN  /\ CheckTx(v, u) \in {"TX_MAX_SIZE_EXCEEDED", "EXCEPTION", "DUST_AMOUNT", "none"}
             /\ CheckTx(v, u) = "none" => change = 0 \/ change >= DUST_AMOUNT
<1> DEFINE total == Sum(u, v.inputs)
           a == GetTotalAmount(v)
           change == total - a - v.fee
           paid == total - a - change
           big == GetEstimatedSize(v, Cardinality(v.inputs)) > MAX_TX_SIZE
<1>1. total \in Nat /\ a \in Nat /\ v.fee \in Nat /\ change \in Nat /\ paid = v.fee
  <2>1. total \in Nat
    BY SumOf
  <2> HIDE DEF total, a
  <2>2. v.fee <= total - a /\ a \in Nat
    BY DEF total, a
  <2> QED
    BY <2>1, <2>2
<1>2. ChangeOf(v, total) = change
  <2> DEFINE x == total - a - v.fee
  <2>1. 0 \in Int /\ x \in Int /\ x >= 0
    BY <1>1
  <2> HIDE DEF x
  <2>2. Max({0, x}) = x
    BY <2>1, MaxOfTwo
  <2> QED
    BY <2>2 DEF ChangeOf, x
<1>3. CheckTx(v, u) =
        CASE big -> "TX_MAX_SIZE_EXCEEDED"
          [] OTHER -> IF paid < 0 \/ paid > MAX_TX_FEE THEN "EXCEPTION"
                      ELSE IF paid # v.fee THEN "INSUFFICIENT_FUNDS_FOR_FEE"
                      ELSE IF change \in 1..(DUST_AMOUNT - 1) THEN "DUST_AMOUNT"
                      ELSE "none"
  BY <1>2, Zenon DEF CheckTx
<1> HIDE DEF total, a, change, paid, big
<1>4. DUST_AMOUNT \in Nat
  BY Thresholds
<1>5. CheckTx(v, u) \in {"TX_MAX_SIZE_EXCEEDED", "EXCEPTION", "DUST_AMOUNT", "none"}
  BY <1>1, <1>3
<1>6. CheckTx(v, u) = "none" => change = 0 \/ change >= DUST_AMOUNT
  BY <1>1, <1>3, <1>4
<1> QED
  BY <1>5, <1>6 DEF change, total, a

\* What a filled proposal v is, when the inputs of t were selected.
LEMMA Filled ==
  ASSUME NEW t, Payable(t), NEW v, Alike(t, v), NEW u \in [Output -> Utxo], NEW X,
         LET r == SelectTxInputs(t, u, X)
         IN  v.inputs = r.inputs /\ v.fee = r.fee,
         v.hasChangeAddress
  PROVE  LET r == SelectTxInputs(t, u, X)
             rate == ToSatoshi(FeeWith(v, Cardinality(v.inputs)))
             change == Sum(u, v.inputs) - GetTotalAmount(v) - v.fee
             least == Min({u[o].confirmations : o \in v.inputs})
         IN  /\ r.error # "none" => \A S \in SUBSET Usable(v, u, X) : ~CanPay(v, u, S)
             /\ r.error = "none" =>
                  /\ CheckTx(v, u) \in {"TX_MAX_SIZE_EXCEEDED", "EXCEPTION", "DUST_AMOUNT", "none"}
                  /\ v.inputs # {} /\ v.inputs \subseteq Usable(v, u, X)
                  /\ v.fee \in rate .. (rate + DustThreshold)
                  /\ CheckTx(v, u) = "none" => change = 0 \/ change >= DUST_AMOUNT
                  /\ \A g \in {6, 1} : least < g =>
                       \A S \in SUBSET {o \in Usable(v, u, X) : u[o].confirmations >= g} :
                         ~CanPay(v, u, S)
<1> DEFINE r == SelectTxInputs(t, u, X)
           groups == Groups(t)
           C(i) == Candidates(t, u, X, i)
           U == Usable(t, u, X)
           least == Min({u[o].confirmations : o \in v.inputs})
<1>1. /\ GetTotalAmount(t) = GetTotalAmount(v)
      /\ \A n : FeeWith(t, n) = FeeWith(v, n) /\ Fee(t, n) = Fee(v, n)
      /\ \A S : CanPay(t, u, S) <=> CanPay(v, u, S)
      /\ Usable(v, u, X) = U
  BY AlikeEstimates
<1>2. v.inputs = r.inputs /\ v.fee = r.fee
  OBVIOUS
<1>3. /\ r.error = "none" =>
           \E i \in 1..Len(groups) :
             /\ GoodChoice(t, u, C(i), r)
             /\ \A j \in 1..(i - 1) : \A T \in SUBSET C(j) : ~CanPay(t, u, T)
      /\ r.error # "none" => \A T \in SUBSET U : ~CanPay(t, u, T)
  BY InputsSelected, Zenon
<1>4. /\ Len(groups) \in {2, 3}
      /\ groups[1] = 6 /\ groups[2] = 1
      /\ Len(groups) = 3 => groups[3] = 0
      /\ U \in SUBSET Output
      /\ \A i \in 1..Len(groups) : C(i) \in SUBSET U
  <2>1. /\ Len(Groups(t)) \in {2, 3}
        /\ Groups(t)[1] = 6 /\ Groups(t)[2] = 1
        /\ Len(Groups(t)) = 3 => Groups(t)[3] = 0
        /\ Usable(t, u, X) \in SUBSET Available(t, u)
        /\ Available(t, u) \in SUBSET Output
        /\ \A i \in 1..Len(Groups(t)) : Candidates(t, u, X, i) \in SUBSET Usable(t, u, X)
    BY GroupFacts, Zenon
  <2>2. U \in SUBSET Output
    BY <2>1
  <2> QED
    BY <2>1, <2>2, Zenon
<1>5. ASSUME NEW i \in 1..Len(groups), NEW o \in C(i)
      PROVE  u[o].confirmations >= groups[i]
  BY <1>5 DEF Candidates
<1>6. ASSUME NEW i, NEW g, groups[i] = g
      PROVE  C(i) = {o \in U : u[o].confirmations >= g}
  BY <1>6 DEF Candidates
<1> HIDE DEF r, C, groups, U
<1>7. ASSUME r.error # "none"
      PROVE  \A S \in SUBSET Usable(v, u, X) : ~CanPay(v, u, S)
  BY <1>1, <1>3, <1>7, Zenon
<1>8. ASSUME r.error = "none"
      PROVE  LET rate == ToSatoshi(FeeWith(v, Cardinality(v.inputs)))
                 change == Sum(u, v.inputs) - GetTotalAmount(v) - v.fee
             IN  /\ CheckTx(v, u) \in {"TX_MAX_SIZE_EXCEEDED", "EXCEPTION", "DUST_AMOUNT", "none"}
                 /\ v.inputs # {} /\ v.inputs \subseteq Usable(v, u, X)
                 /\ v.fee \in rate .. (rate + DustThreshold)
                 /\ CheckTx(v, u) = "none" => change = 0 \/ change >= DUST_AMOUNT
                 /\ \A g \in {6, 1} : least < g =>
                      \A S \in SUBSET {o \in Usable(v, u, X) : u[o].confirmations >= g} :
                        ~CanPay(v, u, S)
  <2>1. PICK i \in 1..Len(groups) :
             /\ GoodChoice(t, u, C(i), r)
             /\ \A j \in 1..(i - 1) : \A T \in SUBSET C(j) : ~CanPay(t, u, T)
    BY <1>3, <1>8, Zenon
  <2> DEFINE n == Cardinality(v.inputs)
             rate == Fee(t, n)
  <2>2. /\ v.inputs \in SUBSET C(i) /\ v.inputs # {}
        /\ rate \in Nat /\ v.fee \in rate .. (rate + DustThreshold)
        /\ v.fee <= Sum(u, v.inputs) - GetTotalAmount(t)
    BY <1>2, <2>1 DEF GoodChoice
  <2>3. C(i) \in SUBSET U /\ v.inputs \in SUBSET U /\ v.inputs \in SUBSET Output
    <3>1. C(i) \in SUBSET U
      BY <1>4
    <3> QED
      BY <1>4, <2>2, <3>1
  <2>4. DustThreshold \in Nat
    BY Thresholds
  <2>5. GetTotalAmount(v) \in Nat /\ v.fee \in Nat /\ v.fee <= Sum(u, v.inputs) - GetTotalAmount(v)
    <3>1. GetTotalAmount(t) \in Nat
      BY DEF Payable
    <3> HIDE DEF rate
    <3> QED
      BY <1>1, <2>2, <2>4, <3>1
  <2>6. /\ CheckTx(v, u) \in {"TX_MAX_SIZE_EXCEEDED", "EXCEPTION", "DUST_AMOUNT", "none"}
        /\ LET change == Sum(u, v.inputs) - GetTotalAmount(v) - v.fee
           IN  CheckTx(v, u) = "none" => change = 0 \/ change >= DUST_AMOUNT
    BY <2>3, <2>5, Checked
  <2>7. rate = ToSatoshi(FeeWith(v, n))
    BY <1>1, Zenon DEF Fee
  <2>8. ASSUME NEW g \in {6, 1}, least < g
        PROVE  \A S \in SUBSET {o \in Usable(v, u, X) : u[o].confirmations >= g} : ~CanPay(v, u, S)
    <3>1. least >= groups[i] /\ least \in Nat /\ groups[i] \in Nat
      <4> DEFINE F == {u[o].confirmations : o \in v.inputs}
      <4>1. \A o \in v.inputs : u[o].confirmations \in Nat /\ u[o].confirmations >= groups[i]
        <5>1. \A o \in v.inputs : u[o].confirmations \in Nat
          BY <2>3, OutputFacts
        <5> QED
          BY <1>5, <2>2, <5>1
      <4>2. F \in SUBSET Nat /\ F # {} /\ \A f \in F : f >= groups[i]
        BY <2>2, <4>1
      <4>3. least = Min(F)
        OBVIOUS
      <4> HIDE DEF F, least
      <4>4. Min(F) \in F
        BY <4>2, MinIs
      <4>5. groups[i] \in Nat
        BY <1>4
      <4> QED
        BY <4>2, <4>3, <4>4, <4>5
    <3> HIDE DEF least
    <3>2. PICK j \in 1..(i - 1) : groups[j] = g
      <4>1. i # 1 /\ (i = 2 => g = 6) /\ i \in Nat
        BY <1>4, <2>8, <3>1
      <4>2. CASE g = 6
        <5>1. 1 \in 1..(i - 1)
          BY <4>1
        <5> QED
          BY <1>4, <4>2, <5>1
      <4>3. CASE g = 1
        <5>1. 2 \in 1..(i - 1)
          BY <4>1, <4>3
        <5> QED
          BY <1>4, <4>3, <5>1
      <4> QED
        BY <4>2, <4>3
    <3>3. C(j) = {o \in U : u[o].confirmations >= g}
      BY <1>6, <3>2
    <3>4. \A T \in SUBSET C(j) : ~CanPay(t, u, T)
      BY <2>1, <3>2
    <3> QED
      BY <1>1, <3>3, <3>4, Zenon
  <2> HIDE DEF least, rate, n
  <2>9. v.inputs \subseteq Usable(v, u, X)
    BY <1>1, <2>3
  <2>10. v.fee \in ToSatoshi(FeeWith(v, Cardinality(v.inputs)))
                     .. (ToSatoshi(FeeWith(v, Cardinality(v.inputs))) + DustThreshold)
    BY <2>2, <2>7, Zenon DEF n
  <2> QED
    BY <2>2, <2>6, <2>8, <2>9, <2>10, Zenon
<1> QED
  BY <1>7, <1>8, Zenon DEF r, least

\* A proposal of what getSendMaxInfo found, with its fee, keeps nothing back.
LEMMA AllSpent ==
  ASSUME NEW e, NEW u \in [Output -> Utxo], NEW info, Found(info, e, u), info.inputs # {},
         info.fee <= MAX_TX_FEE,
         NEW v, v.inputs = info.inputs, v.outputs = <<info.amount>>, v.fee = info.fee,
         GetEstimatedSize(v, Cardinality(info.inputs)) <= MAX_TX_SIZE,
         MAX_TX_SIZE \in Nat, GetEstimatedSize(v, Cardinality(info.inputs)) \in Nat
  PROVE  CheckTx(v, u) = "none" /\ v.fee = Sum(u, v.inputs) - GetTotalAmount(v)
<1> DEFINE total == Sum(u, v.inputs)
           a == GetTotalAmount(v)
           change == ChangeOf(v, total)
           paid == total - a - change
           big == GetEstimatedSize(v, Cardinality(v.inputs)) > MAX_TX_SIZE
<1>1. /\ info.amount \in Nat /\ info.fee \in Nat
      /\ info.amount + info.fee = total
  BY DEF Found
<1>2. a = info.amount
  BY <1>1, Totals
<1>3. total - a - v.fee = 0 /\ total \in Nat
  <2> HIDE DEF a, total
  <2> QED
    BY <1>1, <1>2
<1>4. change = 0
  <2> DEFINE x == total - a - v.fee
  <2>1. x = 0 /\ Max({0, x}) = 0
    <3>1. x = 0
      BY <1>3
    <3> HIDE DEF x
    <3> QED
      BY <3>1, MaxOfTwo
  <2>2. change = IF v.hasChangeAddress THEN Max({0, x}) ELSE 0
    BY Zenon DEF ChangeOf
  <2> HIDE DEF change, x
  <2> QED
    BY <2>1, <2>2
<1>5. CheckTx(v, u) =
        CASE big -> "TX_MAX_SIZE_EXCEEDED"
          [] OTHER -> IF paid < 0 \/ paid > MAX_TX_FEE THEN "EXCEPTION"
                      ELSE IF paid # v.fee THEN "INSUFFICIENT_FUNDS_FOR_FEE"
                      ELSE IF change \in 1..(DUST_AMOUNT - 1) THEN "DUST_AMOUNT"
                      ELSE "none"
  BY Zenon DEF CheckTx
<1>6. ~big
  <2> DEFINE z == GetEstimatedSize(v, Cardinality(info.inputs))
  <2>1. z \in Nat /\ MAX_TX_SIZE \in Nat /\ z <= MAX_TX_SIZE
    OBVIOUS
  <2>2. GetEstimatedSize(v, Cardinality(v.inputs)) = z
    OBVIOUS
  <2> HIDE DEF z
  <2>3. ~(z > MAX_TX_SIZE)
    BY <2>1
  <2> QED
    BY <2>2, <2>3
<1>7. MAX_TX_FEE \in Nat /\ DUST_AMOUNT \in Nat
  BY Thresholds
<1> HIDE DEF total, a, change, big
<1>8. paid = v.fee /\ paid \in Nat /\ paid <= MAX_TX_FEE
  BY <1>1, <1>2, <1>3, <1>4
<1> HIDE DEF paid
<1>9. ~(change \in 1..(DUST_AMOUNT - 1))
  BY <1>4, <1>7
<1>10. ~(paid < 0 \/ paid > MAX_TX_FEE)
  BY <1>7, <1>8
<1>11. CheckTx(v, u) = "none"
  BY <1>5, <1>6, <1>8, <1>9, <1>10
<1>12. v.fee = total - a
  BY <1>1, <1>2
<1> QED
  BY <1>11, <1>12 DEF total, a

\* One output costs what none does: the size counts one for the change.
LEMMA OneOutput ==
  ASSUME NEW t, NEW e, t.m = e.m, t.n = e.n, t.addressType = e.addressType,
         t.feePerKb = e.feePerKb, NEW a, t.outputs = <<a>>, e.outputs = << >>
  PROVE  \A n : GetEstimatedFee(t, n) = GetEstimatedFee(e, n)
<1>1. Len(t.outputs) = 1 /\ Len(e.outputs) = 0
  OBVIOUS
<1>2. Max({1, Len(t.outputs)}) = 1 /\ Max({1, Len(e.outputs)}) = 1
  BY <1>1, MaxOfTwo
<1>3. GetEstimatedSizeForSingleInput(t) = GetEstimatedSizeForSingleInput(e)
  BY DEF GetEstimatedSizeForSingleInput
<1>4. \A n : GetEstimatedSize(t, n) = GetEstimatedSize(e, n)
  BY <1>2, <1>3, Zenon DEF GetEstimatedSize
<1> QED
  BY <1>4, Zenon DEF GetEstimatedFee

\* How many of the ways to price a proposal the client uses.
LEMMA FeeArgsCount ==
  ASSUME NEW o
  PROVE  /\ FeeArgs(o) = 0 <=> o.feeLevel = "none" /\ o.feePerKb = NoFee /\ o.fee = NoFee
         /\ o.feeLevel = "none" /\ o.feePerKb = NoFee /\ o.fee # NoFee => FeeArgs(o) = 1
<1> DEFINE A == {a \in {"feeLevel", "feePerKb", "fee"} :
                   CASE a = "feeLevel" -> o.feeLevel # "none"
                     [] a = "feePerKb" -> o.feePerKb # NoFee
                     [] a = "fee"      -> o.fee # NoFee}
<1>1. /\ "feeLevel" \in A <=> o.feeLevel # "none"
      /\ "feePerKb" \in A <=> o.feePerKb # NoFee
      /\ "fee" \in A <=> o.fee # NoFee
      /\ A \subseteq {"feeLevel", "feePerKb", "fee"}
  OBVIOUS
<1>2. FeeArgs(o) = Cardinality(A)
  BY DEF FeeArgs
<1> HIDE DEF A
<1>3. IsFiniteSet({"feeLevel", "feePerKb", "fee"})
  <2>1. {"feeLevel", "feePerKb", "fee"} = (({} \cup {"feeLevel"}) \cup {"feePerKb"}) \cup {"fee"}
    OBVIOUS
  <2>2. IsFiniteSet({})
    BY FS_EmptySet
  <2>3. IsFiniteSet({} \cup {"feeLevel"})
    BY <2>2, FS_AddElement
  <2>4. IsFiniteSet(({} \cup {"feeLevel"}) \cup {"feePerKb"})
    BY <2>3, FS_AddElement
  <2>5. IsFiniteSet((({} \cup {"feeLevel"}) \cup {"feePerKb"}) \cup {"fee"})
    BY <2>4, FS_AddElement
  <2> QED
    BY <2>1, <2>5
<1>4. IsFiniteSet(A)
  BY <1>1, <1>3, FS_Subset
<1>5. Cardinality(A) = 0 <=> A = {}
  BY <1>4, FS_EmptySet
<1>6. o.feeLevel = "none" /\ o.feePerKb = NoFee /\ o.fee # NoFee => A = {"fee"}
  BY <1>1
<1>7. Cardinality({"fee"}) = 1
  BY FS_Singleton
<1>8. A = {} <=> o.feeLevel = "none" /\ o.feePerKb = NoFee /\ o.fee = NoFee
  BY <1>1
<1> QED
  BY <1>2, <1>5, <1>6, <1>7, <1>8

-----------------------------------------------------------------------------
(* The inductive invariant.                                                *)

\* The empty proposal that getSendMaxInfo estimates with, as far as the
\* estimates depend on it.
InfoTxp(w, exclude, rate) ==
  [m |-> w.m, n |-> w.n, addressType |-> IF w.n > 1 THEN "P2SH" ELSE "P2PKH",
   outputs |-> << >>, feePerKb |-> rate, excludeUnconfirmedUtxos |-> exclude]

\* A request, and one that goes on.
IsReq(r, pc, error, info) ==
  /\ r = [pc |-> r.pc, error |-> r.error, info |-> r.info]
  /\ r.pc = pc /\ r.error = error /\ r.info = info

\* A proposal with the wallet's and the client's options.
Built(t, w, o) ==
  t = [m |-> w.m, n |-> w.n, addressType |-> w.addressType,
       outputs |-> o.outputs, feePerKb |-> t.feePerKb,
       inputs |-> t.inputs, fee |-> t.fee, hasChangeAddress |-> ~o.sendMax,
       excludeUnconfirmedUtxos |-> o.excludeUnconfirmedUtxos]

\* The client's options, whose feeLevel may be anything.
IsOpts(o) ==
  o \in [outputs: Seq(Nat \cup {NoAmount}), sendMax: BOOLEAN, feeLevel: {o.feeLevel},
         feePerKb: Nat \cup {NoFee}, fee: Nat \cup {NoFee}, inputs: SUBSET Output,
         utxosToExclude: SUBSET Output, excludeUnconfirmedUtxos: BOOLEAN]

\* The types of the state, but for the strings.
Typed ==
  /\ wallet \in Wallet /\ utxos \in [Output -> Utxo] /\ estimates \in Estimate
  /\ IsOpts(opts)
  /\ IsReq(req, req.pc, req.error, req.info)
  /\ req.pc \in PC
  /\ (req.error # "none") <=> (req.pc = "refused")

\* When there is a proposal, it is the one GetFeePerKb built.
Proposed ==
  /\ req.pc = "selectTxInputs" =>
       txp # NoTxp /\ txp.inputs = opts.inputs /\ txp.fee = opts.fee
  /\ req.pc = "created" => txp # NoTxp
  /\ txp # NoTxp =>
       /\ req.pc \in {"selectTxInputs", "created", "refused"}
       /\ Built(txp, wallet, opts)
       /\ txp.feePerKb \in Nat \/ (opts.fee # NoFee /\ opts.inputs # {})

\* The outputs have been validated.
OutputsValid ==
  req.pc \in {"canCreateTx", "getFeePerKb"} \/ txp # NoTxp =>
    /\ opts.outputs # << >>
    /\ \A i \in DOMAIN opts.outputs : opts.outputs[i] >= DustThreshold

\* There is a fee, a rate or a level.
Priced ==
  req.pc \in {"sendMax", "validateOutputs", "canCreateTx", "getFeePerKb"} \/ txp # NoTxp =>
    /\ opts.feeLevel # "none" => IsLevel(opts.feeLevel)
    /\ opts.feeLevel = "none" /\ opts.feePerKb = NoFee => opts.fee # NoFee
    /\ opts.fee # NoFee => opts.inputs # {}

\* Who sends everything sends what was found, and who was told of it too.
AllSent ==
  /\ req.pc = "sendMax" => opts.sendMax /\ opts.fee = NoFee
  /\ opts.sendMax /\ (req.pc \in {"validateOutputs", "canCreateTx", "getFeePerKb"} \/ txp # NoTxp) =>
       opts.outputs = <<req.info.amount>> /\ opts.inputs = req.info.inputs /\ opts.fee = NoFee
  /\ opts.fee # NoFee /\ req.info.inputs # {} /\ req.pc # "told" =>
       /\ opts.outputs = <<req.info.amount>> /\ opts.inputs = req.info.inputs
       /\ opts.fee = req.info.fee
       /\ opts.feeLevel = "none" /\ opts.feePerKb = NoFee
       /\ ~opts.sendMax

\* When something was found, and at which rate.
FoundAt ==
  /\ req.pc \in {"getSendMaxInfo", "sendMax"} \/ (req.pc = "validate" /\ opts.fee = NoFee) =>
       req.info.inputs = {}
  /\ opts.sendMax /\ req.info.inputs # {} /\ req.pc # "told" =>
       /\ opts.feePerKb # NoFee => req.info.feePerKb = opts.feePerKb
       /\ opts.feePerKb = NoFee /\ steady => req.info.feePerKb = FeeOf(estimates, "normal")
  /\ /\ req.pc = "selectTxInputs" /\ opts.sendMax /\ req.info.inputs # {}
     /\ opts.feePerKb # NoFee \/ (opts.feeLevel = "normal" /\ steady)
     => txp.feePerKb = req.info.feePerKb

\* What the request carries of getSendMaxInfo is what getSendMaxInfo returns for
\* these outputs.
InfoHolds ==
  Found(req.info, InfoTxp(wallet, opts.excludeUnconfirmedUtxos, req.info.feePerKb), utxos)

\* The inductive invariant: the first seven conjuncts carry the last four.
FInv ==
  /\ Typed
  /\ Proposed
  /\ OutputsValid
  /\ Priced
  /\ AllSent
  /\ FoundAt
  /\ InfoHolds
  /\ WellFunded
  /\ RefusedOnlyIfPoor
  /\ ConfirmedFirst
  /\ SendMaxCreates

\* Goto, Refuse and the step that finds something change just those fields.
LEMMA GoesOn ==
  ASSUME NEW r, IsReq(r, r.pc, r.error, r.info), NEW pc, NEW error, NEW info
  PROVE  /\ IsReq([r EXCEPT !.pc = pc], pc, r.error, r.info)
         /\ IsReq([r EXCEPT !.pc = pc, !.error = error], pc, error, r.info)
         /\ IsReq([r EXCEPT !.pc = pc, !.info = info], pc, r.error, info)
<1> DEFINE p == r.pc
           e == r.error
           i == r.info
<1>1. r = [pc |-> p, error |-> e, info |-> i]
  BY DEF IsReq
<1> HIDE DEF p, e, i
<1> DEFINE s == [r EXCEPT !.pc = pc]
<1>2. s = [pc |-> pc, error |-> e, info |-> i]
  BY <1>1
<1>3. /\ [r EXCEPT !.pc = pc, !.error = error] = [s EXCEPT !.error = error]
      /\ [r EXCEPT !.pc = pc, !.info = info] = [s EXCEPT !.info = info]
  OBVIOUS
<1>4. \A q, x, y, z : q = [pc |-> x, error |-> y, info |-> z] => IsReq(q, x, y, z)
  BY DEF IsReq
<1>5. IsReq(s, pc, e, i)
  BY <1>2, <1>4, Zenon
<1> HIDE DEF s
<1>6. IsReq([s EXCEPT !.error = error], pc, error, i)
  <2>1. [s EXCEPT !.error = error] = [pc |-> pc, error |-> error, info |-> i]
    BY <1>2
  <2> QED
    BY <1>4, <2>1, Zenon
<1>7. IsReq([s EXCEPT !.info = info], pc, e, info)
  <2>1. [s EXCEPT !.info = info] = [pc |-> pc, error |-> e, info |-> info]
    BY <1>2
  <2> QED
    BY <1>4, <2>1, Zenon
<1> QED
  BY <1>3, <1>5, <1>6, <1>7, Zenon DEF s, e, i

\* Nothing is a result, whatever was asked.
LEMMA NothingFound ==
  ASSUME NEW t, NEW u
  PROVE  Found(Nothing(0), t, u)
<1>1. /\ Nothing(0).inputs = {} /\ Nothing(0).amount = 0 /\ Nothing(0).fee = 0
      /\ Nothing(0).feePerKb = 0
  BY DEF Nothing
<1> QED
  BY <1>1 DEF Found

\* The invariant holds of a request that comes.
LEMMA Starts == Init => FInv
<1> SUFFICES ASSUME Init PROVE FInv
  OBVIOUS
<1>1. PICK u \in Funds, r \in Request :
        /\ wallet = r.wallet
        /\ utxos = u
        /\ estimates = r.estimates
        /\ opts = r.opts
        /\ req = [pc |-> r.pc, error |-> "none", info |-> Nothing(0)]
        /\ txp = NoTxp
  BY DEF Init
<1>2. /\ wallet \in Wallet /\ utxos \in [Output -> Utxo] /\ estimates \in Estimate
      /\ IsOpts(opts)
      /\ req.pc \in {"validate", "getSendMaxInfo"} /\ req.error = "none" /\ req.info = Nothing(0)
      /\ IsReq(req, req.pc, req.error, req.info)
  BY <1>1, FundingAssumption DEF IsReq, Options, IsOpts
<1>3. req.info.inputs = {}
  BY <1>2 DEF Nothing
<1>4. Typed
  BY <1>2 DEF Typed, PC
<1>5. Proposed /\ OutputsValid /\ Priced /\ AllSent /\ FoundAt
  BY <1>1, <1>2, <1>3 DEF Proposed, OutputsValid, Priced, AllSent, FoundAt
<1>6. InfoHolds
  BY <1>2, NothingFound, Zenon DEF InfoHolds
<1>7. WellFunded /\ RefusedOnlyIfPoor /\ ConfirmedFirst /\ SendMaxCreates
  <2>1. ~Selecting
    BY <1>1, Zenon DEF Selecting
  <2> QED
    BY <1>3, <2>1, Zenon DEF WellFunded, RefusedOnlyIfPoor, ConfirmedFirst, SendMaxCreates
<1> QED
  BY <1>4, <1>5, <1>6, <1>7 DEF FInv

\* A step before there is a proposal.
LEMMA NotSelecting ==
  ASSUME txp' = NoTxp
  PROVE  WellFunded' /\ RefusedOnlyIfPoor' /\ ConfirmedFirst'
<1>1. ~Selecting'
  BY Zenon DEF Selecting
<1> QED
  BY <1>1, Zenon DEF WellFunded, RefusedOnlyIfPoor, ConfirmedFirst

\* The properties ask nothing of a request that goes on.
LEMMA NotEnded ==
  ASSUME req'.pc \notin {"created", "refused"}, req'.error = "none"
  PROVE  WellFunded' /\ RefusedOnlyIfPoor' /\ ConfirmedFirst' /\ SendMaxCreates'
<1>1. req'.pc # "created" /\ req'.pc # "refused" /\ "none" # "INSUFFICIENT_FUNDS"
      /\ "none" # "INSUFFICIENT_FUNDS_FOR_FEE" /\ "none" # "LOCKED_FUNDS"
  OBVIOUS
<1>2. req'.error \notin {"INSUFFICIENT_FUNDS", "INSUFFICIENT_FUNDS_FOR_FEE", "LOCKED_FUNDS"}
  BY <1>1
<1>3. WellFunded' /\ ConfirmedFirst'
  BY <1>1, Zenon DEF WellFunded, ConfirmedFirst
<1>4. RefusedOnlyIfPoor'
  BY <1>2, Zenon DEF RefusedOnlyIfPoor
<1>5. SendMaxCreates'
  BY Zenon DEF SendMaxCreates
<1> QED
  BY <1>3, <1>4, <1>5

\* The options x are o with these.
Changed(x, o, outputs, sendMax, level, feePerKb, fee, inputs) ==
  /\ IsOpts(x)
  /\ x.outputs = outputs /\ x.sendMax = sendMax /\ x.feeLevel = level
  /\ x.feePerKb = feePerKb /\ x.fee = fee /\ x.inputs = inputs
  /\ x.excludeUnconfirmedUtxos = o.excludeUnconfirmedUtxos

\* A record with these fields is the options changed in them.
LEMMA OptsAre ==
  ASSUME NEW o, IsOpts(o), NEW outputs \in Seq(Nat \cup {NoAmount}), NEW sendMax \in BOOLEAN,
         NEW level, NEW feePerKb \in Nat \cup {NoFee}, NEW fee \in Nat \cup {NoFee},
         NEW inputs \in SUBSET Output, NEW x,
         x = [outputs |-> outputs, sendMax |-> sendMax, feeLevel |-> level,
              feePerKb |-> feePerKb, fee |-> fee, inputs |-> inputs,
              utxosToExclude |-> o.utxosToExclude,
              excludeUnconfirmedUtxos |-> o.excludeUnconfirmedUtxos]
  PROVE  Changed(x, o, outputs, sendMax, level, feePerKb, fee, inputs)
<1> DEFINE Outputs == Seq(Nat \cup {NoAmount})
           Rates == Nat \cup {NoFee}
<1>1. o.utxosToExclude \in SUBSET Output /\ o.excludeUnconfirmedUtxos \in BOOLEAN
  BY DEF IsOpts
<1>2. outputs \in Outputs /\ feePerKb \in Rates /\ fee \in Rates
  OBVIOUS
<1> HIDE DEF Outputs, Rates
<1>3. x \in [outputs: Outputs, sendMax: BOOLEAN, feeLevel: {x.feeLevel}, feePerKb: Rates,
             fee: Rates, inputs: SUBSET Output, utxosToExclude: SUBSET Output,
             excludeUnconfirmedUtxos: BOOLEAN]
  BY <1>1, <1>2
<1>4. IsOpts(x)
  BY <1>3, Zenon DEF IsOpts, Outputs, Rates
<1>5. /\ x.outputs = outputs /\ x.sendMax = sendMax /\ x.feeLevel = level
      /\ x.feePerKb = feePerKb /\ x.fee = fee /\ x.inputs = inputs
      /\ x.excludeUnconfirmedUtxos = o.excludeUnconfirmedUtxos
  OBVIOUS
<1> QED
  BY <1>4, <1>5, Zenon DEF Changed

\* Another level; other outputs, inputs and fee.
LEMMA OptsChange ==
  ASSUME NEW o, IsOpts(o), NEW level,
         NEW outputs \in Seq(Nat \cup {NoAmount}), NEW inputs \in SUBSET Output,
         NEW fee \in Nat
  PROVE  /\ Changed([o EXCEPT !.feeLevel = level], o,
                    o.outputs, o.sendMax, level, o.feePerKb, o.fee, o.inputs)
         /\ Changed([o EXCEPT !.outputs = outputs, !.inputs = inputs], o,
                    outputs, o.sendMax, o.feeLevel, o.feePerKb, o.fee, inputs)
         /\ Changed([o EXCEPT !.outputs = outputs, !.inputs = inputs, !.fee = fee,
                              !.feeLevel = "none", !.feePerKb = NoFee, !.sendMax = FALSE], o,
                    outputs, FALSE, "none", NoFee, fee, inputs)
<1> DEFINE Outputs == Seq(Nat \cup {NoAmount})
           Rates == Nat \cup {NoFee}
           no == FALSE
           R(out, max, level2, perKb, fee2, in) ==
             [outputs |-> out, sendMax |-> max, feeLevel |-> level2, feePerKb |-> perKb,
              fee |-> fee2, inputs |-> in, utxosToExclude |-> o.utxosToExclude,
              excludeUnconfirmedUtxos |-> o.excludeUnconfirmedUtxos]
<1>1. o \in [outputs: Outputs, sendMax: BOOLEAN, feeLevel: {o.feeLevel}, feePerKb: Rates,
             fee: Rates, inputs: SUBSET Output, utxosToExclude: SUBSET Output,
             excludeUnconfirmedUtxos: BOOLEAN]
  BY DEF IsOpts
<1>2. NoFee \in Rates /\ fee \in Rates /\ no \in BOOLEAN
  OBVIOUS
<1> HIDE DEF Outputs, Rates, no
<1> DEFINE w == [o EXCEPT !.feeLevel = level]
           y == [o EXCEPT !.outputs = outputs]
           z == [y EXCEPT !.inputs = inputs]
           z1 == [z EXCEPT !.fee = fee]
           z2 == [z1 EXCEPT !.feeLevel = "none"]
           z3 == [z2 EXCEPT !.feePerKb = NoFee]
           z4 == [z3 EXCEPT !.sendMax = no]
<1>3. w = R(o.outputs, o.sendMax, level, o.feePerKb, o.fee, o.inputs)
  BY <1>1
<1>4. y = R(outputs, o.sendMax, o.feeLevel, o.feePerKb, o.fee, o.inputs)
  BY <1>1
<1>5. z = R(outputs, o.sendMax, o.feeLevel, o.feePerKb, o.fee, inputs)
  <2> HIDE DEF y
  <2> QED
    BY <1>4
<1>6. z4 = R(outputs, no, "none", NoFee, fee, inputs)
  <2> HIDE DEF z
  <2>1. z1 = R(outputs, o.sendMax, o.feeLevel, o.feePerKb, fee, inputs)
    BY <1>5
  <2> HIDE DEF z1
  <2>2. z2 = R(outputs, o.sendMax, "none", o.feePerKb, fee, inputs)
    BY <2>1
  <2> HIDE DEF z2
  <2>3. z3 = R(outputs, o.sendMax, "none", NoFee, fee, inputs)
    BY <2>2
  <2> HIDE DEF z3
  <2> QED
    BY <2>3
<1>7. o.outputs \in Outputs /\ o.sendMax \in BOOLEAN /\ o.feePerKb \in Rates /\ o.fee \in Rates
      /\ o.inputs \in SUBSET Output
  BY <1>1
<1> HIDE DEF w, z, z4
<1>8. Changed(w, o, o.outputs, o.sendMax, level, o.feePerKb, o.fee, o.inputs)
  BY <1>3, <1>7, OptsAre DEF Outputs, Rates
<1>9. Changed(z, o, outputs, o.sendMax, o.feeLevel, o.feePerKb, o.fee, inputs)
  BY <1>5, <1>7, OptsAre DEF Outputs, Rates
<1>10. Changed(z4, o, outputs, no, "none", NoFee, fee, inputs)
  BY <1>2, <1>6, OptsAre DEF Outputs, Rates
<1>11. [o EXCEPT !.outputs = outputs, !.inputs = inputs] = z
  BY DEF z
<1>12. [o EXCEPT !.outputs = outputs, !.inputs = inputs, !.fee = fee,
                 !.feeLevel = "none", !.feePerKb = NoFee, !.sendMax = no] = z4
  BY DEF z, z4
<1>13. /\ w = [o EXCEPT !.feeLevel = level]
       /\ no = FALSE
  BY DEF w, no
<1> HIDE DEF R
<1> QED
  BY <1>8, <1>9, <1>10, <1>11, <1>12, <1>13, Zenon

\* _validateAndSanitizeTxOpts keeps the invariant: nobody names a fee and a level.
LEMMA ValidateKeeps ==
  ASSUME FInv, Validate
  PROVE  FInv'
<1>1. /\ req.pc = "validate" /\ txp = NoTxp /\ req.error = "none"
      /\ UNCHANGED <<wallet, utxos, estimates, steady, txp>>
  BY DEF FInv, Typed, Proposed, Validate
<1>2. txp' = NoTxp
  BY <1>1
<1>3. WellFunded' /\ RefusedOnlyIfPoor' /\ ConfirmedFirst'
  BY <1>2, NotSelecting
<1>4. IsOpts(opts) /\ IsReq(req, req.pc, req.error, req.info)
  BY DEF FInv, Typed
<1>5. CASE FeeArgsValid /\ SendMaxValid
  <2> DEFINE pc == IF opts.sendMax THEN "sendMax" ELSE "validateOutputs"
  <2>1. /\ req' = [req EXCEPT !.pc = pc]
        /\ opts' = IF FeeArgs(opts) = 0 THEN [opts EXCEPT !.feeLevel = "normal"] ELSE opts
    BY <1>5, Zenon DEF Validate, Goto
  <2>2. IsReq(req', pc, "none", req.info)
    BY <1>1, <1>4, <2>1, GoesOn, Zenon
  <2>3. req'.pc = pc /\ req'.error = "none" /\ req'.info = req.info /\ IsReq(req', req'.pc, req'.error, req'.info)
    BY <2>2, Zenon DEF IsReq
  <2>4. pc \in {"sendMax", "validateOutputs"} /\ (pc = "sendMax" <=> opts.sendMax)
    OBVIOUS
  <2> HIDE DEF pc
  <2>5. /\ IsOpts(opts')
        /\ opts'.outputs = opts.outputs /\ opts'.sendMax = opts.sendMax
        /\ opts'.feePerKb = opts.feePerKb /\ opts'.fee = opts.fee /\ opts'.inputs = opts.inputs
        /\ opts'.excludeUnconfirmedUtxos = opts.excludeUnconfirmedUtxos
        /\ opts'.feeLevel = IF FeeArgs(opts) = 0 THEN "normal" ELSE opts.feeLevel
    <3>1. << >> \in Seq(Nat \cup {NoAmount}) /\ {} \in SUBSET Output /\ 0 \in Nat
      OBVIOUS
    <3>2. Changed([opts EXCEPT !.feeLevel = "normal"], opts, opts.outputs, opts.sendMax,
                  "normal", opts.feePerKb, opts.fee, opts.inputs)
      BY <1>4, <3>1, OptsChange
    <3> QED
      BY <1>4, <2>1, <3>2 DEF Changed
  <2>6. /\ FeeArgs(opts) = 0 <=> opts.feeLevel = "none" /\ opts.feePerKb = NoFee /\ opts.fee = NoFee
        /\ opts.feeLevel = "none" /\ opts.feePerKb = NoFee /\ opts.fee # NoFee => FeeArgs(opts) = 1
    BY FeeArgsCount, Zenon
  <2>7. Typed'
    BY <1>1, <2>3, <2>4, <2>5 DEF FInv, Typed, PC
  <2>8. Proposed' /\ OutputsValid'
    BY <1>2, <2>3, <2>4 DEF Proposed, OutputsValid
  <2>9. Priced'
    <3>1. opts.feeLevel # "none" => IsLevel(opts.feeLevel)
      BY <1>5 DEF FeeArgsValid
    <3>2. opts.fee # NoFee => opts.inputs # {}
      BY <1>5 DEF FeeArgsValid
    <3>3. IsLevel("normal")
      BY FundingAssumption
    <3> QED
      BY <2>5, <2>6, <3>1, <3>2, <3>3 DEF Priced
  <2>10. opts.sendMax => opts.fee = NoFee
    BY <1>5 DEF SendMaxValid
  <2>11. AllSent'
    BY <1>1, <1>2, <2>3, <2>4, <2>5, <2>6, <2>10 DEF FInv, AllSent
  <2>12. FoundAt'
    BY <1>1, <2>3, <2>4, <2>5, <2>10 DEF FInv, FoundAt
  <2>13. InfoHolds'
    BY <1>1, <2>3, <2>5, Zenon DEF FInv, InfoHolds
  <2>14. SendMaxCreates'
    BY <2>3, <2>4, NotEnded
  <2> QED
    BY <1>3, <2>7, <2>8, <2>9, <2>11, <2>12, <2>13, <2>14 DEF FInv
<1>6. CASE ~(FeeArgsValid /\ SendMaxValid)
  <2>1. req' = [req EXCEPT !.pc = "refused", !.error = "INVALID_OPTIONS"] /\ opts' = opts
    BY <1>6, Zenon DEF Validate, Refuse
  <2>2. IsReq(req', "refused", "INVALID_OPTIONS", req.info)
    BY <1>1, <1>4, <2>1, GoesOn, Zenon
  <2>3. req'.pc = "refused" /\ req'.error = "INVALID_OPTIONS" /\ req'.info = req.info
        /\ IsReq(req', req'.pc, req'.error, req'.info)
    BY <2>2, Zenon DEF IsReq
  <2>4. Typed'
    BY <1>1, <2>1, <2>3 DEF FInv, Typed, PC
  <2>5. Proposed' /\ OutputsValid' /\ Priced'
    BY <1>2, <2>3 DEF Proposed, OutputsValid, Priced
  <2>6. AllSent'
    BY <1>1, <1>2, <2>1, <2>3 DEF FInv, AllSent
  <2>7. FoundAt'
    BY <1>1, <2>1, <2>3 DEF FInv, FoundAt
  <2>8. InfoHolds'
    BY <1>1, <2>1, <2>3, Zenon DEF FInv, InfoHolds
  <2>9. req.info.inputs = {}
    <3>1. ASSUME req.info.inputs # {}
          PROVE  FALSE
      <4>1. opts.fee # NoFee
        BY <1>1, <3>1 DEF FInv, FoundAt
      <4>2. /\ opts.inputs = req.info.inputs
            /\ opts.feeLevel = "none" /\ opts.feePerKb = NoFee /\ ~opts.sendMax
        BY <1>1, <3>1, <4>1 DEF FInv, AllSent
      <4>3. FeeArgs(opts) = 1
        BY <4>1, <4>2, FeeArgsCount, Zenon
      <4>4. NoFee <= MAX_FEE_PER_KB
        BY FundingAssumption DEF NoFee
      <4> QED
        BY <1>6, <3>1, <4>2, <4>3, <4>4 DEF FeeArgsValid, SendMaxValid
    <3> QED
      BY <3>1
  <2>10. SendMaxCreates'
    BY <2>3, <2>9, Zenon DEF SendMaxCreates
  <2> QED
    BY <1>3, <2>4, <2>5, <2>6, <2>7, <2>8, <2>10 DEF FInv
<1> QED
  BY <1>5, <1>6

\* The rate getSendMaxInfo is called with.
LEMMA RateIsNat ==
  ASSUME estimates \in Estimate, NEW level, IsLevel(level), NEW rate \in Nat \cup {NoFee}
  PROVE  /\ FeePerKb(level, rate) \in Nat
         /\ rate # NoFee => FeePerKb(level, rate) = rate
         /\ rate = NoFee => FeePerKb(level, rate) = FeeOf(estimates, level)
<1>1. FeeOf(estimates, level) \in Nat
  BY FeeIsNat
<1> QED
  BY <1>1 DEF FeePerKb

\* What getSendMaxInfo finds, whatever the rate.
LEMMA InfoIsFound ==
  ASSUME Typed, NEW rate \in Nat
  PROVE  LET info == GetSendMaxInfo(EmptyTxp(rate), utxos)
         IN  /\ info.inputs # {} => info.feePerKb = rate
             /\ Found(info, InfoTxp(wallet, opts.excludeUnconfirmedUtxos, info.feePerKb), utxos)
<1> DEFINE e == EmptyTxp(rate)
           i == InfoTxp(wallet, opts.excludeUnconfirmedUtxos, rate)
           info == GetSendMaxInfo(e, utxos)
<1>1. wallet.m \in Nat \ {0} /\ wallet.n \in Nat \ {0} /\ utxos \in [Output -> Utxo]
  BY DEF Typed, Wallet
<1>2. /\ e.outputs = << >> /\ e.m = wallet.m /\ e.n = wallet.n /\ e.feePerKb = rate
      /\ e.addressType = IF wallet.n > 1 THEN "P2SH" ELSE "P2PKH"
      /\ e.excludeUnconfirmedUtxos = opts.excludeUnconfirmedUtxos
  BY DEF EmptyTxp, Txp
<1>3. EmptyLike(e) /\ Alike(e, i)
  <2>1. /\ i.outputs = << >> /\ i.m = wallet.m /\ i.n = wallet.n /\ i.feePerKb = rate
        /\ i.addressType = IF wallet.n > 1 THEN "P2SH" ELSE "P2PKH"
        /\ i.excludeUnconfirmedUtxos = opts.excludeUnconfirmedUtxos
    BY DEF InfoTxp
  <2> HIDE DEF e, i
  <2> QED
    BY <1>1, <1>2, <2>1 DEF EmptyLike, Alike
<1>4. /\ info.inputs # {} => info.feePerKb = e.feePerKb
      /\ info.feePerKb = e.feePerKb => Found(info, e, utxos)
      /\ info.feePerKb # e.feePerKb => info = Nothing(0)
  <2> HIDE DEF e
  <2> QED
    BY <1>1, <1>3, InfoFound
<1> HIDE DEF e, info
<1>5. CASE info.feePerKb = rate
  BY <1>2, <1>3, <1>4, <1>5, AlikeFound, Zenon DEF e, i, info
<1>6. CASE info.feePerKb # rate
  <2>1. info = Nothing(0) /\ info.inputs = {}
    BY <1>2, <1>4, <1>6
  <2>2. \A t : Found(info, t, utxos)
    BY <2>1, NothingFound, Zenon
  <2> QED
    BY <2>1, <2>2, Zenon DEF e, i, info
<1> QED
  BY <1>5, <1>6

\* Who sends everything gets what was found as the amount and the inputs.
LEMMA SendMaxKeeps ==
  ASSUME FInv, SendMax
  PROVE  FInv'
<1> DEFINE rate == FeePerKb("normal", opts.feePerKb)
           info == GetSendMaxInfo(EmptyTxp(rate), utxos)
<1>1. /\ req.pc = "sendMax" /\ txp = NoTxp /\ req.error = "none"
      /\ UNCHANGED <<wallet, utxos, estimates, steady, txp>>
      /\ opts' = [opts EXCEPT !.outputs = <<info.amount>>, !.inputs = info.inputs]
      /\ req' = [req EXCEPT !.pc = "validateOutputs", !.info = info]
  BY DEF FInv, Typed, Proposed, SendMax
<1>2. /\ IsOpts(opts) /\ IsReq(req, req.pc, req.error, req.info) /\ estimates \in Estimate
      /\ opts.feePerKb \in Nat \cup {NoFee} /\ Typed
      /\ opts.sendMax /\ opts.fee = NoFee
  BY <1>1 DEF FInv, Typed, IsOpts, AllSent
<1>3. /\ rate \in Nat
      /\ opts.feePerKb # NoFee => rate = opts.feePerKb
      /\ opts.feePerKb = NoFee => rate = FeeOf(estimates, "normal")
  <2>1. IsLevel("normal")
    BY FundingAssumption
  <2> QED
    BY <1>2, <2>1, RateIsNat
<1>4. /\ info.inputs # {} => info.feePerKb = rate
      /\ Found(info, InfoTxp(wallet, opts.excludeUnconfirmedUtxos, info.feePerKb), utxos)
  <2> HIDE DEF rate
  <2> QED
    BY <1>2, <1>3, InfoIsFound
<1> HIDE DEF info, rate
<1>5. info.amount \in Nat /\ info.inputs \in SUBSET Output
  BY <1>4, Zenon DEF Found
<1>6. Changed(opts', opts, <<info.amount>>, opts.sendMax, opts.feeLevel, opts.feePerKb, opts.fee,
              info.inputs)
  <2>1. <<info.amount>> \in Seq(Nat \cup {NoAmount}) /\ 0 \in Nat
    BY <1>5
  <2>2. Changed([opts EXCEPT !.outputs = <<info.amount>>, !.inputs = info.inputs], opts,
                <<info.amount>>, opts.sendMax, opts.feeLevel, opts.feePerKb, opts.fee, info.inputs)
    BY <1>2, <1>5, <2>1, OptsChange
  <2> QED
    BY <1>1, <2>2
<1>7. IsReq(req', "validateOutputs", "none", info)
  BY <1>1, <1>2, GoesOn, Zenon
<1>8. req'.pc = "validateOutputs" /\ req'.error = "none" /\ req'.info = info
      /\ IsReq(req', req'.pc, req'.error, req'.info)
  BY <1>7, Zenon DEF IsReq
<1>9. Typed'
  BY <1>1, <1>2, <1>6, <1>8 DEF Typed, PC, Changed
<1>10. txp' = NoTxp
  BY <1>1
<1>11. Proposed' /\ OutputsValid'
  BY <1>8, <1>10 DEF Proposed, OutputsValid
<1>12. Priced'
  BY <1>1, <1>2, <1>6 DEF FInv, Priced, Changed
<1>13. AllSent'
  BY <1>2, <1>6, <1>8 DEF AllSent, Changed
<1>14. FoundAt'
  BY <1>1, <1>3, <1>4, <1>6, <1>8 DEF FoundAt, Changed
<1>15. InfoHolds'
  BY <1>1, <1>4, <1>6, <1>8, Zenon DEF InfoHolds, Changed
<1>16. WellFunded' /\ RefusedOnlyIfPoor' /\ ConfirmedFirst' /\ SendMaxCreates'
  BY <1>8, NotEnded
<1> QED
  BY <1>9, <1>11, <1>12, <1>13, <1>14, <1>15, <1>16 DEF FInv

\* A step that only goes on, or refuses, before there is a proposal.
LEMMA OnlyGoesOn ==
  ASSUME FInv, txp = NoTxp, UNCHANGED <<wallet, utxos, estimates, steady, opts, txp>>,
         req.pc # "told", req.error = "none",
         NEW pc \in PC \ {"selectTxInputs", "created", "sendMax", "getSendMaxInfo", "validate"},
         NEW error, error # "none" <=> pc = "refused",
         IsReq(req', pc, error, req.info),
         pc \in {"canCreateTx", "getFeePerKb"} => OutputsValid',
         pc \in {"validateOutputs", "canCreateTx", "getFeePerKb"} =>
           req.pc \in {"validateOutputs", "canCreateTx"},
         SendMaxCreates'
  PROVE  FInv'
<1>1. req'.pc = pc /\ req'.error = error /\ req'.info = req.info
      /\ IsReq(req', req'.pc, req'.error, req'.info)
  BY Zenon DEF IsReq
<1>2. txp' = NoTxp
  OBVIOUS
<1>3. Typed'
  BY <1>1 DEF FInv, Typed
<1>4. Proposed' /\ OutputsValid'
  BY <1>1, <1>2 DEF Proposed, OutputsValid
<1>5. Priced'
  BY <1>1, <1>2 DEF FInv, Priced
<1>6. AllSent'
  BY <1>1, <1>2 DEF FInv, AllSent
<1>7. FoundAt'
  BY <1>1, <1>2 DEF FInv, FoundAt
<1>8. InfoHolds'
  BY <1>1, Zenon DEF FInv, InfoHolds
<1>9. WellFunded' /\ RefusedOnlyIfPoor' /\ ConfirmedFirst'
  BY <1>2, NotSelecting
<1> QED
  BY <1>3, <1>4, <1>5, <1>6, <1>7, <1>8, <1>9 DEF FInv

\* An amount that was found is above the dust threshold and is not refused.
LEMMA ValidateOutputsKeeps ==
  ASSUME FInv, ValidateOutputs
  PROVE  FInv'
<1> DEFINE invalid == {i \in DOMAIN opts.outputs : opts.outputs[i] < DustThreshold}
           error == IF opts.outputs = << >> THEN "INVALID_AMOUNT"
                    ELSE IF opts.outputs[Min(invalid)] <= 0 THEN "INVALID_AMOUNT" ELSE "DUST_AMOUNT"
<1>1. /\ req.pc = "validateOutputs" /\ txp = NoTxp /\ req.error = "none"
      /\ UNCHANGED <<wallet, utxos, estimates, steady, opts, txp>>
  BY DEF FInv, Typed, Proposed, ValidateOutputs
<1>2. opts.outputs \in Seq(Nat \cup {NoAmount}) /\ IsReq(req, req.pc, req.error, req.info)
  BY DEF FInv, Typed, IsOpts
<1>3. DustThreshold \in Nat
  BY Thresholds
<1>4. \A i \in DOMAIN opts.outputs : opts.outputs[i] \in Int
  BY <1>2 DEF NoAmount
<1>5. CASE opts.outputs # << >> /\ invalid = {}
  <2>1. req' = [req EXCEPT !.pc = "canCreateTx"]
    <3> HIDE DEF invalid
    <3> QED
      BY <1>5 DEF ValidateOutputs, Goto, invalid
  <2>2. IsReq(req', "canCreateTx", "none", req.info)
    BY <1>1, <1>2, <2>1, GoesOn, Zenon
  <2>3. req'.pc = "canCreateTx" /\ req'.error = "none"
    BY <2>2, Zenon DEF IsReq
  <2>4. OutputsValid'
    BY <1>1, <1>3, <1>4, <1>5 DEF OutputsValid
  <2>5. SendMaxCreates'
    BY <2>3, NotEnded
  <2> QED
    BY <1>1, <2>2, <2>4, <2>5, OnlyGoesOn DEF PC
<1>6. CASE ~(opts.outputs # << >> /\ invalid = {})
  <2>1. req' = [req EXCEPT !.pc = "refused", !.error = error]
    <3>1. CASE opts.outputs = << >>
      <4> HIDE DEF invalid
      <4> QED
        BY <1>1, <3>1 DEF ValidateOutputs, Refuse, invalid
    <3>2. CASE opts.outputs # << >>
      <4>1. invalid # {}
        BY <1>6, <3>2
      <4> HIDE DEF invalid
      <4> QED
        BY <1>1, <3>2, <4>1 DEF ValidateOutputs, Refuse, invalid
    <3> QED
      BY <3>1, <3>2
  <2>2. error # "none"
    OBVIOUS
  <2>3. req.info.inputs = {} \/ ~(opts.sendMax \/ opts.fee # NoFee)
    <3>1. ASSUME req.info.inputs # {}, opts.sendMax \/ opts.fee # NoFee
          PROVE  FALSE
      <4>1. opts.outputs = <<req.info.amount>>
        BY <1>1, <3>1 DEF FInv, AllSent
      <4>2. req.info.amount >= DustThreshold /\ req.info.amount \in Nat
        BY <3>1 DEF FInv, InfoHolds, Found
      <4>3. opts.outputs # << >> /\ \A i \in DOMAIN opts.outputs : opts.outputs[i] >= DustThreshold
        BY <4>1, <4>2
      <4> QED
        BY <1>3, <1>4, <1>6, <4>3
    <3> QED
      BY <3>1
  <2> HIDE DEF error
  <2>4. IsReq(req', "refused", error, req.info)
    BY <1>2, <2>1, GoesOn, Zenon
  <2>5. req'.info = req.info
    BY <2>4, Zenon DEF IsReq
  <2>6. SendMaxCreates'
    BY <1>1, <2>3, <2>5, Zenon DEF SendMaxCreates
  <2> QED
    BY <1>1, <2>2, <2>4, <2>6, OnlyGoesOn DEF PC
<1> QED
  BY <1>5, <1>6

\* The backoff refuses a request whatever it found.
LEMMA CanCreateTxKeeps ==
  ASSUME FInv, CanCreateTx
  PROVE  FInv'
<1>1. /\ req.pc = "canCreateTx" /\ txp = NoTxp /\ req.error = "none"
      /\ UNCHANGED <<wallet, utxos, estimates, steady, opts, txp>>
      /\ \/ req' = [req EXCEPT !.pc = "getFeePerKb"]
         \/ req' = [req EXCEPT !.pc = "refused", !.error = "TX_CANNOT_CREATE"]
  BY DEF FInv, Typed, Proposed, CanCreateTx, Goto, Refuse
<1>2. IsReq(req, req.pc, req.error, req.info) /\ OutputsValid
  BY DEF FInv, Typed
<1>3. CASE req' = [req EXCEPT !.pc = "getFeePerKb"]
  <2>1. IsReq(req', "getFeePerKb", "none", req.info)
    BY <1>1, <1>2, <1>3, GoesOn, Zenon
  <2>2. req'.pc = "getFeePerKb" /\ req'.error = "none"
    BY <2>1, Zenon DEF IsReq
  <2>3. OutputsValid'
    BY <1>1, <1>2 DEF OutputsValid
  <2>4. SendMaxCreates'
    BY <2>2, NotEnded
  <2> QED
    BY <1>1, <2>1, <2>3, <2>4, OnlyGoesOn DEF PC
<1>4. CASE req' = [req EXCEPT !.pc = "refused", !.error = "TX_CANNOT_CREATE"]
  <2>1. IsReq(req', "refused", "TX_CANNOT_CREATE", req.info)
    BY <1>2, <1>4, GoesOn, Zenon
  <2>2. req'.pc = "refused" /\ req'.error = "TX_CANNOT_CREATE"
    BY <2>1, Zenon DEF IsReq
  <2>3. SendMaxCreates'
    BY <2>2 DEF SendMaxCreates
  <2> QED
    BY <1>1, <2>1, <2>3, OnlyGoesOn DEF PC
<1> QED
  BY <1>1, <1>3, <1>4

\* The proposal gets its rate.
LEMMA GetFeePerKbKeeps ==
  ASSUME FInv, GetFeePerKb
  PROVE  FInv'
<1> DEFINE own == opts.fee # NoFee /\ opts.inputs # {}
           rate == IF own THEN NoFee ELSE FeePerKb(opts.feeLevel, opts.feePerKb)
<1>1. /\ req.pc = "getFeePerKb" /\ txp = NoTxp /\ req.error = "none"
      /\ UNCHANGED <<wallet, utxos, estimates, steady, opts>>
      /\ txp' = Txp(rate, ~opts.sendMax)
      /\ req' = [req EXCEPT !.pc = "selectTxInputs"]
  BY DEF FInv, Typed, Proposed, GetFeePerKb, Goto
<1>2. /\ IsReq(req, req.pc, req.error, req.info) /\ estimates \in Estimate
      /\ opts.feePerKb \in Nat \cup {NoFee}
  BY DEF FInv, Typed, IsOpts
<1>3. IsReq(req', "selectTxInputs", "none", req.info)
  BY <1>1, <1>2, GoesOn, Zenon
<1>4. req'.pc = "selectTxInputs" /\ req'.error = "none" /\ req'.info = req.info
      /\ IsReq(req', req'.pc, req'.error, req'.info)
  BY <1>3, Zenon DEF IsReq
<1>5. /\ opts.feeLevel # "none" => IsLevel(opts.feeLevel)
      /\ opts.feeLevel = "none" /\ opts.feePerKb = NoFee => opts.fee # NoFee
      /\ opts.fee # NoFee => opts.inputs # {}
  BY <1>1 DEF FInv, Priced
<1>6. ~own => /\ rate \in Nat
              /\ opts.feePerKb # NoFee => rate = opts.feePerKb
              /\ opts.feePerKb = NoFee => rate = FeeOf(estimates, opts.feeLevel)
  <2> SUFFICES ASSUME ~own
               PROVE  /\ rate \in Nat
                      /\ opts.feePerKb # NoFee => rate = opts.feePerKb
                      /\ opts.feePerKb = NoFee => rate = FeeOf(estimates, opts.feeLevel)
    OBVIOUS
  <2>1. rate = FeePerKb(opts.feeLevel, opts.feePerKb)
    OBVIOUS
  <2>2. CASE opts.feePerKb # NoFee
    BY <1>2, <2>1, <2>2 DEF FeePerKb
  <2>3. CASE opts.feePerKb = NoFee
    <3>1. IsLevel(opts.feeLevel)
      BY <1>5, <2>3
    <3> HIDE DEF rate
    <3> QED
      BY <1>2, <2>1, <2>3, <3>1, RateIsNat
  <2> QED
    BY <2>2, <2>3
<1>7. /\ txp'.feePerKb = rate /\ txp'.inputs = opts.inputs /\ txp'.fee = opts.fee
      /\ Built(txp', wallet, opts)
      /\ txp' # NoTxp
  <2> HIDE DEF rate
  <2>1. txp' = [m |-> wallet.m, n |-> wallet.n, addressType |-> wallet.addressType,
                outputs |-> opts.outputs, feePerKb |-> rate,
                inputs |-> opts.inputs, fee |-> opts.fee, hasChangeAddress |-> ~opts.sendMax,
                excludeUnconfirmedUtxos |-> opts.excludeUnconfirmedUtxos]
    BY <1>1 DEF Txp
  <2>2. txp'.feePerKb = rate /\ txp'.inputs = opts.inputs /\ txp'.fee = opts.fee
    BY <2>1
  <2>3. Built(txp', wallet, opts)
    BY <2>1, <2>2, Zenon DEF Built
  <2>4. txp' # NoTxp
    <3>1. "fee" \in DOMAIN txp' /\ DOMAIN NoTxp = {"inputs"}
      BY <2>1 DEF NoTxp
    <3> QED
      BY <3>1
  <2> QED
    BY <2>2, <2>3, <2>4
<1> HIDE DEF rate
<1>8. Typed'
  BY <1>1, <1>4 DEF FInv, Typed, PC
<1>9. Proposed'
  BY <1>1, <1>4, <1>6, <1>7, Zenon DEF Proposed
<1>10. OutputsValid'
  BY <1>1 DEF FInv, OutputsValid
<1>11. Priced'
  BY <1>1, <1>5 DEF Priced
<1>12. AllSent'
  BY <1>1, <1>4 DEF FInv, AllSent
<1>13. FoundAt'
  <2>1. ASSUME opts.sendMax, req.info.inputs # {},
               opts.feePerKb # NoFee \/ (opts.feeLevel = "normal" /\ steady)
        PROVE  rate = req.info.feePerKb
    <3>1. opts.fee = NoFee
      BY <1>1, <2>1 DEF FInv, AllSent
    <3>2. /\ opts.feePerKb # NoFee => req.info.feePerKb = opts.feePerKb
          /\ opts.feePerKb = NoFee /\ steady => req.info.feePerKb = FeeOf(estimates, "normal")
      BY <1>1, <2>1 DEF FInv, FoundAt
    <3> QED
      BY <1>6, <2>1, <3>1, <3>2
  <2>2. opts.sendMax /\ req.info.inputs # {} =>
          /\ opts.feePerKb # NoFee => req.info.feePerKb = opts.feePerKb
          /\ opts.feePerKb = NoFee /\ steady => req.info.feePerKb = FeeOf(estimates, "normal")
    BY <1>1 DEF FInv, FoundAt
  <2> QED
    BY <1>1, <1>4, <1>7, <2>1, <2>2 DEF FoundAt
<1>14. InfoHolds'
  BY <1>1, <1>4, Zenon DEF FInv, InfoHolds
<1>15. WellFunded' /\ RefusedOnlyIfPoor' /\ ConfirmedFirst' /\ SendMaxCreates'
  BY <1>4, NotEnded
<1> QED
  BY <1>8, <1>9, <1>10, <1>11, <1>12, <1>13, <1>14, <1>15 DEF FInv

\* getSendMaxInfo, for a client that asks, finds what InfoFound says.
LEMMA TellSendMaxInfoKeeps ==
  ASSUME FInv, TellSendMaxInfo
  PROVE  FInv'
<1>1. /\ req.pc = "getSendMaxInfo" /\ txp = NoTxp /\ req.error = "none"
      /\ req.info.inputs = {}
      /\ UNCHANGED <<wallet, utxos, estimates, steady, opts, txp>>
  BY DEF FInv, Typed, Proposed, FoundAt, TellSendMaxInfo
<1>2. /\ IsReq(req, req.pc, req.error, req.info) /\ estimates \in Estimate
      /\ opts.feePerKb \in Nat \cup {NoFee} /\ Typed
  BY DEF FInv, Typed, IsOpts
<1>3. txp' = NoTxp
  BY <1>1
<1>4. CASE InfoArgsValid
  <2> DEFINE rate == FeePerKb(InfoLevel, opts.feePerKb)
             info == GetSendMaxInfo(EmptyTxp(rate), utxos)
  <2>1. req' = [req EXCEPT !.pc = "told", !.info = info]
    BY <1>4, Zenon DEF TellSendMaxInfo
  <2>2. rate \in Nat
    <3>1. IsLevel(InfoLevel)
      BY <1>4, FundingAssumption DEF InfoArgsValid, InfoLevel
    <3> QED
      BY <1>2, <3>1, RateIsNat
  <2>3. Found(info, InfoTxp(wallet, opts.excludeUnconfirmedUtxos, info.feePerKb), utxos)
    <3> HIDE DEF rate
    <3> QED
      BY <1>2, <2>2, InfoIsFound
  <2> HIDE DEF info, rate
  <2>4. IsReq(req', "told", "none", info)
    <3>1. IsReq(req, req.pc, req.error, req.info)
      BY <1>2
    <3>2. IsReq([req EXCEPT !.pc = "told", !.info = info], "told", req.error, info)
      BY <3>1, GoesOn, Zenon
    <3> QED
      BY <1>1, <2>1, <3>2
  <2>5. req'.pc = "told" /\ req'.error = "none" /\ req'.info = info
        /\ IsReq(req', req'.pc, req'.error, req'.info)
    BY <2>4, Zenon DEF IsReq
  <2>6. Typed'
    BY <1>1, <1>2, <2>5 DEF Typed, PC
  <2>7. Proposed' /\ OutputsValid' /\ Priced' /\ AllSent' /\ FoundAt'
    BY <1>3, <2>5 DEF Proposed, OutputsValid, Priced, AllSent, FoundAt
  <2>8. InfoHolds'
    BY <1>1, <2>3, <2>5, Zenon DEF InfoHolds
  <2>9. WellFunded' /\ RefusedOnlyIfPoor' /\ ConfirmedFirst' /\ SendMaxCreates'
    BY <2>5, NotEnded
  <2> QED
    BY <2>6, <2>7, <2>8, <2>9 DEF FInv
<1>5. CASE ~InfoArgsValid
  <2>1. req' = [req EXCEPT !.pc = "refused", !.error = "INVALID_OPTIONS"]
    BY <1>5, Zenon DEF TellSendMaxInfo, Refuse
  <2>2. IsReq(req', "refused", "INVALID_OPTIONS", req.info)
    BY <1>2, <2>1, GoesOn, Zenon
  <2>3. req'.info = req.info
    BY <2>2, Zenon DEF IsReq
  <2>4. SendMaxCreates'
    BY <1>1, <2>3, Zenon DEF SendMaxCreates
  <2> QED
    BY <1>1, <2>2, <2>4, OnlyGoesOn DEF PC
<1> QED
  BY <1>4, <1>5

\* A client that was told of something names it and its fee.
LEMMA CreateAsToldKeeps ==
  ASSUME FInv, CreateAsTold
  PROVE  FInv'
<1> DEFINE info == req.info
<1>1. /\ req.pc = "told" /\ txp = NoTxp /\ req.error = "none" /\ info.inputs # {}
      /\ UNCHANGED <<wallet, utxos, estimates, steady, txp>>
      /\ opts' = [opts EXCEPT !.outputs = <<info.amount>>, !.inputs = info.inputs,
                              !.fee = info.fee, !.feeLevel = "none", !.feePerKb = NoFee,
                              !.sendMax = FALSE]
      /\ req' = [req EXCEPT !.pc = "validate"]
  BY DEF FInv, Typed, Proposed, CreateAsTold, Goto
<1>2. /\ IsOpts(opts) /\ IsReq(req, req.pc, req.error, req.info)
      /\ InfoHolds
      /\ info.amount \in Nat /\ info.fee \in Nat /\ info.inputs \in SUBSET Output
  BY DEF FInv, Typed, InfoHolds, Found
<1>3. Changed(opts', opts, <<info.amount>>, FALSE, "none", NoFee, info.fee, info.inputs)
  <2>1. <<info.amount>> \in Seq(Nat \cup {NoAmount})
    BY <1>2
  <2>2. Changed([opts EXCEPT !.outputs = <<info.amount>>, !.inputs = info.inputs,
                             !.fee = info.fee, !.feeLevel = "none", !.feePerKb = NoFee,
                             !.sendMax = FALSE], opts,
                <<info.amount>>, FALSE, "none", NoFee, info.fee, info.inputs)
    <3> HIDE DEF info
    <3> QED
      BY <1>2, <2>1, OptsChange
  <2> QED
    BY <1>1, <2>2
<1>4. IsReq(req', "validate", "none", info)
  BY <1>1, <1>2, GoesOn, Zenon
<1>5. req'.pc = "validate" /\ req'.error = "none" /\ req'.info = info
      /\ IsReq(req', req'.pc, req'.error, req'.info)
  BY <1>4, Zenon DEF IsReq
<1>6. /\ IsOpts(opts') /\ opts'.fee # NoFee /\ ~opts'.sendMax
      /\ opts'.outputs = <<info.amount>> /\ opts'.inputs = info.inputs /\ opts'.fee = info.fee
      /\ opts'.feeLevel = "none" /\ opts'.feePerKb = NoFee
      /\ opts'.excludeUnconfirmedUtxos = opts.excludeUnconfirmedUtxos
  BY <1>2, <1>3 DEF Changed, NoFee
<1> HIDE DEF info
<1>7. txp' = NoTxp
  BY <1>1
<1>8. Typed'
  BY <1>1, <1>5, <1>6 DEF FInv, Typed, PC
<1>9. Proposed' /\ OutputsValid' /\ Priced' /\ AllSent' /\ FoundAt'
  BY <1>5, <1>6, <1>7 DEF Proposed, OutputsValid, Priced, AllSent, FoundAt
<1>10. InfoHolds'
  BY <1>1, <1>2, <1>5, <1>6, Zenon DEF InfoHolds, info
<1>11. WellFunded' /\ RefusedOnlyIfPoor' /\ ConfirmedFirst' /\ SendMaxCreates'
  BY <1>5, NotEnded
<1> QED
  BY <1>8, <1>9, <1>10, <1>11 DEF FInv

\* New estimates do not touch what was found at the old ones.
LEMMA EstimatesChangeKeeps ==
  ASSUME FInv, EstimatesChange
  PROVE  FInv'
<1>1. /\ opts.feePerKb = NoFee
      /\ req.pc \notin {"created", "refused"} /\ req.error = "none"
      /\ UNCHANGED <<wallet, utxos, opts, req, txp>>
      /\ ~steady'
      /\ estimates' \in Estimate
  BY DEF FInv, Typed, EstimatesChange
<1>2. Typed'
  BY <1>1 DEF FInv, Typed
<1>3. Proposed' /\ OutputsValid' /\ Priced' /\ AllSent'
  BY <1>1 DEF FInv, Proposed, OutputsValid, Priced, AllSent
<1>4. FoundAt'
  BY <1>1 DEF FInv, FoundAt
<1>5. InfoHolds'
  BY <1>1, Zenon DEF FInv, InfoHolds
<1>6. WellFunded' /\ RefusedOnlyIfPoor' /\ ConfirmedFirst' /\ SendMaxCreates'
  <2>1. req'.pc \notin {"created", "refused"} /\ req'.error = "none"
    BY <1>1
  <2> QED
    BY <2>1, NotEnded
<1> QED
  BY <1>2, <1>3, <1>4, <1>5, <1>6 DEF FInv

\* Inputs of the client's own are checked, others are selected.
LEMMA SelectInputsKeeps ==
  ASSUME FInv, SelectInputs
  PROVE  FInv'
<1> DEFINE v == [txp EXCEPT !.inputs = Funded.inputs, !.fee = Funded.fee]
           error == IF Funded.error = "none" THEN CheckTx(v, utxos) ELSE Funded.error
           info == req.info
           n == Cardinality(info.inputs)
           e == InfoTxp(wallet, opts.excludeUnconfirmedUtxos, info.feePerKb)
<1>1. /\ req.pc = "selectTxInputs" /\ req.error = "none"
      /\ UNCHANGED <<wallet, utxos, estimates, steady, opts>>
      /\ txp' = v
      /\ IF error = "none" THEN Goto("created") ELSE Refuse(error)
  BY Zenon DEF FInv, Typed, SelectInputs, Fill
<1>2. /\ IsReq(req, req.pc, req.error, req.info)
      /\ wallet.m \in Nat \ {0} /\ wallet.n \in Nat \ {0} /\ utxos \in [Output -> Utxo]
      /\ opts.outputs \in Seq(Nat \cup {NoAmount}) /\ opts.fee \in Nat \cup {NoFee}
  BY DEF FInv, Typed, IsOpts, Wallet
<1>3. /\ txp # NoTxp /\ txp.inputs = opts.inputs /\ txp.fee = opts.fee
      /\ Built(txp, wallet, opts)
      /\ txp.feePerKb \in Nat \/ (opts.fee # NoFee /\ opts.inputs # {})
  BY <1>1 DEF FInv, Proposed
<1>4. DustThreshold \in Nat /\ DustThreshold > 0 /\ MAX_TX_SIZE \in Nat
  BY Thresholds
<1>5. /\ opts.outputs # << >>
      /\ \A i \in DOMAIN opts.outputs : opts.outputs[i] >= DustThreshold
  BY <1>3 DEF FInv, OutputsValid
<1>6. opts.outputs \in Seq(Nat) /\ \A i \in DOMAIN opts.outputs : opts.outputs[i] > 0
  <2>1. /\ DOMAIN opts.outputs = 1..Len(opts.outputs) /\ Len(opts.outputs) \in Nat
        /\ opts.outputs = [i \in 1..Len(opts.outputs) |-> opts.outputs[i]]
        /\ \A i \in 1..Len(opts.outputs) : opts.outputs[i] \in Int
    BY <1>2 DEF NoAmount
  <2>2. \A i \in 1..Len(opts.outputs) : opts.outputs[i] \in Nat /\ opts.outputs[i] > 0
    BY <1>4, <1>5, <2>1
  <2> QED
    BY <2>1, <2>2
\* The proposal's fields, before and after.
<1>7. /\ txp.m = wallet.m /\ txp.n = wallet.n /\ txp.addressType = wallet.addressType
      /\ txp.outputs = opts.outputs /\ txp.hasChangeAddress = ~opts.sendMax
      /\ txp.excludeUnconfirmedUtxos = opts.excludeUnconfirmedUtxos
  <2> HIDE DEF v, error, info, n, e
  <2> QED
    BY <1>3 DEF Built
<1>8. /\ v.inputs = Funded.inputs /\ v.fee = Funded.fee
      /\ v.m = txp.m /\ v.n = txp.n /\ v.addressType = txp.addressType
      /\ v.outputs = txp.outputs /\ v.feePerKb = txp.feePerKb
      /\ v.hasChangeAddress = txp.hasChangeAddress
      /\ v.excludeUnconfirmedUtxos = txp.excludeUnconfirmedUtxos
      /\ Built(v, wallet, opts)
      /\ v # NoTxp
  <2> DEFINE p == txp.feePerKb
             i == txp.inputs
             f == txp.fee
             y == [txp EXCEPT !.inputs = Funded.inputs]
             R(a, b) == [m |-> wallet.m, n |-> wallet.n, addressType |-> wallet.addressType,
                         outputs |-> opts.outputs, feePerKb |-> p,
                         inputs |-> a, fee |-> b, hasChangeAddress |-> ~opts.sendMax,
                         excludeUnconfirmedUtxos |-> opts.excludeUnconfirmedUtxos]
  <2>1. txp = R(i, f)
    BY <1>3, Zenon DEF Built
  <2> HIDE DEF p, i, f
  <2>2. y = R(Funded.inputs, f)
    BY <2>1
  <2>3. v = [y EXCEPT !.fee = Funded.fee]
    OBVIOUS
  <2> HIDE DEF y, v
  <2>4. v = R(Funded.inputs, Funded.fee)
    BY <2>2, <2>3
  <2>5. /\ v.inputs = Funded.inputs /\ v.fee = Funded.fee
        /\ v.m = wallet.m /\ v.n = wallet.n /\ v.addressType = wallet.addressType
        /\ v.outputs = opts.outputs /\ v.feePerKb = p
        /\ v.hasChangeAddress = ~opts.sendMax
        /\ v.excludeUnconfirmedUtxos = opts.excludeUnconfirmedUtxos
    BY <2>4
  <2>6. v = [m |-> wallet.m, n |-> wallet.n, addressType |-> wallet.addressType,
             outputs |-> opts.outputs, feePerKb |-> v.feePerKb,
             inputs |-> v.inputs, fee |-> v.fee, hasChangeAddress |-> ~opts.sendMax,
             excludeUnconfirmedUtxos |-> opts.excludeUnconfirmedUtxos]
    BY <2>4, <2>5, Zenon
  <2>7. v # NoTxp
    <3>1. "fee" \in DOMAIN v /\ DOMAIN NoTxp = {"inputs"}
      BY <2>4 DEF NoTxp
    <3> QED
      BY <3>1
  <2> QED
    BY <1>7, <2>5, <2>6, <2>7, Zenon DEF Built, p
<1>9. Alike(txp, v)
  BY <1>8, Zenon DEF Alike
<1> HIDE DEF v, error, e, n
<1>10. /\ req'.pc = IF error = "none" THEN "created" ELSE "refused"
       /\ req'.error = error /\ req'.info = info
       /\ IsReq(req', req'.pc, req'.error, req'.info)
  <2>1. CASE error = "none"
    <3>1. IsReq(req', "created", "none", info)
      BY <1>1, <1>2, <2>1, GoesOn DEF Goto
    <3> QED
      BY <2>1, <3>1 DEF IsReq
  <2>2. CASE error # "none"
    <3>1. IsReq(req', "refused", error, info)
      <4>1. req' = [req EXCEPT !.pc = "refused", !.error = error]
        BY <1>1, <2>2 DEF Refuse
      <4>2. IsReq(req, req.pc, req.error, req.info)
        BY <1>2
      <4>3. IsReq([req EXCEPT !.pc = "refused", !.error = error], "refused", error, req.info)
        BY <4>2, GoesOn, Zenon
      <4> QED
        BY <4>1, <4>3
    <3> QED
      BY <2>2, <3>1 DEF IsReq
  <2> QED
    BY <2>1, <2>2
<1>11. Typed'
  BY <1>1, <1>10 DEF FInv, Typed, PC
<1>12. Proposed'
  BY <1>1, <1>3, <1>8, <1>10 DEF Proposed
<1>13. OutputsValid'
  BY <1>1, <1>5 DEF OutputsValid
<1>14. Priced'
  BY <1>1, <1>3 DEF FInv, Priced
<1>15. AllSent'
  BY <1>1, <1>3, <1>10 DEF FInv, AllSent
<1>16. FoundAt'
  BY <1>1, <1>10 DEF FInv, FoundAt
<1>17. InfoHolds'
  BY <1>1, <1>10, Zenon DEF FInv, InfoHolds, info
<1>18. opts.fee # NoFee => opts.inputs # {}
  BY <1>3 DEF FInv, Priced
<1>19. opts.sendMax => opts.outputs = <<info.amount>> /\ opts.inputs = info.inputs /\ opts.fee = NoFee
  BY <1>3 DEF FInv, AllSent
<1>20. Found(info, e, utxos)
  BY Zenon DEF FInv, InfoHolds, e, info
<1> HIDE DEF info
<1>21. CASE opts.inputs # {}
  <2>1. Funded = [error |-> "none", inputs |-> txp.inputs,
                  fee |-> IF txp.fee = NoFee THEN GetEstimatedFee(txp, Cardinality(txp.inputs))
                                             ELSE txp.fee]
    BY <1>3, <1>21, Zenon DEF Funded
  <2>2. /\ v.inputs = txp.inputs /\ error = CheckTx(v, utxos)
        /\ v.fee = IF txp.fee = NoFee THEN GetEstimatedFee(txp, Cardinality(txp.inputs)) ELSE txp.fee
    BY <1>8, <2>1 DEF error
  <2>3. WellFunded' /\ RefusedOnlyIfPoor' /\ ConfirmedFirst'
    <3>1. ~Selecting'
      BY <1>1, <1>21, Zenon DEF Selecting
    <3> QED
      BY <3>1, Zenon DEF WellFunded, RefusedOnlyIfPoor, ConfirmedFirst
  <2>4. ASSUME info.inputs # {},
               \/ /\ opts.sendMax
                  /\ opts.feePerKb # NoFee \/ (opts.feeLevel = "normal" /\ steady)
                  /\ wallet.addressType = EmptyTxp(0).addressType
               \/ opts.fee # NoFee,
               GetEstimatedSize(v, n) <= MAX_TX_SIZE,
               info.fee <= MAX_TX_FEE
        PROVE  error = "none" /\ v.fee = Sum(utxos, v.inputs) - GetTotalAmount(v)
    <3>1. opts.outputs = <<info.amount>> /\ opts.inputs = info.inputs
      BY <1>1, <1>19, <2>4 DEF FInv, AllSent, info
    <3>2. v.fee = info.fee
      <4>1. CASE opts.fee # NoFee
        <5>1. opts.fee = info.fee
          BY <1>1, <2>4, <4>1 DEF FInv, AllSent, info
        <5> QED
          BY <1>3, <2>2, <4>1, <5>1
      <4>2. CASE opts.fee = NoFee
        <5>1. /\ opts.sendMax
              /\ opts.feePerKb # NoFee \/ (opts.feeLevel = "normal" /\ steady)
              /\ wallet.addressType = IF wallet.n > 1 THEN "P2SH" ELSE "P2PKH"
          BY <2>4, <4>2 DEF EmptyTxp, Txp
        <5>2. txp.feePerKb = info.feePerKb
          BY <1>1, <2>4, <5>1 DEF FInv, FoundAt, info
        <5>3. /\ e.m = wallet.m /\ e.n = wallet.n /\ e.outputs = << >>
              /\ e.addressType = (IF wallet.n > 1 THEN "P2SH" ELSE "P2PKH")
              /\ e.feePerKb = info.feePerKb
          BY DEF e, InfoTxp
        <5>4. GetEstimatedFee(txp, n) = GetEstimatedFee(e, n)
          <6>1. txp.outputs = <<info.amount>>
            BY <1>7, <3>1
          <6> QED
            BY <1>7, <5>1, <5>2, <5>3, <6>1, OneOutput
        <5>5. info.fee = GetEstimatedFee(e, n)
          BY <1>20, <2>4, Zenon DEF Found, n
        <5> QED
          BY <1>3, <2>2, <3>1, <4>2, <5>4, <5>5 DEF n
      <4> QED
        BY <4>1, <4>2
    <3>3. GetEstimatedSize(v, n) \in Nat
      <4>1. n \in Nat
        <5>1. info.inputs \in SUBSET Output
          BY <1>20, Zenon DEF Found
        <5> QED
          BY <1>2, <5>1, OutputFacts DEF n
      <4>2. Len(v.outputs) \in Nat /\ v.m \in Nat \ {0} /\ v.n \in Nat \ {0}
        BY <1>2, <1>7, <1>8
      <4> QED
        BY <4>1, <4>2, Sizes
    <3>4. v.inputs = info.inputs /\ v.outputs = <<info.amount>>
      BY <1>3, <1>7, <1>8, <2>2, <3>1
    <3> QED
      BY <1>2, <1>4, <1>20, <2>2, <2>4, <3>2, <3>3, <3>4, AllSpent DEF n
  <2>5. SendMaxCreates'
    <3>1. EmptyTxp(0)'.addressType = EmptyTxp(0).addressType
      BY <1>1 DEF EmptyTxp, Txp
    <3> SUFFICES ASSUME req'.info.inputs # {},
                        \/ /\ opts'.sendMax
                           /\ opts'.feePerKb # NoFee \/ (opts'.feeLevel = "normal" /\ steady')
                           /\ wallet'.addressType = EmptyTxp(0)'.addressType
                        \/ opts'.fee # NoFee,
                        txp' # NoTxp =>
                          /\ GetEstimatedSize(txp', Cardinality(req'.info.inputs)) <= MAX_TX_SIZE
                          /\ req'.info.fee <= MAX_TX_FEE
                 PROVE  /\ req'.error \in {"none", "TX_CANNOT_CREATE"}
                        /\ req'.pc = "created" =>
                             txp'.fee = Sum(utxos', txp'.inputs) - GetTotalAmount(txp')
      BY Zenon DEF SendMaxCreates
    <3>2. /\ GetEstimatedSize(v, n) <= MAX_TX_SIZE /\ info.fee <= MAX_TX_FEE
          /\ info.inputs # {}
      BY <1>1, <1>8, <1>10 DEF n
    <3>3. error = "none" /\ v.fee = Sum(utxos, v.inputs) - GetTotalAmount(v)
      BY <1>1, <2>4, <3>1, <3>2
    <3> QED
      BY <1>1, <1>10, <3>3
  <2> QED
    BY <1>11, <1>12, <1>13, <1>14, <1>15, <1>16, <1>17, <2>3, <2>5 DEF FInv
<1>22. CASE opts.inputs = {}
  <2>1. opts.fee = NoFee /\ ~opts.sendMax
    <3>1. opts.fee = NoFee
      BY <1>18, <1>22
    <3>2. ASSUME opts.sendMax
          PROVE  FALSE
      <4>1. opts.outputs = <<info.amount>> /\ info.inputs = {}
        BY <1>19, <1>22, <3>2
      <4>2. info.amount = 0
        BY <1>20, <4>1 DEF Found
      <4> QED
        BY <1>6, <4>1, <4>2
    <3> QED
      BY <3>1, <3>2
  <2>2. Payable(txp)
    <3>1. Len(txp.outputs) \in Nat /\ txp.m \in Nat \ {0} /\ txp.n \in Nat \ {0}
      BY <1>2, <1>7
    <3>2. GetEstimatedSizeForSingleInput(txp) \in Nat /\ GetEstimatedSize(txp, 0) \in Nat
      BY <3>1, Sizes
    <3>3. GetTotalAmount(txp) \in Nat /\ GetTotalAmount(txp) > 0
      BY <1>5, <1>6, <1>7, Totals
    <3>4. txp.feePerKb \in Nat
      BY <1>3, <1>22
    <3> QED
      BY <3>2, <3>3, <3>4 DEF Payable
  <2> DEFINE X == opts.utxosToExclude
             r == SelectTxInputs(txp, utxos, X)
             rate == ToSatoshi(FeeWith(v, Cardinality(v.inputs)))
             change == Sum(utxos, v.inputs) - GetTotalAmount(v) - v.fee
             least == Min({utxos[o].confirmations : o \in v.inputs})
  <2>3. Funded = r
    BY <1>3, <1>22, Zenon DEF Funded
  <2>4. v.inputs = r.inputs /\ v.fee = r.fee /\ v.hasChangeAddress
    BY <1>7, <1>8, <2>1, <2>3
  <2>5. /\ r.error # "none" => \A S \in SUBSET Usable(v, utxos, X) : ~CanPay(v, utxos, S)
        /\ r.error = "none" =>
             /\ CheckTx(v, utxos) \in {"TX_MAX_SIZE_EXCEEDED", "EXCEPTION", "DUST_AMOUNT", "none"}
             /\ v.inputs # {} /\ v.inputs \subseteq Usable(v, utxos, X)
             /\ v.fee \in rate .. (rate + DustThreshold)
             /\ CheckTx(v, utxos) = "none" => change = 0 \/ change >= DUST_AMOUNT
             /\ \A g \in {6, 1} : least < g =>
                  \A S \in SUBSET {o \in Usable(v, utxos, X) : utxos[o].confirmations >= g} :
                    ~CanPay(v, utxos, S)
    BY <1>2, <1>9, <2>2, <2>4, Filled
  <2>6. \A S : PayFor(S)' <=> CanPay(v, utxos, S)
    <3>1. utxos' = utxos /\ txp' = v
      BY <1>1
    <3>2. ASSUME NEW S
          PROVE  PayFor(S)' <=> CanPay(v, utxos, S)
      <4>1. PayFor(S)' <=> CanPay(txp', utxos', S)
        BY Zenon DEF PayFor, CanPay
      <4> QED
        BY <3>1, <4>1, Zenon
    <3> QED
      BY <3>2
  <2>7. error = IF r.error = "none" THEN CheckTx(v, utxos) ELSE r.error
    BY <2>3, Zenon DEF error
  <2> HIDE DEF r, X
  <2>8. WellFunded'
    <3>1. ASSUME error = "none"
          PROVE  /\ v.inputs # {} /\ v.inputs \subseteq Usable(v, utxos, X)
                 /\ change = 0 \/ change >= DUST_AMOUNT
                 /\ v.fee \in rate .. (rate + DustThreshold)
      BY <2>5, <2>7, <3>1, Zenon
    <3> QED
      BY <1>1, <1>10, <3>1 DEF WellFunded, X
  <2>9. RefusedOnlyIfPoor'
    <3>1. ASSUME error \in {"INSUFFICIENT_FUNDS", "INSUFFICIENT_FUNDS_FOR_FEE", "LOCKED_FUNDS"}
          PROVE  r.error # "none"
      <4>1. error \notin {"TX_MAX_SIZE_EXCEEDED", "EXCEPTION", "DUST_AMOUNT", "none"}
        BY <3>1
      <4> QED
        BY <2>5, <2>7, <4>1, Zenon
    <3>2. ASSUME error \in {"INSUFFICIENT_FUNDS", "INSUFFICIENT_FUNDS_FOR_FEE", "LOCKED_FUNDS"}
          PROVE  \A S \in SUBSET Usable(v, utxos, X) : ~PayFor(S)'
      BY <2>5, <2>6, <3>1, <3>2, Zenon
    <3> QED
      BY <1>1, <1>10, <3>2, Zenon DEF RefusedOnlyIfPoor, X
  <2>10. ConfirmedFirst'
    <3>1. ASSUME error = "none"
          PROVE  \A g \in {6, 1} : least < g =>
                   \A S \in SUBSET {o \in Usable(v, utxos, X) : utxos[o].confirmations >= g} :
                     ~PayFor(S)'
      BY <2>5, <2>6, <2>7, <3>1, Zenon
    <3>2. req'.pc = "created" => error = "none"
      BY <1>10
    <3> QED
      BY <1>1, <3>1, <3>2, Zenon DEF ConfirmedFirst, X
  <2>11. SendMaxCreates'
    BY <1>1, <2>1, Zenon DEF SendMaxCreates
  <2> QED
    BY <1>11, <1>12, <1>13, <1>14, <1>15, <1>16, <1>17, <2>8, <2>9, <2>10, <2>11 DEF FInv
<1> QED
  BY <1>21, <1>22

\* What a step leaves alone.
LEMMA Stutters ==
  ASSUME FInv, UNCHANGED vars
  PROVE  FInv'
<1>1. UNCHANGED <<wallet, utxos, creator, estimates, steady, opts, req, txp>>
  BY DEF vars
<1>2. Typed' /\ Proposed' /\ OutputsValid' /\ Priced' /\ AllSent' /\ FoundAt'
  BY <1>1 DEF FInv, Typed, Proposed, OutputsValid, Priced, AllSent, FoundAt
<1>3. InfoHolds'
  BY <1>1 DEF FInv, InfoHolds
<1>4. WellFunded'
  BY <1>1 DEF FInv, WellFunded, Selecting
<1>5. \A S : PayFor(S)' <=> PayFor(S)
  BY <1>1 DEF PayFor
<1>6. RefusedOnlyIfPoor'
  BY <1>1, <1>5 DEF FInv, RefusedOnlyIfPoor, Selecting
<1>7. ConfirmedFirst'
  BY <1>1, <1>5 DEF FInv, ConfirmedFirst, Selecting
<1>8. SendMaxCreates'
  BY <1>1 DEF FInv, SendMaxCreates, EmptyTxp, Txp
<1> QED
  BY <1>2, <1>3, <1>4, <1>6, <1>7, <1>8 DEF FInv

\* The invariant is inductive.
LEMMA Keeps == FInv /\ [Next]_vars => FInv'
<1> SUFFICES ASSUME FInv, [Next]_vars PROVE FInv'
  OBVIOUS
<1>1. CASE Validate
  BY <1>1, ValidateKeeps
<1>2. CASE SendMax
  BY <1>2, SendMaxKeeps
<1>3. CASE ValidateOutputs
  BY <1>3, ValidateOutputsKeeps
<1>4. CASE CanCreateTx
  BY <1>4, CanCreateTxKeeps
<1>5. CASE GetFeePerKb
  BY <1>5, GetFeePerKbKeeps
<1>6. CASE SelectInputs
  BY <1>6, SelectInputsKeeps
<1>7. CASE TellSendMaxInfo
  BY <1>7, TellSendMaxInfoKeeps
<1>8. CASE CreateAsTold
  BY <1>8, CreateAsToldKeeps
<1>9. CASE EstimatesChange
  BY <1>9, EstimatesChangeKeeps
<1>10. CASE UNCHANGED vars
  BY <1>10, Stutters
<1> QED
  BY <1>1, <1>2, <1>3, <1>4, <1>5, <1>6, <1>7, <1>8, <1>9, <1>10, Zenon DEF Next

\* What the invariant says of the amount found is SendMaxIsMax.
LEMMA FoundIsMax == FInv => SendMaxIsMax
<1> DEFINE info == req.info
           rate == info.feePerKb
           e == InfoTxp(wallet, opts.excludeUnconfirmedUtxos, rate)
           t == [EmptyTxp(rate) EXCEPT !.feePerKb = rate]
           best == Max({info.amount, MIN_OUTPUT_AMOUNT - 1})
           margin == ToSatoshi((Cardinality(Output) * FeePerInput(t)) \div 50) + 1
<1> SUFFICES ASSUME FInv, rate > 0,
                    NEW S \in SUBSET Available(t, utxos),
                    SizeWith(t, Cardinality(S)) <= MAX_TX_SIZE
             PROVE  Sum(utxos, S) - GetEstimatedFee(t, Cardinality(S)) <= best + margin
  BY Zenon DEF SendMaxIsMax
<1>1. Found(info, e, utxos)
  BY Zenon DEF FInv, InfoHolds
<1>2. Alike(e, t)
  <2>1. /\ t.m = wallet.m /\ t.n = wallet.n /\ t.outputs = << >> /\ t.feePerKb = rate
        /\ t.addressType = IF wallet.n > 1 THEN "P2SH" ELSE "P2PKH"
        /\ t.excludeUnconfirmedUtxos = opts.excludeUnconfirmedUtxos
    BY DEF EmptyTxp, Txp
  <2>2. /\ e.m = wallet.m /\ e.n = wallet.n /\ e.outputs = << >> /\ e.feePerKb = rate
        /\ e.addressType = IF wallet.n > 1 THEN "P2SH" ELSE "P2PKH"
        /\ e.excludeUnconfirmedUtxos = opts.excludeUnconfirmedUtxos
    BY DEF InfoTxp
  <2> HIDE DEF e, t
  <2> QED
    BY <2>1, <2>2, Zenon DEF Alike
<1> HIDE DEF e, t
<1>3. Bounded(info, t, utxos)
  BY <1>1, <1>2, AlikeFound, Zenon DEF Found
<1> QED
  BY <1>3, Zenon DEF Bounded

\* The invariant holds in every state.
LEMMA FInvHolds == Spec => []FInv
<1>1. Init => FInv
  BY Starts
<1>2. FInv /\ [Next]_vars => FInv'
  BY Keeps
<1> QED
  BY <1>1, <1>2, PTL DEF Spec

-----------------------------------------------------------------------------
(* The theorems.                                                           *)

\* selectTxInputs spends usable outputs only, all of what they are worth goes
\* to the outputs, a change that is not dust and the fee, and the fee is at
\* least its rate and at most a dust change above it.
THEOREM FundingIsWhole == Spec => []WellFunded
<1>1. FInv => WellFunded
  BY DEF FInv
<1> QED
  BY <1>1, FInvHolds, PTL

\* selectTxInputs calls the funds insufficient, or locked, only if no choice of
\* the usable outputs pays for the proposal.
THEOREM RefusalsAreRight == Spec => []RefusedOnlyIfPoor
<1>1. FInv => RefusedOnlyIfPoor
  BY DEF FInv
<1> QED
  BY <1>1, FInvHolds, PTL

\* The groups of selectTxInputs spend less confirmed outputs only if the
\* better confirmed ones cannot pay.
THEOREM ConfirmedGoFirst == Spec => []ConfirmedFirst
<1>1. FInv => ConfirmedFirst
  BY DEF FInv
<1> QED
  BY <1>1, FInvHolds, PTL

\* No choice of outputs leaves the receiver more than getSendMaxInfo finds, but
\* for the margin its estimate adds.
THEOREM NobodyGetsMore == Spec => []SendMaxIsMax
<1>1. FInv => SendMaxIsMax
  BY FoundIsMax
<1> QED
  BY <1>1, FInvHolds, PTL

\* What getSendMaxInfo finds can be sent, by createTx with sendMax or by a
\* client that names it, and nothing stays.
THEOREM AllOfItGoes == Spec => []SendMaxCreates
<1>1. FInv => SendMaxCreates
  BY DEF FInv
<1> QED
  BY <1>1, FInvHolds, PTL

=============================================================================
