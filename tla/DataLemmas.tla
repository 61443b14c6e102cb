----------------------------- MODULE DataLemmas -----------------------------
(***************************************************************************)
(* Facts about numbers and sequences that the proofs share.  Induction is  *)
(* over the members of a set, from the least number that is not in it; with *)
(* it the recursive function of Filter is shown to exist, and what it      *)
(* computes.                                                               *)
(***************************************************************************)
EXTENDS Lodash, WellFoundedInduction, TLAPS

-----------------------------------------------------------------------------
(* Numbers.                                                                 *)

\* Of a set of naturals there is a least one (by the well-founded order).
LEMMA LeastExists ==
  ASSUME NEW S \in SUBSET Nat, S # {}
  PROVE  \E m \in S : \A n \in S : m <= n
<1>1. PICK m \in S : \A n \in S : ~(<<n, m>> \in OpToRel(<, Nat))
  BY NatLessThanWellFounded, WFMin, Zenon
<1>2. \A n \in S : ~(n < m)
  BY <1>1 DEF OpToRel
<1> QED
  BY <1>2

\* A set that has 0, and with each number up to N the next one, has them all.
LEMMA Induction ==
  ASSUME NEW N \in Nat, NEW S, 0 \in S,
         \A n \in 0..N : n + 1 \in 0..N /\ n \in S => n + 1 \in S
  PROVE  0..N \subseteq S
<1> SUFFICES ASSUME (0..N) \ S # {} PROVE FALSE
  OBVIOUS
<1>1. PICK m \in (0..N) \ S : \A n \in (0..N) \ S : m <= n
  <2>1. (0..N) \ S \in SUBSET Nat
    OBVIOUS
  <2> QED
    BY <2>1, LeastExists
<1>2. m - 1 \in 0..N /\ m - 1 \in S
  BY <1>1
<1> QED
  BY <1>1, <1>2

-----------------------------------------------------------------------------
(* Filter.                                                                  *)

\* g filters the first m elements of a sequence, one after the other.
Filters(g, s, keep, m) ==
  g = [n \in 0..m |->
        IF n = 0 THEN << >>
        ELSE IF s[n] \in keep THEN Append(g[n - 1], s[n]) ELSE g[n - 1]]

\* There is such a function, for every number of elements.
LEMMA FilterExists ==
  ASSUME NEW s, NEW keep, NEW N \in Nat
  PROVE  \E g : Filters(g, s, keep, N)
<1> DEFINE S == {m \in 0..N : \E g : Filters(g, s, keep, m)}
<1>1. 0 \in S
  <2> DEFINE g == [n \in 0..0 |-> << >>]
  <2>1. Filters(g, s, keep, 0)
    BY DEF Filters
  <2> QED
    BY <2>1
<1>2. ASSUME NEW m \in 0..N, m + 1 \in 0..N, m \in S
      PROVE  m + 1 \in S
  <2>1. PICK g : Filters(g, s, keep, m)
    BY <1>2
  <2> DEFINE h == [n \in 0..(m + 1) |->
         IF n <= m THEN g[n]
         ELSE IF s[n] \in keep THEN Append(g[n - 1], s[n]) ELSE g[n - 1]]
  <2>2. ASSUME NEW n \in 0..(m + 1)
        PROVE  h[n] = IF n = 0 THEN << >>
                ELSE IF s[n] \in keep THEN Append(h[n - 1], s[n]) ELSE h[n - 1]
    <3>1. m \in Nat /\ n \in Nat /\ (n # 0 => n - 1 \in 0..m)
      OBVIOUS
    <3>2. CASE n <= m
      <4>1. n \in 0..m /\ h[n] = g[n] /\ (n # 0 => h[n - 1] = g[n - 1])
        BY <3>1, <3>2
      <4>2. g[n] = IF n = 0 THEN << >>
                ELSE IF s[n] \in keep THEN Append(g[n - 1], s[n]) ELSE g[n - 1]
        BY <2>1, <4>1 DEF Filters
      <4> QED
        BY <4>1, <4>2, Zenon
    <3>3. CASE n = m + 1
      BY <3>1, <3>3
    <3> QED
      BY <3>1, <3>2, <3>3
  <2>3. Filters(h, s, keep, m + 1)
    BY <2>2, Zenon DEF Filters
  <2> HIDE DEF h
  <2> QED
    BY <1>2, <2>3
<1>3. 0..N \subseteq S
  BY <1>1, <1>2, Induction
<1> QED
  BY <1>3

\* Filter is the last value of that function.
LEMMA FilterAs ==
  ASSUME NEW s, NEW keep, Len(s) \in Nat
  PROVE  \E g : Filters(g, s, keep, Len(s)) /\ Filter(s, keep) = g[Len(s)]
<1> DEFINE g == CHOOSE kept : kept = [n \in 0..Len(s) |->
        IF n = 0 THEN << >>
        ELSE IF s[n] \in keep THEN Append(kept[n - 1], s[n]) ELSE kept[n - 1]]
<1>1. \E kept : Filters(kept, s, keep, Len(s))
  BY FilterExists
<1>2. \E kept : kept = [n \in 0..Len(s) |->
        IF n = 0 THEN << >>
        ELSE IF s[n] \in keep THEN Append(kept[n - 1], s[n]) ELSE kept[n - 1]]
  BY <1>1, Zenon DEF Filters
<1>3. Filters(g, s, keep, Len(s))
  BY <1>2, Zenon DEF Filters
<1>4. Filter(s, keep) = g[Len(s)]
  BY Zenon DEF Filter
<1> QED
  BY <1>3, <1>4

\* Its values, one by one.
LEMMA FiltersAt ==
  ASSUME NEW g, NEW s, NEW keep, NEW N \in Nat, Filters(g, s, keep, N)
  PROVE  /\ g[0] = << >>
         /\ \A n \in 1..N :
              /\ s[n] \in keep => g[n] = Append(g[n - 1], s[n])
              /\ s[n] \notin keep => g[n] = g[n - 1]
<1>1. \A n \in 0..N : g[n] = IF n = 0 THEN << >>
        ELSE IF s[n] \in keep THEN Append(g[n - 1], s[n]) ELSE g[n - 1]
  BY Zenon DEF Filters
<1>2. 0 \in 0..N /\ \A n \in 1..N : n \in 0..N /\ n # 0
  OBVIOUS
<1>3. g[0] = << >>
  BY <1>1, <1>2, Zenon
<1>4. ASSUME NEW n \in 1..N
      PROVE  /\ s[n] \in keep => g[n] = Append(g[n - 1], s[n])
             /\ s[n] \notin keep => g[n] = g[n - 1]
  BY <1>1, <1>2, Zenon
<1> QED
  BY <1>3, <1>4

\* Sequences that agree on their first elements, and on which to keep, have
\* these filtered to the same.
LEMMA FiltersAgree ==
  ASSUME NEW g, NEW s, NEW keep, NEW M \in Nat, Filters(g, s, keep, M),
         NEW h, NEW t, NEW hold, NEW N \in Nat, Filters(h, t, hold, N),
         NEW L \in Nat, L <= M, L <= N,
         \A n \in 1..L : s[n] = t[n] /\ (s[n] \in keep <=> t[n] \in hold)
  PROVE  \A n \in 0..L : g[n] = h[n]
<1> DEFINE S == {n \in 0..L : g[n] = h[n]}
<1>1. /\ g[0] = << >>
      /\ \A n \in 1..M :
           /\ s[n] \in keep => g[n] = Append(g[n - 1], s[n])
           /\ s[n] \notin keep => g[n] = g[n - 1]
  BY FiltersAt
<1>2. /\ h[0] = << >>
      /\ \A n \in 1..N :
           /\ t[n] \in hold => h[n] = Append(h[n - 1], t[n])
           /\ t[n] \notin hold => h[n] = h[n - 1]
  BY FiltersAt
<1>3. 0 \in S
  BY <1>1, <1>2
<1>4. ASSUME NEW n \in 0..L, n + 1 \in 0..L, n \in S
      PROVE  n + 1 \in S
  <2>1. n + 1 \in 1..M /\ n + 1 \in 1..N /\ n + 1 \in 1..L /\ (n + 1) - 1 = n
    BY <1>4
  <2>2. g[n] = h[n] /\ s[n + 1] = t[n + 1] /\ (s[n + 1] \in keep <=> t[n + 1] \in hold)
    BY <1>4, <2>1
  <2>3. CASE s[n + 1] \in keep
    <3>1. g[n + 1] = Append(g[n], s[n + 1]) /\ h[n + 1] = Append(h[n], t[n + 1])
      BY <1>1, <1>2, <2>1, <2>2, <2>3
    <3> QED
      BY <1>4, <2>2, <3>1
  <2>4. CASE s[n + 1] \notin keep
    <3>1. g[n + 1] = g[n] /\ h[n + 1] = h[n]
      BY <1>1, <1>2, <2>1, <2>2, <2>4
    <3> QED
      BY <1>4, <2>2, <3>1
  <2> QED
    BY <2>3, <2>4
<1>5. 0..L \subseteq S
  BY <1>3, <1>4, Induction
<1> QED
  BY <1>5

\* An element more, at the end, is kept or not.
LEMMA FilterLonger ==
  ASSUME NEW s, NEW keep, NEW t, NEW hold, NEW N \in Nat, Len(s) = N, Len(t) = N + 1,
         \A n \in 1..N : s[n] = t[n] /\ (s[n] \in keep <=> t[n] \in hold)
  PROVE  Filter(t, hold) = IF t[N + 1] \in hold THEN Append(Filter(s, keep), t[N + 1])
                                                ELSE Filter(s, keep)
<1>1. PICK g : Filters(g, s, keep, N) /\ Filter(s, keep) = g[N]
  BY FilterAs
<1>2. PICK h : Filters(h, t, hold, N + 1) /\ Filter(t, hold) = h[N + 1]
  BY FilterAs
<1>3. g[N] = h[N]
  <2>1. \A n \in 0..N : g[n] = h[n]
    BY <1>1, <1>2, FiltersAgree
  <2> QED
    BY <2>1
<1>4. /\ t[N + 1] \in hold => h[N + 1] = Append(h[N], t[N + 1])
      /\ t[N + 1] \notin hold => h[N + 1] = h[N]
  <2>1. \A n \in 1..(N + 1) :
           /\ t[n] \in hold => h[n] = Append(h[n - 1], t[n])
           /\ t[n] \notin hold => h[n] = h[n - 1]
    BY <1>2, FiltersAt
  <2>2. N + 1 \in 1..(N + 1) /\ (N + 1) - 1 = N
    OBVIOUS
  <2> QED
    BY <2>1, <2>2
<1> QED
  BY <1>1, <1>2, <1>3, <1>4

\* The filtered sequence is the sequence at some places, in the same order, and
\* these are all the places of what is to be kept.
PlacesOf(p, s, keep, m) ==
  /\ p \in Seq(1..m)
  /\ \A i, j \in DOMAIN p : i < j => p[i] < p[j]
  /\ \A i \in DOMAIN p : s[p[i]] \in keep
  /\ \A n \in 1..m : s[n] \in keep => \E i \in DOMAIN p : p[i] = n

LEMMA FiltersPlaces ==
  ASSUME NEW g, NEW s, NEW keep, NEW N \in Nat, Filters(g, s, keep, N)
  PROVE  \A n \in 0..N : \E p : /\ PlacesOf(p, s, keep, n)
                                /\ g[n] = [i \in 1..Len(p) |-> s[p[i]]]
<1> DEFINE P(n, p) == /\ PlacesOf(p, s, keep, n)
                      /\ g[n] = [i \in 1..Len(p) |-> s[p[i]]]
           S == {n \in 0..N : \E p : P(n, p)}
<1>1. /\ g[0] = << >>
      /\ \A n \in 1..N :
           /\ s[n] \in keep => g[n] = Append(g[n - 1], s[n])
           /\ s[n] \notin keep => g[n] = g[n - 1]
  BY FiltersAt
<1>2. 0 \in S
  <2>1. P(0, << >>)
    BY <1>1 DEF PlacesOf
  <2> QED
    BY <2>1
<1>3. ASSUME NEW n \in 0..N, n + 1 \in 0..N, n \in S
      PROVE  n + 1 \in S
  <2>1. PICK p : P(n, p)
    BY <1>3
  <2>2. p \in Seq(1..n) /\ n \in Nat /\ (n + 1) - 1 = n /\ n + 1 \in 1..N
    BY <1>3, <2>1 DEF PlacesOf
  <2>3. CASE s[n + 1] \in keep
    <3> DEFINE q == Append(p, n + 1)
    <3>1. /\ q \in Seq(1..(n + 1)) /\ Len(q) = Len(p) + 1
          /\ q[Len(p) + 1] = n + 1 /\ \A i \in 1..Len(p) : q[i] = p[i]
          /\ \A i \in 1..Len(p) : p[i] \in 1..n
      <4>1. p \in Seq(1..(n + 1)) /\ n + 1 \in 1..(n + 1)
        BY <2>2
      <4> QED
        BY <2>2, <4>1
    <3> HIDE DEF q
    <3>2. PlacesOf(q, s, keep, n + 1)
      <4>1. DOMAIN q = 1..(Len(p) + 1) /\ DOMAIN p = 1..Len(p) /\ Len(p) \in Nat
        BY <2>2, <3>1
      <4>2. \A i, j \in DOMAIN p : i < j => p[i] < p[j]
        BY <2>1 DEF PlacesOf
      <4>3. \A i, j \in DOMAIN q : i < j => q[i] < q[j]
        <5> SUFFICES ASSUME NEW i \in DOMAIN q, NEW j \in DOMAIN q, i < j
                     PROVE  q[i] < q[j]
          OBVIOUS
        <5>1. i \in 1..Len(p) /\ q[i] = p[i] /\ p[i] \in 1..n
          BY <3>1, <4>1
        <5>2. CASE j = Len(p) + 1
          BY <2>2, <3>1, <5>1, <5>2
        <5>3. CASE j # Len(p) + 1
          <6>1. j \in 1..Len(p) /\ q[j] = p[j]
            BY <3>1, <4>1, <5>3
          <6> QED
            BY <4>1, <4>2, <5>1, <6>1
        <5> QED
          BY <5>2, <5>3
      <4>4. \A i \in DOMAIN q : s[q[i]] \in keep
        <5>1. \A i \in DOMAIN p : s[p[i]] \in keep
          BY <2>1 DEF PlacesOf
        <5> QED
          BY <2>3, <3>1, <4>1, <5>1
      <4>5. \A k \in 1..(n + 1) : s[k] \in keep => \E i \in DOMAIN q : q[i] = k
        <5> SUFFICES ASSUME NEW k \in 1..(n + 1), s[k] \in keep
                     PROVE  \E i \in DOMAIN q : q[i] = k
          OBVIOUS
        <5>1. CASE k = n + 1
          BY <3>1, <4>1, <5>1
        <5>2. CASE k # n + 1
          <6>1. k \in 1..n
            BY <2>2, <5>2
          <6>2. PICK i \in DOMAIN p : p[i] = k
            BY <2>1, <6>1 DEF PlacesOf
          <6> QED
            BY <3>1, <4>1, <6>2
        <5> QED
          BY <5>1, <5>2
      <4> QED
        BY <3>1, <4>3, <4>4, <4>5 DEF PlacesOf
    <3>3. g[n + 1] = Append(g[n], s[n + 1])
      BY <1>1, <2>2, <2>3
    <3>4. g[n + 1] = [i \in 1..Len(q) |-> s[q[i]]]
      <4>1. g[n] = [i \in 1..Len(p) |-> s[p[i]]] /\ Len(p) \in Nat
        BY <2>1, <2>2
      <4> QED
        BY <3>1, <3>3, <4>1
    <3> QED
      BY <1>3, <3>2, <3>4
  <2>4. CASE s[n + 1] \notin keep
    <3>1. PlacesOf(p, s, keep, n + 1)
      BY <2>1, <2>2, <2>4 DEF PlacesOf
    <3>2. g[n + 1] = g[n]
      BY <1>1, <2>2, <2>4
    <3> QED
      BY <1>3, <2>1, <3>1, <3>2
  <2> QED
    BY <2>3, <2>4
<1>4. 0..N \subseteq S
  BY <1>2, <1>3, Induction
<1> QED
  BY <1>4

LEMMA FilterPlaces ==
  ASSUME NEW s, NEW keep, Len(s) \in Nat
  PROVE  \E p : /\ PlacesOf(p, s, keep, Len(s))
                /\ Filter(s, keep) = [i \in 1..Len(p) |-> s[p[i]]]
<1>1. PICK g : Filters(g, s, keep, Len(s)) /\ Filter(s, keep) = g[Len(s)]
  BY FilterAs
<1>2. \A n \in 0..Len(s) : \E p : /\ PlacesOf(p, s, keep, n)
                                   /\ g[n] = [i \in 1..Len(p) |-> s[p[i]]]
  BY <1>1, FiltersPlaces
<1>3. Len(s) \in 0..Len(s)
  OBVIOUS
<1> QED
  BY <1>1, <1>2, <1>3

\* Of N elements those after the first m are kept, and none of these.
EndKept(s, keep, N, m) ==
  /\ N \in Nat /\ Len(s) = N /\ m \in 0..N
  /\ \A n \in 1..m : s[n] \notin keep
  /\ \A n \in (m + 1)..N : s[n] \in keep

\* Then the rest of the sequence remains.
LEMMA FilterEnd ==
  ASSUME NEW s, NEW keep, NEW N, NEW m, EndKept(s, keep, N, m)
  PROVE  /\ Filter(s, keep) = [i \in 1..(N - m) |-> s[m + i]]
         /\ Len(Filter(s, keep)) = N - m
         /\ \A i \in 1..(N - m) : Filter(s, keep)[i] = s[m + i]
<1> USE DEF EndKept
<1>1. PICK g : Filters(g, s, keep, N) /\ Filter(s, keep) = g[N]
  BY FilterAs
<1>2. /\ g[0] = << >>
      /\ \A n \in 1..N :
           /\ s[n] \in keep => g[n] = Append(g[n - 1], s[n])
           /\ s[n] \notin keep => g[n] = g[n - 1]
  BY <1>1, FiltersAt
<1> DEFINE Rest(n) == IF n <= m THEN << >> ELSE [i \in 1..(n - m) |-> s[m + i]]
           T == {n \in 0..N : g[n] = Rest(n)}
<1>3. 0 \in T
  BY <1>2
<1>4. ASSUME NEW n \in 0..N, n + 1 \in 0..N, n \in T
      PROVE  n + 1 \in T
  <2>1. n + 1 \in 1..N /\ (n + 1) - 1 = n /\ m \in Nat
    BY <1>4
  <2>2. CASE n + 1 <= m
    <3>1. s[n + 1] \notin keep
      BY <2>1, <2>2
    <3> QED
      BY <1>2, <1>4, <2>1, <2>2, <3>1
  <2>3. CASE ~(n + 1 <= m)
    <3>1. s[n + 1] \in keep
      BY <2>1, <2>3
    <3>2. g[n + 1] = Append(g[n], s[n + 1])
      BY <1>2, <2>1, <3>1
    <3>3. g[n] = [i \in 1..(n - m) |-> s[m + i]]
      BY <1>4, <2>1, <2>3
    <3>4. Append(g[n], s[n + 1]) = [i \in 1..((n + 1) - m) |-> s[m + i]]
      BY <2>1, <2>3, <3>3
    <3> QED
      BY <1>4, <2>1, <2>3, <3>2, <3>4
  <2> QED
    BY <2>2, <2>3
<1>5. 0..N \subseteq T
  <2> HIDE DEF T
  <2> QED
    BY <1>3, <1>4, Induction
<1>6. g[N] = Rest(N)
  BY <1>5
<1>7. g[N] = [i \in 1..(N - m) |-> s[m + i]] /\ N - m \in Nat
  BY <1>6
<1>8. Len(g[N]) = N - m /\ \A i \in 1..(N - m) : g[N][i] = s[m + i]
  BY <1>7
<1> QED
  BY <1>1, <1>7, <1>8
=============================================================================
