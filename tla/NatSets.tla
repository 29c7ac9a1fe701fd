------------------------------ MODULE NatSets ------------------------------
(***************************************************************************)
(* Induction over the natural numbers, for a set instead of a predicate:   *)
(* to prove P(n) for all n, take the set {n \in Nat : P(n)}.  And, by it,   *)
(* the functions that are defined from their own values, the operators of  *)
(* Subseqs, and sequences that are joined.                                 *)
(***************************************************************************)
EXTENDS Integers, Subseqs, SequenceTheorems, WellFoundedInduction, FiniteSetTheorems, TLAPS

LEMMA LessThanWellFounded == IsWellFoundedOn({p \in Nat \X Nat : p[1] < p[2]}, Nat)
<1>. DEFINE R == {p \in Nat \X Nat : p[1] < p[2]}
<1>1. OpToRel(<, Nat) = R
  BY DEF OpToRel
<1>. QED
  BY <1>1, NatLessThanWellFounded

\* What holds of 0, and of n + 1 when it holds of n, holds of every number.
LEMMA NatSetInduction ==
  ASSUME NEW S, 0 \in S, \A n \in Nat : n \in S => n + 1 \in S
  PROVE  \A n \in Nat : n \in S
<1>. DEFINE R == {p \in Nat \X Nat : p[1] < p[2]}
           T == Nat \ S
<1>. SUFFICES ASSUME T # {}  PROVE FALSE
  OBVIOUS
<1>1. PICK x \in T : \A y \in T : ~ (<<y, x>> \in R)
  <2>1. T \subseteq Nat
    OBVIOUS
  <2>. HIDE DEF T, R
  <2>2. IsWellFoundedOn(R, Nat)
    BY LessThanWellFounded DEF R
  <2>. QED
    BY <2>1, <2>2, WFMin
<1>2. x # 0 /\ x - 1 \in Nat /\ x \in Nat
  OBVIOUS
<1>3. <<x - 1, x>> \in R
  <2>1. x - 1 < x
    BY <1>2
  <2>. DEFINE q == <<x - 1, x>>
  <2>2. q \in Nat \X Nat /\ q[1] = x - 1 /\ q[2] = x
    BY <1>2
  <2>. HIDE DEF q
  <2>3. q \in R
    BY <2>1, <2>2
  <2>. QED
    BY <2>3 DEF q
<1>. HIDE DEF R
<1>4. x - 1 \notin T
  BY <1>1, <1>3
<1>. QED
  BY <1>2, <1>4

\* A function with values in V that is defined on A from its value at a larger
\* number, and elsewhere by e, exists.
Ascends(N, A, V, nxt, h, e) ==
  /\ N \in Nat
  /\ \A p \in 1..N : IF p \in A THEN nxt[p] \in (p + 1)..N ELSE e[p] \in V
  /\ \A p \in 1..N : \A v \in V : h[<<p, v>>] \in V

LEMMA ChainFunction ==
  ASSUME NEW N, NEW A, NEW V, NEW nxt, NEW h, NEW e, Ascends(N, A, V, nxt, h, e)
  PROVE  \E g \in [1..N -> V] :
           g = [p \in 1..N |-> IF p \in A THEN h[<<p, g[nxt[p]]>>] ELSE e[p]]
<1>. USE DEF Ascends
<1>. DEFINE Good(g, a) == /\ g \in [a..N -> V]
                          /\ \A p \in a..N : g[p] = IF p \in A THEN h[<<p, g[nxt[p]]>>] ELSE e[p]
           S == {n \in Nat : n <= N => \E g : Good(g, N + 1 - n)}
<1>1. 0 \in S
  <2>. DEFINE g == [p \in (N + 1)..N |-> e[p]]
  <2>1. N + 1 - 0 = N + 1 /\ (N + 1)..N = {}
    OBVIOUS
  <2>2. Good(g, N + 1)
    BY <2>1
  <2>. HIDE DEF g, Good
  <2>3. \E f : Good(f, N + 1 - 0)
    BY <2>1, <2>2
  <2>. QED
    BY <2>3
<1>2. ASSUME NEW n \in Nat, n \in S  PROVE n + 1 \in S
  <2>. SUFFICES ASSUME n + 1 <= N  PROVE \E g : Good(g, N + 1 - (n + 1))
    OBVIOUS
  <2>. DEFINE a == N - n
  <2>1. a \in 1..N /\ N + 1 - n = a + 1 /\ N + 1 - (n + 1) = a /\ n <= N
    OBVIOUS
  <2>2. PICK g : Good(g, a + 1)
    BY <1>2, <2>1
  <2>. HIDE DEF a
  <2>. DEFINE w == IF a \in A THEN h[<<a, g[nxt[a]]>>] ELSE e[a]
              f == [p \in a..N |-> IF p = a THEN w ELSE g[p]]
  <2>3. \A p \in a..N : p = a \/ p \in (a + 1)..N
    BY <2>1
  <2>4. ASSUME NEW p \in a..N, p \in A
        PROVE  nxt[p] \in (a + 1)..N /\ nxt[p] \in a..N /\ nxt[p] # a
    <3>1. p \in 1..N /\ p >= a
      BY <2>1
    <3>2. nxt[p] \in (p + 1)..N
      BY <2>4, <3>1
    <3>. QED
      BY <2>1, <3>1, <3>2
  <2>5. w \in V
    <3>1. CASE a \in A
      <4>1. a \in a..N
        BY <2>1
      <4>2. g[nxt[a]] \in V
        BY <2>2, <2>4, <3>1, <4>1
      <4>. QED
        BY <2>1, <3>1, <4>2
    <3>2. CASE a \notin A
      BY <2>1, <3>2
    <3>. QED
      BY <3>1, <3>2
  <2>6. f \in [a..N -> V]
    <3>. HIDE DEF w
    <3>. QED
      BY <2>2, <2>3, <2>5
  <2>7. ASSUME NEW p \in a..N, p \in A  PROVE f[nxt[p]] = g[nxt[p]]
    <3>. HIDE DEF w
    <3>. QED
      BY <2>4, <2>7
  <2>8. ASSUME NEW p \in a..N
        PROVE  f[p] = IF p \in A THEN h[<<p, f[nxt[p]]>>] ELSE e[p]
    <3>1. CASE p = a
      <4>1. f[p] = w
        BY <3>1
      <4>. HIDE DEF f
      <4>. QED
        BY <2>7, <3>1, <4>1
    <3>2. CASE p \in (a + 1)..N
      <4>1. p # a
        BY <2>1, <3>2
      <4>2. f[p] = g[p]
        BY <4>1
      <4>. HIDE DEF f
      <4>. QED
        BY <2>2, <2>7, <3>2, <4>2
    <3>. QED
      BY <2>3, <3>1, <3>2
  <2>9. Good(f, a)
    <3>. HIDE DEF f
    <3>. QED
      BY <2>6, <2>8
  <2>. QED
    BY <2>1, <2>9
<1>3. \A n \in Nat : n \in S
  <2>. HIDE DEF S
  <2>. QED
    BY <1>1, <1>2, NatSetInduction
<1>4. PICK g : Good(g, 1)
  <2>1. N \in S /\ N + 1 - N = 1
    BY <1>3
  <2>. QED
    BY <2>1
<1>5. g = [p \in 1..N |-> g[p]]
  BY <1>4
<1>6. g = [p \in 1..N |-> IF p \in A THEN h[<<p, g[nxt[p]]>>] ELSE e[p]]
  BY <1>4, <1>5
<1>. QED
  BY <1>4, <1>6

\* A function with values in V that starts with x and goes from one number to
\* the next by h exists.
Steps(N, V, x, h) ==
  N \in Nat /\ x \in V /\ \A k \in 1..N : \A v \in V : h[<<k, v>>] \in V

LEMMA StepFunction ==
  ASSUME NEW N, NEW V, NEW x, NEW h, Steps(N, V, x, h)
  PROVE  \E g \in [0..N -> V] : g = [k \in 0..N |-> IF k = 0 THEN x ELSE h[<<k, g[k - 1]>>]]
<1>. USE DEF Steps
<1>. DEFINE Good(g, a) == /\ g \in [0..a -> V]
                          /\ g = [k \in 0..a |-> IF k = 0 THEN x ELSE h[<<k, g[k - 1]>>]]
           S == {n \in Nat : n <= N => \E g : Good(g, n)}
<1>1. 0 \in S
  <2>. DEFINE g == [k \in 0..0 |-> x]
  <2>1. Good(g, 0)
    OBVIOUS
  <2>. HIDE DEF g, Good
  <2>. QED
    BY <2>1
<1>2. ASSUME NEW n \in Nat, n \in S  PROVE n + 1 \in S
  <2>. SUFFICES ASSUME n + 1 <= N  PROVE \E g : Good(g, n + 1)
    OBVIOUS
  <2>1. PICK g : Good(g, n)
    BY <1>2
  <2>. DEFINE w == h[<<n + 1, g[n]>>]
              f == [k \in 0..(n + 1) |-> IF k = n + 1 THEN w ELSE g[k]]
  <2>2. w \in V
    <3>1. g[n] \in V /\ n + 1 \in 1..N
      BY <2>1
    <3>. QED
      BY <3>1
  <2>. HIDE DEF w
  <2>3. f \in [0..(n + 1) -> V]
    BY <2>1, <2>2
  <2>4. ASSUME NEW k \in 0..(n + 1)
        PROVE  f[k] = IF k = 0 THEN x ELSE h[<<k, f[k - 1]>>]
    <3>1. CASE k = n + 1
      <4>1. f[k] = w /\ k - 1 = n /\ f[n] = g[n] /\ k # 0
        BY <3>1
      <4>. HIDE DEF f
      <4>. QED
        BY <3>1, <4>1 DEF w
    <3>2. CASE k \in 0..n
      <4>1. f[k] = g[k] /\ (k # 0 => f[k - 1] = g[k - 1])
        BY <3>2
      <4>2. g[k] = IF k = 0 THEN x ELSE h[<<k, g[k - 1]>>]
        BY <2>1, <3>2
      <4>. HIDE DEF f
      <4>. QED
        BY <4>1, <4>2
    <3>. QED
      BY <3>1, <3>2
  <2>5. f = [k \in 0..(n + 1) |-> f[k]]
    OBVIOUS
  <2>. HIDE DEF f
  <2>6. f = [k \in 0..(n + 1) |-> IF k = 0 THEN x ELSE h[<<k, f[k - 1]>>]]
    BY <2>4, <2>5
  <2>7. Good(f, n + 1)
    BY <2>3, <2>6
  <2>. QED
    BY <2>7
<1>3. \A n \in Nat : n \in S
  <2>. HIDE DEF S
  <2>. QED
    BY <1>1, <1>2, NatSetInduction
<1>. QED
  BY <1>3
-----------------------------------------------------------------------------
\* pos tells where in s the elements of w are, which are those at T up to n.
KeptAt(pos, w, s, T, n) ==
  /\ pos \in [1..Len(w) -> 1..n]
  /\ \A k \in 1..Len(w) : pos[k] \in T /\ w[k] = s[pos[k]]
  /\ \A j, k \in 1..Len(w) : j < k => pos[j] < pos[k]
  /\ \A q \in 1..n : q \in T => \E k \in 1..Len(w) : pos[k] = q

\* What KeptTo and Kept keep.
LEMMA KeptToIs ==
  ASSUME NEW A, NEW s \in Seq(A), NEW T
  PROVE  /\ KeptTo(s, T, 0) = << >>
         /\ \A n \in 1..Len(s) :
              KeptTo(s, T, n) = IF n \in T THEN Append(KeptTo(s, T, n - 1), s[n])
                                ELSE KeptTo(s, T, n - 1)
         /\ \A n \in 0..Len(s) : /\ KeptTo(s, T, n) \in Seq(A)
                                /\ \E pos : KeptAt(pos, KeptTo(s, T, n), s, T, n)
<1>. DEFINE N == Len(s)
           h == [x \in (1..N) \X Seq(A) |-> IF x[1] \in T THEN Append(x[2], s[x[1]]) ELSE x[2]]
           Good(g) == g = [n \in 0..N |-> IF n = 0 THEN << >>
                                          ELSE IF n \in T THEN Append(g[n - 1], s[n])
                                          ELSE g[n - 1]]
           from == CHOOSE g : Good(g)
<1>1. N \in Nat /\ \A k \in 1..N : s[k] \in A
  OBVIOUS
<1>2. \A k \in 1..N : \A v \in Seq(A) :
        h[<<k, v>>] = (IF k \in T THEN Append(v, s[k]) ELSE v) /\ h[<<k, v>>] \in Seq(A)
  BY <1>1
<1>. HIDE DEF h, N
<1>3. PICK g \in [0..N -> Seq(A)] : g = [k \in 0..N |-> IF k = 0 THEN << >> ELSE h[<<k, g[k - 1]>>]]
  <2>1. Steps(N, Seq(A), << >>, h)
    BY <1>1, <1>2 DEF Steps
  <2>. QED
    BY <2>1, StepFunction
<1>4. Good(g)
  <2>1. ASSUME NEW n \in 0..N
        PROVE  g[n] = IF n = 0 THEN << >> ELSE IF n \in T THEN Append(g[n - 1], s[n]) ELSE g[n - 1]
    <3>1. CASE n = 0
      BY <1>3, <3>1
    <3>2. CASE n # 0
      <4>1. n \in 1..N /\ n - 1 \in 0..N
        BY <1>1, <3>2
      <4>2. g[n] = h[<<n, g[n - 1]>>] /\ g[n - 1] \in Seq(A)
        BY <1>3, <3>2, <4>1
      <4>. QED
        BY <1>2, <3>2, <4>1, <4>2
    <3>. QED
      BY <3>1, <3>2
  <2>2. g = [n \in 0..N |-> g[n]]
    BY <1>3
  <2>. QED
    BY <2>1, <2>2
<1>5. Good(from)
  <2>. HIDE DEF Good
  <2>. QED
    BY <1>4
<1>6. \A n : KeptTo(s, T, n) = from[n]
  BY DEF KeptTo, N
<1>. HIDE DEF from
<1>6a. from[0] = << >>
  BY <1>1, <1>5
<1>6b. \A n \in 1..N : from[n] = IF n \in T THEN Append(from[n - 1], s[n]) ELSE from[n - 1]
  <2>. SUFFICES ASSUME NEW n \in 1..N
                PROVE  from[n] = IF n \in T THEN Append(from[n - 1], s[n]) ELSE from[n - 1]
    OBVIOUS
  <2>1. n \in 0..N /\ n # 0
    BY <1>1
  <2>. QED
    BY <1>5, <2>1
<1>. DEFINE Holds(n) == from[n] \in Seq(A) /\ \E pos : KeptAt(pos, from[n], s, T, n)
           S == {n \in Nat : n <= N => Holds(n)}
<1>7. 0 \in S
  <2>1. from[0] = << >>
    BY <1>1, <1>5
  <2>. DEFINE none == [k \in 1..0 |-> 0]
  <2>2. KeptAt(none, << >>, s, T, 0)
    BY DEF KeptAt
  <2>. HIDE DEF none
  <2>3. Holds(0)
    BY <2>1, <2>2
  <2>. HIDE DEF Holds
  <2>. QED
    BY <2>3
<1>8. ASSUME NEW n \in Nat, n \in S  PROVE n + 1 \in S
  <2>. SUFFICES ASSUME n + 1 <= N  PROVE Holds(n + 1)
    OBVIOUS
  <2>. DEFINE w == from[n]
  <2>1. w \in Seq(A) /\ \E pos : KeptAt(pos, w, s, T, n)
    BY <1>1, <1>8
  <2>2. n + 1 \in 0..N /\ n + 1 # 0 /\ n + 1 \in 1..N /\ (n + 1) - 1 = n
    BY <1>1
  <2>3. from[n + 1] = IF n + 1 \in T THEN Append(w, s[n + 1]) ELSE w
    BY <1>5, <2>2
  <2>4. PICK pos : KeptAt(pos, w, s, T, n)
    BY <2>1
  <2>. HIDE DEF w
  <2>5. Len(w) \in Nat
    BY <2>1
  <2>6. CASE n + 1 \in T
    <3>. DEFINE v == Append(w, s[n + 1])
               pos2 == [k \in 1..Len(w) + 1 |-> IF k = Len(w) + 1 THEN n + 1 ELSE pos[k]]
    <3>1. v \in Seq(A) /\ Len(v) = Len(w) + 1 /\ v[Len(w) + 1] = s[n + 1]
          /\ \A k \in 1..Len(w) : v[k] = w[k]
      BY <1>1, <2>1, <2>2
    <3>2. /\ \A k \in 1..Len(w) : pos2[k] = pos[k] /\ pos[k] \in 1..n
          /\ pos2[Len(w) + 1] = n + 1
      BY <2>4, <2>5 DEF KeptAt
    <3>2a. pos2 \in [1..Len(w) + 1 -> 1..n + 1]
      BY <2>4, <2>5 DEF KeptAt
    <3>. HIDE DEF v, pos2
    <3>2b. Len(v) = Len(w) + 1
      BY <3>1
    <3>3. ASSUME NEW k \in 1..Len(v)  PROVE pos2[k] \in T /\ v[k] = s[pos2[k]]
      <4>1. CASE k = Len(w) + 1
        <5>1. v[k] = s[n + 1] /\ pos2[k] = n + 1
          BY <3>1, <3>2, <4>1
        <5>. QED
          BY <2>6, <5>1
      <4>2. CASE k \in 1..Len(w)
        <5>1. v[k] = w[k] /\ pos2[k] = pos[k]
          BY <3>1, <3>2, <4>2
        <5>. QED
          BY <2>4, <4>2, <5>1 DEF KeptAt
      <4>. QED
        BY <2>5, <3>2b, <4>1, <4>2
    <3>4. ASSUME NEW j \in 1..Len(v), NEW k \in 1..Len(v), j < k  PROVE pos2[j] < pos2[k]
      <4>1. j \in 1..Len(w) /\ (k \in 1..Len(w) \/ k = Len(w) + 1)
        BY <2>5, <3>2b, <3>4
      <4>. QED
        BY <2>4, <2>5, <3>2, <3>4, <4>1 DEF KeptAt
    <3>5. ASSUME NEW q \in 1..n + 1, q \in T  PROVE \E k \in 1..Len(v) : pos2[k] = q
      <4>0. Len(w) + 1 \in 1..Len(v) /\ \A k \in 1..Len(w) : k \in 1..Len(v)
        BY <2>5, <3>2b
      <4>1. CASE q = n + 1
        BY <3>2, <4>0, <4>1
      <4>2. CASE q \in 1..n
        <5>1. PICK k \in 1..Len(w) : pos[k] = q
          BY <2>4, <3>5, <4>2 DEF KeptAt
        <5>. QED
          BY <3>2, <4>0, <5>1
      <4>. QED
        BY <3>5, <4>1, <4>2
    <3>6. KeptAt(pos2, v, s, T, n + 1)
      BY <3>1, <3>2a, <3>3, <3>4, <3>5 DEF KeptAt
    <3>. QED
      BY <2>3, <2>6, <3>1, <3>6 DEF v
  <2>7. CASE n + 1 \notin T
    <3>1. \A q \in 1..n + 1 : q \in T => q \in 1..n
      BY <2>7
    <3>2. pos \in [1..Len(w) -> 1..n + 1]
      BY <2>4 DEF KeptAt
    <3>3. KeptAt(pos, w, s, T, n + 1)
      BY <2>4, <3>1, <3>2 DEF KeptAt
    <3>. QED
      BY <2>1, <2>3, <2>7, <3>3
  <2>. QED
    BY <2>6, <2>7
<1>9. \A n \in Nat : n \in S
  <2>. HIDE DEF S
  <2>. QED
    BY <1>7, <1>8, NatSetInduction
<1>10. \A n \in 0..N : Holds(n)
  <2>. HIDE DEF Holds
  <2>. QED
    BY <1>1, <1>9
<1>. QED
  BY <1>6, <1>6a, <1>6b, <1>10 DEF N

LEMMA KeptIs ==
  ASSUME NEW A, NEW s \in Seq(A), NEW T
  PROVE  /\ Kept(s, T) \in Seq(A)
         /\ \E pos : KeptAt(pos, Kept(s, T), s, T, Len(s))
<1>1. Len(s) \in 0..Len(s)
  OBVIOUS
<1>. QED
  BY <1>1, KeptToIs DEF Kept

\* A finite set of numbers has a largest one under any key.
LEMMA LargestKey ==
  ASSUME NEW S, IsFiniteSet(S), S # {}, NEW key, \A x \in S : key[x] \in Int
  PROVE  \E x \in S : \A y \in S : key[y] <= key[x]
<1>. DEFINE Good(U) == U = {} \/ \E x \in U : \A y \in U : key[y] <= key[x]
           C == {n \in Nat : \A U \in SUBSET S : Cardinality(U) = n => Good(U)}
<1>0. \A U \in SUBSET S : IsFiniteSet(U) /\ Cardinality(U) \in Nat
  BY FS_Subset, FS_CardinalityType
<1>1. 0 \in C
  <2>1. \A U \in SUBSET S : Cardinality(U) = 0 => U = {}
    BY <1>0, FS_EmptySet
  <2>. QED
    BY <2>1
<1>2. ASSUME NEW n \in Nat, n \in C  PROVE n + 1 \in C
  <2>. SUFFICES ASSUME NEW U \in SUBSET S, Cardinality(U) = n + 1  PROVE Good(U)
    OBVIOUS
  <2>1. PICK x : x \in U
    BY <1>0, FS_EmptySet
  <2>2. Cardinality(U \ {x}) = n
    <3>1. Cardinality(U \ {x}) = Cardinality(U) - 1
      BY <1>0, <2>1, FS_RemoveElement
    <3>. QED
      BY <3>1
  <2>3. Good(U \ {x}) /\ U \ {x} \in SUBSET S
    BY <1>2, <2>2
  <2>4. \A y \in U : key[y] \in Int
    OBVIOUS
  <2>. QED
    BY <2>1, <2>3, <2>4
<1>3. \A n \in Nat : n \in C
  <2>. HIDE DEF C
  <2>. QED
    BY <1>1, <1>2, NatSetInduction
<1>4. Good(S)
  BY <1>0, <1>3
<1>. QED
  BY <1>4

\* What ByKey returns.
LEMMA ByKeyIs ==
  ASSUME NEW S, IsFiniteSet(S), NEW key, \A x \in S : key[x] \in Int
  PROVE  /\ ByKey(S, key) \in [1..Cardinality(S) -> S]
         /\ IsSorting(ByKey(S, key), S, key)
<1>. DEFINE Good(U) == \E s \in [1..Cardinality(U) -> U] : IsSorting(s, U, key)
           C == {n \in Nat : \A U \in SUBSET S : Cardinality(U) = n => Good(U)}
<1>0. \A U \in SUBSET S : IsFiniteSet(U) /\ Cardinality(U) \in Nat
  BY FS_Subset, FS_CardinalityType
<1>1. 0 \in C
  <2>. SUFFICES ASSUME NEW U \in SUBSET S, Cardinality(U) = 0  PROVE Good(U)
    OBVIOUS
  <2>1. U = {}
    BY <1>0, FS_EmptySet
  <2>. DEFINE s == [k \in 1..0 |-> 0]
  <2>2. s \in [1..0 -> {}] /\ DOMAIN s = {}
    OBVIOUS
  <2>. HIDE DEF s
  <2>3. IsSorting(s, {}, key)
    BY <2>2 DEF IsSorting
  <2>. QED
    BY <2>1, <2>2, <2>3
<1>2. ASSUME NEW n \in Nat, n \in C  PROVE n + 1 \in C
  <2>. SUFFICES ASSUME NEW U \in SUBSET S, Cardinality(U) = n + 1  PROVE Good(U)
    OBVIOUS
  <2>1. PICK x \in U : \A y \in U : key[y] <= key[x]
    <3>1. U # {} /\ IsFiniteSet(U) /\ \A y \in U : key[y] \in Int
      BY <1>0, FS_EmptySet
    <3>. QED
      BY <3>1, LargestKey
  <2>. DEFINE R == U \ {x}
  <2>2. Cardinality(R) = n /\ R \in SUBSET S /\ U = R \cup {x} /\ x \notin R
    <3>1. Cardinality(R) = Cardinality(U) - 1
      BY <1>0, <2>1, FS_RemoveElement
    <3>. QED
      BY <3>1
  <2>. HIDE DEF R
  <2>3. PICK r \in [1..n -> R] : IsSorting(r, R, key)
    BY <1>2, <2>2
  <2>. DEFINE s == [k \in 1..n + 1 |-> IF k = n + 1 THEN x ELSE r[k]]
  <2>4. /\ s \in [1..n + 1 -> U] /\ DOMAIN s = 1..n + 1
        /\ s[n + 1] = x /\ \A k \in 1..n : s[k] = r[k] /\ r[k] \in R
    BY <2>2
  <2>. HIDE DEF s
  <2>5. ASSUME NEW y \in U  PROVE \E i \in DOMAIN s : s[i] = y
    <3>1. CASE y = x
      BY <2>4, <3>1
    <3>2. CASE y \in R
      BY <2>3, <2>4, <3>2 DEF IsSorting
    <3>. QED
      BY <2>2, <3>1, <3>2
  <2>6. ASSUME NEW i \in DOMAIN s, NEW j \in DOMAIN s, i < j
        PROVE  s[i] # s[j] /\ key[s[i]] <= key[s[j]]
    <3>1. i \in 1..n /\ (j \in 1..n \/ j = n + 1)
      BY <2>4, <2>6
    <3>2. CASE j \in 1..n
      BY <2>3, <2>4, <2>6, <3>1, <3>2 DEF IsSorting
    <3>3. CASE j = n + 1
      <4>1. s[i] \in R /\ s[j] = x
        BY <2>4, <3>1, <3>3
      <4>. QED
        BY <2>1, <2>2, <4>1
    <3>. QED
      BY <3>1, <3>2, <3>3
  <2>7. IsSorting(s, U, key)
    BY <2>5, <2>6 DEF IsSorting
  <2>. QED
    BY <2>4, <2>7
<1>3. \A n \in Nat : n \in C
  <2>. HIDE DEF C
  <2>. QED
    BY <1>1, <1>2, NatSetInduction
<1>4. Good(S)
  BY <1>0, <1>3
<1>. QED
  BY <1>4 DEF ByKey

\* The values of a function on a finite set are finitely many.
LEMMA FiniteRange ==
  ASSUME NEW g, IsFiniteSet(DOMAIN g)
  PROVE  IsFiniteSet({g[i] : i \in DOMAIN g})
<1>. DEFINE D == DOMAIN g
           R == {g[i] : i \in D}
           m == [i \in D |-> g[i]]
<1>1. m \in Surjection(D, R)
  BY DEF Surjection
<1>2. \A S, T : \A h \in Surjection(S, T) : IsFiniteSet(S) => IsFiniteSet(T)
  <2>. SUFFICES ASSUME NEW S, NEW T, NEW h \in Surjection(S, T), IsFiniteSet(S)
                PROVE  IsFiniteSet(T)
    OBVIOUS
  <2>. QED
    BY FS_Surjection
<1>. HIDE DEF m, R
<1>3. IsFiniteSet(R)
  BY <1>1, <1>2
<1>. QED
  BY <1>3 DEF R
-----------------------------------------------------------------------------
\* The sequences of ss, one after the other, as FlattenSeq has them.
Joined(ss) ==
  LET flatten[i \in 1..Len(ss)] == IF i = 1 THEN ss[i] ELSE flatten[i - 1] \o ss[i]
  IN  flatten[Len(ss)]

\* w has the elements of the first n sequences of ss in order: the k-th is the
\* of[k]-th of the at[k]-th sequence.
Gathered(at, of, w, ss, n) ==
  /\ \A k \in 1..Len(w) :
       at[k] \in 1..n /\ of[k] \in 1..Len(ss[at[k]]) /\ w[k] = ss[at[k]][of[k]]
  /\ \A j, k \in 1..Len(w) : j < k => at[j] < at[k] \/ (at[j] = at[k] /\ of[j] < of[k])
  /\ \A m \in 1..n : \A i \in 1..Len(ss[m]) : \E k \in 1..Len(w) : at[k] = m /\ of[k] = i

LEMMA GatherNone == \A ss : Gathered(<< >>, << >>, << >>, ss, 0)
<1>1. Len(<< >>) = 0 /\ \A k \in 1..0 : FALSE
  OBVIOUS
<1>. QED
  BY <1>1 DEF Gathered

LEMMA GatherOne ==
  ASSUME NEW A, NEW ss, NEW n \in Nat, NEW w \in Seq(A), NEW s \in Seq(A), s = ss[n + 1],
         NEW at, NEW of, Gathered(at, of, w, ss, n)
  PROVE  \E at2, of2 : Gathered(at2, of2, w \o s, ss, n + 1)
<1>. DEFINE N == Len(w)
           M == Len(s)
           v == w \o s
           at2 == [k \in 1..N + M |-> IF k <= N THEN at[k] ELSE n + 1]
           of2 == [k \in 1..N + M |-> IF k <= N THEN of[k] ELSE k - N]
<1>1. N \in Nat /\ M \in Nat
  OBVIOUS
<1>2. /\ v \in Seq(A) /\ Len(v) = N + M
      /\ \A k \in 1..N + M : v[k] = IF k <= N THEN w[k] ELSE s[k - N]
  BY ConcatProperties
<1>3. \A k \in 1..N + M : /\ at2[k] = (IF k <= N THEN at[k] ELSE n + 1)
                          /\ of2[k] = (IF k <= N THEN of[k] ELSE k - N)
  OBVIOUS
<1>4. /\ \A k \in 1..N : at[k] \in 1..n /\ of[k] \in 1..Len(ss[at[k]]) /\ w[k] = ss[at[k]][of[k]]
      /\ \A j, k \in 1..N : j < k => at[j] < at[k] \/ (at[j] = at[k] /\ of[j] < of[k])
      /\ \A m \in 1..n : \A i \in 1..Len(ss[m]) : \E k \in 1..N : at[k] = m /\ of[k] = i
  BY DEF Gathered
<1>. HIDE DEF v, at2, of2, N, M
<1>5. ASSUME NEW k \in 1..N + M
      PROVE  at2[k] \in 1..n + 1 /\ of2[k] \in 1..Len(ss[at2[k]]) /\ v[k] = ss[at2[k]][of2[k]]
  <2>1. CASE k <= N
    <3>1. k \in 1..N /\ at2[k] = at[k] /\ of2[k] = of[k] /\ v[k] = w[k]
      BY <1>1, <1>2, <1>3, <2>1
    <3>2. at[k] \in 1..n + 1
      BY <1>4, <3>1
    <3>. QED
      BY <1>4, <3>1, <3>2
  <2>2. CASE ~(k <= N)
    <3>1. at2[k] = n + 1 /\ of2[k] = k - N /\ v[k] = s[k - N] /\ k - N \in 1..M
      BY <1>1, <1>2, <1>3, <2>2
    <3>. QED
      BY <3>1 DEF M
  <2>. QED
    BY <2>1, <2>2
<1>6. ASSUME NEW j \in 1..N + M, NEW k \in 1..N + M, j < k
      PROVE  at2[j] < at2[k] \/ (at2[j] = at2[k] /\ of2[j] < of2[k])
  <2>1. CASE k <= N
    <3>1. /\ k \in 1..N /\ at2[k] = at[k] /\ of2[k] = of[k]
          /\ j \in 1..N /\ at2[j] = at[j] /\ of2[j] = of[j]
      BY <1>1, <1>3, <1>6, <2>1
    <3>. QED
      BY <1>4, <1>6, <3>1
  <2>2. CASE ~(k <= N)
    <3>1. at2[k] = n + 1 /\ of2[k] = k - N
      BY <1>1, <1>3, <2>2
    <3>2. CASE j <= N
      <4>1. j \in 1..N /\ at2[j] = at[j] /\ at[j] \in 1..n
        BY <1>1, <1>3, <1>4, <3>2
      <4>. QED
        BY <3>1, <4>1
    <3>3. CASE ~(j <= N)
      <4>1. at2[j] = n + 1 /\ of2[j] = j - N
        BY <1>1, <1>3, <3>3
      <4>. QED
        BY <1>1, <1>6, <3>1, <4>1
    <3>. QED
      BY <3>2, <3>3
  <2>. QED
    BY <2>1, <2>2
<1>7. ASSUME NEW m \in 1..n + 1, NEW i \in 1..Len(ss[m])
      PROVE  \E k \in 1..N + M : at2[k] = m /\ of2[k] = i
  <2>1. CASE m = n + 1
    <3>1. i \in 1..M
      BY <2>1 DEF M
    <3>2. N + i \in 1..N + M /\ ~(N + i <= N) /\ (N + i) - N = i
      BY <1>1, <3>1
    <3>. QED
      BY <1>3, <2>1, <3>2
  <2>2. CASE m \in 1..n
    <3>1. PICK k \in 1..N : at[k] = m /\ of[k] = i
      BY <1>4, <2>2
    <3>2. k \in 1..N + M /\ k <= N
      BY <1>1
    <3>. QED
      BY <1>3, <3>1, <3>2
  <2>. QED
    BY <2>1, <2>2
<1>8. Gathered(at2, of2, v, ss, n + 1)
  BY <1>2, <1>5, <1>6, <1>7 DEF Gathered
<1>. QED
  BY <1>8 DEF v

LEMMA JoinedIs ==
  ASSUME NEW A, NEW ss \in Seq(Seq(A)), Len(ss) # 0
  PROVE  /\ Joined(ss) \in Seq(A)
         /\ \E at, of : Gathered(at, of, Joined(ss), ss, Len(ss))
<1>. DEFINE N == Len(ss)
           h == [x \in (1..N) \X Seq(A) |-> x[2] \o ss[x[1]]]
           Good(g) == g = [i \in 1..N |-> IF i = 1 THEN ss[i] ELSE g[i - 1] \o ss[i]]
           flat == CHOOSE g : Good(g)
<1>1. N \in Nat /\ \A k \in 1..N : ss[k] \in Seq(A)
  OBVIOUS
<1>2. ASSUME NEW k \in 1..N, NEW v \in Seq(A)
      PROVE  h[<<k, v>>] = v \o ss[k] /\ h[<<k, v>>] \in Seq(A)
  <2>1. <<k, v>> \in (1..N) \X Seq(A) /\ <<k, v>>[1] = k /\ <<k, v>>[2] = v
    OBVIOUS
  <2>2. h[<<k, v>>] = v \o ss[k]
    BY <2>1
  <2>3. ss[k] \in Seq(A)
    BY <1>1
  <2>4. v \o ss[k] \in Seq(A)
    BY <2>3, ConcatProperties
  <2>. QED
    BY <2>2, <2>4
<1>. HIDE DEF h, N
<1>3. PICK g \in [0..N -> Seq(A)] : g = [k \in 0..N |-> IF k = 0 THEN << >> ELSE h[<<k, g[k - 1]>>]]
  <2>0. << >> \in Seq(A)
    OBVIOUS
  <2>1. Steps(N, Seq(A), << >>, h)
    BY <1>1, <1>2, <2>0 DEF Steps
  <2>. QED
    BY <2>1, StepFunction
<1>. DEFINE g1 == [i \in 1..N |-> g[i]]
<1>4. Good(g1)
  <2>1. ASSUME NEW i \in 1..N
        PROVE  g1[i] = IF i = 1 THEN ss[i] ELSE g1[i - 1] \o ss[i]
    <3>1. i \in 0..N /\ i # 0 /\ i - 1 \in 0..N /\ g1[i] = g[i]
      BY <1>1
    <3>2. g[i] = h[<<i, g[i - 1]>>] /\ g[i - 1] \in Seq(A)
      BY <1>3, <3>1
    <3>3. g1[i] = g[i - 1] \o ss[i]
      BY <1>2, <3>1, <3>2
    <3>4. CASE i = 1
      <4>1. g[0] = << >>
        BY <1>1, <1>3
      <4>2. i - 1 = 0
        BY <3>4
      <4>3. ss[i] \in Seq(A)
        BY <1>1
      <4>4. << >> \o ss[i] = ss[i]
        BY <4>3, ConcatEmptySeq
      <4>. QED
        BY <3>3, <3>4, <4>1, <4>2, <4>4
    <3>5. CASE i # 1
      <4>1. i - 1 \in 1..N /\ g1[i - 1] = g[i - 1]
        BY <1>1, <3>5
      <4>. QED
        BY <3>3, <3>5, <4>1
    <3>. QED
      BY <3>4, <3>5
  <2>. HIDE DEF g1
  <2>2. g1 = [i \in 1..N |-> g1[i]]
    BY DEF g1
  <2>3. [i \in 1..N |-> g1[i]] = [i \in 1..N |-> IF i = 1 THEN ss[i] ELSE g1[i - 1] \o ss[i]]
    BY <2>1
  <2>. QED
    BY <2>2, <2>3
<1>5. Good(flat)
  <2>. HIDE DEF Good, g1
  <2>. QED
    BY <1>4
<1>7. CASE N # 0
  <2>0. Joined(ss) = flat[N]
    BY DEF Joined, N
  <2>. HIDE DEF flat
  <2>. DEFINE Holds(n) == flat[n] \in Seq(A) /\ \E at, of : Gathered(at, of, flat[n], ss, n)
              S == {n \in Nat : 1 <= n /\ n <= N => Holds(n)}
  <2>1. 0 \in S
    OBVIOUS
  <2>2. ASSUME NEW n \in Nat, n \in S  PROVE n + 1 \in S
    <3>. SUFFICES ASSUME n + 1 <= N  PROVE Holds(n + 1)
      OBVIOUS
    <3>1. n + 1 \in 1..N
      BY <1>1
    <3>2. CASE n = 0
      <4>1. flat[1] = ss[1] /\ ss[1] \in Seq(A)
        BY <1>1, <1>5, <3>1, <3>2
      <4>2. Gathered(<< >>, << >>, << >>, ss, 0)
        BY GatherNone
      <4>. DEFINE s == ss[1]
      <4>3. s \in Seq(A) /\ s = ss[0 + 1] /\ << >> \in Seq(A) /\ 0 \in Nat
        BY <4>1
      <4>4. \E at, of : Gathered(at, of, << >> \o s, ss, 0 + 1)
        <5>. HIDE DEF s
        <5>. QED
          BY <4>2, <4>3, GatherOne
      <4>5. << >> \o s = s
        BY <4>1, ConcatEmptySeq
      <4>6. \E at, of : Gathered(at, of, flat[1], ss, 1)
        BY <4>1, <4>4, <4>5
      <4>. QED
        BY <3>2, <4>1, <4>6
    <3>3. CASE n # 0
      <4>1. n \in 1..N /\ (n + 1) - 1 = n /\ n + 1 # 1
        BY <1>1, <3>3
      <4>2. Holds(n)
        BY <1>1, <2>2, <4>1
      <4>3. flat[n + 1] = flat[n] \o ss[n + 1] /\ ss[n + 1] \in Seq(A)
        BY <1>1, <1>5, <3>1, <4>1
      <4>4. \E at, of : Gathered(at, of, flat[n] \o ss[n + 1], ss, n + 1)
        BY <4>2, <4>3, GatherOne
      <4>5. flat[n] \o ss[n + 1] \in Seq(A)
        BY <4>2, <4>3, ConcatProperties
      <4>. QED
        BY <4>3, <4>4, <4>5
    <3>. QED
      BY <3>2, <3>3
  <2>3. \A n \in Nat : n \in S
    <3>. HIDE DEF S
    <3>. QED
      BY <2>1, <2>2, NatSetInduction
  <2>4. Holds(N)
    BY <1>1, <1>7, <2>3
  <2>. QED
    BY <2>0, <2>4 DEF N
<1>. QED
  BY <1>7 DEF N
=============================================================================
