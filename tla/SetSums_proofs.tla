--------------------------- MODULE SetSums_proofs ---------------------------
(***************************************************************************)
(* Sums over finite sets, which the folds of the community modules define  *)
(* by recursion: that there is such a sum, that it may begin with any      *)
(* element, and how large it is.                                           *)
(***************************************************************************)
EXTENDS Integers, FiniteSetTheorems, WellFoundedInduction, TLAPS

(***************************************************************************)
(* Natural numbers: a set of them has a least, and induction with a set in *)
(* place of a predicate.                                                   *)
(***************************************************************************)
LEMMA SmallestOf ==
  ASSUME NEW S \in SUBSET Nat, S # {}
  PROVE  \E m \in S : \A n \in S : m <= n
<1> DEFINE R == {ss \in Nat \X Nat : ss[1] < ss[2]}
<1>1. R = OpToRel(<, Nat)
  BY DEF OpToRel
<1>2. PICK x \in S : \A y \in S : ~ (<<y, x>> \in R)
  <2> HIDE DEF R
  <2> QED  BY <1>1, NatLessThanWellFounded, WFMin
<1>3. ASSUME NEW y \in S PROVE x <= y
  <2>1. <<y, x>> \in Nat \X Nat /\ y < x => <<y, x>> \in R
    BY Zenon DEF R
  <2> QED  BY <1>2, <2>1
<1> QED  BY <1>3

LEMMA SetInduction ==
  ASSUME NEW S, 0 \in S, \A n \in Nat : n \in S => n + 1 \in S
  PROVE  Nat \subseteq S
<1> SUFFICES ASSUME NEW k \in Nat, k \notin S PROVE FALSE
  OBVIOUS
<1> DEFINE T == {n \in Nat : n \notin S}
<1>1. PICK m \in T : \A n \in T : m <= n
  BY SmallestOf
<1>2. m # 0 /\ m - 1 \in Nat
  OBVIOUS
<1>3. m - 1 \in S
  BY <1>1, <1>2
<1> QED  BY <1>2, <1>3

\* g has the sum of w over every subset of S, taking one element after the other.
SumBody(S, w, g) ==
  [s \in SUBSET S |-> IF s = {} THEN 0
                      ELSE w[CHOOSE x \in s : TRUE] + g[s \ {CHOOSE x \in s : TRUE}]]

LEMMA Without ==
  ASSUME NEW m \in Nat, NEW s, IsFiniteSet(s), Cardinality(s) <= m + 1, NEW x \in s
  PROVE  IsFiniteSet(s \ {x}) /\ Cardinality(s \ {x}) <= m
<1>1. /\ IsFiniteSet(s \ {x}) /\ Cardinality(s \ {x}) = Cardinality(s) - 1
      /\ Cardinality(s) \in Nat
  BY FS_RemoveElement, FS_CardinalityType
<1> QED  BY <1>1

LEMMA SameFunction ==
  ASSUME NEW D, NEW f, f = [s \in D |-> f[s]], NEW g, g = [s \in D |-> g[s]],
         \A s \in D : f[s] = g[s]
  PROVE  f = g
OBVIOUS

LEMMA SumExists ==
  ASSUME NEW S, IsFiniteSet(S), NEW w, \A x \in S : w[x] \in Nat
  PROVE  \E g : g = SumBody(S, w, g)
<1> DEFINE P(m) == {s \in SUBSET S : Cardinality(s) <= m}
           B(s, g) == IF s = {} THEN 0
                      ELSE w[CHOOSE x \in s : TRUE] + g[s \ {CHOOSE x \in s : TRUE}]
           T == {m \in Nat : \E g : g = [s \in P(m) |-> B(s, g)]}
<1>1. ASSUME NEW s \in SUBSET S PROVE IsFiniteSet(s) /\ Cardinality(s) \in Nat
  BY FS_Subset, FS_CardinalityType
<1>2. 0 \in T
  <2> DEFINE g == [s \in P(0) |-> 0]
  <2>1. \A s \in P(0) : s = {}
    BY <1>1, FS_EmptySet
  <2>2. g = [s \in P(0) |-> B(s, g)]
    BY <2>1
  <2> QED  BY <2>2
<1>3. ASSUME NEW m \in Nat, m \in T PROVE m + 1 \in T
  <2>1. PICK g : g = [s \in P(m) |-> B(s, g)]
    BY <1>3
  <2> DEFINE k == [s \in P(m + 1) |-> IF s \in P(m) THEN g[s] ELSE B(s, g)]
  <2>2. ASSUME NEW s \in P(m + 1), s # {} PROVE B(s, k) = B(s, g)
    <3>1. PICK x \in s : x = CHOOSE y \in s : TRUE
      BY <2>2
    <3>2. s \ {x} \in P(m)
      BY <1>1, Without
    <3>3. s \ {x} \in P(m + 1)
      BY <3>2, <1>1
    <3>4. k[s \ {x}] = g[s \ {x}]
      BY <3>2, <3>3
    <3> QED  BY <3>1, <3>4
  <2>3. ASSUME NEW s \in P(m) PROVE g[s] = B(s, g)
    <3> HIDE DEF P, B
    <3> QED  BY <2>1, Zenon
  <2>4. ASSUME NEW s \in P(m + 1) PROVE k[s] = B(s, k)
    <3>1. k[s] = B(s, g)
      <4> HIDE DEF P, B
      <4> QED  BY <2>3
    <3>2. s = {} => B(s, g) = B(s, k)
      OBVIOUS
    <3> HIDE DEF k, B
    <3> QED  BY <3>1, <3>2, <2>2
  <2>5. k = [s \in P(m + 1) |-> k[s]]
    OBVIOUS
  <2>6. k = [s \in P(m + 1) |-> B(s, k)]
    <3> HIDE DEF k, P, B
    <3>1. PICK h : h = [s \in P(m + 1) |-> B(s, k)]
      OBVIOUS
    <3>2. PICK D : D = P(m + 1)
      OBVIOUS
    <3>3. h = [s \in D |-> h[s]] /\ k = [s \in D |-> k[s]]
      BY <2>5, <3>1, <3>2
    <3>4. \A s \in D : k[s] = h[s]
      BY <2>4, <3>1, <3>2
    <3>5. k = h
      BY <3>3, <3>4, SameFunction
    <3> QED  BY <3>1, <3>5, Zenon
  <2>7. \E h : h = [s \in P(m + 1) |-> B(s, h)]
    <3> HIDE DEF k, P, B
    <3> QED  BY <2>6, Zenon
  <2> HIDE DEF k, P, B
  <2> QED  BY <2>7
<1>4. PICK n \in Nat : n = Cardinality(S)
  BY FS_CardinalityType
<1>5. SUBSET S = P(n)
  BY <1>4, FS_Subset
<1>6. n \in T
  <2> HIDE DEF T
  <2> QED  BY <1>2, <1>3, SetInduction
<1>7. PICK g : g = [s \in P(n) |-> B(s, g)]
  BY <1>6
<1>8. g = SumBody(S, w, g)
  BY <1>5, <1>7 DEF SumBody
<1> QED  BY <1>8

\* Whichever element is taken first.
Totals(S, w, g) ==
  IsFiniteSet(S) /\ (\A x \in S : w[x] \in Nat) /\ g = SumBody(S, w, g)

SumsUp(S, w, g) ==
  /\ g[{}] = 0
  /\ \A s \in SUBSET S : g[s] \in Nat /\ \A x \in s : g[s] = w[x] + g[s \ {x}]

LEMMA SumTakes ==
  ASSUME NEW S, NEW w, NEW g, Totals(S, w, g)
  PROVE  SumsUp(S, w, g)
<1> USE DEF Totals, SumsUp
<1>1. g = SumBody(S, w, g)
  OBVIOUS
<1>2. /\ g[{}] = 0
      /\ \A s \in SUBSET S : s # {} =>
           \E y \in s : g[s] = w[y] + g[s \ {y}]
  <2>1. \A s \in SUBSET S : g[s] = IF s = {} THEN 0
          ELSE w[CHOOSE x \in s : TRUE] + g[s \ {CHOOSE x \in s : TRUE}]
    BY <1>1, Zenon DEF SumBody
  <2>2. ASSUME NEW s \in SUBSET S, s # {}
        PROVE  \E y \in s : g[s] = w[y] + g[s \ {y}]
    <3>1. PICK y \in s : y = CHOOSE x \in s : TRUE
      BY <2>2
    <3> QED  BY <2>1, <3>1
  <2> QED  BY <2>1, <2>2
<1> DEFINE Takes(s) == g[s] \in Nat /\ \A x \in s : g[s] = w[x] + g[s \ {x}]
           UpTo(m) == \A s \in SUBSET S : Cardinality(s) <= m => Takes(s)
           T == {m \in Nat : UpTo(m)}
<1>3. ASSUME NEW s \in SUBSET S PROVE IsFiniteSet(s) /\ Cardinality(s) \in Nat
  BY FS_Subset, FS_CardinalityType
<1>4. 0 \in T
  <2> SUFFICES ASSUME NEW s \in SUBSET S, Cardinality(s) <= 0
               PROVE  g[s] \in Nat /\ \A x \in s : g[s] = w[x] + g[s \ {x}]
    OBVIOUS
  <2>1. s = {}
    BY <1>3, FS_EmptySet
  <2> QED  BY <1>2, <2>1
<1>5. ASSUME NEW m \in Nat, UpTo(m) PROVE UpTo(m + 1)
  <2> SUFFICES ASSUME NEW s \in SUBSET S, Cardinality(s) <= m + 1 PROVE Takes(s)
    BY Zenon
  <2>1. ASSUME NEW u \in SUBSET S, Cardinality(u) <= m
        PROVE  g[u] \in Nat /\ \A x \in u : g[u] = w[x] + g[u \ {x}]
    BY <1>5, <2>1, Zenon
  <2>2. CASE s = {}
    BY <2>2, <1>2
  <2>3. CASE s # {}
    <3>1. PICK y \in s : g[s] = w[y] + g[s \ {y}]
      BY <2>3, <1>2
    <3>2. ASSUME NEW x \in s PROVE Cardinality(s \ {x}) <= m /\ s \ {x} \in SUBSET S
      BY <1>3, Without
    <3>3. g[s \ {y}] \in Nat /\ w[y] \in Nat
      BY <2>1, <3>2
    <3>4. g[s] \in Nat
      BY <3>1, <3>3
    <3>5. ASSUME NEW x \in s, x # y PROVE g[s] = w[x] + g[s \ {x}]
      <4>1. PICK u : u = s \ {x, y}
        OBVIOUS
      <4>2. (s \ {y}) \ {x} = u /\ (s \ {x}) \ {y} = u /\ x \in s \ {y} /\ y \in s \ {x}
        BY <4>1, <3>5
      <4>3. g[s \ {y}] = w[x] + g[u]
        <5>1. g[s \ {y}] = w[x] + g[(s \ {y}) \ {x}]
          BY <4>2, <3>2, <2>1
        <5> QED  BY <5>1, <4>2
      <4>4. g[s \ {x}] = w[y] + g[u]
        <5>1. g[s \ {x}] = w[y] + g[(s \ {x}) \ {y}]
          BY <4>2, <3>2, <2>1
        <5> QED  BY <5>1, <4>2
      <4>5. u \in SUBSET S /\ Cardinality(u) <= m
        <5>1. u = (s \ {y}) \ {x} /\ s \ {y} \in SUBSET S /\ Cardinality(s \ {y}) <= m + 1
          <6>1. Cardinality(s \ {y}) \in Nat
            BY <1>3
          <6> QED  BY <6>1, <4>2, <3>2
        <5>2. IsFiniteSet(s \ {y}) /\ x \in s \ {y}
          BY <1>3, <4>2
        <5> QED  BY <5>1, <5>2, Without
      <4>6. g[u] \in Nat /\ w[x] \in Nat /\ w[y] \in Nat
        BY <2>1, <4>5
      <4> QED  BY <3>1, <4>3, <4>4, <4>6
    <3> QED  BY <3>1, <3>4, <3>5
  <2> QED  BY <2>2, <2>3
<1>6. ASSUME NEW s \in SUBSET S
      PROVE  g[s] \in Nat /\ \A x \in s : g[s] = w[x] + g[s \ {x}]
  <2>1. \A m \in Nat : m \in T => m + 1 \in T
    <3> HIDE DEF UpTo
    <3> QED  BY <1>5
  <2>2. Cardinality(s) \in T
    <3> HIDE DEF T
    <3> QED  BY <1>3, <1>4, <2>1, SetInduction
  <2>3. UpTo(Cardinality(s)) /\ Cardinality(s) <= Cardinality(s)
    <3> HIDE DEF UpTo
    <3> QED  BY <2>2, <1>3
  <2> QED  BY <2>3, Zenon
<1> QED  BY <1>2, <1>6

\* The sum over a set of numbers up to n is at most a running sum to n.
Rising(n, S, w, g, t) ==
  /\ n \in Nat /\ S \in SUBSET (1..n) /\ IsFiniteSet(S)
  /\ \A x \in S : w[x] \in Nat
  /\ g[{}] = 0
  /\ \A s \in SUBSET S : g[s] \in Nat /\ \A x \in s : g[s] = w[x] + g[s \ {x}]
  /\ t \in [0..n -> Nat]
  /\ \A a \in 1..n : t[a] >= t[a - 1]
  /\ \A a \in S : t[a] >= t[a - 1] + w[a]

LEMMA SumBound ==
  ASSUME NEW n, NEW S, NEW w, NEW g, NEW t, Rising(n, S, w, g, t)
  PROVE  g[S] <= t[n]
<1> USE DEF Rising
<1> DEFINE UpTo(m) == \A s \in SUBSET S : s \subseteq 1..m => g[s] <= t[m]
           T == {m \in Nat : m <= n => UpTo(m)}
<1>1. 0 \in T
  <2> SUFFICES ASSUME NEW s \in SUBSET S, s \subseteq 1..0 PROVE g[s] <= t[0]
    OBVIOUS
  <2>1. s = {}
    OBVIOUS
  <2> QED  BY <2>1
<1>2. ASSUME NEW m \in Nat, m + 1 <= n, UpTo(m) PROVE UpTo(m + 1)
  <2> SUFFICES ASSUME NEW s \in SUBSET S, s \subseteq 1..(m + 1)
               PROVE  g[s] <= t[m + 1]
    BY Zenon
  <2>1. \A u \in SUBSET S : u \subseteq 1..m => g[u] <= t[m]
    BY <1>2
  <2>2. t[m] \in Nat /\ t[m + 1] \in Nat /\ g[s] \in Nat /\ m + 1 \in 1..n
    <3>1. m \in 0..n /\ m + 1 \in 0..n /\ m + 1 \in 1..n
      BY <1>2
    <3>2. g[s] \in Nat
      BY Zenon
    <3> QED  BY <3>1, <3>2
  <2>3. CASE m + 1 \in s
    <3>1. s \ {m + 1} \subseteq 1..m /\ s \ {m + 1} \in SUBSET S
      OBVIOUS
    <3>2. g[s] = w[m + 1] + g[s \ {m + 1}] /\ w[m + 1] \in Nat
      BY <2>3
    <3>3. g[s \ {m + 1}] <= t[m] /\ g[s \ {m + 1}] \in Nat
      BY <3>1, <2>1
    <3>4. t[m + 1] >= t[m] + w[m + 1]
      <4>1. (m + 1) - 1 = m /\ m + 1 \in S
        BY <2>3
      <4> QED  BY <4>1
    <3> QED  BY <2>2, <3>2, <3>3, <3>4
  <2>4. CASE m + 1 \notin s
    <3>1. s \subseteq 1..m
      <4> SUFFICES ASSUME NEW x \in s PROVE x \in 1..m
        OBVIOUS
      <4>1. x \in 1..(m + 1) /\ x # m + 1
        BY <2>4
      <4> QED  BY <4>1
    <3>2. g[s] <= t[m]
      BY <3>1, <2>1
    <3>3. t[m + 1] >= t[m]
      <4>1. (m + 1) - 1 = m
        OBVIOUS
      <4> QED  BY <4>1, <2>2
    <3> QED  BY <2>2, <3>2, <3>3
  <2> QED  BY <2>3, <2>4
<1>3. \A m \in Nat : m \in T => m + 1 \in T
  <2> HIDE DEF UpTo
  <2> QED  BY <1>2
<1>4. n \in T
  <2> HIDE DEF T
  <2> QED  BY <1>1, <1>3, SetInduction
<1>5. UpTo(n)
  <2> HIDE DEF UpTo
  <2> QED  BY <1>4
<1> QED  BY <1>5

\* Larger numbers, a larger sum, also if the sums are over parts of other sets.
LEMMA SumGrows ==
  ASSUME NEW U, NEW w, NEW g, NEW v, NEW h, NEW S, NEW R,
         Totals(S, w, g), Totals(R, v, h), U \subseteq S, U \subseteq R,
         \A x \in U : w[x] <= v[x]
  PROVE  g[U] <= h[U]
<1>1. IsFiniteSet(U) /\ \A x \in U : w[x] \in Nat /\ v[x] \in Nat
  BY FS_Subset DEF Totals
<1>2. /\ g[{}] = 0
      /\ \A s \in SUBSET U : g[s] \in Nat /\ \A x \in s : g[s] = w[x] + g[s \ {x}]
  <2>1. SumsUp(S, w, g)
    BY SumTakes
  <2> QED  BY <2>1 DEF SumsUp
<1>3. /\ h[{}] = 0
      /\ \A s \in SUBSET U : h[s] \in Nat /\ \A x \in s : h[s] = v[x] + h[s \ {x}]
  <2>1. SumsUp(R, v, h)
    BY SumTakes
  <2> QED  BY <2>1 DEF SumsUp
<1> DEFINE UpTo(m) == \A s \in SUBSET U : Cardinality(s) <= m => g[s] <= h[s]
           T == {m \in Nat : UpTo(m)}
<1>4. ASSUME NEW s \in SUBSET U PROVE IsFiniteSet(s) /\ Cardinality(s) \in Nat
  BY <1>1, FS_Subset, FS_CardinalityType
<1>5. 0 \in T
  <2> SUFFICES ASSUME NEW s \in SUBSET U, Cardinality(s) <= 0 PROVE g[s] <= h[s]
    OBVIOUS
  <2>1. s = {}
    BY <1>4, FS_EmptySet
  <2> QED  BY <1>2, <1>3, <2>1
<1>6. ASSUME NEW m \in Nat, UpTo(m) PROVE UpTo(m + 1)
  <2> SUFFICES ASSUME NEW s \in SUBSET U, Cardinality(s) <= m + 1 PROVE g[s] <= h[s]
    BY Zenon
  <2>1. CASE s = {}
    BY <2>1, <1>2, <1>3
  <2>2. CASE s # {}
    <3>1. PICK x : x \in s
      BY <2>2
    <3>2. PICK u : u = s \ {x}
      OBVIOUS
    <3>3. u \in SUBSET U /\ Cardinality(u) <= m
      BY <3>1, <3>2, <1>4, Without
    <3>4. g[u] <= h[u] /\ g[u] \in Nat /\ h[u] \in Nat
      BY <3>3, <1>6, <1>2, <1>3
    <3>5. g[s] = w[x] + g[u] /\ h[s] = v[x] + h[u]
      BY <3>1, <3>2, <1>2, <1>3
    <3>6. w[x] \in Nat /\ v[x] \in Nat /\ w[x] <= v[x]
      BY <3>1, <1>1
    <3> QED  BY <3>4, <3>5, <3>6
  <2> QED  BY <2>1, <2>2
<1>7. \A m \in Nat : m \in T => m + 1 \in T
  <2> HIDE DEF UpTo
  <2> QED  BY <1>6
<1>8. Cardinality(U) \in Nat /\ Cardinality(U) \in T
  <2> HIDE DEF T
  <2> QED  BY <1>4, <1>5, <1>7, SetInduction
<1>9. UpTo(Cardinality(U)) /\ Cardinality(U) <= Cardinality(U)
  <2> HIDE DEF UpTo
  <2> QED  BY <1>8
<1> QED  BY <1>9, Zenon
=============================================================================
