---------------------------- MODULE SumTheorems ----------------------------
(***************************************************************************)
(* Facts about integer division, recursive functions and Total that the     *)
(* proofs of both kinds of market rest on.                                 *)
(***************************************************************************)
EXTENDS Sums, FiniteSetTheorems, WellFoundedInduction, TLAPS

----------------------------------------------------------------------------
(* Arithmetic.                                                             *)

\* Integer division rounds down: the quotient times the divisor is at most
\* the dividend, and less than one divisor below it.
LEMMA DivFacts ==
  ASSUME NEW x \in Nat, NEW w \in Nat, w > 0
  PROVE  /\ x \div w \in Nat
         /\ (x \div w) * w <= x
         /\ x < (x \div w) * w + w
  BY Z3

\* A product of naturals is a natural and grows with its factors.
LEMMA MulFacts ==
  ASSUME NEW a \in Nat, NEW b \in Nat, NEW c \in Nat, a <= b
  PROVE  a * c \in Nat /\ a * c <= b * c
  BY Z3

----------------------------------------------------------------------------
(* Induction and recursion. The library's theorems of induction take an    *)
(* operator, which no prover here can instantiate; well-foundedness of the *)
(* naturals is stated for sets, and gives induction over sets.             *)

\* Every inhabited set of naturals has a least element.
LEMMA NatMin ==
  ASSUME NEW T, T \subseteq Nat, T # {}
  PROVE  \E x \in T : \A y \in T : x <= y
<1> DEFINE R == OpToRel(<, Nat)
<1>1. IsWellFoundedOn(R, Nat)
  BY NatLessThanWellFounded
<1>2. \A x, y \in Nat : x < y => <<x, y>> \in R
  BY DEF OpToRel
<1> HIDE DEF R
<1>3. PICK x \in T : \A y \in T : ~ (<<y, x>> \in R)
  BY <1>1, WFMin
<1>4. ASSUME NEW y \in T PROVE x <= y
  <2>1. x \in Nat /\ y \in Nat /\ ~ (<<y, x>> \in R)
    BY <1>3
  <2>2. ~ (y < x)
    BY <1>2, <2>1, Zenon
  <2>3. QED
    BY <2>1, <2>2
<1>5. QED
  BY <1>4

\* Induction, for a set of naturals: the library states it for an operator.
LEMMA NatSetInduction ==
  ASSUME NEW S, 0 \in S, \A n \in Nat : n \in S => n + 1 \in S
  PROVE  Nat \subseteq S
<1>1. SUFFICES ASSUME NEW m \in Nat, m \notin S PROVE FALSE
  OBVIOUS
<1> DEFINE T == {n \in Nat : n \notin S}
<1>2. PICK x \in T : \A y \in T : x <= y
  BY <1>1, NatMin
<1>3. x - 1 \in Nat /\ x - 1 \in S
  BY <1>2
<1>4. QED
  BY <1>2, <1>3

\* Induction up to a bound.
LEMMA UpTo ==
  ASSUME NEW N \in Nat, NEW S, 0 \in S, \A i \in 1..N : i - 1 \in S => i \in S
  PROVE  \A i \in 0..N : i \in S
<1> DEFINE P == {n \in Nat : n <= N => n \in S}
<1>1. 0 \in P
  OBVIOUS
<1>2. ASSUME NEW n \in Nat, n \in P PROVE n + 1 \in P
  <2>1. SUFFICES ASSUME n + 1 <= N PROVE n + 1 \in S
    OBVIOUS
  <2>2. n \in S /\ n + 1 \in 1..N
    BY <1>2, <2>1
  <2>3. (n + 1) - 1 = n
    OBVIOUS
  <2>4. QED
    BY <2>2, <2>3
<1> HIDE DEF P
<1>3. Nat \subseteq P
  BY <1>1, <1>2, NatSetInduction
<1>4. QED
  BY <1>3 DEF P

\* There is a function that starts at a and takes the steps of G.
LEMMA RecursionExists ==
 ASSUME NEW V, NEW a \in V, NEW N \in Nat, NEW G, G \in [1..N -> [V -> V]]
 PROVE  \E f \in [0..N -> V] : f[0] = a /\ \A i \in 1..N : f[i] = G[i][f[i-1]]
<1> DEFINE Good(n, f) == f[0] = a /\ \A i \in 1..n : f[i] = G[i][f[i-1]]
<1> DEFINE P == {n \in Nat : n <= N => \E f \in [0..n -> V] : Good(n, f)}
<1>1. 0 \in P
  <2>1. [i \in 0..0 |-> a] \in [0..0 -> V] /\ Good(0, [i \in 0..0 |-> a])
    OBVIOUS
  <2>2. QED
    BY <2>1
<1>2. ASSUME NEW n \in Nat, n \in P PROVE n + 1 \in P
  <2>1. SUFFICES ASSUME n + 1 <= N PROVE \E f \in [0..(n+1) -> V] : Good(n + 1, f)
    OBVIOUS
  <2>2. PICK g \in [0..n -> V] : Good(n, g)
    BY <1>2, <2>1
  <2> DEFINE f == [i \in 0..(n+1) |-> IF i <= n THEN g[i] ELSE G[n+1][g[n]]]
  <2>3. G[n+1] \in [V -> V] /\ g[n] \in V
    BY <2>1
  <2>4. f \in [0..(n+1) -> V]
    BY <2>3
  <2>5. f[0] = a
    BY <2>2
  <2>6. ASSUME NEW i \in 1..(n+1) PROVE f[i] = G[i][f[i-1]]
    <3>1. CASE i <= n
      <4>1. f[i] = g[i] /\ f[i-1] = g[i-1]
        BY <3>1
      <4>2. g[i] = G[i][g[i-1]]
        BY <2>2, <3>1
      <4>3. QED
        BY <4>1, <4>2
    <3>2. CASE i = n + 1
      BY <3>2
    <3>3. QED
      BY <3>1, <3>2
  <2>7. Good(n + 1, f)
    BY <2>5, <2>6
  <2> HIDE DEF f, Good
  <2>8. QED
    BY <2>4, <2>7
<1> HIDE DEF P
<1>3. Nat \subseteq P
  BY <1>1, <1>2, NatSetInduction
<1>4. QED
  BY <1>3 DEF P

----------------------------------------------------------------------------
(* Totals.                                                                 *)

\* A finite set of amounts has a finite total.
LEMMA UnitsFinite ==
  ASSUME NEW f, NEW S, NEW cap \in Nat, IsFiniteSet(S)
  PROVE  IsFiniteSet(Units(f, S, cap)) /\ Total(f, S, cap) \in Nat
<1>1. IsFiniteSet(1..cap)
  BY FS_Interval
<1>2. IsFiniteSet(S \X (1..cap))
  BY <1>1, FS_Product
<1>3. Units(f, S, cap) \in SUBSET (S \X (1..cap))
  BY DEF Units
<1>4. IsFiniteSet(Units(f, S, cap))
  BY <1>2, <1>3, FS_Subset
<1>5. QED
  BY <1>4, FS_CardinalityType DEF Total

\* Nothing adds up to zero.
LEMMA TotalEmpty ==
  ASSUME NEW f, NEW cap \in Nat
  PROVE  Total(f, {}, cap) = 0
<1>1. Units(f, {}, cap) = {}
  BY DEF Units
<1>2. QED
  BY <1>1, FS_EmptySet DEF Total

\* Adding an element adds its amount.
LEMMA TotalAdd ==
  ASSUME NEW f, NEW S, NEW cap \in Nat, NEW x, IsFiniteSet(S), x \notin S,
         f[x] \in 0..cap
  PROVE  Total(f, S \cup {x}, cap) = Total(f, S, cap) + f[x]
<1> DEFINE N == {x} \X (1..f[x])
<1>1. IsFiniteSet(1..f[x]) /\ Cardinality(1..f[x]) = f[x]
  <2>1. \A n \in Nat : IsFiniteSet(1..n) /\ Cardinality(1..n) = n
    <3>1. SUFFICES ASSUME NEW n \in Nat
                   PROVE  IsFiniteSet(1..n) /\ Cardinality(1..n) = n
      OBVIOUS
    <3>2. IsFiniteSet(1..n) /\ Cardinality(1..n) = IF 1 > n THEN 0 ELSE n - 1 + 1
      <4>1. 1 \in Int /\ n \in Int
        OBVIOUS
      <4>2. QED
        BY <4>1, FS_Interval, Zenon
    <3>3. QED
      BY <3>2
  <2>2. f[x] \in Nat
    OBVIOUS
  <2>3. QED
    BY <2>1, <2>2, Zenon
<1>2. IsFiniteSet({x}) /\ Cardinality({x}) = 1
  BY FS_Singleton
<1>3. IsFiniteSet(N) /\ Cardinality(N) = 1 * f[x]
  <2>1. IsFiniteSet(N) /\ Cardinality(N) = Cardinality({x}) * Cardinality(1..f[x])
    BY <1>1, <1>2, FS_Product
  <2>2. QED
    BY <2>1, <1>1, <1>2
<1>4. Units(f, S \cup {x}, cap) = Units(f, S, cap) \cup N
  BY DEF Units
<1>5. Units(f, S, cap) \cap N = {}
  BY DEF Units
<1>6. IsFiniteSet(Units(f, S, cap))
  BY UnitsFinite
<1>7. Cardinality(Units(f, S, cap) \cup N)
        = Cardinality(Units(f, S, cap)) + Cardinality(N) - Cardinality({})
  BY <1>3, <1>5, <1>6, FS_Union
<1>8. Cardinality({}) = 0 /\ Total(f, S, cap) \in Nat
  BY FS_EmptySet, UnitsFinite
<1>9. Total(f, S \cup {x}, cap) = Total(f, S, cap) + Cardinality(N) - Cardinality({})
  BY <1>4, <1>7, Zenon DEF Total
<1>10. QED
  BY <1>3, <1>8, <1>9

\* Removing an element removes its amount.
LEMMA TotalRemove ==
  ASSUME NEW f, NEW S, NEW cap \in Nat, NEW x \in S, IsFiniteSet(S),
         f[x] \in 0..cap
  PROVE  /\ Total(f, S \ {x}, cap) = Total(f, S, cap) - f[x]
         /\ Total(f, S \ {x}, cap) \in Nat
<1>1. IsFiniteSet(S \ {x}) /\ x \notin S \ {x} /\ S = (S \ {x}) \cup {x}
  BY FS_RemoveElement
<1>2. Total(f, (S \ {x}) \cup {x}, cap) = Total(f, S \ {x}, cap) + f[x]
  BY <1>1, TotalAdd
<1>3. Total(f, S \ {x}, cap) \in Nat
  BY <1>1, UnitsFinite
<1>4. Total(f, S, cap) = Total(f, S \ {x}, cap) + f[x]
  BY <1>1, <1>2, Zenon
<1>5. Total(f, S, cap) \in Nat
  BY UnitsFinite
<1>6. QED
  BY <1>3, <1>4, <1>5

\* Changing one element's amount changes the total by the difference.
LEMMA TotalUpdate ==
  ASSUME NEW S, NEW cap \in Nat, NEW f, NEW g, NEW x \in S, IsFiniteSet(S),
         f[x] \in 0..cap, g[x] \in 0..cap, \A y \in S \ {x} : g[y] = f[y]
  PROVE  Total(g, S, cap) = Total(f, S, cap) - f[x] + g[x]
<1>1. Units(g, S \ {x}, cap) = Units(f, S \ {x}, cap)
  BY DEF Units
<1>2. Total(g, S \ {x}, cap) = Total(f, S \ {x}, cap)
  BY <1>1 DEF Total
<1>3. Total(g, S \ {x}, cap) = Total(g, S, cap) - g[x]
  BY TotalRemove
<1>4. Total(f, S \ {x}, cap) = Total(f, S, cap) - f[x]
  BY TotalRemove
<1>5. Total(g, S, cap) \in Nat /\ Total(f, S, cap) \in Nat
  BY UnitsFinite
<1>6. QED
  BY <1>2, <1>3, <1>4, <1>5

\* One element's amount is at most the total.
LEMMA TotalBounds ==
  ASSUME NEW f, NEW S, NEW cap \in Nat, NEW x \in S, IsFiniteSet(S), f[x] \in 0..cap
  PROVE  f[x] <= Total(f, S, cap)
<1>1. /\ Total(f, S \ {x}, cap) = Total(f, S, cap) - f[x]
      /\ Total(f, S \ {x}, cap) \in Nat
  BY TotalRemove
<1>2. Total(f, S, cap) \in Nat
  BY UnitsFinite
<1>3. QED
  BY <1>1, <1>2

\* Amounts of zero add up to zero.
LEMMA TotalZero ==
  ASSUME NEW f, NEW S, NEW cap \in Nat, \A x \in S : f[x] = 0
  PROVE  Total(f, S, cap) = 0
<1>1. Units(f, S, cap) = {}
  BY DEF Units
<1>2. QED
  BY <1>1, FS_EmptySet DEF Total
=============================================================================
