------------------------- MODULE HybridMarketProofs -------------------------
(***************************************************************************)
(* Proofs about HybridMarket for every set of traders, every liquidity     *)
(* parameter, fee and deadline, and about the pages that show and trade it. *)
(* Of the fixed-point constants only what LmsrAssumption and                *)
(* SeriesAssumption state is used.                                         *)
(***************************************************************************)
EXTENDS HybridPages, TradingPanel, SumTheorems

----------------------------------------------------------------------------
(* The two series of lmsr.rs: that the loops compute what their bodies say,  *)
(* and the bounds that make the checked arithmetic of lmsr.rs succeed.      *)

\* Rounded down, a product over one of its factors' bounds stays below the other.
LEMMA MulDivFacts ==
  ASSUME NEW a \in Nat, NEW b \in Nat, NEW d \in Nat, d > 0
  PROVE  mul_div_floor(a, b, d) \in Nat /\ (b <= d => mul_div_floor(a, b, d) <= a)
<1>1. a * b \in Nat
  BY MulFacts
<1>2. mul_div_floor(a, b, d) \in Nat /\ mul_div_floor(a, b, d) * d <= a * b
  BY <1>1, DivFacts DEF mul_div_floor
<1>3. ASSUME NEW m \in Nat, m * d <= a * b, b <= d PROVE m <= a
  BY <1>3, Z3
<1>4. QED
  BY <1>2, <1>3

\* A quotient of naturals is at most the dividend, and grows with it.
LEMMA QuotientFacts ==
  ASSUME NEW a \in Nat, NEW b \in Nat, NEW d \in Nat, d > 0, a <= b
  PROVE  a \div d \in Nat /\ a \div d <= a /\ a \div d <= b \div d
<1>1. a \div d \in Nat /\ (a \div d) * d <= a
  BY DivFacts
<1>2. b \div d \in Nat /\ b < (b \div d) * d + d
  BY DivFacts
<1>3. ASSUME NEW m \in Nat, m * d <= a PROVE m <= a
  BY <1>3, Z3
<1>4. ASSUME NEW m \in Nat, NEW n \in Nat, m * d <= a, b < n * d + d PROVE m <= n
  BY <1>4, Z3
<1>5. QED
  BY <1>1, <1>2, <1>3, <1>4

LEMMA MulDivMonotone ==
  ASSUME NEW a \in Nat, NEW b \in Nat, NEW x \in Nat, NEW y \in Nat, a <= x, b <= y,
         NEW d \in Nat, d > 0
  PROVE  mul_div_floor(a, b, d) <= mul_div_floor(x, y, d)
<1>1. a * b \in Nat /\ x * y \in Nat /\ a * b <= x * y
  BY Z3
<1>2. QED
  BY <1>1, QuotientFacts DEF mul_div_floor








\* exp_negative_fixed: the terms.
LEMMA ExpTerms ==
  ASSUME NEW x \in Nat
  PROVE  /\ exp_terms(x) \in [0..22 -> Nat]
         /\ exp_terms(x)[0] = FIXED_SCALE
         /\ \A i \in 1..22 : exp_terms(x)[i] = mul_div_floor(exp_terms(x)[i - 1], x, FIXED_SCALE) \div i
<1> DEFINE eq(t) == t = [i \in 0..22 |-> IF i = 0 THEN FIXED_SCALE ELSE mul_div_floor(t[i - 1], x, FIXED_SCALE) \div i]
<1>1. FIXED_SCALE \in Nat
  BY LmsrAssumption
<1>2. \A v \in Nat, i \in 1..22 : mul_div_floor(v, x, FIXED_SCALE) \div i \in Nat
  <2>1. ASSUME NEW v \in Nat, NEW i \in 1..22
        PROVE  mul_div_floor(v, x, FIXED_SCALE) \div i \in Nat
    <3>1. mul_div_floor(v, x, FIXED_SCALE) \in Nat
      BY LmsrAssumption, MulDivFacts
    <3>2. i \in Nat /\ i > 0
      OBVIOUS
    <3>3. QED
      BY <3>1, <3>2, DivFacts
  <2>2. QED
    BY <2>1
<1>3. \E t \in [0..22 -> Nat] : t[0] = FIXED_SCALE /\ \A i \in 1..22 : t[i] = mul_div_floor(t[i - 1], x, FIXED_SCALE) \div i
  <2> DEFINE G == [i \in 1..22 |-> [v \in Nat |-> mul_div_floor(v, x, FIXED_SCALE) \div i]]
             a == FIXED_SCALE
             n == 22
             V == Nat
  <2>1. a \in V /\ n \in Nat /\ G \in [1..n -> [V -> V]]
    BY <1>1, <1>2
  <2>2. \A i \in 1..n, v \in V : G[i][v] = mul_div_floor(v, x, FIXED_SCALE) \div i
    OBVIOUS
  <2> HIDE DEF G, a, n, V
  <2>3. \E f \in [0..n -> V] : f[0] = a /\ \A i \in 1..n : f[i] = G[i][f[i - 1]]
    BY <2>1, RecursionExists
  <2>4. PICK f \in [0..22 -> Nat] : f[0] = FIXED_SCALE /\ \A i \in 1..22 : f[i] = G[i][f[i - 1]]
    BY <2>3 DEF a, n, V
  <2>5. \A i \in 1..22, v \in Nat : G[i][v] = mul_div_floor(v, x, FIXED_SCALE) \div i
    BY <2>2 DEF n, V
  <2>6. ASSUME NEW i \in 1..22 PROVE f[i] = mul_div_floor(f[i - 1], x, FIXED_SCALE) \div i
    <3>1. f[i - 1] \in Nat
      BY <2>4
    <3>2. QED
      BY <2>4, <2>5, <3>1
  <2>7. QED
    BY <2>4, <2>6
<1>4. \E t : eq(t)
  BY <1>3
<1>5. exp_terms(x) = CHOOSE t : eq(t)
  BY DEF exp_terms
<1> DEFINE t == exp_terms(x)
<1>6. /\ t = [i \in 0..22 |-> t[i]] /\ t[0] = FIXED_SCALE
      /\ \A i \in 1..22 : t[i] = mul_div_floor(t[i - 1], x, FIXED_SCALE) \div i
  <2>1. eq(t)
    BY <1>4, <1>5
  <2>2. QED
    BY <2>1
<1> HIDE DEF t
<1>7. \A i \in 0..22 : t[i] \in Nat
  <2> DEFINE P == {i \in 0..22 : t[i] \in Nat}
  <2>1. 0 \in P
    BY <1>1, <1>6
  <2>2. ASSUME NEW i \in 1..22, i - 1 \in P PROVE i \in P
    <3>1. t[i - 1] \in Nat
      BY <2>2
    <3>2. mul_div_floor(t[i - 1], x, FIXED_SCALE) \div i \in Nat
      BY <1>2, <3>1
    <3>3. i \in 0..22
      OBVIOUS
    <3>4. t[i] = mul_div_floor(t[i - 1], x, FIXED_SCALE) \div i
      BY <1>6
    <3>5. QED
      BY <3>2, <3>3, <3>4
  <2> HIDE DEF P
  <2>3. \A i \in 0..22 : i \in P
    BY <2>1, <2>2, UpTo
  <2>4. QED
    BY <2>3 DEF P
<1>8. QED
  BY <1>6, <1>7 DEF t

\* exp_negative_fixed: the sums.
LEMMA ExpSums ==
  ASSUME NEW x \in Nat
  PROVE  /\ exp_sums(x) \in [0..22 -> Int]
         /\ exp_sums(x)[0] = FIXED_SCALE
         /\ \A i \in 1..22 : exp_sums(x)[i] = exp_sums(x)[i - 1] + exp_sign(i) * exp_terms(x)[i]
<1> DEFINE eq(t) == t = [i \in 0..22 |-> IF i = 0 THEN FIXED_SCALE ELSE t[i - 1] + exp_sign(i) * exp_terms(x)[i]]
<1>1. FIXED_SCALE \in Int
  BY LmsrAssumption
<1>2. \A v \in Int, i \in 1..22 : v + exp_sign(i) * exp_terms(x)[i] \in Int
  <2>1. exp_terms(x) \in [0..22 -> Nat]
    BY ExpTerms
  <2>2. ASSUME NEW v \in Int, NEW i \in 1..22
        PROVE  v + exp_sign(i) * exp_terms(x)[i] \in Int
    <3>1. exp_terms(x)[i] \in Int /\ exp_sign(i) \in Int
      BY <2>1 DEF exp_sign
    <3>2. \A a, b \in Int : v + a * b \in Int
      OBVIOUS
    <3>3. QED
      BY <3>1, <3>2
  <2>3. QED
    BY <2>2
<1>3. \E t \in [0..22 -> Int] : t[0] = FIXED_SCALE /\ \A i \in 1..22 : t[i] = t[i - 1] + exp_sign(i) * exp_terms(x)[i]
  <2> DEFINE G == [i \in 1..22 |-> [v \in Int |-> v + exp_sign(i) * exp_terms(x)[i]]]
             a == FIXED_SCALE
             n == 22
             V == Int
  <2>1. a \in V /\ n \in Nat /\ G \in [1..n -> [V -> V]]
    BY <1>1, <1>2
  <2>2. \A i \in 1..n, v \in V : G[i][v] = v + exp_sign(i) * exp_terms(x)[i]
    OBVIOUS
  <2> HIDE DEF G, a, n, V
  <2>3. \E f \in [0..n -> V] : f[0] = a /\ \A i \in 1..n : f[i] = G[i][f[i - 1]]
    BY <2>1, RecursionExists
  <2>4. PICK f \in [0..22 -> Int] : f[0] = FIXED_SCALE /\ \A i \in 1..22 : f[i] = G[i][f[i - 1]]
    BY <2>3 DEF a, n, V
  <2>5. \A i \in 1..22, v \in Int : G[i][v] = v + exp_sign(i) * exp_terms(x)[i]
    BY <2>2 DEF n, V
  <2>6. ASSUME NEW i \in 1..22 PROVE f[i] = f[i - 1] + exp_sign(i) * exp_terms(x)[i]
    <3>1. f[i - 1] \in Int
      BY <2>4
    <3>2. QED
      BY <2>4, <2>5, <3>1
  <2>7. QED
    BY <2>4, <2>6
<1>4. \E t : eq(t)
  BY <1>3
<1>5. exp_sums(x) = CHOOSE t : eq(t)
  BY DEF exp_sums
<1> DEFINE t == exp_sums(x)
<1>6. /\ t = [i \in 0..22 |-> t[i]] /\ t[0] = FIXED_SCALE
      /\ \A i \in 1..22 : t[i] = t[i - 1] + exp_sign(i) * exp_terms(x)[i]
  <2>1. eq(t)
    BY <1>4, <1>5
  <2>2. QED
    BY <2>1
<1> HIDE DEF t
<1>7. \A i \in 0..22 : t[i] \in Int
  <2> DEFINE P == {i \in 0..22 : t[i] \in Int}
  <2>1. 0 \in P
    BY <1>1, <1>6
  <2>2. ASSUME NEW i \in 1..22, i - 1 \in P PROVE i \in P
    <3>1. t[i - 1] \in Int
      BY <2>2
    <3>2. t[i - 1] + exp_sign(i) * exp_terms(x)[i] \in Int
      BY <1>2, <3>1
    <3>3. i \in 0..22
      OBVIOUS
    <3>4. t[i] = t[i - 1] + exp_sign(i) * exp_terms(x)[i]
      BY <1>6
    <3>5. QED
      BY <3>2, <3>3, <3>4
  <2> HIDE DEF P
  <2>3. \A i \in 0..22 : i \in P
    BY <2>1, <2>2, UpTo
  <2>4. QED
    BY <2>3 DEF P
<1>8. QED
  BY <1>6, <1>7 DEF t

\* ln_one_plus_fixed: the powers.
LEMMA LnPowers ==
  ASSUME NEW x \in Nat
  PROVE  /\ ln_powers(x) \in [0..16 -> Nat]
         /\ ln_powers(x)[0] = x
         /\ \A i \in 1..16 : ln_powers(x)[i] = mul_div_floor(ln_powers(x)[i - 1], mul_div_floor(x, x, FIXED_SCALE), FIXED_SCALE)
<1> DEFINE eq(t) == t = [i \in 0..16 |-> IF i = 0 THEN x ELSE mul_div_floor(t[i - 1], mul_div_floor(x, x, FIXED_SCALE), FIXED_SCALE)]
<1>1. x \in Nat
  OBVIOUS
<1>2. \A v \in Nat, i \in 1..16 : mul_div_floor(v, mul_div_floor(x, x, FIXED_SCALE), FIXED_SCALE) \in Nat
  <2>1. mul_div_floor(x, x, FIXED_SCALE) \in Nat
    BY LmsrAssumption, MulDivFacts
  <2>2. QED
    BY <2>1, LmsrAssumption, MulDivFacts
<1>3. \E t \in [0..16 -> Nat] : t[0] = x /\ \A i \in 1..16 : t[i] = mul_div_floor(t[i - 1], mul_div_floor(x, x, FIXED_SCALE), FIXED_SCALE)
  <2> DEFINE G == [i \in 1..16 |-> [v \in Nat |-> mul_div_floor(v, mul_div_floor(x, x, FIXED_SCALE), FIXED_SCALE)]]
             a == x
             n == 16
             V == Nat
  <2>1. a \in V /\ n \in Nat /\ G \in [1..n -> [V -> V]]
    BY <1>1, <1>2
  <2>2. \A i \in 1..n, v \in V : G[i][v] = mul_div_floor(v, mul_div_floor(x, x, FIXED_SCALE), FIXED_SCALE)
    OBVIOUS
  <2> HIDE DEF G, a, n, V
  <2>3. \E f \in [0..n -> V] : f[0] = a /\ \A i \in 1..n : f[i] = G[i][f[i - 1]]
    BY <2>1, RecursionExists
  <2>4. PICK f \in [0..16 -> Nat] : f[0] = x /\ \A i \in 1..16 : f[i] = G[i][f[i - 1]]
    BY <2>3 DEF a, n, V
  <2>5. \A i \in 1..16, v \in Nat : G[i][v] = mul_div_floor(v, mul_div_floor(x, x, FIXED_SCALE), FIXED_SCALE)
    BY <2>2 DEF n, V
  <2>6. ASSUME NEW i \in 1..16 PROVE f[i] = mul_div_floor(f[i - 1], mul_div_floor(x, x, FIXED_SCALE), FIXED_SCALE)
    <3>1. f[i - 1] \in Nat
      BY <2>4
    <3>2. QED
      BY <2>4, <2>5, <3>1
  <2>7. QED
    BY <2>4, <2>6
<1>4. \E t : eq(t)
  BY <1>3
<1>5. ln_powers(x) = CHOOSE t : eq(t)
  BY DEF ln_powers
<1> DEFINE t == ln_powers(x)
<1>6. /\ t = [i \in 0..16 |-> t[i]] /\ t[0] = x
      /\ \A i \in 1..16 : t[i] = mul_div_floor(t[i - 1], mul_div_floor(x, x, FIXED_SCALE), FIXED_SCALE)
  <2>1. eq(t)
    BY <1>4, <1>5
  <2>2. QED
    BY <2>1
<1> HIDE DEF t
<1>7. \A i \in 0..16 : t[i] \in Nat
  <2> DEFINE P == {i \in 0..16 : t[i] \in Nat}
  <2>1. 0 \in P
    BY <1>1, <1>6
  <2>2. ASSUME NEW i \in 1..16, i - 1 \in P PROVE i \in P
    <3>1. t[i - 1] \in Nat
      BY <2>2
    <3>2. mul_div_floor(t[i - 1], mul_div_floor(x, x, FIXED_SCALE), FIXED_SCALE) \in Nat
      BY <1>2, <3>1
    <3>3. i \in 0..16
      OBVIOUS
    <3>4. t[i] = mul_div_floor(t[i - 1], mul_div_floor(x, x, FIXED_SCALE), FIXED_SCALE)
      BY <1>6
    <3>5. QED
      BY <3>2, <3>3, <3>4
  <2> HIDE DEF P
  <2>3. \A i \in 0..16 : i \in P
    BY <2>1, <2>2, UpTo
  <2>4. QED
    BY <2>3 DEF P
<1>8. QED
  BY <1>6, <1>7 DEF t

\* ln_one_plus_fixed: the sums.
LEMMA LnSums ==
  ASSUME NEW x \in Nat
  PROVE  /\ ln_sums(x) \in [0..16 -> Nat]
         /\ ln_sums(x)[0] = x
         /\ \A i \in 1..16 : ln_sums(x)[i] = ln_sums(x)[i - 1] + ln_powers(x)[i] \div ln_denominator(i)
<1> DEFINE eq(t) == t = [i \in 0..16 |-> IF i = 0 THEN x ELSE t[i - 1] + ln_powers(x)[i] \div ln_denominator(i)]
<1>1. x \in Nat
  OBVIOUS
<1>2. \A v \in Nat, i \in 1..16 : v + ln_powers(x)[i] \div ln_denominator(i) \in Nat
  <2>1. ASSUME NEW v \in Nat, NEW i \in 1..16
        PROVE  v + ln_powers(x)[i] \div ln_denominator(i) \in Nat
    <3>1. ln_powers(x)[i] \in Nat
      <4>1. ln_powers(x) \in [0..16 -> Nat]
        BY LnPowers
      <4>2. QED
        BY <4>1
    <3>2. ln_denominator(i) \in Nat /\ ln_denominator(i) > 0
      BY DEF ln_denominator
    <3>3. ln_powers(x)[i] \div ln_denominator(i) \in Nat
      BY <3>1, <3>2, DivFacts
    <3>4. QED
      BY <3>3
  <2>2. QED
    BY <2>1
<1>3. \E t \in [0..16 -> Nat] : t[0] = x /\ \A i \in 1..16 : t[i] = t[i - 1] + ln_powers(x)[i] \div ln_denominator(i)
  <2> DEFINE G == [i \in 1..16 |-> [v \in Nat |-> v + ln_powers(x)[i] \div ln_denominator(i)]]
             a == x
             n == 16
             V == Nat
  <2>1. a \in V /\ n \in Nat /\ G \in [1..n -> [V -> V]]
    BY <1>1, <1>2
  <2>2. \A i \in 1..n, v \in V : G[i][v] = v + ln_powers(x)[i] \div ln_denominator(i)
    OBVIOUS
  <2> HIDE DEF G, a, n, V
  <2>3. \E f \in [0..n -> V] : f[0] = a /\ \A i \in 1..n : f[i] = G[i][f[i - 1]]
    BY <2>1, RecursionExists
  <2>4. PICK f \in [0..16 -> Nat] : f[0] = x /\ \A i \in 1..16 : f[i] = G[i][f[i - 1]]
    BY <2>3 DEF a, n, V
  <2>5. \A i \in 1..16, v \in Nat : G[i][v] = v + ln_powers(x)[i] \div ln_denominator(i)
    BY <2>2 DEF n, V
  <2>6. ASSUME NEW i \in 1..16 PROVE f[i] = f[i - 1] + ln_powers(x)[i] \div ln_denominator(i)
    <3>1. f[i - 1] \in Nat
      BY <2>4
    <3>2. QED
      BY <2>4, <2>5, <3>1
  <2>7. QED
    BY <2>4, <2>6
<1>4. \E t : eq(t)
  BY <1>3
<1>5. ln_sums(x) = CHOOSE t : eq(t)
  BY DEF ln_sums
<1> DEFINE t == ln_sums(x)
<1>6. /\ t = [i \in 0..16 |-> t[i]] /\ t[0] = x
      /\ \A i \in 1..16 : t[i] = t[i - 1] + ln_powers(x)[i] \div ln_denominator(i)
  <2>1. eq(t)
    BY <1>4, <1>5
  <2>2. QED
    BY <2>1
<1> HIDE DEF t
<1>7. \A i \in 0..16 : t[i] \in Nat
  <2> DEFINE P == {i \in 0..16 : t[i] \in Nat}
  <2>1. 0 \in P
    BY <1>1, <1>6
  <2>2. ASSUME NEW i \in 1..16, i - 1 \in P PROVE i \in P
    <3>1. t[i - 1] \in Nat
      BY <2>2
    <3>2. t[i - 1] + ln_powers(x)[i] \div ln_denominator(i) \in Nat
      BY <1>2, <3>1
    <3>3. i \in 0..16
      OBVIOUS
    <3>4. t[i] = t[i - 1] + ln_powers(x)[i] \div ln_denominator(i)
      BY <1>6
    <3>5. QED
      BY <3>2, <3>3, <3>4
  <2> HIDE DEF P
  <2>3. \A i \in 0..16 : i \in P
    BY <2>1, <2>2, UpTo
  <2>4. QED
    BY <2>3 DEF P
<1>8. QED
  BY <1>6, <1>7 DEF t

\* What is left of a value after each shift by one.
LEMMA Halves ==
  ASSUME NEW x \in Nat, NEW k \in Nat
  PROVE  /\ halves(x, k) \in [0..k -> Nat]
         /\ halves(x, k)[0] = x
         /\ \A i \in 1..k : halves(x, k)[i] = halves(x, k)[i - 1] \div 2
<1> DEFINE eq(t) == t = [i \in 0..k |-> IF i = 0 THEN x ELSE t[i - 1] \div 2]
<1>1. x \in Nat
  OBVIOUS
<1>2. \A v \in Nat, i \in 1..k : v \div 2 \in Nat
  OBVIOUS
<1>3. \E t \in [0..k -> Nat] : t[0] = x /\ \A i \in 1..k : t[i] = t[i - 1] \div 2
  <2> DEFINE G == [i \in 1..k |-> [v \in Nat |-> v \div 2]]
             a == x
             n == k
             V == Nat
  <2>1. a \in V /\ n \in Nat /\ G \in [1..n -> [V -> V]]
    BY <1>1, <1>2
  <2>2. \A i \in 1..n, v \in V : G[i][v] = v \div 2
    OBVIOUS
  <2> HIDE DEF G, a, n, V
  <2>3. \E f \in [0..n -> V] : f[0] = a /\ \A i \in 1..n : f[i] = G[i][f[i - 1]]
    BY <2>1, RecursionExists
  <2>4. PICK f \in [0..k -> Nat] : f[0] = x /\ \A i \in 1..k : f[i] = G[i][f[i - 1]]
    BY <2>3 DEF a, n, V
  <2>5. \A i \in 1..k, v \in Nat : G[i][v] = v \div 2
    BY <2>2 DEF n, V
  <2>6. ASSUME NEW i \in 1..k PROVE f[i] = f[i - 1] \div 2
    <3>1. f[i - 1] \in Nat
      BY <2>4
    <3>2. QED
      BY <2>4, <2>5, <3>1
  <2>7. QED
    BY <2>4, <2>6
<1>4. \E t : eq(t)
  BY <1>3
<1>5. halves(x, k) = CHOOSE t : eq(t)
  BY DEF halves
<1> DEFINE t == halves(x, k)
<1>6. /\ t = [i \in 0..k |-> t[i]] /\ t[0] = x
      /\ \A i \in 1..k : t[i] = t[i - 1] \div 2
  <2>1. eq(t)
    BY <1>4, <1>5
  <2>2. QED
    BY <2>1
<1> HIDE DEF t
<1>7. \A i \in 0..k : t[i] \in Nat
  <2> DEFINE P == {i \in 0..k : t[i] \in Nat}
  <2>1. 0 \in P
    BY <1>1, <1>6
  <2>2. ASSUME NEW i \in 1..k, i - 1 \in P PROVE i \in P
    <3>1. t[i - 1] \in Nat
      BY <2>2
    <3>2. t[i - 1] \div 2 \in Nat
      BY <1>2, <3>1
    <3>3. i \in 0..k
      OBVIOUS
    <3>4. t[i] = t[i - 1] \div 2
      BY <1>6
    <3>5. QED
      BY <3>2, <3>3, <3>4
  <2> HIDE DEF P
  <2>3. \A i \in 0..k : i \in P
    BY <2>1, <2>2, UpTo
  <2>4. QED
    BY <2>3 DEF P
<1>8. QED
  BY <1>6, <1>7 DEF t

\* A shift to the right keeps a natural number natural and below what it was;
\* a shift by nothing keeps it.
LEMMA ShiftFacts ==
  ASSUME NEW x \in Nat, NEW k \in Nat
  PROVE  shift_right(x, k) \in 0..x /\ shift_right(x, 0) = x
<1> DEFINE h == halves(x, k)
<1>1. h \in [0..k -> Nat] /\ h[0] = x /\ \A i \in 1..k : h[i] = h[i - 1] \div 2
  BY Halves
<1> HIDE DEF h
<1>2. \A i \in 0..k : h[i] <= x
  <2> DEFINE P == {i \in 0..k : h[i] <= x}
  <2>1. 0 \in P
    BY <1>1
  <2>2. ASSUME NEW i \in 1..k, i - 1 \in P PROVE i \in P
    <3>1. h[i - 1] \in Nat /\ h[i - 1] <= x /\ h[i] = h[i - 1] \div 2
      BY <1>1, <2>2
    <3>2. QED
      BY <3>1
  <2> HIDE DEF P
  <2>3. \A i \in 0..k : i \in P
    BY <2>1, <2>2, UpTo
  <2>4. QED
    BY <2>3 DEF P
<1>3. k \in 0..k
  OBVIOUS
<1>4. h[k] \in Nat /\ h[k] <= x
  BY <1>1, <1>2, <1>3
<1>5. halves(x, 0)[0] = x
  BY Halves
<1>6. QED
  BY <1>4, <1>5 DEF shift_right, h

\* The terms of the exponential series never grow when its argument is below
\* one.
LEMMA TermsFall ==
  ASSUME NEW x \in Nat, x <= FIXED_SCALE, NEW i \in 1..22
  PROVE  /\ exp_terms(x)[i] \in Nat /\ exp_terms(x)[i - 1] \in Nat
         /\ exp_terms(x)[i] <= exp_terms(x)[i - 1]
<1> DEFINE t == exp_terms(x)
<1>1. t \in [0..22 -> Nat] /\ t[i] = mul_div_floor(t[i - 1], x, FIXED_SCALE) \div i
  BY ExpTerms
<1> HIDE DEF t
<1>2. t[i] \in Nat /\ t[i - 1] \in Nat
  BY <1>1
<1>3. mul_div_floor(t[i - 1], x, FIXED_SCALE) \in Nat
      /\ mul_div_floor(t[i - 1], x, FIXED_SCALE) <= t[i - 1]
  BY <1>2, LmsrAssumption, MulDivFacts
<1>4. i \in Nat /\ i > 0
  OBVIOUS
<1>5. mul_div_floor(t[i - 1], x, FIXED_SCALE) \div i <= mul_div_floor(t[i - 1], x, FIXED_SCALE)
  BY <1>3, <1>4, QuotientFacts
<1>6. QED
  BY <1>1, <1>2, <1>3, <1>5 DEF t

\* The sums of the alternating series stay between zero and one: checked_sub in
\* exp_negative_fixed never fails.
LEMMA SumsBounded ==
  ASSUME NEW x \in Nat, x <= FIXED_SCALE, NEW j \in 0..22
  PROVE  exp_sums(x)[j] \in 0..FIXED_SCALE
<1> DEFINE t == exp_terms(x)
<1> DEFINE s == exp_sums(x)
<1> DEFINE P == {i \in 0..22 : IF i % 2 = 0 THEN s[i] <= FIXED_SCALE /\ s[i] >= t[i]
                                            ELSE s[i] >= 0 /\ s[i] + t[i] <= FIXED_SCALE}
<1>1. t \in [0..22 -> Nat] /\ t[0] = FIXED_SCALE
  BY ExpTerms
<1>2. /\ s \in [0..22 -> Int] /\ s[0] = FIXED_SCALE
      /\ \A i \in 1..22 : s[i] = s[i - 1] + exp_sign(i) * t[i]
  BY ExpSums
<1>3. \A i \in 1..22 : t[i] <= t[i - 1]
  BY TermsFall
<1>4. FIXED_SCALE \in Nat
  BY LmsrAssumption
<1> HIDE DEF s, t
<1>5. 0 \in P
  BY <1>1, <1>2, <1>4
<1>6. ASSUME NEW i \in 1..22, i - 1 \in P PROVE i \in P
  <2>1. /\ s[i] \in Int /\ s[i - 1] \in Int /\ t[i] \in Nat /\ t[i - 1] \in Nat
        /\ t[i] <= t[i - 1]
    BY <1>1, <1>2, <1>3
  <2>2. CASE i % 2 = 1
    <3>1. (i - 1) % 2 = 0 /\ s[i - 1] <= FIXED_SCALE /\ s[i - 1] >= t[i - 1]
      BY <1>6, <2>2
    <3>2. s[i] = s[i - 1] - t[i]
      <4>1. s[i] = s[i - 1] + (-1) * t[i]
        BY <1>2, <2>2 DEF exp_sign
      <4>2. QED
        BY <2>1, <4>1
    <3>3. QED
      BY <1>4, <2>1, <2>2, <3>1, <3>2
  <2>3. CASE i % 2 = 0
    <3>1. (i - 1) % 2 = 1 /\ s[i - 1] >= 0 /\ s[i - 1] + t[i - 1] <= FIXED_SCALE
      BY <1>6, <2>3
    <3>2. s[i] = s[i - 1] + t[i]
      BY <1>2, <2>1, <2>3 DEF exp_sign
    <3>3. QED
      BY <1>4, <2>1, <2>3, <3>1, <3>2
  <2>4. QED
    BY <2>2, <2>3
<1>7. j \in P
  <2> HIDE DEF P
  <2>1. QED
    BY <1>5, <1>6, UpTo
<1>8. s[j] \in Int /\ t[j] \in Nat
  BY <1>1, <1>2
<1>9. QED
  BY <1>4, <1>7, <1>8 DEF s

\* exp_negative_fixed is a fraction, and one at zero.
LEMMA ExpFacts ==
  /\ \A v \in Nat : exp_negative_fixed(v) \in 0..FIXED_SCALE
  /\ exp_negative_fixed(0) = FIXED_SCALE
<1>1. /\ FIXED_SCALE \in Nat /\ FIXED_SCALE > 0 /\ LN_2_FIXED \in Nat /\ LN_2_FIXED > 0
      /\ LN_2_FIXED <= FIXED_SCALE
  BY LmsrAssumption, SeriesAssumption
<1>2. ASSUME NEW v \in Nat PROVE exp_negative_fixed(v) \in 0..FIXED_SCALE
  <2> DEFINE r == v % LN_2_FIXED
  <2> DEFINE k == v \div LN_2_FIXED
  <2>1. k \in Nat
    BY <1>1, DivFacts
  <2>2. r \in Nat /\ r < LN_2_FIXED
    BY <1>1, Z3
  <2>3. r <= FIXED_SCALE
    BY <1>1, <2>2
  <2>4. exp_negative_fixed(v) = IF k > 127 THEN 0 ELSE shift_right(exp_sums(r)[22], k)
    BY DEF exp_negative_fixed
  <2> HIDE DEF r, k
  <2>5. exp_sums(r)[22] \in 0..FIXED_SCALE
    BY <2>2, <2>3, SumsBounded
  <2>6. shift_right(exp_sums(r)[22], k) \in 0..exp_sums(r)[22]
    <3>1. exp_sums(r)[22] \in Nat
      BY <1>1, <2>5
    <3>2. QED
      BY <2>1, <3>1, ShiftFacts
  <2>7. QED
    BY <1>1, <2>4, <2>5, <2>6
<1>3. exp_negative_fixed(0) = FIXED_SCALE
  <2>1. 0 % LN_2_FIXED = 0 /\ 0 \div LN_2_FIXED = 0
    BY <1>1, Z3
  <2>2. exp_negative_fixed(0) = shift_right(exp_sums(0)[22], 0)
    BY <2>1 DEF exp_negative_fixed
  <2> DEFINE t == exp_terms(0)
  <2> DEFINE s == exp_sums(0)
  <2>3. t \in [0..22 -> Nat] /\ \A i \in 1..22 : t[i] = mul_div_floor(t[i - 1], 0, FIXED_SCALE) \div i
    BY ExpTerms
  <2>4. /\ s \in [0..22 -> Int] /\ s[0] = FIXED_SCALE
        /\ \A i \in 1..22 : s[i] = s[i - 1] + exp_sign(i) * t[i]
    BY ExpSums
  <2> HIDE DEF s, t
  <2>5. ASSUME NEW i \in 1..22 PROVE s[i] = s[i - 1]
    <3>1. t[i - 1] \in Nat /\ s[i - 1] \in Int
      BY <2>3, <2>4
    <3>2. mul_div_floor(t[i - 1], 0, FIXED_SCALE) = 0
      BY <1>1, <3>1, Z3 DEF mul_div_floor
    <3>3. t[i] = 0
      BY <2>3, <3>2, Z3
    <3>4. exp_sign(i) * t[i] = 0
      BY <3>3 DEF exp_sign
    <3>5. QED
      BY <2>4, <3>1, <3>4
  <2> DEFINE P == {i \in 0..22 : s[i] = FIXED_SCALE}
  <2>6. 0 \in P /\ \A i \in 1..22 : i - 1 \in P => i \in P
    BY <2>4, <2>5
  <2>7. 22 \in P
    <3> HIDE DEF P
    <3>1. QED
      BY <2>6, UpTo
  <2>8. exp_sums(0)[22] = FIXED_SCALE
    BY <2>7 DEF s
  <2>9. shift_right(FIXED_SCALE, 0) = FIXED_SCALE
    BY <1>1, ShiftFacts
  <2>10. QED
    BY <2>2, <2>8, <2>9
<1>4. QED
  BY <1>2, <1>3

\* The argument of the logarithm's series grows with its own argument.
LEMMA RatioMonotone ==
  ASSUME NEW v \in Nat, NEW w \in Nat, v <= w
  PROVE  /\ mul_div_floor(v, FIXED_SCALE, 2 * FIXED_SCALE + v) \in Nat
         /\ mul_div_floor(w, FIXED_SCALE, 2 * FIXED_SCALE + w) \in Nat
         /\ mul_div_floor(v, FIXED_SCALE, 2 * FIXED_SCALE + v)
              <= mul_div_floor(w, FIXED_SCALE, 2 * FIXED_SCALE + w)
<1> DEFINE S == FIXED_SCALE
<1>1. S \in Nat /\ S > 0
  BY LmsrAssumption
<1> HIDE DEF S
<1>2. /\ 2 * S + v \in Nat /\ 2 * S + v > 0 /\ 2 * S + w \in Nat /\ 2 * S + w > 0
      /\ v * S \in Nat /\ w * S \in Nat
  BY <1>1, MulFacts
<1> DEFINE a == mul_div_floor(v, S, 2 * S + v)
<1> DEFINE b == mul_div_floor(w, S, 2 * S + w)
<1>3. a \in Nat /\ a * (2 * S + v) <= v * S
  BY <1>2, DivFacts DEF mul_div_floor
<1>4. b \in Nat /\ w * S < b * (2 * S + w) + (2 * S + w)
  BY <1>2, DivFacts DEF mul_div_floor
<1> HIDE DEF a, b
<1>5. a <= S
  <2>1. ASSUME a > S PROVE FALSE
    <3>1. a * (2 * S + v) > S * (2 * S + v)
      BY <1>1, <1>2, <1>3, <2>1, Z3
    <3>2. S * (2 * S + v) >= v * S
      BY <1>1, Z3
    <3>3. QED
      BY <1>1, <1>2, <1>3, <3>1, <3>2
  <2>2. QED
    BY <1>1, <1>3, <2>1
<1>6. a * (2 * S + w) <= w * S
  <2>1. PICK d \in Nat : w = v + d
    <3>1. w - v \in Nat /\ w = v + (w - v)
      OBVIOUS
    <3>2. QED
      BY <3>1
  <2>2. a * (2 * S + w) = a * (2 * S + v) + a * d
    BY <1>1, <1>3, <2>1, Z3
  <2>3. a * d <= S * d
    BY <1>1, <1>3, <1>5, MulFacts
  <2>4. w * S = v * S + S * d
    BY <1>1, <2>1, Z3
  <2>5. a * d \in Int /\ S * d \in Int /\ a * (2 * S + v) \in Int
    BY <1>1, <1>3, Z3
  <2>6. QED
    BY <1>2, <1>3, <2>2, <2>3, <2>4, <2>5
<1>7. ASSUME NEW m \in Nat, m > 0, NEW n \in Nat, a * m <= n, n < b * m + m PROVE a <= b
  BY <1>3, <1>4, <1>7, Z3
<1>8. a <= b
  BY <1>2, <1>4, <1>6, <1>7
<1>9. QED
  BY <1>3, <1>4, <1>8 DEF S, a, b

\* Each term of the logarithm's series grows with its argument, and so does the
\* series.
LEMMA LnMonotone ==
  ASSUME NEW v \in Nat, NEW w \in Nat, v <= w
  PROVE  /\ ln_one_plus_fixed(v) \in Nat
         /\ ln_one_plus_fixed(v) <= ln_one_plus_fixed(w)
<1> DEFINE x == mul_div_floor(v, FIXED_SCALE, 2 * FIXED_SCALE + v)
           y == mul_div_floor(w, FIXED_SCALE, 2 * FIXED_SCALE + w)
<1>1. x \in Nat /\ y \in Nat /\ x <= y
  BY RatioMonotone
<1>2. ln_one_plus_fixed(v) = 2 * ln_sums(x)[16] /\ ln_one_plus_fixed(w) = 2 * ln_sums(y)[16]
  BY DEF ln_one_plus_fixed
<1> HIDE DEF x, y
<1> DEFINE S == FIXED_SCALE
           xx == mul_div_floor(x, x, S)
           yy == mul_div_floor(y, y, S)
           p == ln_powers(x)
           q == ln_powers(y)
           s == ln_sums(x)
           t == ln_sums(y)
<1>3. S \in Nat /\ S > 0
  BY LmsrAssumption
<1>4. xx \in Nat /\ yy \in Nat /\ xx <= yy
  BY <1>1, <1>3, MulDivFacts, MulDivMonotone
<1>5. p \in [0..16 -> Nat] /\ p[0] = x /\ \A i \in 1..16 : p[i] = mul_div_floor(p[i - 1], xx, S)
  BY <1>1, LnPowers
<1>6. q \in [0..16 -> Nat] /\ q[0] = y /\ \A i \in 1..16 : q[i] = mul_div_floor(q[i - 1], yy, S)
  BY <1>1, LnPowers
<1>7. /\ s \in [0..16 -> Nat] /\ s[0] = x
      /\ \A i \in 1..16 : s[i] = s[i - 1] + p[i] \div ln_denominator(i)
  BY <1>1, LnSums
<1>8. /\ t \in [0..16 -> Nat] /\ t[0] = y
      /\ \A i \in 1..16 : t[i] = t[i - 1] + q[i] \div ln_denominator(i)
  BY <1>1, LnSums
<1> HIDE DEF S, xx, yy, p, q, s, t
<1>9. \A i \in 0..16 : p[i] <= q[i]
  <2> DEFINE P == {i \in 0..16 : p[i] <= q[i]}
  <2>1. 0 \in P
    BY <1>1, <1>5, <1>6
  <2>2. ASSUME NEW i \in 1..16, i - 1 \in P PROVE i \in P
    <3>1. p[i - 1] \in Nat /\ q[i - 1] \in Nat /\ p[i - 1] <= q[i - 1]
      BY <1>5, <1>6, <2>2
    <3>2. mul_div_floor(p[i - 1], xx, S) <= mul_div_floor(q[i - 1], yy, S)
      BY <1>3, <1>4, <3>1, MulDivMonotone
    <3>3. QED
      BY <1>5, <1>6, <3>2
  <2> HIDE DEF P
  <2>3. \A i \in 0..16 : i \in P
    BY <2>1, <2>2, UpTo
  <2>4. QED
    BY <2>3 DEF P
<1>10. \A i \in 0..16 : s[i] <= t[i]
  <2> DEFINE P == {i \in 0..16 : s[i] <= t[i]}
  <2>1. 0 \in P
    BY <1>1, <1>7, <1>8
  <2>2. ASSUME NEW i \in 1..16, i - 1 \in P PROVE i \in P
    <3>1. s[i - 1] \in Nat /\ t[i - 1] \in Nat /\ s[i - 1] <= t[i - 1]
      BY <1>7, <1>8, <2>2
    <3>2. p[i] \in Nat /\ q[i] \in Nat /\ p[i] <= q[i]
      BY <1>5, <1>6, <1>9
    <3>3. ln_denominator(i) \in Nat /\ ln_denominator(i) > 0
      BY DEF ln_denominator
    <3>4. /\ p[i] \div ln_denominator(i) \in Nat /\ q[i] \div ln_denominator(i) \in Nat
          /\ p[i] \div ln_denominator(i) <= q[i] \div ln_denominator(i)
      BY <3>2, <3>3, DivFacts, QuotientFacts
    <3>5. s[i] = s[i - 1] + p[i] \div ln_denominator(i) /\ t[i] = t[i - 1] + q[i] \div ln_denominator(i)
      BY <1>7, <1>8
    <3>6. s[i] <= t[i]
      BY <3>1, <3>4, <3>5
    <3>7. QED
      BY <3>6
  <2> HIDE DEF P
  <2>3. \A i \in 0..16 : i \in P
    BY <2>1, <2>2, UpTo
  <2>4. QED
    BY <2>3 DEF P
<1>11. s[16] \in Nat /\ t[16] \in Nat /\ s[16] <= t[16]
  BY <1>7, <1>8, <1>10
<1>12. QED
  BY <1>2, <1>11 DEF s, t

\* softplus is a natural number, at most the logarithm of two: what the subsidy
\* is computed from is the most the pricing curve lies above the larger side.
LEMMA SoftplusFacts ==
  ASSUME NEW d \in 0..MaxImbalance
  PROVE  softplus[d] \in Nat /\ softplus[d] <= LN_2_FIXED
<1>1. MaxImbalance \in Nat /\ Liquidity \in Nat /\ Liquidity > 0 /\ LN_2_FIXED \in Nat
      /\ FIXED_SCALE \in Nat
  BY LmsrAssumption, MulFacts DEF MaxImbalance
<1> DEFINE v == mul_div_floor(d, FIXED_SCALE, Liquidity)
<1>2. v \in Nat
  <2>1. d \in Nat
    BY <1>1
  <2>2. QED
    BY <1>1, <2>1, MulDivFacts
<1>3. tail(d) = exp_negative_fixed(v)
  BY DEF tail
<1> HIDE DEF v
<1>4. tail(d) \in Nat /\ tail(d) <= FIXED_SCALE
  BY <1>1, <1>2, <1>3, ExpFacts
<1>5. /\ ln_one_plus_fixed(tail(d)) \in Nat
      /\ ln_one_plus_fixed(tail(d)) <= ln_one_plus_fixed(FIXED_SCALE)
      /\ ln_one_plus_fixed(FIXED_SCALE) \in Nat
  BY <1>1, <1>4, LnMonotone
<1>6. softplus[d] = ln_one_plus_fixed(tail(d))
  BY DEF softplus
<1>7. QED
  BY <1>1, <1>5, <1>6, SeriesAssumption

----------------------------------------------------------------------------
(* Rounding and pricing.                                                   *)

Quantities == [yes : Nat, no : Nat]

\* div_ceil rounds up to a natural number.
LEMMA CeilFacts ==
  ASSUME NEW x \in Nat, NEW d \in Nat, d > 0
  PROVE  div_ceil(x, d) \in Nat /\ div_ceil(x, d) * d >= x
<1>1. x \div d \in Nat /\ x < (x \div d) * d + d
  BY DivFacts
<1>2. CASE x % d = 0
  <2>1. x = (x \div d) * d
    BY <1>2, Z3
  <2>2. div_ceil(x, d) = x \div d
    BY <1>2 DEF div_ceil
  <2>3. QED
    BY <1>1, <2>1, <2>2
<1>3. CASE x % d # 0
  <2>1. div_ceil(x, d) = (x \div d) + 1
    BY <1>3 DEF div_ceil
  <2>2. ASSUME NEW q \in Nat, x < q * d + d PROVE (q + 1) * d >= x
    BY <2>2, Z3
  <2>3. QED
    BY <1>1, <2>1, <2>2
<1>4. QED
  BY <1>2, <1>3

\* The LMSR cost is at least the larger quantity, in fixed point.
LEMMA CostFacts ==
  ASSUME NEW q \in Quantities, abs_diff(q.yes, q.no) <= MaxImbalance
  PROVE  /\ MaxOf(q.yes, q.no) \in Nat
         /\ MaxOf(q.yes, q.no) * FIXED_SCALE \in Nat
         /\ cost_fixed(q) \in Nat
         /\ cost_fixed(q) >= MaxOf(q.yes, q.no) * FIXED_SCALE
<1> DEFINE d == abs_diff(q.yes, q.no)
<1> DEFINE m == MaxOf(q.yes, q.no)
<1>1. d \in Nat /\ m \in Nat
  BY DEF Quantities, abs_diff, MaxOf
<1>2. MaxImbalance \in Nat
  <2>1. Liquidity \in Nat /\ MAX_IMBALANCE_MULTIPLIER \in Nat
    BY LmsrAssumption
  <2>2. QED
    BY <2>1, MulFacts DEF MaxImbalance
<1>3. softplus[d] \in Nat
  BY <1>1, <1>2, SoftplusFacts
<1>4. Liquidity * softplus[d] \in Nat
  BY <1>3, LmsrAssumption, MulFacts
<1>5. m * FIXED_SCALE \in Nat
  BY <1>1, LmsrAssumption, MulFacts
<1>6. cost_fixed(q) = m * FIXED_SCALE + Liquidity * softplus[d]
  BY DEF cost_fixed
<1>7. QED
  BY <1>1, <1>4, <1>5, <1>6

\* A buy that is quoted pays for the growth of the cost, rounded up.
LEMMA BuyFacts ==
  ASSUME NEW q \in Quantities, validate_state(q), NEW side, NEW shares \in Nat,
         quote_buy_ok(q, side, shares)
  PROVE  LET quote == quote_buy(q, side, shares)
         IN  /\ quote.after \in Quantities
             /\ quote.after = increase(q, side, shares)
             /\ validate_state(quote.after)
             /\ cost_fixed(q) \in Nat /\ cost_fixed(quote.after) \in Nat
             /\ quote.raw \in Nat
             /\ quote.raw * FIXED_SCALE >= cost_fixed(quote.after) - cost_fixed(q)
<1> DEFINE after == increase(q, side, shares)
<1>1. after \in Quantities
  BY DEF Quantities, increase
<1>2. validate_state(after) /\ cost_fixed(after) >= cost_fixed(q)
  BY DEF quote_buy_ok
<1>3. cost_fixed(q) \in Nat /\ cost_fixed(after) \in Nat
  BY <1>1, <1>2, CostFacts DEF validate_state
<1>4. cost_fixed(after) - cost_fixed(q) \in Nat
  BY <1>2, <1>3
<1>5. FIXED_SCALE \in Nat /\ FIXED_SCALE > 0
  BY LmsrAssumption
<1>6. /\ buy_raw(q, after) \in Nat
      /\ buy_raw(q, after) * FIXED_SCALE >= cost_fixed(after) - cost_fixed(q)
  BY <1>4, <1>5, CeilFacts DEF buy_raw
<1>7. quote_buy(q, side, shares).after = after /\ quote_buy(q, side, shares).raw = buy_raw(q, after)
  BY DEF quote_buy
<1>8. QED
  BY <1>1, <1>2, <1>3, <1>6, <1>7

\* A sale that is quoted pays at most the fall of the cost, rounded down.
LEMMA SellFacts ==
  ASSUME NEW q \in Quantities, validate_state(q), NEW side, NEW shares \in Nat,
         quote_sell_ok(q, side, shares)
  PROVE  LET quote == quote_sell(q, side, shares)
         IN  /\ quote.after \in Quantities
             /\ quote.after = decrease(q, side, shares)
             /\ validate_state(quote.after)
             /\ cost_fixed(q) \in Nat /\ cost_fixed(quote.after) \in Nat
             /\ quote.raw \in Nat
             /\ quote.raw * FIXED_SCALE <= cost_fixed(q) - cost_fixed(quote.after)
             /\ quote.fee = fee_amount(quote.raw, shares)
             /\ quote.total = quote.raw - quote.fee
<1> DEFINE after == decrease(q, side, shares)
<1>1. after \in Quantities
  <2>1. after.yes \in Nat /\ after.no \in Nat /\ after = [yes |-> after.yes, no |-> after.no]
    BY DEF quote_sell_ok, decrease, Quantities
  <2>2. QED
    BY <2>1 DEF Quantities
<1>2. validate_state(after) /\ cost_fixed(q) >= cost_fixed(after)
  BY DEF quote_sell_ok
<1>3. cost_fixed(q) \in Nat /\ cost_fixed(after) \in Nat
  BY <1>1, <1>2, CostFacts DEF validate_state
<1>4. cost_fixed(q) - cost_fixed(after) \in Nat
  BY <1>2, <1>3
<1>5. FIXED_SCALE \in Nat /\ FIXED_SCALE > 0
  BY LmsrAssumption
<1>6. /\ sell_raw(q, after) \in Nat
      /\ sell_raw(q, after) * FIXED_SCALE <= cost_fixed(q) - cost_fixed(after)
  BY <1>4, <1>5, DivFacts DEF sell_raw
<1>7. QED
  BY <1>1, <1>2, <1>3, <1>6 DEF quote_sell

\* The fee of a trade is a natural number.
LEMMA FeeFacts ==
  ASSUME NEW raw \in Nat, NEW shares \in Nat, shares > 0
  PROVE  fee_amount(raw, shares) \in Nat
<1> DEFINE price == MinOf(mul_div_floor(raw, FIXED_SCALE, shares), FIXED_SCALE)
<1> DEFINE curvature == mul_div_floor(price, FIXED_SCALE - price, FIXED_SCALE)
<1>1. FIXED_SCALE \in Nat /\ FIXED_SCALE > 0 /\ TradeFeeBps \in Nat
      /\ FeeDenominator \in Nat /\ FeeDenominator > 0
  BY LmsrAssumption
<1>2. price \in 0..FIXED_SCALE
  <2>1. raw * FIXED_SCALE \in Nat
    BY <1>1, MulFacts
  <2>2. mul_div_floor(raw, FIXED_SCALE, shares) \in Nat
    BY <2>1, DivFacts DEF mul_div_floor
  <2>3. QED
    BY <1>1, <2>2 DEF MinOf
<1>3. curvature \in Nat
  <2>1. price \in Nat /\ FIXED_SCALE - price \in Nat
    BY <1>1, <1>2
  <2>2. price * (FIXED_SCALE - price) \in Nat
    BY <2>1, MulFacts
  <2>3. QED
    BY <1>1, <2>2, DivFacts DEF mul_div_floor
<1>4. shares * TradeFeeBps * curvature \in Nat
  BY <1>1, <1>3, MulFacts
<1>5. FeeDenominator * FIXED_SCALE \in Nat /\ FeeDenominator * FIXED_SCALE > 0
  BY <1>1, Z3
<1>6. div_ceil(shares * TradeFeeBps * curvature, FeeDenominator * FIXED_SCALE) \in Nat
  BY <1>4, <1>5, CeilFacts
<1>7. QED
  BY <1>6 DEF fee_amount

\* However the fee is split and merged, exactly the fee leaves the vault.
LEMMA SplitFacts ==
  ASSUME NEW fee \in Nat, NEW same
  PROVE  LET fees == coalesce_hybrid_fee_transfers(same, split_hybrid_fee(fee))
         IN  fees.treasury \in Int /\ fees.liquidity \in Int
             /\ fees.treasury + fees.liquidity = fee
<1>1. FeeDenominator \in Nat /\ FeeDenominator > 0 /\ TreasuryShareBps \in Nat
  BY LmsrAssumption, HybridAssumption
<1>2. fee * TreasuryShareBps \in Nat
  BY <1>1, MulFacts
<1>3. (fee * TreasuryShareBps) \div FeeDenominator \in Nat
  BY <1>1, <1>2, DivFacts
<1> DEFINE cut == (fee * TreasuryShareBps) \div FeeDenominator
<1>4. split_hybrid_fee(fee) = [treasury |-> cut, liquidity |-> fee - cut]
  BY DEF split_hybrid_fee
<1>5. cut \in Nat
  BY <1>3
<1> HIDE DEF cut
<1>6. QED
  BY <1>4, <1>5 DEF coalesce_hybrid_fee_transfers

\* What a vault loses or gains in rounding, in fixed point.
LEMMA BuyRounding ==
  ASSUME NEW v \in Nat, NEW r \in Nat, NEW s \in Nat, NEW c0 \in Nat, NEW c1 \in Nat,
         NEW k \in Nat, v * s >= c0 + k * s, r * s >= c1 - c0
  PROVE  (v + r) * s >= c1 + k * s
  BY Z3

\* Paying out less than the cost fell by leaves the rest covered.
LEMMA SellRounding ==
  ASSUME NEW v \in Nat, NEW r \in Nat, NEW s \in Nat, NEW c0 \in Nat, NEW c1 \in Nat,
         NEW k \in Nat, v * s >= c0 + k * s, r * s <= c0 - c1
  PROVE  (v - r) * s >= c1 + k * s
  BY Z3

\* A vault that covers a cost covers the quantity below it.
LEMMA CoverFacts ==
  ASSUME NEW v \in Int, NEW s \in Nat, s > 0, NEW c \in Nat, NEW m \in Nat, NEW k \in Nat,
         v * s >= c + k * s, c >= m * s
  PROVE  v >= m + k
<1>1. (v - m - k) * s >= 0
  BY Z3
<1>2. ASSUME NEW x \in Int, x * s >= 0 PROVE x >= 0
  BY <1>2, Z3
<1>3. QED
  BY <1>1, <1>2

----------------------------------------------------------------------------
(* Initial states and steps that leave positions and liabilities alone.    *)

\* Facts about the constants that most steps use.
LEMMA ConstantFacts ==
  /\ IsFiniteSet(Traders)
  /\ MAX_OUTCOME_QUANTITY \in Nat
  /\ FIXED_SCALE \in Nat /\ FIXED_SCALE > 0
  /\ RoundingReserve \in Nat
  /\ MaxImbalance \in Nat
<1>1. Liquidity \in Nat /\ MAX_IMBALANCE_MULTIPLIER \in Nat
  BY LmsrAssumption
<1>2. MaxImbalance \in Nat
  BY <1>1, MulFacts DEF MaxImbalance
<1>3. QED
  BY <1>2, TradersAssumption, LmsrAssumption

\* The state before initialize_hybrid_market satisfies the invariant.
LEMMA InitInv == Init => IInv
<1>1. SUFFICES ASSUME Init PROVE IInv
  OBVIOUS
<1>2. TypeOK
  <2>1. MaxTime \in Nat /\ MaxTrades \in Nat /\ MaxDonation \in Nat
    BY HybridAssumption
  <2>2. yes_shares \in [Traders -> 0..MAX_OUTCOME_QUANTITY]
        /\ no_shares \in [Traders -> 0..MAX_OUTCOME_QUANTITY]
    BY <1>1, ConstantFacts DEF Init
  <2>3. consumed \in BOOLEAN
    BY <1>1 DEF Init
  <2>4. QED
    BY <1>1, <2>1, <2>2, <2>3, ConstantFacts DEF Init, TypeOK, Phases
<1>3. PhaseFacts
  BY <1>1, ConstantFacts
     DEF Init, PhaseFacts, Trading, Decided, validate_state, lmsr_quantities, abs_diff
<1>4. SharesAccounted
  BY <1>1, ConstantFacts, TotalZero DEF Init, SharesAccounted
<1>5. PotentialCovered /\ LiabilityExact /\ VaultCoversLiability /\ ClosedEmpty /\ DecidedInTime
  BY <1>1 DEF Init, PotentialCovered, LiabilityExact, VaultCoversLiability, ClosedEmpty,
     DecidedInTime, Trading, Decided
<1>6. QED
  BY <1>2, <1>3, <1>4, <1>5 DEF IInv

\* The clock changes nothing the invariant is about.
LEMMA TickInv == IInv /\ Tick => IInv'
<1>1. SUFFICES ASSUME IInv, Tick PROVE IInv'
  OBVIOUS
<1> USE DEF Tick, quantityVars, positionVars, resolutionVars, liabilityVars
<1>2. TypeOK'
  BY <1>1, HybridAssumption DEF IInv, TypeOK
<1>3. PhaseFacts' /\ SharesAccounted'
  BY <1>1 DEF IInv, PhaseFacts, SharesAccounted, validate_state, lmsr_quantities
<1>4. PotentialCovered'
  BY <1>1 DEF IInv, PotentialCovered, lmsr_quantities
<1>5. LiabilityExact'
  BY <1>1 DEF IInv, LiabilityExact, OwedTwice, Unsettled, hybrid_market_liability
<1>6. VaultCoversLiability' /\ ClosedEmpty' /\ DecidedInTime'
  BY <1>1 DEF IInv, VaultCoversLiability, ClosedEmpty, DecidedInTime
<1>7. QED
  BY <1>2, <1>3, <1>4, <1>5, <1>6 DEF IInv

\* A stray deposit only adds to the vault.
LEMMA DonateInv == IInv /\ Donate => IInv'
<1>1. SUFFICES ASSUME IInv, Donate PROVE IInv'
  OBVIOUS
<1> USE DEF Donate, quantityVars, positionVars, resolutionVars, liabilityVars
<1>2. TypeOK'
  BY <1>1, HybridAssumption DEF IInv, TypeOK
<1>3. PhaseFacts' /\ SharesAccounted'
  BY <1>1 DEF IInv, PhaseFacts, SharesAccounted, validate_state, lmsr_quantities
<1>4. PotentialCovered'
  <2>1. SUFFICES ASSUME phase \in Trading PROVE PotentialCovered'
    BY <1>1 DEF PotentialCovered
  <2>2. vault \in Nat /\ donated \in Nat /\ vault' = vault + 1 /\ donated' = donated + 1
    BY <1>1 DEF IInv, TypeOK
  <2> DEFINE c == cost_fixed(lmsr_quantities)
  <2>3. vault * FIXED_SCALE >= c + (RoundingReserve + donated) * FIXED_SCALE
    BY <1>1, <2>1 DEF IInv, PotentialCovered
  <2>4. c \in Nat
    <3>1. lmsr_quantities \in Quantities
      BY <1>1 DEF IInv, TypeOK, lmsr_quantities, Quantities
    <3>2. QED
      BY <1>1, <3>1, CostFacts DEF IInv, PhaseFacts, validate_state
  <2>5. c' = c
    BY <1>1 DEF lmsr_quantities
  <2>6. ASSUME NEW v \in Nat, NEW k \in Nat, NEW s \in Nat, NEW x \in Nat,
               v * s >= x + k * s
        PROVE  (v + 1) * s >= x + (k + 1) * s
    BY <2>6, Z3
  <2> HIDE DEF c
  <2>7. (vault + 1) * FIXED_SCALE >= c + ((RoundingReserve + donated) + 1) * FIXED_SCALE
    BY <2>2, <2>3, <2>4, <2>6, ConstantFacts
  <2>8. (RoundingReserve + donated) + 1 = RoundingReserve + donated'
    BY <2>2, ConstantFacts
  <2>9. vault' * FIXED_SCALE >= c' + (RoundingReserve + donated') * FIXED_SCALE
    BY <2>2, <2>5, <2>7, <2>8
  <2>10. QED
    BY <2>9 DEF PotentialCovered, c
<1>5. LiabilityExact'
  BY <1>1 DEF IInv, LiabilityExact, OwedTwice, Unsettled, hybrid_market_liability
<1>6. VaultCoversLiability' /\ ClosedEmpty' /\ DecidedInTime'
  BY <1>1 DEF IInv, TypeOK, VaultCoversLiability, ClosedEmpty, DecidedInTime
<1>7. QED
  BY <1>2, <1>3, <1>4, <1>5, <1>6 DEF IInv

\* initialize_hybrid_market deposits the subsidy, which covers the cost of a
\* market without shares and the rounding reserve.
LEMMA InitializeHybridMarketInv == IInv /\ InitializeHybridMarket => IInv'
<1>1. SUFFICES ASSUME IInv, InitializeHybridMarket PROVE IInv'
  OBVIOUS
<1> USE DEF InitializeHybridMarket, quantityVars, positionVars, resolutionVars, liabilityVars
<1> DEFINE base == div_ceil(Liquidity * LN_2_FIXED, FIXED_SCALE)
<1>2. Liquidity * LN_2_FIXED \in Nat
  BY LmsrAssumption, MulFacts
<1>3. base \in Nat /\ base * FIXED_SCALE >= Liquidity * LN_2_FIXED
  BY <1>2, ConstantFacts, CeilFacts
<1>4. required_subsidy \in Nat /\ required_subsidy = base + RoundingReserve
  BY <1>3, ConstantFacts DEF required_subsidy
<1>5. TypeOK'
  BY <1>1, <1>4 DEF IInv, TypeOK, Phases
<1>6. PhaseFacts' /\ SharesAccounted'
  BY <1>1 DEF IInv, PhaseFacts, SharesAccounted, validate_state, lmsr_quantities, Trading, Decided
<1>7. PotentialCovered'
  <2>1. yes_quantity' = 0 /\ no_quantity' = 0 /\ vault' = required_subsidy /\ donated' = 0
    BY <1>1, <1>4 DEF IInv, PhaseFacts
  <2>2. cost_fixed(lmsr_quantities)' = 0 * FIXED_SCALE + Liquidity * softplus[0]
    BY <2>1 DEF cost_fixed, lmsr_quantities, MaxOf, abs_diff
  <2>3. softplus[0] \in Nat /\ softplus[0] <= LN_2_FIXED /\ Liquidity \in Nat
    BY ConstantFacts, SoftplusFacts, LmsrAssumption
  <2>4. Liquidity * softplus[0] \in Nat /\ Liquidity * softplus[0] <= Liquidity * LN_2_FIXED
    <3>1. ASSUME NEW a \in Nat, NEW b \in Nat, NEW l \in Nat, a <= b
          PROVE  l * a \in Nat /\ l * a <= l * b
      BY <3>1, Z3
    <3>2. QED
      BY <2>3, <3>1, LmsrAssumption
  <2>5. ASSUME NEW b \in Nat, NEW r \in Nat, NEW s \in Nat, NEW x \in Nat, b * s >= x
        PROVE  (b + r) * s >= x + r * s
    BY <2>5, Z3
  <2>6. base * FIXED_SCALE >= Liquidity * softplus[0]
    BY <1>2, <1>3, <2>4, ConstantFacts
  <2>7. (base + RoundingReserve) * FIXED_SCALE
          >= Liquidity * softplus[0] + RoundingReserve * FIXED_SCALE
    BY <1>3, <2>4, <2>5, <2>6, ConstantFacts
  <2>8. 0 * FIXED_SCALE = 0 /\ RoundingReserve + 0 = RoundingReserve
    BY ConstantFacts
  <2> HIDE DEF base
  <2>9. vault' * FIXED_SCALE
          >= cost_fixed(lmsr_quantities)' + (RoundingReserve + donated') * FIXED_SCALE
    BY <1>4, <2>1, <2>2, <2>4, <2>7, <2>8
  <2>10. QED
    BY <2>9 DEF PotentialCovered
<1>8. LiabilityExact' /\ VaultCoversLiability' /\ ClosedEmpty' /\ DecidedInTime'
  BY <1>1 DEF LiabilityExact, VaultCoversLiability, ClosedEmpty, DecidedInTime, Decided
<1>9. QED
  BY <1>5, <1>6, <1>7, <1>8 DEF IInv

\* lock_hybrid_market changes the phase only.
LEMMA LockHybridMarketInv == IInv /\ LockHybridMarket => IInv'
<1>1. SUFFICES ASSUME IInv, LockHybridMarket PROVE IInv'
  OBVIOUS
<1> USE DEF LockHybridMarket, quantityVars, positionVars, resolutionVars, liabilityVars
<1>2. TypeOK'
  BY <1>1 DEF IInv, TypeOK, Phases
<1>3. PhaseFacts' /\ SharesAccounted'
  BY <1>1 DEF IInv, PhaseFacts, SharesAccounted, validate_state, lmsr_quantities, Trading, Decided
<1>4. PotentialCovered'
  BY <1>1 DEF IInv, PotentialCovered, lmsr_quantities, Trading
<1>5. LiabilityExact' /\ VaultCoversLiability' /\ ClosedEmpty' /\ DecidedInTime'
  BY <1>1 DEF LiabilityExact, VaultCoversLiability, ClosedEmpty, DecidedInTime, Decided
<1>6. QED
  BY <1>2, <1>3, <1>4, <1>5 DEF IInv

\* initialize_position opens an empty position.
LEMMA InitializePositionInv ==
  ASSUME NEW t \in Traders
  PROVE  IInv /\ InitializePosition(t) => IInv'
<1>1. SUFFICES ASSUME IInv, InitializePosition(t) PROVE IInv'
  OBVIOUS
<1> USE DEF InitializePosition, quantityVars, positionVars, resolutionVars, liabilityVars
<1>2. TypeOK'
  BY <1>1 DEF IInv, TypeOK
<1>3. PhaseFacts' /\ SharesAccounted'
  BY <1>1 DEF IInv, PhaseFacts, SharesAccounted, validate_state, lmsr_quantities, Trading, Decided
<1>4. PotentialCovered'
  BY <1>1 DEF IInv, PotentialCovered, lmsr_quantities
<1>5. LiabilityExact' /\ VaultCoversLiability' /\ ClosedEmpty' /\ DecidedInTime'
  BY <1>1 DEF LiabilityExact, VaultCoversLiability, ClosedEmpty, DecidedInTime, Decided
<1>6. QED
  BY <1>2, <1>3, <1>4, <1>5 DEF IInv

----------------------------------------------------------------------------
(* Trades.                                                                 *)

\* The quantities of a market are a valid pair with a cost.
LEMMA QuantityFacts ==
  ASSUME IInv
  PROVE  /\ lmsr_quantities \in Quantities
         /\ validate_state(lmsr_quantities)
         /\ cost_fixed(lmsr_quantities) \in Nat
         /\ LargestOutcome(lmsr_quantities) \in Nat
         /\ cost_fixed(lmsr_quantities) >= LargestOutcome(lmsr_quantities) * FIXED_SCALE
<1>1. lmsr_quantities \in Quantities
  BY DEF IInv, TypeOK, lmsr_quantities, Quantities
<1>2. validate_state(lmsr_quantities)
  BY DEF IInv, PhaseFacts
<1>3. QED
  BY <1>1, <1>2, CostFacts DEF validate_state, LargestOutcome

\* One position's shares change the total by their difference.
LEMMA ShareUpdate ==
  ASSUME NEW f \in [Traders -> 0..MAX_OUTCOME_QUANTITY], NEW t \in Traders,
         NEW held \in 0..MAX_OUTCOME_QUANTITY
  PROVE  Total([f EXCEPT ![t] = held], Traders, MAX_OUTCOME_QUANTITY)
           = Total(f, Traders, MAX_OUTCOME_QUANTITY) - f[t] + held
<1>1. IsFiniteSet(Traders) /\ MAX_OUTCOME_QUANTITY \in Nat
  BY ConstantFacts
<1> DEFINE g == [f EXCEPT ![t] = held]
<1>2. f[t] \in 0..MAX_OUTCOME_QUANTITY /\ g[t] = held /\ \A u \in Traders \ {t} : g[u] = f[u]
  OBVIOUS
<1> HIDE DEF g
<1>3. Total(g, Traders, MAX_OUTCOME_QUANTITY)
        = Total(f, Traders, MAX_OUTCOME_QUANTITY) - f[t] + g[t]
  BY <1>1, <1>2, TotalUpdate
<1>4. QED
  BY <1>2, <1>3 DEF g

\* A trade that moves one side's quantity and the trader's shares by the same
\* amount, and keeps the potential covered, keeps the invariant.
LEMMA TradeInv ==
  ASSUME IInv, NEW t \in Traders, NEW side \in {YES, NO}, NEW after \in Quantities,
         NEW held \in Nat,
         phase = "Open", t \in opened, validate_state(after),
         ApplyTrade(t, side, after, held),
         after = IF side = YES
                 THEN [yes |-> yes_quantity - yes_shares[t] + held, no |-> no_quantity]
                 ELSE [yes |-> yes_quantity, no |-> no_quantity - no_shares[t] + held],
         vault' \in Nat,
         vault' * FIXED_SCALE
           >= cost_fixed(after) + (RoundingReserve + donated) * FIXED_SCALE,
         UNCHANGED <<now, phase, opened, settled, resolutionVars, liabilityVars, donated>>
  PROVE  IInv'
<1> USE DEF resolutionVars, liabilityVars
<1> DEFINE cap == MAX_OUTCOME_QUANTITY
<1>1. /\ yes_quantity \in 0..cap /\ no_quantity \in 0..cap
      /\ yes_shares \in [Traders -> 0..cap] /\ no_shares \in [Traders -> 0..cap]
  BY DEF IInv, TypeOK
<1>2. /\ Total(yes_shares, Traders, cap) = yes_quantity
      /\ Total(no_shares, Traders, cap) = no_quantity
  BY DEF IInv, SharesAccounted
<1>3. yes_shares[t] <= yes_quantity /\ no_shares[t] <= no_quantity
  <2>1. yes_shares[t] \in 0..cap /\ no_shares[t] \in 0..cap
    BY <1>1
  <2>2. QED
    BY <1>2, <2>1, ConstantFacts, TotalBounds
<1>4. after.yes <= cap /\ after.no <= cap
  BY DEF validate_state
<1>5. held \in 0..cap
  <2>1. CASE side = YES
    <3>1. after.yes = yes_quantity - yes_shares[t] + held
      BY <2>1
    <3>2. yes_quantity \in Nat /\ yes_shares[t] \in Nat
      BY <1>1
    <3>3. QED
      BY <1>3, <1>4, <3>1, <3>2, ConstantFacts
  <2>2. CASE side # YES
    <3>1. after.no = no_quantity - no_shares[t] + held
      BY <2>2
    <3>2. no_quantity \in Nat /\ no_shares[t] \in Nat
      BY <1>1
    <3>3. QED
      BY <1>3, <1>4, <3>1, <3>2, ConstantFacts
  <2>3. QED
    BY <2>1, <2>2
<1>6. yes_quantity' = after.yes /\ no_quantity' = after.no
  BY DEF ApplyTrade
<1>7. lmsr_quantities' = after
  BY <1>6 DEF lmsr_quantities, Quantities
<1>8. TypeOK'
  <2>1. yes_quantity' \in 0..cap /\ no_quantity' \in 0..cap
    BY <1>4, <1>6 DEF Quantities
  <2>2. yes_shares' \in [Traders -> 0..cap] /\ no_shares' \in [Traders -> 0..cap]
    BY <1>1, <1>5 DEF ApplyTrade
  <2>3. trade_count' \in 0..MaxTrades
    BY HybridAssumption DEF ApplyTrade, IInv, TypeOK
  <2>4. QED
    BY <2>1, <2>2, <2>3 DEF IInv, TypeOK
<1>9. PhaseFacts'
  <2>1. \A u \in Traders \ opened' : yes_shares'[u] = 0 /\ no_shares'[u] = 0
    <3>1. SUFFICES ASSUME NEW u \in Traders \ opened
                   PROVE  yes_shares'[u] = 0 /\ no_shares'[u] = 0
      OBVIOUS
    <3>2. u # t /\ yes_shares[u] = 0 /\ no_shares[u] = 0
      BY DEF IInv, PhaseFacts
    <3>3. QED
      BY <1>1, <3>2 DEF ApplyTrade
  <2>2. validate_state(lmsr_quantities')
    BY <1>7
  <2>3. validate_state(lmsr_quantities)'
    BY <2>2 DEF validate_state
  <2>4. QED
    BY <2>1, <2>3 DEF IInv, PhaseFacts, Trading, Decided
<1>10. SharesAccounted'
  <2>1. CASE side = YES
    <3>1. yes_shares' = [yes_shares EXCEPT ![t] = held] /\ no_shares' = no_shares
      BY <2>1 DEF ApplyTrade
    <3>2. Total(yes_shares', Traders, cap) = yes_quantity - yes_shares[t] + held
      BY <1>1, <1>2, <1>5, <3>1, ShareUpdate
    <3>3. yes_quantity' = yes_quantity - yes_shares[t] + held /\ no_quantity' = no_quantity
      BY <1>6, <2>1
    <3>4. QED
      BY <1>2, <3>1, <3>2, <3>3 DEF SharesAccounted
  <2>2. CASE side = NO
    <3>1. no_shares' = [no_shares EXCEPT ![t] = held] /\ yes_shares' = yes_shares
      BY <2>2 DEF ApplyTrade, YES, NO
    <3>2. Total(no_shares', Traders, cap) = no_quantity - no_shares[t] + held
      BY <1>1, <1>2, <1>5, <3>1, ShareUpdate
    <3>3. no_quantity' = no_quantity - no_shares[t] + held /\ yes_quantity' = yes_quantity
      BY <1>6, <2>2 DEF YES, NO
    <3>4. QED
      BY <1>2, <3>1, <3>2, <3>3 DEF SharesAccounted
  <2>3. QED
    BY <2>1, <2>2
<1>11. PotentialCovered'
  <2>1. cost_fixed(lmsr_quantities)' = cost_fixed(after)
    BY <1>7 DEF cost_fixed
  <2>2. QED
    BY <2>1 DEF PotentialCovered
<1>12. LiabilityExact' /\ VaultCoversLiability' /\ ClosedEmpty' /\ DecidedInTime'
  BY DEF LiabilityExact, VaultCoversLiability, ClosedEmpty, DecidedInTime, Decided
<1>13. QED
  BY <1>8, <1>9, <1>10, <1>11, <1>12 DEF IInv

\* What a buy and a sale leave in the vault, whoever trades and whatever the
\* series computes: the facts the InsolventMarket checks rest on.
LEMMA TradeCovered ==
  ASSUME IInv, phase = "Open", NEW side, NEW shares \in Nat
  PROVE  LET q == lmsr_quantities
             kept(v, after) ==
               /\ v * FIXED_SCALE
                    >= cost_fixed(after) + (RoundingReserve + donated) * FIXED_SCALE
               /\ LargestOutcome(after) \in Nat
               /\ v >= LargestOutcome(after)
         IN  /\ quote_buy_ok(q, side, shares) =>
                  kept(vault + quote_buy(q, side, shares).raw, quote_buy(q, side, shares).after)
             /\ quote_sell_ok(q, side, shares) =>
                  kept(vault - quote_sell(q, side, shares).raw, quote_sell(q, side, shares).after)
<1> DEFINE q == lmsr_quantities
<1> DEFINE k == RoundingReserve + donated
<1>1. q \in Quantities /\ validate_state(q) /\ cost_fixed(q) \in Nat
  BY QuantityFacts
<1>2. vault \in Nat /\ k \in Nat
  BY ConstantFacts DEF IInv, TypeOK
<1>3. vault * FIXED_SCALE >= cost_fixed(q) + k * FIXED_SCALE
  BY DEF IInv, PotentialCovered, Trading
<1>4. ASSUME NEW v \in Int, NEW after \in Quantities, validate_state(after),
             v * FIXED_SCALE >= cost_fixed(after) + k * FIXED_SCALE
      PROVE  LargestOutcome(after) \in Nat /\ v >= LargestOutcome(after)
  <2>1. /\ LargestOutcome(after) \in Nat /\ cost_fixed(after) \in Nat
        /\ cost_fixed(after) >= LargestOutcome(after) * FIXED_SCALE
    BY <1>4, CostFacts DEF LargestOutcome, validate_state
  <2>2. v >= LargestOutcome(after) + k
    BY <1>2, <1>4, <2>1, ConstantFacts, CoverFacts
  <2>3. QED
    BY <1>2, <2>1, <2>2
<1> HIDE DEF q, k
<1>5. ASSUME quote_buy_ok(q, side, shares)
      PROVE  LET quote == quote_buy(q, side, shares)
             IN  /\ (vault + quote.raw) * FIXED_SCALE >= cost_fixed(quote.after) + k * FIXED_SCALE
                 /\ LargestOutcome(quote.after) \in Nat
                 /\ vault + quote.raw >= LargestOutcome(quote.after)
  <2> DEFINE raw == quote_buy(q, side, shares).raw
  <2> DEFINE after == quote_buy(q, side, shares).after
  <2>1. /\ after \in Quantities /\ validate_state(after)
        /\ cost_fixed(after) \in Nat /\ raw \in Nat
        /\ raw * FIXED_SCALE >= cost_fixed(after) - cost_fixed(q)
    BY <1>1, <1>5, BuyFacts
  <2> HIDE DEF raw, after
  <2>2. (vault + raw) * FIXED_SCALE >= cost_fixed(after) + k * FIXED_SCALE
    BY <1>1, <1>2, <1>3, <2>1, ConstantFacts, BuyRounding
  <2>3. vault + raw \in Int
    BY <1>2, <2>1
  <2>4. LargestOutcome(after) \in Nat /\ vault + raw >= LargestOutcome(after)
    BY <1>4, <2>1, <2>2, <2>3
  <2>5. QED
    BY <2>2, <2>4 DEF raw, after
<1>6. ASSUME quote_sell_ok(q, side, shares)
      PROVE  LET quote == quote_sell(q, side, shares)
             IN  /\ (vault - quote.raw) * FIXED_SCALE >= cost_fixed(quote.after) + k * FIXED_SCALE
                 /\ LargestOutcome(quote.after) \in Nat
                 /\ vault - quote.raw >= LargestOutcome(quote.after)
  <2> DEFINE raw == quote_sell(q, side, shares).raw
  <2> DEFINE after == quote_sell(q, side, shares).after
  <2>1. /\ after \in Quantities /\ validate_state(after)
        /\ cost_fixed(after) \in Nat /\ raw \in Nat
        /\ raw * FIXED_SCALE <= cost_fixed(q) - cost_fixed(after)
    BY <1>1, <1>6, SellFacts
  <2> HIDE DEF raw, after
  <2>2. (vault - raw) * FIXED_SCALE >= cost_fixed(after) + k * FIXED_SCALE
    BY <1>1, <1>2, <1>3, <2>1, ConstantFacts, SellRounding
  <2>3. vault - raw \in Int
    BY <1>2, <2>1
  <2>4. LargestOutcome(after) \in Nat /\ vault - raw >= LargestOutcome(after)
    BY <1>4, <2>1, <2>2, <2>3
  <2>5. QED
    BY <2>2, <2>4 DEF raw, after
<1>7. QED
  BY <1>5, <1>6 DEF q, k

\* buy_hybrid_shares keeps the invariant.
LEMMA BuyInv ==
  ASSUME NEW t \in Traders, NEW side \in {YES, NO}, NEW shares \in 1..MaxTradeShares
  PROVE  IInv /\ BuyHybridShares(t, side, shares) => IInv'
<1>1. SUFFICES ASSUME IInv, BuyHybridShares(t, side, shares) PROVE IInv'
  OBVIOUS
<1> DEFINE q == lmsr_quantities
<1> DEFINE raw == quote_buy(q, side, shares).raw
<1> DEFINE after == quote_buy(q, side, shares).after
<1> DEFINE held == position_shares(t, side) + shares
<1>2. shares \in Nat
  OBVIOUS
<1>3. /\ phase = "Open" /\ t \in opened /\ quote_buy_ok(q, side, shares)
      /\ ApplyTrade(t, side, after, held)
      /\ vault' = vault + raw
      /\ UNCHANGED <<now, phase, opened, settled, resolutionVars, liabilityVars, donated>>
  BY <1>1 DEF BuyHybridShares, validate_hybrid_trade
<1>4. after \in Quantities /\ validate_state(after) /\ raw \in Nat
      /\ after = increase(q, side, shares)
  BY <1>1, <1>2, <1>3, QuantityFacts, BuyFacts
<1>5. vault' \in Nat
  BY <1>1, <1>3, <1>4 DEF IInv, TypeOK
<1>6. vault' * FIXED_SCALE >= cost_fixed(after) + (RoundingReserve + donated) * FIXED_SCALE
  BY <1>1, <1>2, <1>3, TradeCovered
<1>7. yes_shares[t] \in Nat /\ no_shares[t] \in Nat /\ yes_quantity \in Nat /\ no_quantity \in Nat
  BY <1>1 DEF IInv, TypeOK
<1>8. held \in Nat
  BY <1>2, <1>7 DEF position_shares
<1>9. after = IF side = YES
              THEN [yes |-> yes_quantity - yes_shares[t] + held, no |-> no_quantity]
              ELSE [yes |-> yes_quantity, no |-> no_quantity - no_shares[t] + held]
  <2>1. CASE side = YES
    <3>1. after = [yes |-> yes_quantity + shares, no |-> no_quantity] /\ held = yes_shares[t] + shares
      BY <1>4, <2>1 DEF increase, lmsr_quantities, position_shares
    <3>2. yes_quantity + shares = yes_quantity - yes_shares[t] + held
      BY <1>2, <1>7, <3>1
    <3>3. QED
      BY <2>1, <3>1, <3>2, Zenon
  <2>2. CASE side # YES
    <3>1. after = [yes |-> yes_quantity, no |-> no_quantity + shares] /\ held = no_shares[t] + shares
      BY <1>4, <2>2 DEF increase, lmsr_quantities, position_shares
    <3>2. no_quantity + shares = no_quantity - no_shares[t] + held
      BY <1>2, <1>7, <3>1
    <3>3. QED
      BY <2>2, <3>1, <3>2, Zenon
  <2>3. QED
    BY <2>1, <2>2
<1> HIDE DEF raw, after, held
<1>10. QED
  BY <1>1, <1>3, <1>4, <1>5, <1>6, <1>8, <1>9, TradeInv

\* sell_hybrid_shares keeps the invariant: proceeds and fees together are the
\* raw amount.
LEMMA SellInv ==
  ASSUME NEW t \in Traders, NEW side \in {YES, NO}, NEW shares \in 1..MaxTradeShares,
         NEW same \in BOOLEAN
  PROVE  IInv /\ SellHybridShares(t, side, shares, same) => IInv'
<1>1. SUFFICES ASSUME IInv, SellHybridShares(t, side, shares, same) PROVE IInv'
  OBVIOUS
<1> DEFINE q == lmsr_quantities
<1> DEFINE quote == quote_sell(q, side, shares)
<1> DEFINE raw == quote.raw
<1> DEFINE after == quote.after
<1> DEFINE fees == coalesce_hybrid_fee_transfers(same, split_hybrid_fee(quote.fee))
<1> DEFINE held == position_shares(t, side) - shares
<1>2. shares \in Nat /\ shares > 0
  OBVIOUS
<1>3. /\ phase = "Open" /\ t \in opened /\ quote_sell_ok(q, side, shares)
      /\ position_shares(t, side) >= shares
      /\ ApplyTrade(t, side, after, held)
      /\ vault' = vault - (quote.total + fees.treasury + fees.liquidity)
      /\ UNCHANGED <<now, phase, opened, settled, resolutionVars, liabilityVars, donated>>
  BY <1>1 DEF SellHybridShares, validate_hybrid_trade
<1>4. /\ after \in Quantities /\ validate_state(after) /\ raw \in Nat
      /\ after = decrease(q, side, shares)
      /\ quote.fee = fee_amount(raw, shares) /\ quote.total = raw - quote.fee
  BY <1>1, <1>2, <1>3, QuantityFacts, SellFacts
<1>5. vault' = vault - raw
  <2>1. quote.fee \in Nat
    BY <1>2, <1>4, FeeFacts
  <2>2. /\ fees.treasury \in Int /\ fees.liquidity \in Int
        /\ fees.treasury + fees.liquidity = quote.fee
    BY <2>1, SplitFacts
  <2>3. vault \in Nat
    BY <1>1 DEF IInv, TypeOK
  <2>4. ASSUME NEW v \in Nat, NEW r \in Nat, NEW f \in Nat, NEW a \in Int, NEW b \in Int, a + b = f
        PROVE  v - ((r - f) + a + b) = v - r
    BY <2>4
  <2> HIDE DEF quote, fees
  <2>5. QED
    BY <1>3, <1>4, <2>1, <2>2, <2>3, <2>4
<1>6. /\ vault' * FIXED_SCALE >= cost_fixed(after) + (RoundingReserve + donated) * FIXED_SCALE
      /\ LargestOutcome(after) \in Nat /\ vault' >= LargestOutcome(after)
  BY <1>1, <1>2, <1>3, <1>5, TradeCovered
<1>7. vault' \in Nat
  <2>1. vault \in Nat
    BY <1>1 DEF IInv, TypeOK
  <2>2. QED
    BY <1>4, <1>5, <1>6, <2>1
<1>8. yes_shares[t] \in Nat /\ no_shares[t] \in Nat /\ yes_quantity \in Nat /\ no_quantity \in Nat
  BY <1>1 DEF IInv, TypeOK
<1>9. held \in Nat
  BY <1>2, <1>3, <1>8 DEF position_shares
<1>10. after = IF side = YES
               THEN [yes |-> yes_quantity - yes_shares[t] + held, no |-> no_quantity]
               ELSE [yes |-> yes_quantity, no |-> no_quantity - no_shares[t] + held]
  <2>1. CASE side = YES
    <3>1. after = [yes |-> yes_quantity - shares, no |-> no_quantity] /\ held = yes_shares[t] - shares
      BY <1>4, <2>1 DEF decrease, lmsr_quantities, position_shares
    <3>2. yes_quantity - shares = yes_quantity - yes_shares[t] + held
      BY <1>2, <1>8, <3>1
    <3>3. QED
      BY <2>1, <3>1, <3>2, Zenon
  <2>2. CASE side # YES
    <3>1. after = [yes |-> yes_quantity, no |-> no_quantity - shares] /\ held = no_shares[t] - shares
      BY <1>4, <2>2 DEF decrease, lmsr_quantities, position_shares
    <3>2. no_quantity - shares = no_quantity - no_shares[t] + held
      BY <1>2, <1>8, <3>1
    <3>3. QED
      BY <2>2, <3>1, <3>2, Zenon
  <2>3. QED
    BY <2>1, <2>2
<1> HIDE DEF quote, raw, after, fees, held
<1>11. QED
  BY <1>1, <1>3, <1>4, <1>6, <1>7, <1>9, <1>10, TradeInv

----------------------------------------------------------------------------
(* Resolution, settlement and withdrawal.                                  *)

\* Half of a number, rounded down, is at most half a unit short.
LEMMA HalfFacts ==
  ASSUME NEW x \in Nat
  PROVE  x \div 2 \in Nat /\ 2 * (x \div 2) <= x /\ x <= 2 * (x \div 2) + 1
  OBVIOUS

\* The totals of the unsettled positions are natural numbers, and at least
\* what any one of those positions holds.
LEMMA UnsettledFacts ==
  ASSUME IInv
  PROVE  LET Y == Total(yes_shares, Unsettled, MAX_OUTCOME_QUANTITY)
             N == Total(no_shares, Unsettled, MAX_OUTCOME_QUANTITY)
         IN  /\ IsFiniteSet(Unsettled)
             /\ Y \in Nat /\ N \in Nat
             /\ \A t \in Unsettled : /\ yes_shares[t] \in 0..MAX_OUTCOME_QUANTITY
                                     /\ no_shares[t] \in 0..MAX_OUTCOME_QUANTITY
                                     /\ yes_shares[t] <= Y /\ no_shares[t] <= N
<1>1. IsFiniteSet(Unsettled)
  BY ConstantFacts, FS_Subset DEF Unsettled
<1>2. MAX_OUTCOME_QUANTITY \in Nat
  BY ConstantFacts
<1>3. \A t \in Unsettled : /\ yes_shares[t] \in 0..MAX_OUTCOME_QUANTITY
                           /\ no_shares[t] \in 0..MAX_OUTCOME_QUANTITY
  BY DEF Unsettled, IInv, TypeOK
<1>4. QED
  BY <1>1, <1>2, <1>3, UnitsFinite, TotalBounds

\* finalize_hybrid_resolution fixes the outcome and reserves its liability.
LEMMA ResolutionInv ==
  ASSUME NEW out, NEW timeout \in BOOLEAN
  PROVE  IInv /\ finalize_hybrid_resolution(out, timeout) => IInv'
<1>1. SUFFICES ASSUME IInv, finalize_hybrid_resolution(out, timeout) PROVE IInv'
  OBVIOUS
<1> USE DEF quantityVars, positionVars
<1>2. out \in {YES, NO, INVALID} /\ phase \in Trading /\ now \in 0..MaxTime
  BY <1>1 DEF finalize_hybrid_resolution, in_resolution_window, resolvable, Trading,
     IInv, TypeOK, Phases
<1> DEFINE owed == hybrid_market_liability(out)
<1>3. yes_quantity \in Nat /\ no_quantity \in Nat
  BY <1>1 DEF IInv, TypeOK
<1>4. /\ owed \in Nat
      /\ out = YES => owed = yes_quantity
      /\ out = NO => owed = no_quantity
      /\ out = INVALID => owed = (yes_quantity + no_quantity) \div 2
  BY <1>2, <1>3, HalfFacts DEF hybrid_market_liability, YES, NO, INVALID
<1>5. /\ phase' = "Resolved" /\ outcome' = out /\ outstanding_liability' = owed
      /\ consumed' = TRUE /\ settled_at' = now /\ vault >= owed
      /\ UNCHANGED <<now, quantityVars, vault, opened, positionVars, settled,
                     redeemed_liability, donated>>
  BY <1>1 DEF finalize_hybrid_resolution
<1>6. settled = {} /\ redeemed_liability = 0
  BY <1>1, <1>2 DEF IInv, PhaseFacts
<1>7. TypeOK'
  BY <1>1, <1>2, <1>4, <1>5 DEF IInv, TypeOK, Phases
<1>8. PhaseFacts' /\ SharesAccounted'
  BY <1>1, <1>2, <1>5 DEF IInv, PhaseFacts, SharesAccounted, validate_state, lmsr_quantities,
     Trading, Decided, YES, NO, INVALID, UNSET
<1>9. PotentialCovered' /\ ClosedEmpty' /\ VaultCoversLiability'
  BY <1>5 DEF PotentialCovered, ClosedEmpty, VaultCoversLiability, Trading
<1>10. DecidedInTime'
  BY <1>1, <1>2, <1>5, HybridAssumption
     DEF DecidedInTime, finalize_hybrid_resolution, in_resolution_window, YES, NO, INVALID
<1>11. LiabilityExact'
  <2> DEFINE Y == Total(yes_shares, Unsettled, MAX_OUTCOME_QUANTITY)
  <2> DEFINE N == Total(no_shares, Unsettled, MAX_OUTCOME_QUANTITY)
  <2>1. Y' = yes_quantity /\ N' = no_quantity
    <3>1. Unsettled' = Traders
      BY <1>5, <1>6 DEF Unsettled
    <3>2. QED
      BY <1>1, <1>5, <3>1 DEF IInv, SharesAccounted
  <2>2. OwedTwice' = CASE out = YES     -> 2 * yes_quantity
                       [] out = NO      -> 2 * no_quantity
                       [] out = INVALID -> yes_quantity + no_quantity
    BY <1>5, <2>1 DEF OwedTwice
  <2>3. hybrid_market_liability(outcome)' = owed
    BY <1>5 DEF hybrid_market_liability
  <2>4. redeemed_liability' + outstanding_liability' = owed
    BY <1>4, <1>5, <1>6
  <2>5. Cardinality(settled') = 0
    BY <1>5, <1>6, FS_EmptySet
  <2>6. CASE out = INVALID
    <3>1. OwedTwice' = yes_quantity + no_quantity
      BY <2>2, <2>6 DEF YES, NO, INVALID
    <3>2. outcome' = INVALID /\ outstanding_liability' = (yes_quantity + no_quantity) \div 2
      BY <1>4, <1>5, <2>6
    <3>3. /\ OwedTwice' <= 2 * outstanding_liability' + 1
          /\ 2 * outstanding_liability' <= OwedTwice' + Cardinality(settled')
      BY <1>3, <2>5, <3>1, <3>2, HalfFacts
    <3>4. QED
      BY <2>3, <2>4, <3>2, <3>3 DEF LiabilityExact
  <2>7. CASE out # INVALID
    <3>1. 2 * outstanding_liability' = OwedTwice'
      BY <1>2, <1>4, <1>5, <2>2, <2>7 DEF YES, NO, INVALID
    <3>2. QED
      BY <1>5, <2>3, <2>4, <2>7, <3>1 DEF LiabilityExact
  <2>8. QED
    BY <2>6, <2>7
<1>12. QED
  BY <1>7, <1>8, <1>9, <1>10, <1>11 DEF IInv

\* settle_hybrid_position moves one position's claim from the liability to the
\* trader.
LEMMA SettleInv ==
  ASSUME NEW t \in Traders
  PROVE  IInv /\ SettleHybridPosition(t) => IInv'
<1>1. SUFFICES ASSUME IInv, SettleHybridPosition(t) PROVE IInv'
  OBVIOUS
<1> USE DEF quantityVars, positionVars, resolutionVars
<1> DEFINE amount == hybrid_position_payout(t)
<1> DEFINE owed == outstanding_liability
<1>2. /\ phase = "Resolved" /\ t \in opened /\ t \notin settled
      /\ owed >= amount /\ vault >= amount
      /\ settled' = settled \cup {t}
      /\ outstanding_liability' = owed - amount
      /\ redeemed_liability' = redeemed_liability + amount
      /\ phase' = IF owed - amount = 0 /\ vault - amount = 0 THEN "Closed" ELSE phase
      /\ vault' = vault - amount
      /\ UNCHANGED <<now, quantityVars, opened, positionVars, resolutionVars, donated>>
  BY <1>1 DEF SettleHybridPosition, close_hybrid_market_if_drained, closes_when_drained
<1>3. outcome \in {YES, NO, INVALID}
  BY <1>1, <1>2 DEF IInv, PhaseFacts, TypeOK, Decided
<1>4. yes_shares[t] \in Nat /\ no_shares[t] \in Nat
  BY <1>1 DEF IInv, TypeOK
<1>5. /\ amount \in Nat
      /\ outcome = YES => amount = yes_shares[t]
      /\ outcome = NO => amount = no_shares[t]
      /\ outcome = INVALID => amount = (yes_shares[t] + no_shares[t]) \div 2
  BY <1>3, <1>4, HalfFacts DEF hybrid_position_payout, YES, NO, INVALID
<1>6. owed \in Nat /\ vault \in Nat /\ redeemed_liability \in Nat /\ donated \in Nat
      /\ vault >= owed
  BY <1>1, <1>2 DEF IInv, TypeOK, VaultCoversLiability
<1> HIDE DEF amount
<1>7. TypeOK'
  <2>1. vault' \in Nat /\ outstanding_liability' \in Nat /\ redeemed_liability' \in Nat
    BY <1>2, <1>5, <1>6
  <2>2. phase' \in Phases
    BY <1>2 DEF Phases
  <2>3. QED
    BY <1>1, <1>2, <2>1, <2>2 DEF IInv, TypeOK
<1>8. PhaseFacts' /\ SharesAccounted'
  BY <1>1, <1>2 DEF IInv, PhaseFacts, SharesAccounted, validate_state, lmsr_quantities,
     Trading, Decided
<1>9. PotentialCovered' /\ DecidedInTime'
  BY <1>1, <1>2 DEF IInv, PotentialCovered, DecidedInTime, Trading, Decided
<1>10. ClosedEmpty' /\ VaultCoversLiability'
  BY <1>2, <1>5, <1>6 DEF ClosedEmpty, VaultCoversLiability
<1>11. LiabilityExact'
  <2> DEFINE Y == Total(yes_shares, Unsettled, MAX_OUTCOME_QUANTITY)
  <2> DEFINE N == Total(no_shares, Unsettled, MAX_OUTCOME_QUANTITY)
  <2>1. t \in Unsettled /\ Unsettled' = Unsettled \ {t}
    BY <1>2 DEF Unsettled
  <2>2. Y \in Nat /\ N \in Nat /\ yes_shares[t] <= Y /\ no_shares[t] <= N
    BY <1>1, <2>1, UnsettledFacts
  <2>3. Y' = Y - yes_shares[t] /\ N' = N - no_shares[t]
    <3>1. /\ Total(yes_shares, Unsettled \ {t}, MAX_OUTCOME_QUANTITY) = Y - yes_shares[t]
          /\ Total(no_shares, Unsettled \ {t}, MAX_OUTCOME_QUANTITY) = N - no_shares[t]
      BY <1>1, <2>1, UnsettledFacts, ConstantFacts, TotalRemove
    <3>2. QED
      BY <1>2, <2>1, <3>1
  <2>4. redeemed_liability' + outstanding_liability' = redeemed_liability + owed
    BY <1>2, <1>5, <1>6
  <2>5. hybrid_market_liability(outcome)' = hybrid_market_liability(outcome)
    BY <1>2 DEF hybrid_market_liability
  <2>6. redeemed_liability + owed = hybrid_market_liability(outcome)
    BY <1>1, <1>2 DEF IInv, LiabilityExact, Decided
  <2>7. CASE outcome = INVALID
    <3>1. OwedTwice = Y + N /\ OwedTwice' = Y' + N'
      BY <1>2, <2>7 DEF OwedTwice, YES, NO, INVALID
    <3>2. Y + N <= 2 * owed + 1 /\ 2 * owed <= Y + N + Cardinality(settled)
      BY <1>1, <1>2, <2>7, <3>1 DEF IInv, LiabilityExact, Decided
    <3>3. Cardinality(settled') = Cardinality(settled) + 1 /\ Cardinality(settled) \in Nat
      <4>1. IsFiniteSet(settled)
        BY <1>1, ConstantFacts, FS_Subset DEF IInv, TypeOK
      <4>2. QED
        BY <1>2, <4>1, FS_AddElement, FS_CardinalityType
    <3>4. /\ amount \in Nat
          /\ 2 * amount <= yes_shares[t] + no_shares[t]
          /\ yes_shares[t] + no_shares[t] <= 2 * amount + 1
      BY <1>4, <1>5, <2>7, HalfFacts
    <3>5. /\ Y' + N' <= 2 * outstanding_liability' + 1
          /\ 2 * outstanding_liability' <= Y' + N' + Cardinality(settled')
      <4> HIDE DEF Y, N
      <4>1. Y' + N' = Y + N - (yes_shares[t] + no_shares[t])
        BY <1>4, <2>2, <2>3
      <4>2. 2 * outstanding_liability' = 2 * owed - 2 * amount
        BY <1>2, <1>6, <3>4
      <4>3. QED
        BY <1>4, <1>6, <2>2, <3>2, <3>3, <3>4, <4>1, <4>2
    <3>6. QED
      BY <1>2, <2>4, <2>5, <2>6, <2>7, <3>1, <3>5 DEF LiabilityExact
  <2>8. CASE outcome # INVALID
    <3>1. 2 * owed = OwedTwice
      BY <1>1, <1>2, <2>8 DEF IInv, LiabilityExact, Decided
    <3>2. 2 * outstanding_liability' = OwedTwice'
      <4>1. CASE outcome = YES
        <5>1. OwedTwice = 2 * Y /\ OwedTwice' = 2 * Y'
          BY <1>2, <4>1 DEF OwedTwice, YES, NO, INVALID
        <5> HIDE DEF Y, N
        <5>2. QED
          BY <1>2, <1>4, <1>5, <1>6, <2>2, <2>3, <3>1, <4>1, <5>1
      <4>2. CASE outcome = NO
        <5>1. OwedTwice = 2 * N /\ OwedTwice' = 2 * N'
          BY <1>2, <4>2 DEF OwedTwice, YES, NO, INVALID
        <5> HIDE DEF Y, N
        <5>2. QED
          BY <1>2, <1>4, <1>5, <1>6, <2>2, <2>3, <3>1, <4>2, <5>1
      <4>3. QED
        BY <1>3, <2>8, <4>1, <4>2
    <3>3. QED
      BY <1>2, <2>4, <2>5, <2>6, <2>8, <3>2 DEF LiabilityExact
  <2>9. QED
    BY <2>7, <2>8
<1>12. QED
  BY <1>7, <1>8, <1>9, <1>10, <1>11 DEF IInv

\* withdraw_hybrid_liquidity leaves exactly the outstanding liability.
LEMMA WithdrawInv == IInv /\ WithdrawHybridLiquidity => IInv'
<1>1. SUFFICES ASSUME IInv, WithdrawHybridLiquidity PROVE IInv'
  OBVIOUS
<1> USE DEF quantityVars, positionVars, resolutionVars, liabilityVars
<1>2. vault \in Nat /\ outstanding_liability \in Nat /\ donated \in Nat
  BY <1>1 DEF IInv, TypeOK
<1>3. /\ phase = "Resolved"
      /\ vault' = vault - (vault - outstanding_liability)
      /\ phase' = IF outstanding_liability = 0 /\ vault' = 0 THEN "Closed" ELSE phase
      /\ UNCHANGED <<now, quantityVars, opened, positionVars, settled, resolutionVars,
                     liabilityVars, donated>>
  BY <1>1 DEF WithdrawHybridLiquidity, withdrawable, close_hybrid_market_if_drained,
     closes_when_drained
<1>4. vault' = outstanding_liability
  BY <1>2, <1>3
<1>5. TypeOK'
  BY <1>1, <1>2, <1>3, <1>4 DEF IInv, TypeOK, Phases
<1>6. PhaseFacts' /\ SharesAccounted'
  BY <1>1, <1>3 DEF IInv, PhaseFacts, SharesAccounted, validate_state, lmsr_quantities,
     Trading, Decided
<1>7. PotentialCovered' /\ DecidedInTime'
  BY <1>1, <1>3 DEF IInv, PotentialCovered, DecidedInTime, Trading, Decided
<1>8. ClosedEmpty' /\ VaultCoversLiability'
  BY <1>2, <1>3, <1>4 DEF ClosedEmpty, VaultCoversLiability
<1>9. LiabilityExact'
  BY <1>1, <1>3 DEF IInv, LiabilityExact, OwedTwice, Unsettled, hybrid_market_liability, Decided
<1>10. QED
  BY <1>5, <1>6, <1>7, <1>8, <1>9 DEF IInv

----------------------------------------------------------------------------
(* The theorems.                                                           *)

\* Every instruction that does not decide the outcome keeps the invariant.
LEMMA MarketStepInv == IInv /\ MarketStep => IInv'
<1>1. SUFFICES ASSUME IInv, MarketStep PROVE IInv'
  OBVIOUS
<1>2. CASE Tick
  BY <1>1, <1>2, TickInv
<1>3. CASE Donate
  BY <1>1, <1>3, DonateInv
<1>4. CASE InitializeHybridMarket
  BY <1>1, <1>4, InitializeHybridMarketInv
<1>5. CASE LockHybridMarket
  BY <1>1, <1>5, LockHybridMarketInv
<1>6. CASE WithdrawHybridLiquidity
  BY <1>1, <1>6, WithdrawInv
<1>7. ASSUME NEW t \in Traders, InitializePosition(t) \/ SettleHybridPosition(t)
      PROVE  IInv'
  BY <1>1, <1>7, InitializePositionInv, SettleInv
<1>8. ASSUME NEW t \in Traders, NEW side \in {YES, NO}, NEW shares \in 1..MaxTradeShares,
             \/ BuyHybridShares(t, side, shares)
             \/ \E same_account \in BOOLEAN : SellHybridShares(t, side, shares, same_account)
      PROVE  IInv'
  BY <1>1, <1>8, BuyInv, SellInv
<1>9. QED
  BY <1>1, <1>2, <1>3, <1>4, <1>5, <1>6, <1>7, <1>8 DEF MarketStep

\* Every step keeps the inductive invariant.
LEMMA NextInv == IInv /\ [Next]_vars => IInv'
<1>1. SUFFICES ASSUME IInv, [Next]_vars PROVE IInv'
  OBVIOUS
<1>2. CASE MarketStep
  BY <1>1, <1>2, MarketStepInv
<1>3. CASE ResolveHybridTimeout
  BY <1>1, <1>3, ResolutionInv DEF ResolveHybridTimeout
<1>4. ASSUME NEW out \in {YES, NO}, ResolveHybrid(out) PROVE IInv'
  BY <1>1, <1>4, ResolutionInv DEF ResolveHybrid
<1>5. CASE UNCHANGED vars
  BY <1>1, <1>5 DEF vars, quantityVars, positionVars, resolutionVars, liabilityVars, IInv,
     TypeOK, PhaseFacts, SharesAccounted, PotentialCovered, LiabilityExact,
     VaultCoversLiability, ClosedEmpty, DecidedInTime, validate_state, lmsr_quantities,
     OwedTwice, Unsettled, hybrid_market_liability
<1>6. QED
  BY <1>1, <1>2, <1>3, <1>4, <1>5 DEF Next

\* The inductive invariant of the public market holds in every behaviour of
\* every instance: the fact the other theorems rest on.
THEOREM Invariance == Spec => []IInv
<1>1. QED
  BY InitInv, NextInv, PTL DEF Spec

\* Quantities, shares and amounts stay within their types and limits: neither
\* buy_hybrid_shares nor sell_hybrid_shares passes MAX_OUTCOME_QUANTITY or
\* underflows the vault.
THEOREM TypeCorrect == Spec => []TypeOK
<1>1. IInv => TypeOK
  BY DEF IInv
<1>2. QED
  BY <1>1, Invariance, PTL

\* apply_position_buy, apply_position_sell and apply_market_trade keep the sum
\* of the positions equal to the market's quantities.
THEOREM SharesAlwaysAccounted == Spec => []SharesAccounted
<1>1. IInv => SharesAccounted
  BY DEF IInv
<1>2. QED
  BY <1>1, Invariance, PTL

\* Rounding in build_quote never takes from the vault what the LMSR cost, the
\* reserve and donations put there, however long the market trades.
THEOREM PotentialAlwaysCovered == Spec => []PotentialCovered
<1>1. IInv => PotentialCovered
  BY DEF IInv
<1>2. QED
  BY <1>1, Invariance, PTL

\* Before resolution the vault covers the largest liability any outcome can
\* cause: finalize_hybrid_resolution never fails with InsolventMarket.
THEOREM AlwaysSolvent == Spec => []MarketSolvent
<1>1. ASSUME IInv PROVE MarketSolvent
  <2>1. SUFFICES ASSUME phase \in Trading
                 PROVE  vault >= LargestOutcome(lmsr_quantities) + RoundingReserve + donated
    BY DEF MarketSolvent
  <2> DEFINE k == RoundingReserve + donated
  <2>2. vault \in Nat /\ donated \in Nat /\ k \in Nat
    BY <1>1, ConstantFacts DEF IInv, TypeOK
  <2>3. vault * FIXED_SCALE >= cost_fixed(lmsr_quantities) + k * FIXED_SCALE
    BY <1>1, <2>1 DEF IInv, PotentialCovered
  <2>4. /\ cost_fixed(lmsr_quantities) \in Nat /\ LargestOutcome(lmsr_quantities) \in Nat
        /\ cost_fixed(lmsr_quantities) >= LargestOutcome(lmsr_quantities) * FIXED_SCALE
    BY <1>1, QuantityFacts
  <2> HIDE DEF k
  <2>5. vault >= LargestOutcome(lmsr_quantities) + k
    BY <2>2, <2>3, <2>4, ConstantFacts, CoverFacts
  <2>6. QED
    BY <2>2, <2>4, <2>5, ConstantFacts DEF k
<1>2. IInv => MarketSolvent
  BY <1>1
<1>3. QED
  BY <1>2, Invariance, PTL

\* The InsolventMarket checks of buy_hybrid_shares and sell_hybrid_shares
\* reject no trade that lmsr.rs quotes.
THEOREM TradesAlwaysSolvent == Spec => []TradesNeverInsolvent
<1>1. ASSUME IInv, phase = "Open", NEW side \in {YES, NO}, NEW shares \in 1..MaxTradeShares
      PROVE  LET q == lmsr_quantities
             IN  /\ quote_buy_ok(q, side, shares) =>
                      vault + quote_buy(q, side, shares).raw
                        >= LargestOutcome(quote_buy(q, side, shares).after)
                 /\ quote_sell_ok(q, side, shares) =>
                      vault - quote_sell(q, side, shares).raw
                        >= LargestOutcome(quote_sell(q, side, shares).after)
  <2>1. shares \in Nat
    OBVIOUS
  <2>2. QED
    BY <1>1, <2>1, TradeCovered
<1>2. IInv => TradesNeverInsolvent
  BY <1>1 DEF TradesNeverInsolvent
<1>3. QED
  BY <1>2, Invariance, PTL

\* What one unsettled position is owed never exceeds the liability counter.
LEMMA PayoutCovered ==
  ASSUME IInv, phase \in Decided, NEW t \in opened \ settled
  PROVE  hybrid_position_payout(t) \in Nat /\ hybrid_position_payout(t) <= outstanding_liability
<1> DEFINE Y == Total(yes_shares, Unsettled, MAX_OUTCOME_QUANTITY)
<1> DEFINE N == Total(no_shares, Unsettled, MAX_OUTCOME_QUANTITY)
<1>1. t \in Unsettled
  BY DEF IInv, TypeOK, Unsettled
<1>2. /\ Y \in Nat /\ N \in Nat
      /\ yes_shares[t] \in Nat /\ no_shares[t] \in Nat
      /\ yes_shares[t] <= Y /\ no_shares[t] <= N
  BY <1>1, UnsettledFacts, ConstantFacts
<1>3. outcome \in {YES, NO, INVALID} /\ outstanding_liability \in Nat
  BY DEF IInv, PhaseFacts, TypeOK
<1>4. CASE outcome = YES
  <2>1. hybrid_position_payout(t) = yes_shares[t] /\ 2 * outstanding_liability = 2 * Y
    BY <1>4 DEF hybrid_position_payout, IInv, LiabilityExact, OwedTwice, YES, NO, INVALID
  <2> HIDE DEF Y, N
  <2>2. QED
    BY <1>2, <1>3, <2>1
<1>5. CASE outcome = NO
  <2>1. hybrid_position_payout(t) = no_shares[t] /\ 2 * outstanding_liability = 2 * N
    BY <1>5 DEF hybrid_position_payout, IInv, LiabilityExact, OwedTwice, YES, NO, INVALID
  <2> HIDE DEF Y, N
  <2>2. QED
    BY <1>2, <1>3, <2>1
<1>6. CASE outcome = INVALID
  <2>1. /\ hybrid_position_payout(t) = (yes_shares[t] + no_shares[t]) \div 2
        /\ Y + N <= 2 * outstanding_liability + 1
    BY <1>6 DEF hybrid_position_payout, IInv, LiabilityExact, OwedTwice, YES, NO, INVALID
  <2>2. /\ (yes_shares[t] + no_shares[t]) \div 2 \in Nat
        /\ 2 * ((yes_shares[t] + no_shares[t]) \div 2) <= yes_shares[t] + no_shares[t]
    BY <1>2, HalfFacts
  <2> HIDE DEF Y, N
  <2>3. QED
    BY <1>2, <1>3, <2>1, <2>2
<1>7. QED
  BY <1>3, <1>4, <1>5, <1>6

\* Settlement in any order, with withdrawals in between, never runs short:
\* neither check of settle_hybrid_position rejects an owner.
THEOREM SettlementAlwaysCovered == Spec => []SettlementCovered
<1>1. IInv => SettlementCovered
  BY PayoutCovered DEF SettlementCovered, IInv, VaultCoversLiability, Decided, TypeOK
<1>2. QED
  BY <1>1, Invariance, PTL

\* The counters of settle_hybrid_position follow the positions exactly after a
\* decisive outcome, and within their rounding after an invalid one.
THEOREM LiabilityAlwaysExact == Spec => []LiabilityExact
<1>1. IInv => LiabilityExact
  BY DEF IInv
<1>2. QED
  BY <1>1, Invariance, PTL

\* close_hybrid_market_if_drained closes a market only when nobody is owed
\* anything, settled or not.
THEOREM ClosedMarketPaidOut == Spec => []ClosedPaidOut
<1>1. ASSUME IInv, phase = "Closed", NEW t \in opened \ settled
      PROVE  hybrid_position_payout(t) = 0
  <2>1. phase \in Decided /\ outstanding_liability = 0
    BY <1>1 DEF Decided, IInv, ClosedEmpty
  <2>2. QED
    BY <1>1, <2>1, PayoutCovered
<1>2. IInv => ClosedPaidOut
  BY <1>1 DEF ClosedPaidOut, IInv, ClosedEmpty
<1>3. QED
  BY <1>2, Invariance, PTL

\* finalize_hybrid_resolution decides YES or NO up to the deadline and INVALID
\* only after it.
THEOREM AlwaysDecidedInTime == Spec => []DecidedInTime
<1>1. IInv => DecidedInTime
  BY DEF IInv
<1>2. QED
  BY <1>1, Invariance, PTL

\* No order of buys, sells, locks and resolutions trades after the lock time or
\* decides a market twice.
THEOREM DecisionsAlwaysFinal == Spec => DecisionsFinal
<1> DEFINE Final == /\ now >= LockTs => UNCHANGED <<quantityVars, positionVars>>
                    /\ consumed => UNCHANGED resolutionVars
<1>1. IInv /\ [Next]_vars =>
        [/\ now >= LockTs => UNCHANGED <<quantityVars, positionVars>>
         /\ consumed => UNCHANGED resolutionVars]_vars
  <2> SUFFICES ASSUME IInv, Next
               PROVE  Final
    OBVIOUS
  <2>1. now \in Nat /\ LockTs \in Nat
    BY HybridAssumption DEF IInv, TypeOK
  <2>2. ASSUME NEW out \in {YES, NO, INVALID}, NEW timeout \in BOOLEAN,
               finalize_hybrid_resolution(out, timeout)
        PROVE  Final
    BY <2>2 DEF finalize_hybrid_resolution, quantityVars, positionVars
  <2>3. ASSUME NEW t \in Traders, NEW side \in {YES, NO}, NEW shares \in 1..MaxTradeShares,
               \/ BuyHybridShares(t, side, shares)
               \/ \E same_account \in BOOLEAN : SellHybridShares(t, side, shares, same_account)
        PROVE  Final
    <3>1. now < LockTs /\ UNCHANGED resolutionVars
      BY <2>3 DEF BuyHybridShares, SellHybridShares, validate_hybrid_trade
    <3>2. QED
      BY <2>1, <3>1
  <2>4. CASE MarketStep
    BY <2>3, <2>4 DEF MarketStep, Tick, Donate, InitializeHybridMarket, LockHybridMarket,
       WithdrawHybridLiquidity, InitializePosition, SettleHybridPosition
  <2>5. QED
    BY <2>2, <2>4 DEF Next, ResolveHybrid, ResolveHybridTimeout
<1>2. QED
  BY <1>1, Invariance, PTL DEF Spec, DecisionsFinal

----------------------------------------------------------------------------
(* The portfolio page.                                                     *)

\* A decided market stays decided, and its liability only falls.
LEMMA DecidedStep ==
  ASSUME IInv, Next, phase \in Decided
  PROVE  phase' \in Decided /\ outstanding_liability' <= outstanding_liability
<1>1. outstanding_liability \in Nat
  BY DEF IInv, TypeOK
<1>2. CASE UNCHANGED <<phase, outstanding_liability>>
  BY <1>1, <1>2
<1>3. CASE WithdrawHybridLiquidity
  BY <1>1, <1>3 DEF WithdrawHybridLiquidity, close_hybrid_market_if_drained, liabilityVars, Decided
<1>4. ASSUME NEW t \in Traders, SettleHybridPosition(t)
      PROVE  phase' \in Decided /\ outstanding_liability' <= outstanding_liability
  <2>1. t \in opened \ settled /\ phase' \in Decided
        /\ outstanding_liability' = outstanding_liability - hybrid_position_payout(t)
    BY <1>4 DEF SettleHybridPosition, close_hybrid_market_if_drained, Decided
  <2>2. hybrid_position_payout(t) \in Nat
    BY <2>1, PayoutCovered
  <2>3. QED
    BY <1>1, <2>1, <2>2
<1>5. consumed /\ phase \notin {"None", "Open", "Locked"}
  BY DEF Decided, IInv, PhaseFacts
<1>6. CASE MarketStep
  BY <1>2, <1>3, <1>4, <1>5, <1>6
     DEF MarketStep, Tick, Donate, InitializeHybridMarket, LockHybridMarket, InitializePosition,
     BuyHybridShares, SellHybridShares, validate_hybrid_trade, liabilityVars
<1>7. QED
  BY <1>5, <1>6 DEF Next, ResolveHybrid, ResolveHybridTimeout, finalize_hybrid_resolution

LEMMA PagesInitInv == PagesInit => PagesIInv
  BY InitInv DEF PagesInit, PagesIInv, ConsoleType, Refreshed

LEMMA PagesNextInv == PagesIInv /\ [PagesNext]_pageVars => PagesIInv'
<1>1. SUFFICES ASSUME PagesIInv, [PagesNext]_pageVars PROVE PagesIInv'
  OBVIOUS
<1>2. IInv /\ ConsoleType /\ outstanding_liability \in Nat /\ vault \in Nat
  BY <1>1 DEF PagesIInv, IInv, TypeOK
<1>3. IInv'
  BY <1>1, <1>2, NextInv DEF pageVars, PagesNext, readMarket, readBalance
<1>4. CASE Next /\ UNCHANGED console
  BY <1>1, <1>2, <1>3, <1>4, DecidedStep DEF PagesIInv, ConsoleType, IInv, TypeOK
<1>5. CASE UNCHANGED pageVars
  BY <1>1, <1>3, <1>5 DEF PagesIInv, ConsoleType, pageVars, vars, liabilityVars
<1>6. CASE readMarket
  <2>1. console' = [Refreshed EXCEPT !.pc = "balance", !.liability = outstanding_liability]
        /\ phase = "Resolved" /\ UNCHANGED <<phase, outstanding_liability>>
    BY <1>6 DEF readMarket, vars, liabilityVars
  <2>2. console' = [pc |-> "balance", liability |-> outstanding_liability, shown |-> 0, payable |-> 0]
    BY <2>1 DEF Refreshed
  <2>3. /\ console'.pc = "balance" /\ console'.liability = outstanding_liability
        /\ console'.shown <= console'.payable
        /\ console' \in [pc : {"idle", "balance"}, liability : Nat, shown : Nat, payable : Nat]
    BY <1>2, <2>2
  <2>4. phase' \in Decided /\ outstanding_liability' <= console'.liability
    BY <1>2, <2>1, <2>3 DEF Decided
  <2>5. QED
    BY <1>3, <2>3, <2>4 DEF PagesIInv, ConsoleType
<1>7. CASE readBalance
  <2>1. UNCHANGED <<phase, outstanding_liability>> /\ console.pc = "balance"
    BY <1>7 DEF readBalance, vars, liabilityVars
  <2>2. /\ phase \in Decided /\ outstanding_liability <= console.liability
        /\ console.liability \in Nat
    BY <1>1, <1>2, <2>1 DEF PagesIInv, ConsoleType
  <2>3. CASE vault < console.liability
    BY <1>3, <1>7, <2>3 DEF readBalance, Refreshed, PagesIInv, ConsoleType
  <2>4. CASE ~(vault < console.liability)
    <3>1. console' = [pc |-> "idle", liability |-> 0, shown |-> vault - console.liability,
                      payable |-> vault - outstanding_liability]
      BY <1>7, <2>2, <2>4 DEF readBalance, Refreshed, Decided
    <3>2. /\ vault - console.liability \in Nat /\ vault - outstanding_liability \in Nat
          /\ vault - console.liability <= vault - outstanding_liability
      BY <1>2, <2>2, <2>4
    <3>3. QED
      BY <1>3, <3>1, <3>2 DEF PagesIInv, ConsoleType
  <2>5. QED
    BY <2>3, <2>4
<1>8. QED
  BY <1>1, <1>4, <1>5, <1>6, <1>7 DEF PagesNext

LEMMA PagesInvariance == PagesSpec => []PagesIInv
  BY PagesInitInv, PagesNextInv, PTL DEF PagesSpec

\* Whatever is settled, withdrawn or sent between the console's two requests,
\* it never shows more than what no trader had a claim on.
THEOREM WithdrawableAlwaysSafe == PagesSpec => []WithdrawableNeverOverstated
<1>1. PagesIInv => WithdrawableNeverOverstated
  BY DEF PagesIInv, WithdrawableNeverOverstated
<1>2. QED
  BY <1>1, PagesInvariance, PTL

\* hybridPositionPayout and hybridPositionStatus of the portfolio page agree
\* with settle_hybrid_position on every position, which is then paid in full.
THEOREM PortfolioAlwaysMatches == PagesSpec => []PortfolioMatches
<1>1. ASSUME PagesIInv, NEW t \in opened
      PROVE  hybridPositionStatus(t) = "claimable" <=>
               /\ phase = "Resolved" /\ t \notin settled
               /\ hybrid_position_payout(t) > 0
               /\ hybridPositionPayout(t) = hybrid_position_payout(t)
               /\ outstanding_liability >= hybridPositionPayout(t)
               /\ vault >= hybridPositionPayout(t)
  <2>1. CASE t \in settled \/ phase # "Resolved"
    <3>1. CASE t \in settled
      <4>1. hybridPositionStatus(t) = "settled"
        BY <3>1 DEF hybridPositionStatus
      <4>2. QED
        BY <3>1, <4>1
    <3>2. CASE t \notin settled /\ phase # "Resolved"
      <4>1. hybridPositionStatus(t) = "waiting"
        BY <3>2 DEF hybridPositionStatus
      <4>2. QED
        BY <3>2, <4>1
    <3>3. QED
      BY <2>1, <3>1, <3>2
  <2>2. CASE t \notin settled /\ phase = "Resolved"
    <3>1. IInv /\ phase \in Decided /\ outcome \in {YES, NO, INVALID}
      BY <1>1, <2>2 DEF PagesIInv, IInv, TypeOK, PhaseFacts, Decided
    <3>2. hybridPositionPayout(t) = hybrid_position_payout(t)
      BY <3>1 DEF hybridPositionPayout, hybrid_position_payout, YES, NO, INVALID
    <3>3. /\ hybrid_position_payout(t) \in Nat
          /\ hybrid_position_payout(t) <= outstanding_liability
          /\ outstanding_liability <= vault /\ outstanding_liability \in Nat /\ vault \in Nat
      BY <2>2, <3>1, PayoutCovered DEF IInv, TypeOK, VaultCoversLiability
    <3>4. hybridPositionStatus(t) = "claimable" <=> hybridPositionPayout(t) > 0
      BY <2>2 DEF hybridPositionStatus
    <3>5. QED
      BY <2>2, <3>2, <3>3, <3>4
  <2>3. QED
    BY <2>1, <2>2
<1>2. PagesIInv => PortfolioMatches
  BY <1>1 DEF PortfolioMatches
<1>3. QED
  BY <1>2, PagesInvariance, PTL

----------------------------------------------------------------------------
(* The trade ticket, for every bound on a trade and every slippage limit.    *)

\* Rounding each of two sales down returns at most what one buy, rounded up,
\* has cost, whether or not the cost between them lies between the others.
LEMMA RoundTrip ==
  ASSUME NEW a \in Nat, NEW b \in Nat, NEW c \in Nat, c <= a, NEW s \in Nat, s > 0
  PROVE  (a - b) \div s + (b - c) \div s <= div_ceil(a - c, s)
<1>1. ASSUME NEW x \in Int PROVE x \div s \in Int /\ (x \div s) * s <= x
  BY <1>1, Z3
<1> DEFINE f == (a - b) \div s
<1> DEFINE g == (b - c) \div s
<1> DEFINE h == div_ceil(a - c, s)
<1>2. f \in Int /\ f * s <= a - b /\ g \in Int /\ g * s <= b - c
  BY <1>1
<1>3. h \in Int /\ h * s >= a - c
  BY CeilFacts
<1> HIDE DEF f, g, h
<1>4. (h - f - g) * s >= 0
  BY <1>2, <1>3, Z3
<1>5. ASSUME NEW x \in Int, x * s >= 0 PROVE x >= 0
  BY <1>5, Z3
<1>6. h - f - g >= 0
  BY <1>2, <1>3, <1>4, <1>5
<1>7. QED
  BY <1>2, <1>3, <1>6 DEF f, g, h

\* On the way back from a quoted buy every pair of quantities is priced: it is
\* no further from balance than one of the two ends.
LEMMA MidFacts ==
  ASSUME NEW q \in Quantities, validate_state(q), NEW side \in {YES, NO}, NEW shares \in Nat,
         validate_state(increase(q, side, shares)), NEW first \in 1..shares
  PROVE  cost_fixed(decrease(increase(q, side, shares), side, first)) \in Nat
<1> DEFINE mid == decrease(increase(q, side, shares), side, first)
<1>1. MaxImbalance \in Nat /\ q.yes \in Nat /\ q.no \in Nat
  BY ConstantFacts DEF Quantities
<1>2. mid = [yes |-> IF side = YES THEN q.yes + shares - first ELSE q.yes,
             no |-> IF side = YES THEN q.no ELSE q.no + shares - first]
  <2>1. q = [yes |-> q.yes, no |-> q.no]
    BY DEF Quantities
  <2>2. \A y, n \in Int : decrease([yes |-> y, no |-> n], side, first)
                         = IF side = YES THEN [yes |-> y - first, no |-> n]
                                         ELSE [yes |-> y, no |-> n - first]
    BY DEF decrease
  <2>3. increase(q, side, shares)
          = IF side = YES THEN [yes |-> q.yes + shares, no |-> q.no]
                          ELSE [yes |-> q.yes, no |-> q.no + shares]
    BY <2>1 DEF increase
  <2>4. CASE side = YES
    BY <1>1, <2>2, <2>3, <2>4
  <2>5. CASE side # YES
    BY <1>1, <2>2, <2>3, <2>5
  <2>6. QED
    BY <2>4, <2>5
<1>3. mid \in Quantities
  BY <1>1, <1>2 DEF Quantities
<1>4. /\ mid.yes = IF side = YES THEN q.yes + shares - first ELSE q.yes
      /\ mid.no = IF side = YES THEN q.no ELSE q.no + shares - first
  BY <1>2
<1> HIDE DEF mid
<1>5. abs_diff(mid.yes, mid.no) <= MaxImbalance
  BY <1>1, <1>4 DEF Quantities, increase, validate_state, abs_diff
<1>6. QED
  BY <1>3, <1>5, CostFacts DEF mid

----------------------------------------------------------------------------
(* The client's pricing.  Its two loops carry pairs where lmsr.rs carries a  *)
(* term and a sum: each pair is the program's term and sum.                 *)

LEMMA ExpLoop ==
  ASSUME NEW x \in Nat
  PROVE  exp_loop(x)[22].sum = exp_sums(x)[22]
<1> DEFINE step(last, d) ==
      [term |-> mul_div_floor(last.term, x, FIXED_SCALE) \div d,
       sum |-> IF d % 2 = 1 THEN last.sum - mul_div_floor(last.term, x, FIXED_SCALE) \div d
                            ELSE last.sum + mul_div_floor(last.term, x, FIXED_SCALE) \div d]
<1> DEFINE first == [term |-> FIXED_SCALE, sum |-> FIXED_SCALE]
<1> DEFINE eq(t) == t = [d \in 0..22 |-> IF d = 0 THEN first ELSE step(t[d - 1], d)]
<1> DEFINE w == [d \in 0..22 |-> [term |-> exp_terms(x)[d], sum |-> exp_sums(x)[d]]]
<1>1. exp_loop(x) = CHOOSE t : eq(t)
  BY DEF exp_loop, mul_div_floor
<1>2. w[0] = first
  BY ExpTerms, ExpSums
<1>3. ASSUME NEW d \in 1..22 PROVE w[d] = step(w[d - 1], d)
  <2>1. /\ exp_terms(x)[d] = mul_div_floor(exp_terms(x)[d - 1], x, FIXED_SCALE) \div d
        /\ exp_terms(x)[d] \in Nat
    <3>1. exp_terms(x) \in [0..22 -> Nat] /\ d \in 0..22
      BY ExpTerms
    <3>2. exp_terms(x)[d] = mul_div_floor(exp_terms(x)[d - 1], x, FIXED_SCALE) \div d
      BY ExpTerms
    <3>3. QED
      BY <3>1, <3>2
  <2>2. /\ exp_sums(x)[d] = exp_sums(x)[d - 1] + exp_sign(d) * exp_terms(x)[d]
        /\ exp_sums(x)[d - 1] \in Int
    BY ExpSums
  <2>3. exp_sums(x)[d] = IF d % 2 = 1 THEN exp_sums(x)[d - 1] - exp_terms(x)[d]
                                      ELSE exp_sums(x)[d - 1] + exp_terms(x)[d]
    BY <2>1, <2>2 DEF exp_sign
  <2>4. d - 1 \in 0..22 /\ d \in 0..22
    OBVIOUS
  <2>5. /\ w[d] = [term |-> exp_terms(x)[d], sum |-> exp_sums(x)[d]]
        /\ w[d - 1].term = exp_terms(x)[d - 1] /\ w[d - 1].sum = exp_sums(x)[d - 1]
    BY <2>4
  <2> HIDE DEF w
  <2>6. QED
    BY <2>1, <2>3, <2>5
<1>4. w = [d \in 0..22 |-> w[d]]
  OBVIOUS
<1>5. w[22].sum = exp_sums(x)[22]
  OBVIOUS
<1> HIDE DEF w, step, first
<1>6. eq(w)
  <2>1. ASSUME NEW d \in 0..22 PROVE w[d] = IF d = 0 THEN first ELSE step(w[d - 1], d)
    BY <1>2, <1>3
  <2>2. QED
    BY <1>4, <2>1
<1>7. \E t : eq(t)
  BY <1>6
<1> DEFINE t == exp_loop(x)
<1>8. eq(t)
  BY <1>1, <1>7
<1>9. t[0] = first /\ \A d \in 1..22 : t[d] = step(t[d - 1], d)
  BY <1>8
<1> HIDE DEF t
<1>10. \A d \in 0..22 : t[d] = w[d]
  <2> DEFINE P == {d \in 0..22 : t[d] = w[d]}
  <2>1. 0 \in P
    BY <1>2, <1>9
  <2>2. ASSUME NEW d \in 1..22, d - 1 \in P PROVE d \in P
    <3>1. t[d - 1] = w[d - 1] /\ t[d] = step(t[d - 1], d) /\ w[d] = step(w[d - 1], d)
      BY <1>3, <1>9, <2>2
    <3>2. QED
      BY <3>1
  <2> HIDE DEF P
  <2>3. \A d \in 0..22 : d \in P
    BY <2>1, <2>2, UpTo
  <2>4. QED
    BY <2>3 DEF P
<1>11. QED
  BY <1>5, <1>10 DEF t

LEMMA LnLoop ==
  ASSUME NEW x \in Nat
  PROVE  ln_loop(x)[16].sum = ln_sums(x)[16]
<1> DEFINE squared == mul_div_floor(x, x, FIXED_SCALE)
<1> DEFINE step(last, k) ==
      [power |-> mul_div_floor(last.power, squared, FIXED_SCALE),
       sum |-> last.sum + mul_div_floor(last.power, squared, FIXED_SCALE) \div (2 * k + 1)]
<1> DEFINE first == [power |-> x, sum |-> x]
<1> DEFINE eq(t) == t = [k \in 0..16 |-> IF k = 0 THEN first ELSE step(t[k - 1], k)]
<1> DEFINE w == [k \in 0..16 |-> [power |-> ln_powers(x)[k], sum |-> ln_sums(x)[k]]]
<1>1. ln_loop(x) = CHOOSE t : eq(t)
  BY DEF ln_loop, mul_div_floor
<1>2. w[0] = first
  BY LnPowers, LnSums
<1>3. ASSUME NEW k \in 1..16 PROVE w[k] = step(w[k - 1], k)
  <2>1. ln_powers(x)[k] = mul_div_floor(ln_powers(x)[k - 1], squared, FIXED_SCALE)
    BY LnPowers
  <2>2. ln_sums(x)[k] = ln_sums(x)[k - 1] + ln_powers(x)[k] \div (2 * k + 1)
    BY LnSums DEF ln_denominator
  <2>3. k - 1 \in 0..16 /\ k \in 0..16
    OBVIOUS
  <2>4. /\ w[k] = [power |-> ln_powers(x)[k], sum |-> ln_sums(x)[k]]
        /\ w[k - 1].power = ln_powers(x)[k - 1] /\ w[k - 1].sum = ln_sums(x)[k - 1]
    BY <2>3
  <2> HIDE DEF w, squared
  <2>5. QED
    BY <2>1, <2>2, <2>4
<1>4. w = [k \in 0..16 |-> w[k]]
  OBVIOUS
<1>5. w[16].sum = ln_sums(x)[16]
  OBVIOUS
<1> HIDE DEF w, step, first
<1>6. eq(w)
  <2>1. ASSUME NEW k \in 0..16 PROVE w[k] = IF k = 0 THEN first ELSE step(w[k - 1], k)
    BY <1>2, <1>3
  <2>2. QED
    BY <1>4, <2>1
<1>7. \E t : eq(t)
  BY <1>6
<1> DEFINE t == ln_loop(x)
<1>8. eq(t)
  BY <1>1, <1>7
<1>9. t[0] = first /\ \A k \in 1..16 : t[k] = step(t[k - 1], k)
  BY <1>8
<1> HIDE DEF t
<1>10. \A k \in 0..16 : t[k] = w[k]
  <2> DEFINE P == {k \in 0..16 : t[k] = w[k]}
  <2>1. 0 \in P
    BY <1>2, <1>9
  <2>2. ASSUME NEW k \in 1..16, k - 1 \in P PROVE k \in P
    <3>1. t[k - 1] = w[k - 1] /\ t[k] = step(t[k - 1], k) /\ w[k] = step(w[k - 1], k)
      BY <1>3, <1>9, <2>2
    <3>2. QED
      BY <3>1
  <2> HIDE DEF P
  <2>3. \A k \in 0..16 : k \in P
    BY <2>1, <2>2, UpTo
  <2>4. QED
    BY <2>3 DEF P
<1>11. QED
  BY <1>5, <1>10 DEF t

\* lmsrCostFixed of the client is cost_fixed of the program at every pair of
\* quantities validate_state accepts.
LEMMA ClientCost ==
  ASSUME NEW p \in Quantities, abs_diff(p.yes, p.no) <= MaxImbalance
  PROVE  lmsrCostFixed(p) = cost_fixed(p)
<1> DEFINE d == abs_diff(p.yes, p.no)
<1> DEFINE v == mul_div_floor(d, FIXED_SCALE, Liquidity)
<1> DEFINE e == exp_negative_fixed(v)
<1> DEFINE r == mul_div_floor(e, FIXED_SCALE, 2 * FIXED_SCALE + e)
<1>1. d \in 0..MaxImbalance /\ d \in Nat /\ FIXED_SCALE \in Nat /\ Liquidity \in Nat /\ Liquidity > 0
      /\ LN_2_FIXED \in Nat /\ LN_2_FIXED > 0
  BY LmsrAssumption, ConstantFacts DEF Quantities, abs_diff
<1>2. v \in Nat
  BY <1>1, MulDivFacts
<1>3. e \in Nat
  BY <1>2, ExpFacts, LmsrAssumption
<1>4. r \in Nat
  BY <1>3, RatioMonotone
<1>5. expNegativeFixed(v) = e
  <2>1. v % LN_2_FIXED \in Nat
    BY <1>1, <1>2, Z3
  <2>2. exp_loop(v % LN_2_FIXED)[22].sum = exp_sums(v % LN_2_FIXED)[22]
    BY <2>1, ExpLoop
  <2>3. QED
    BY <2>2 DEF expNegativeFixed, exp_negative_fixed
<1>6. lnOnePlusFixed(e) = ln_one_plus_fixed(e)
  <2>1. ln_loop(r)[16].sum = ln_sums(r)[16]
    BY <1>4, LnLoop
  <2> HIDE DEF e
  <2>2. QED
    BY <2>1 DEF lnOnePlusFixed, ln_one_plus_fixed, mul_div_floor
<1>7. softplus[d] = ln_one_plus_fixed(e)
  BY <1>1 DEF softplus, tail
<1>8. v = mul_div_floor(abs_diff(p.yes, p.no), FIXED_SCALE, Liquidity)
  OBVIOUS
<1> HIDE DEF e, v
<1>9. QED
  BY <1>5, <1>6, <1>7, <1>8 DEF lmsrCostFixed, cost_fixed

\* The client's two checks are the program's.
LEMMA ClientChecks ==
  /\ \A p \in Quantities : validate_state(p) <=> validateState(p)
  /\ \A raw, shares : quoteFee(raw, shares) = fee_amount(raw, shares)
  BY ConstantFacts DEF Quantities, validateState, validate_state, abs_diff, MaxImbalance,
     quoteFee, fee_amount, divCeil, div_ceil

\* Moving a market by a trade of the ticket keeps a pair of quantities a pair.
LEMMA TicketMoved ==
  ASSUME NEW p \in Quantities, NEW direction, NEW side, NEW shares \in Nat,
         validateState(moved(direction, p, side, shares))
  PROVE  /\ moved(direction, p, side, shares) \in Quantities
         /\ validate_state(moved(direction, p, side, shares))
<1> DEFINE r == moved(direction, p, side, shares)
<1>1. /\ r.yes \in Nat /\ r.no \in Nat
      /\ validate_state(r)
  <2> HIDE DEF r
  <2>1. validateState(r)
    BY DEF r
  <2>2. MAX_OUTCOME_QUANTITY \in Nat
    BY ConstantFacts
  <2>3. QED
    BY <2>1, <2>2 DEF validateState, validate_state, MaxImbalance, abs_diff
<1>2. r = [yes |-> r.yes, no |-> r.no]
  <2>1. PICK y \in Nat, n \in Nat : p = [yes |-> y, no |-> n]
    BY DEF Quantities
  <2>2. \/ r = [yes |-> y + shares, no |-> n] \/ r = [yes |-> y, no |-> n + shares]
        \/ r = [yes |-> y - shares, no |-> n] \/ r = [yes |-> y, no |-> n - shares]
    BY <2>1 DEF moved, increase, decrease
  <2> HIDE DEF r
  <2>3. QED
    BY <2>2
<1> HIDE DEF r
<1>3. r \in Quantities
  BY <1>1, <1>2 DEF Quantities
<1>4. QED
  BY <1>1, <1>3 DEF r

\* A trade the panel quotes is one the program accepts at the same quantities,
\* for the same amount.
LEMMA QuotedAccepted ==
  ASSUME NEW p \in Quantities, validate_state(p),
         NEW direction \in {"buy", "sell"}, NEW side, NEW shares \in Nat,
         quoted(direction, p, side, shares), ~exceedsTradeLimit(shares)
  PROVE  /\ quoteTotal(direction, p, side, shares) \in Nat
         /\ direction = "buy" =>
              /\ quote_buy_ok(p, side, shares)
              /\ quote_buy(p, side, shares).total = quoteTotal(direction, p, side, shares)
         /\ direction = "sell" =>
              /\ quote_sell_ok(p, side, shares)
              /\ quote_sell(p, side, shares).total = quoteTotal(direction, p, side, shares)
<1> DEFINE r == moved(direction, p, side, shares)
<1> DEFINE total == quoteTotal(direction, p, side, shares)
<1>1. r \in Quantities /\ validate_state(r)
  BY TicketMoved DEF quoted
<1>2. /\ lmsrCostFixed(r) = cost_fixed(r) /\ lmsrCostFixed(p) = cost_fixed(p)
      /\ cost_fixed(r) \in Nat /\ cost_fixed(p) \in Nat
  <2> HIDE DEF r
  <2>1. QED
    BY <1>1, ClientCost, CostFacts DEF validate_state
<1>3. validate_trade(shares) /\ total > 0 /\ shares > 0 /\ FIXED_SCALE \in Nat /\ FIXED_SCALE > 0
  BY LmsrAssumption DEF quoted, exceedsTradeLimit, validate_trade
<1>4. CASE direction = "buy"
  <2> DEFINE raw == buy_raw(p, r)
  <2>1. r = increase(p, side, shares)
    BY <1>4 DEF moved
  <2>2. divCeil(cost_fixed(r) - cost_fixed(p), FIXED_SCALE) = raw
    BY DEF divCeil, buy_raw, div_ceil
  <2>3. total = IF raw <= 0 THEN 0 ELSE raw + fee_amount(raw, shares)
    <3> HIDE DEF r
    <3>1. QED
      BY <1>2, <1>4, <2>2, ClientChecks DEF quoteTotal, r
  <2>4. raw \in Int /\ (cost_fixed(r) < cost_fixed(p) => raw <= 0)
    <3> DEFINE c == cost_fixed(r) - cost_fixed(p)
    <3>1. c \in Int
      BY <1>2
    <3> HIDE DEF c
    <3>2. raw = div_ceil(c, FIXED_SCALE)
      BY DEF c, buy_raw
    <3>3. c \div FIXED_SCALE \in Int /\ (c < 0 => c \div FIXED_SCALE < 0)
      BY <1>3, <3>1, Z3
    <3>4. div_ceil(c, FIXED_SCALE) \in Int /\ (c < 0 => div_ceil(c, FIXED_SCALE) <= 0)
      BY <3>3 DEF div_ceil
    <3>5. QED
      BY <1>2, <3>2, <3>4 DEF c
  <2> HIDE DEF raw
  <2>5. raw > 0 /\ raw \in Nat /\ cost_fixed(r) >= cost_fixed(p)
    BY <1>2, <1>3, <2>3, <2>4
  <2>6. fee_amount(raw, shares) \in Nat
    BY <1>3, <2>5, FeeFacts
  <2>7. quote_buy_ok(p, side, shares)
    BY <1>1, <1>3, <2>1, <2>5 DEF quote_buy_ok, raw
  <2>8. quote_buy(p, side, shares).total = raw + fee_amount(raw, shares)
    BY <2>1 DEF quote_buy, raw
  <2>9. QED
    BY <1>4, <2>3, <2>5, <2>6, <2>7, <2>8
<1>5. CASE direction = "sell"
  <2> DEFINE raw == sell_raw(p, r)
  <2>1. r = decrease(p, side, shares)
    BY <1>5 DEF moved
  <2>2. (-(cost_fixed(r) - cost_fixed(p))) \div FIXED_SCALE = raw
    <3>1. -(cost_fixed(r) - cost_fixed(p)) = cost_fixed(p) - cost_fixed(r)
      BY <1>2
    <3>2. QED
      BY <3>1 DEF sell_raw
  <2>3. total = IF raw <= 0 THEN 0 ELSE raw - fee_amount(raw, shares)
    <3> HIDE DEF r
    <3>1. QED
      BY <1>2, <1>5, <2>2, ClientChecks DEF quoteTotal, r
  <2>4. raw \in Int /\ (cost_fixed(p) < cost_fixed(r) => raw <= 0)
    <3> DEFINE c == cost_fixed(p) - cost_fixed(r)
    <3>1. c \in Int
      BY <1>2
    <3> HIDE DEF c
    <3>2. raw = c \div FIXED_SCALE
      BY DEF c, sell_raw
    <3>3. c \div FIXED_SCALE \in Int /\ (c < 0 => c \div FIXED_SCALE < 0)
      BY <1>3, <3>1, Z3
    <3>4. QED
      BY <1>2, <3>2, <3>3 DEF c
  <2> HIDE DEF raw
  <2>5. raw > 0 /\ raw \in Nat /\ cost_fixed(p) >= cost_fixed(r)
    BY <1>2, <1>3, <2>3, <2>4
  <2>6. fee_amount(raw, shares) \in Nat
    BY <1>3, <2>5, FeeFacts
  <2>7. raw > fee_amount(raw, shares)
    BY <1>3, <2>3, <2>5, <2>6
  <2>8. quote_sell_ok(p, side, shares)
    BY <1>1, <1>3, <2>1, <2>5, <2>7 DEF quote_sell_ok, raw, Quantities
  <2>9. quote_sell(p, side, shares).total = raw - fee_amount(raw, shares)
    BY <2>1 DEF quote_sell, raw
  <2>10. QED
    BY <1>5, <2>3, <2>5, <2>6, <2>7, <2>8, <2>9
<1>6. QED
  BY <1>4, <1>5

\* The guard of a buy is no lower, the guard of a sale no higher, than the
\* amount shown.
LEMMA GuardFacts ==
  ASSUME NEW total \in Nat, NEW slippage \in SlippageBps
  PROVE  /\ amountGuard("buy", total, slippage) \in Int
         /\ total <= amountGuard("buy", total, slippage)
         /\ amountGuard("sell", total, slippage) \in Int
         /\ amountGuard("sell", total, slippage) <= total
<1>1. slippage \in 0..10000
  BY PanelAssumption
<1>2. /\ amountGuard("buy", total, slippage) = (total * (10000 + slippage) + 9999) \div 10000
      /\ amountGuard("sell", total, slippage) = (total * (10000 - slippage)) \div 10000
  BY DEF amountGuard
<1>3. total * slippage \in Nat /\ total * (10000 + slippage) = 10000 * total + total * slippage
      /\ total * (10000 - slippage) = 10000 * total - total * slippage
  BY <1>1, Z3
<1>4. ASSUME NEW m \in Nat
      PROVE  /\ total <= (10000 * total + m + 9999) \div 10000
             /\ (10000 * total + m + 9999) \div 10000 \in Int
             /\ (10000 * total - m) \div 10000 <= total
             /\ (10000 * total - m) \div 10000 \in Int
  BY Z3
<1>5. QED
  BY <1>2, <1>3, <1>4

\* The quantities stay where validate_state has accepted them, whether the
\* ticket's trade lands or another trader's.
LEMMA PanelQuantities ==
  PanelIInv /\ PanelNext
    => quantities' \in Quantities /\ validateState(quantities')
<1> SUFFICES ASSUME PanelIInv, PanelNext
             PROVE  quantities' \in Quantities /\ validateState(quantities')
  OBVIOUS
<1>1. /\ quantities \in Quantities /\ validate_state(quantities)
      /\ validateState(quantities)
      /\ ticket = Idle \/ QuotedAt(ticket)
  BY ClientChecks DEF PanelIInv, Quantities
<1>2. \A p \in Quantities : validate_state(p) => validateState(p)
  BY ClientChecks
<1>3. CASE quantities' = quantities
  BY <1>1, <1>3
<1>4. CASE others
  <2>1. PICK side \in {YES, NO}, shares \in 1..MaxShares :
          /\ quote_buy_ok(quantities, side, shares)
          /\ quantities' = quote_buy(quantities, side, shares).after
    BY <1>4 DEF others
  <2>2. /\ quote_buy_ok(quantities, side, shares) /\ shares \in Nat
        /\ quantities' = quote_buy(quantities, side, shares).after
    BY <2>1, PanelAssumption
  <2>3. QED
    BY <1>1, <1>2, <2>2, BuyFacts
<1>5. CASE land
  <2>1. /\ ticket.pc = "sent" /\ accepted(ticket)
        /\ quantities' = moved(ticket.direction, quantities, ticket.side, ticket.shares)
    BY <1>5 DEF land
  <2>2. ticket # Idle
    BY <2>1 DEF Idle
  <2>3. ticket.direction \in {"buy", "sell"} /\ ticket.shares \in Nat
    BY <1>1, <2>2 DEF QuotedAt
  <2>4. CASE ticket.direction = "buy"
    <3>1. quote_buy_ok(quantities, ticket.side, ticket.shares)
      BY <2>1, <2>4 DEF accepted
    <3>2. quantities' = increase(quantities, ticket.side, ticket.shares)
      BY <2>1, <2>4 DEF moved
    <3>3. QED
      BY <1>1, <1>2, <2>3, <3>1, <3>2, BuyFacts
  <2>5. CASE ticket.direction = "sell"
    <3>1. quote_sell_ok(quantities, ticket.side, ticket.shares)
      BY <2>1, <2>5 DEF accepted
    <3>2. quantities' = decrease(quantities, ticket.side, ticket.shares)
      BY <2>1, <2>5 DEF moved
    <3>3. QED
      BY <1>1, <1>2, <2>3, <3>1, <3>2, SellFacts
  <2>6. QED
    BY <2>3, <2>4, <2>5
<1>6. others \/ land \/ quantities' = quantities
  BY DEF PanelNext, submit, fetchCurrent, fail, lock
<1>7. QED
  BY <1>3, <1>4, <1>5, <1>6

\* Every step of the panel and of the other traders preserves PanelIInv.
LEMMA PanelNextInv == PanelIInv /\ [PanelNext]_panelVars => PanelIInv'
<1> SUFFICES ASSUME PanelIInv, [PanelNext]_panelVars
             PROVE  PanelIInv'
  OBVIOUS
<1>1. quantities' \in Quantities /\ validateState(quantities')
  <2>1. CASE PanelNext
    BY <2>1, PanelQuantities
  <2>2. CASE UNCHANGED panelVars
    BY <2>2 DEF panelVars, PanelIInv, Quantities
  <2>3. QED
    BY <2>1, <2>2
<1>2. SUFFICES ticket' = Idle \/ QuotedAt(ticket')
  BY <1>1 DEF PanelIInv, Quantities
<1>3. ticket = Idle \/ QuotedAt(ticket)
  BY DEF PanelIInv
<1>4. CASE ticket' = ticket \/ ticket' = Idle
  BY <1>3, <1>4
<1>5. ASSUME NEW direction \in {"buy", "sell"}, NEW side \in {YES, NO},
             NEW shares \in 1..MaxShares + 1, NEW slippage \in SlippageBps,
             submit(direction, side, shares, slippage)
      PROVE  QuotedAt(ticket')
  <2> DEFINE total == quoteTotal(direction, quantities, side, shares)
  <2> DEFINE guard == amountGuard(direction, total, slippage)
  <2>1. /\ quoted(direction, quantities, side, shares)
        /\ ~exceedsTradeLimit(shares)
        /\ ticket' = [pc |-> "fetching", direction |-> direction, side |-> side, shares |-> shares,
                      quantities |-> quantities, total |-> total, guard |-> guard]
    BY <1>5 DEF submit
  <2>2. /\ quantities \in Quantities /\ validate_state(quantities)
        /\ validateState(quantities) /\ shares \in Nat
    BY ClientChecks, PanelAssumption DEF PanelIInv, Quantities
  <2>3. total \in Nat
    BY <2>1, <2>2, QuotedAccepted
  <2>4. guard \in Int
    <3> HIDE DEF total
    <3>1. QED
      BY <2>3, GuardFacts
  <2> HIDE DEF total, guard
  <2>5. ticket' \in [pc : {"fetching", "sent"}, direction : {"buy", "sell"},
                     side : {YES, NO}, shares : 1..MaxShares + 1,
                     quantities : [yes : Nat, no : Nat], total : Int, guard : Int]
    BY <2>1, <2>2, <2>3, <2>4 DEF Quantities
  <2>6. /\ ticket'.direction = direction /\ ticket'.side = side /\ ticket'.shares = shares
        /\ ticket'.quantities = quantities /\ ticket'.total = total /\ ticket'.guard = guard
    BY <2>1
  <2>7. QED
    BY <2>1, <2>2, <2>5, <2>6 DEF QuotedAt, total, guard
<1>6. ASSUME fetchCurrent, ticket' # Idle PROVE QuotedAt(ticket')
  <2>1. ticket' = [ticket EXCEPT !.pc = "sent"] /\ ticket # Idle
    BY <1>6 DEF fetchCurrent, Idle
  <2>2. QuotedAt(ticket)
    BY <1>3, <2>1
  <2>3. ticket' \in [pc : {"fetching", "sent"}, direction : {"buy", "sell"},
                     side : {YES, NO}, shares : 1..MaxShares + 1,
                     quantities : [yes : Nat, no : Nat], total : Int, guard : Int]
    BY <2>1, <2>2 DEF QuotedAt
  <2>4. /\ ticket'.direction = ticket.direction /\ ticket'.side = ticket.side
        /\ ticket'.shares = ticket.shares /\ ticket'.quantities = ticket.quantities
        /\ ticket'.total = ticket.total /\ ticket'.guard = ticket.guard
    BY <2>1, <2>2 DEF QuotedAt
  <2>5. QED
    BY <2>2, <2>3, <2>4 DEF QuotedAt
<1>7. CASE PanelNext
  BY <1>4, <1>5, <1>6, <1>7 DEF PanelNext, land, fail, lock,
     others
<1>8. CASE UNCHANGED panelVars
  BY <1>4, <1>8 DEF panelVars
<1>9. QED
  BY <1>7, <1>8

\* A ticket that is out always holds a quote the client really made, of a pair
\* of quantities the program accepts, and so are the market's own quantities.
THEOREM PanelInvariance == PanelSpec => []PanelIInv
<1>1. PanelInit => PanelIInv
  <2>1. [yes |-> 0, no |-> 0] \in Quantities /\ validateState([yes |-> 0, no |-> 0])
    BY ConstantFacts, LmsrAssumption, MulFacts DEF Quantities, validateState, abs_diff, MaxImbalance
  <2>2. QED
    BY <2>1 DEF PanelInit, PanelIInv, Quantities
<1>2. QED
  BY <1>1, PanelNextInv, PTL DEF PanelSpec

\* Buying shares of a public market and selling them back, in one sale or in
\* two, returns at most what they cost before any fee, whatever the truncated
\* series of lmsr.rs are worth.
THEOREM RoundTripsNeverGain == PanelSpec => []NoRoundTripGain
<1>1. ASSUME PanelIInv, NEW side \in {YES, NO}, NEW shares \in 1..MaxShares,
             quote_buy_ok(quantities, side, shares), NEW first \in 1..shares
      PROVE  LET after == increase(quantities, side, shares)
                 mid == decrease(after, side, first)
             IN  sell_raw(after, mid) + sell_raw(mid, quantities) <= buy_raw(quantities, after)
  <2> DEFINE after == increase(quantities, side, shares)
  <2> DEFINE mid == decrease(after, side, first)
  <2>1. quantities \in Quantities /\ validate_state(quantities) /\ shares \in Nat
    BY <1>1, ClientChecks, PanelAssumption DEF PanelIInv, Quantities
  <2>2. validate_state(after) /\ cost_fixed(quantities) <= cost_fixed(after)
    BY <1>1 DEF quote_buy_ok
  <2>3. cost_fixed(mid) \in Nat
    BY <1>1, <2>1, <2>2, MidFacts
  <2>4. cost_fixed(quantities) \in Nat /\ cost_fixed(after) \in Nat
    BY <1>1, <2>1, BuyFacts DEF quote_buy
  <2> HIDE DEF mid, after
  <2>5. (cost_fixed(after) - cost_fixed(mid)) \div FIXED_SCALE
          + (cost_fixed(mid) - cost_fixed(quantities)) \div FIXED_SCALE
        <= div_ceil(cost_fixed(after) - cost_fixed(quantities), FIXED_SCALE)
    BY <2>2, <2>3, <2>4, RoundTrip, ConstantFacts
  <2>6. sell_raw(after, mid) + sell_raw(mid, quantities) <= buy_raw(quantities, after)
    BY <2>5 DEF sell_raw, buy_raw
  <2>7. QED
    BY <2>6 DEF mid, after
<1>2. PanelIInv => NoRoundTripGain
  BY <1>1 DEF NoRoundTripGain, quote_buy
<1>3. QED
  BY <1>2, PanelInvariance, PTL

\* The cost of a market's quantities lies between what the larger outcome pays
\* and that plus b * ln 2, the subsidy of initialize_hybrid_market.
THEOREM CostAlwaysBounded == PanelSpec => []CostBounds
<1>1. ASSUME PanelIInv PROVE CostBounds
  <2> DEFINE m == MaxOf(quantities.yes, quantities.no) * FIXED_SCALE
             d == abs_diff(quantities.yes, quantities.no)
  <2>1. quantities \in Quantities /\ validate_state(quantities)
    BY <1>1, ClientChecks DEF PanelIInv, Quantities
  <2>2. d <= MaxImbalance /\ d \in Nat /\ MaxImbalance \in Nat
    BY <2>1, ConstantFacts DEF validate_state, Quantities, abs_diff
  <2>3. softplus[d] \in Nat /\ softplus[d] <= LN_2_FIXED
    BY <2>2, SoftplusFacts
  <2>4. m \in Nat /\ m <= cost_fixed(quantities)
    BY <2>1, <2>2, CostFacts
  <2>5. cost_fixed(quantities) = m + Liquidity * softplus[d]
    BY DEF cost_fixed
  <2>6. Liquidity * softplus[d] \in Nat /\ Liquidity * LN_2_FIXED \in Nat
        /\ Liquidity * softplus[d] <= Liquidity * LN_2_FIXED
    <3>1. Liquidity \in Nat /\ LN_2_FIXED \in Nat
      BY LmsrAssumption
    <3>2. ASSUME NEW a \in Nat, NEW b \in Nat, a <= b
          PROVE  Liquidity * a \in Nat /\ Liquidity * b \in Nat /\ Liquidity * a <= Liquidity * b
      BY <3>1, <3>2, Z3
    <3>3. QED
      BY <2>3, <3>1, <3>2
  <2> HIDE DEF d
  <2>7. m <= cost_fixed(quantities) /\ cost_fixed(quantities) <= m + Liquidity * LN_2_FIXED
    <3> HIDE DEF m
    <3>1. QED
      BY <2>4, <2>5, <2>6
  <2>8. QED
    BY <2>7 DEF CostBounds
<1>2. QED
  BY <1>1, PanelInvariance, PTL

\* With the program's pricing and the client's, an offer that nobody has
\* overtaken is priced at exactly the amount shown, and at every slippage limit
\* the program accepts it unless it is a buy past the resolver's security cap.
THEOREM QuoteAlwaysHonoured == PanelSpec => []QuoteHonoured
<1>1. ASSUME PanelIInv, ticket.pc = "sent", open, quantities = ticket.quantities
      PROVE  /\ program_total(ticket) = ticket.total
             /\ accepted(ticket) <=>
                  \/ ticket.direction = "sell"
                  \/ within_security_cap(increase(quantities, ticket.side, ticket.shares))
  <2>1. QuotedAt(ticket)
    BY <1>1 DEF PanelIInv, Idle
  <2>2. /\ ticket.direction \in {"buy", "sell"} /\ ticket.shares \in Nat
        /\ quantities \in Quantities /\ validate_state(quantities)
    <3>1. ticket.direction \in {"buy", "sell"} /\ ticket.shares \in Nat
      <4>1. ticket.direction \in {"buy", "sell"} /\ ticket.shares \in 1..MaxShares + 1
        BY <2>1 DEF QuotedAt
      <4>2. MaxShares \in Nat
        BY PanelAssumption
      <4>3. QED
        BY <4>1, <4>2
    <3>2. quantities \in Quantities /\ validateState(quantities)
      BY <1>1 DEF PanelIInv, Quantities
    <3>3. QED
      BY <3>1, <3>2, ClientChecks
  <2>3. /\ quoted(ticket.direction, quantities, ticket.side, ticket.shares)
        /\ ~exceedsTradeLimit(ticket.shares)
        /\ ticket.total = quoteTotal(ticket.direction, quantities, ticket.side, ticket.shares)
    BY <1>1, <2>1 DEF QuotedAt
  <2>4. PICK slippage \in SlippageBps :
          ticket.guard = amountGuard(ticket.direction, ticket.total, slippage)
    BY <2>1 DEF QuotedAt
  <2>5. /\ ticket.total \in Nat
        /\ ticket.direction = "buy" =>
             /\ quote_buy_ok(quantities, ticket.side, ticket.shares)
             /\ quote_buy(quantities, ticket.side, ticket.shares).total = ticket.total
        /\ ticket.direction = "sell" =>
             /\ quote_sell_ok(quantities, ticket.side, ticket.shares)
             /\ quote_sell(quantities, ticket.side, ticket.shares).total = ticket.total
    BY <2>2, <2>3, QuotedAccepted
  <2>6. program_total(ticket) = ticket.total
    BY <2>2, <2>5 DEF program_total
  <2>7. CASE ticket.direction = "buy"
    <3>1. ticket.total <= ticket.guard
      BY <2>4, <2>5, <2>7, GuardFacts
    <3>2. quote_buy(quantities, ticket.side, ticket.shares).after
            = increase(quantities, ticket.side, ticket.shares)
      BY DEF quote_buy
    <3>3. QED
      BY <1>1, <2>5, <2>6, <2>7, <3>1, <3>2 DEF accepted
  <2>8. CASE ticket.direction = "sell"
    <3>1. ticket.guard <= ticket.total
      BY <2>4, <2>5, <2>8, GuardFacts
    <3>2. ticket.total >= ticket.guard
      BY <2>4, <2>5, <2>8, <3>1, GuardFacts
    <3>3. QED
      BY <1>1, <2>5, <2>6, <2>8, <3>2 DEF accepted
  <2>9. QED
    BY <2>2, <2>6, <2>7, <2>8
<1>2. PanelIInv => QuoteHonoured
  BY <1>1 DEF QuoteHonoured
<1>3. QED
  BY <1>2, PanelInvariance, PTL
=============================================================================
