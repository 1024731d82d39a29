------------------------- MODULE PrivatePoolProofs -------------------------
(***************************************************************************)
(* Proofs about PrivatePool for every set of orders, every stake, fee rate *)
(* and deadline.                                                           *)
(***************************************************************************)
EXTENDS PrivatePool, SumTheorems

----------------------------------------------------------------------------
(* Arithmetic.                                                             *)

\* Paying one position its share rounded down leaves at least the exact shares of
\* the others.
LEMMA RedeemLower ==
  ASSUME NEW pool \in Int, NEW w \in Nat, NEW A \in Int, NEW a \in Nat,
         NEW net \in Nat, NEW q \in Nat, w > 0,
         q * w <= a * net, pool * w >= A * net
  PROVE  (pool - q) * w >= (A - a) * net
  BY Z3

\* Paying one winner its share rounded down withholds less than one unit.
LEMMA RedeemUpper ==
  ASSUME NEW pool \in Int, NEW w \in Nat, NEW A \in Int, NEW a \in Nat,
         NEW net \in Nat, NEW q \in Nat, NEW k \in Nat, w > 0,
         a * net < q * w + w, pool * w <= A * net + k * (w - 1)
  PROVE  (pool - q) * w <= (A - a) * net + (k + 1) * (w - 1)
  BY Z3

\* A share of at most the whole, rounded down, is between zero and the whole.
LEMMA RateFacts ==
  ASSUME NEW x \in Nat, NEW d \in Nat, d > 0, NEW r \in 0..d
  PROVE  (x * r) \div d \in 0..x
<1>1. x * r \in Nat /\ x * r <= x * d
  BY Z3
<1>2. (x * r) \div d \in Nat /\ ((x * r) \div d) * d <= x * r
  BY <1>1, DivFacts
<1>3. QED
  <2>1. ASSUME NEW q \in Nat, q * d <= x * d PROVE q <= x
    BY <2>1, Z3
  <2>2. ((x * r) \div d) * d <= x * d
    BY <1>1, <1>2
  <2>3. QED
    BY <1>2, <2>1, <2>2

\* The pool above the exact shares never exceeds what rounding withheld: one
\* unit for each winner already paid.
LEMMA DustWinner ==
  ASSUME NEW pool \in Int, NEW w \in Nat, NEW x \in Nat, NEW q \in Nat, NEW k \in Nat,
         w > 0, x < q * w + w, pool * w <= x + k * (w - 1)
  PROVE  pool - q <= k
  BY Z3

\* With no winner left unpaid, what rounding withheld is less than one unit for
\* each of the k winners, hence at most k - 1.
LEMMA DustLoser ==
  ASSUME NEW pool \in Int, NEW w \in Nat, NEW k \in Nat, w > 0,
         pool * w <= k * (w - 1)
  PROVE  pool <= IF k > 0 THEN k - 1 ELSE 0
  BY Z3

\* A quotient that fits the pool.
LEMMA PoolCovers ==
  ASSUME NEW pool \in Int, NEW w \in Nat, NEW q \in Nat, w > 0, pool * w >= q * w
  PROVE  pool >= q
  BY Z3

----------------------------------------------------------------------------
(* Initial states and the steps that move no order and no money.           *)

\* Every set of orders is finite and has a cardinality.
LEMMA FiniteOrders ==
  ASSUME TypeOK
  PROVE  /\ IsFiniteSet(Orders)
         /\ \A S \in SUBSET Orders : IsFiniteSet(S) /\ Cardinality(S) \in Nat
<1>1. IsFiniteSet(Orders)
  BY OrdersAssumption
<1>2. \A S \in SUBSET Orders : IsFiniteSet(S)
  BY <1>1, FS_Subset
<1>3. QED
  BY <1>1, <1>2, FS_CardinalityType

\* The state before initialize_market satisfies the invariant.
LEMMA InitInv == Init => IInv
<1>1. SUFFICES ASSUME Init PROVE IInv
  OBVIOUS
<1>2. OrdersOn(YES) = {} /\ OrdersOn(NO) = {}
  BY <1>1 DEF Init, OrdersOn
<1>3. Cardinality({}) = 0
  BY FS_EmptySet
<1>4. Stake \in Nat
  BY AmountsAssumption
<1>5. WagerOn(YES) = 0 /\ WagerOn(NO) = 0 /\ Total(Unused, placed, Stake) = 0
  <2>1. placed = {}
    BY <1>1 DEF Init
  <2>2. QED
    BY <1>2, <1>4, <2>1, TotalEmpty DEF WagerOn
<1>6. TypeOK
  BY <1>1, AmountsAssumption, TimesAssumption DEF Init, TypeOK, Phases
<1>7. Counting
  BY <1>1, <1>3 DEF Init, Counting
<1>8. AggregateFacts
  BY <1>1, <1>2, <1>3, <1>5, AmountsAssumption
     DEF Init, AggregateFacts, finalizeCommitteeAggregates,
         valid_private_batch_amounts, within_side
<1>9. PhaseFacts /\ EscrowIntact /\ ResolvedVault /\ EscrowPaidOut
  BY <1>1, AmountsAssumption DEF Init, PhaseFacts, EscrowIntact, ResolvedVault, EscrowPaidOut
<1>10. QED
  BY <1>6, <1>7, <1>8, <1>9 DEF IInv

\* A step that changes only the clock and the verifiers keeps the invariant.
LEMMA FrameInv ==
  ASSUME IInv, TypeOK',
         UNCHANGED <<phase, placed, order_count, batchVars, settleVars, refundVars,
                     claimVars, moneyVars>>
  PROVE  IInv'
<1> USE DEF batchVars, settleVars, refundVars, claimVars, moneyVars
<1>1. Counting'
  BY DEF IInv, Counting, place_circuit
<1>2. AggregateFacts'
  BY DEF IInv, AggregateFacts, finalizeCommitteeAggregates, WagerOn, OrdersOn, Unused
<1>3. PhaseFacts'
  BY DEF IInv, PhaseFacts, winning_amount, WagerOn, OrdersOn
<1>4. EscrowIntact' /\ EscrowPaidOut'
  BY DEF IInv, EscrowIntact, EscrowPaidOut
<1>5. ResolvedVault'
  BY DEF IInv, ResolvedVault, winning_amount, Winning, Unused,
     PoolLeft, OpenUnused, OpenWager, OpenOrders
<1>6. QED
  BY <1>1, <1>2, <1>3, <1>4, <1>5 DEF IInv

----------------------------------------------------------------------------
(* One lemma per instruction.                                              *)

\* A stray deposit into the vault keeps the invariant.
LEMMA DonateInv == IInv /\ Donate => IInv'
<1>1. SUFFICES ASSUME IInv, Donate PROVE IInv'
  OBVIOUS
<1> USE DEF verifierVars, orderVars, batchVars, settleVars, refundVars, claimVars
<1>2. TypeOK'
  BY <1>1, AmountsAssumption DEF IInv, TypeOK, Donate
<1>3. Counting' /\ AggregateFacts' /\ PhaseFacts'
  BY <1>1 DEF IInv, Donate, Counting, place_circuit, AggregateFacts,
     finalizeCommitteeAggregates, WagerOn, OrdersOn, Unused, PhaseFacts, winning_amount
<1>4. EscrowIntact' /\ EscrowPaidOut'
  <2>1. vault \in Nat /\ donated \in Nat /\ vault' = vault + 1 /\ donated' = donated + 1
    BY <1>1 DEF IInv, TypeOK, Donate
  <2>2. Stake * (order_count - refunded_count) \in Int
    BY <1>1, AmountsAssumption DEF IInv, TypeOK
  <2>3. QED
    BY <1>1, <2>1, <2>2 DEF IInv, EscrowIntact, EscrowPaidOut, Donate
<1>5. ResolvedVault'
  <2>1. vault' - donated' = vault - donated
    BY <1>1 DEF IInv, TypeOK, Donate
  <2>2. QED
    BY <1>1, <2>1 DEF IInv, ResolvedVault, winning_amount, Winning, Unused, Donate,
       PoolLeft, OpenUnused, OpenWager, OpenOrders
<1>6. QED
  BY <1>2, <1>3, <1>4, <1>5 DEF IInv

\* initialize_market keeps the invariant.
LEMMA InitializeMarketInv == IInv /\ InitializeMarket => IInv'
<1>1. SUFFICES ASSUME IInv, InitializeMarket PROVE IInv'
  OBVIOUS
<1> USE DEF orderVars, batchVars, settleVars, refundVars, claimVars, moneyVars
<1>2. TypeOK'
  BY <1>1 DEF IInv, TypeOK, InitializeMarket, Phases
<1>3. Counting' /\ AggregateFacts'
  BY <1>1 DEF IInv, InitializeMarket, Counting, place_circuit, AggregateFacts,
     finalizeCommitteeAggregates, WagerOn, OrdersOn, Unused
<1>4. PhaseFacts' /\ EscrowIntact' /\ ResolvedVault' /\ EscrowPaidOut'
  BY <1>1 DEF IInv, InitializeMarket, PhaseFacts, EscrowIntact, ResolvedVault, EscrowPaidOut
<1>5. QED
  BY <1>2, <1>3, <1>4 DEF IInv

\* place_order keeps the invariant: stake, count and hidden amounts grow together.
LEMMA PlaceOrderInv == ASSUME NEW o \in Orders, IInv, PlaceOrder(o) PROVE IInv'
<1> USE DEF batchVars, settleVars, refundVars, claimVars
<1>1. /\ TypeOK /\ Counting /\ AggregateFacts /\ PhaseFacts /\ EscrowIntact
      /\ phase = "Open" /\ phase' = "Open" /\ o \notin placed
      /\ placed' = placed \cup {o} /\ order_count' = order_count + 1
      /\ vault' = vault + Stake
      /\ UNCHANGED <<batchVars, settleVars, refundVars, claimVars, donated>>
  BY DEF IInv, PlaceOrder
<1>2. /\ Stake \in Nat /\ MinWager \in Nat /\ Amount[o] \in MinWager..Stake
      /\ Unused[o] = Stake - Amount[o] /\ Unused[o] \in 0..Stake /\ Amount[o] \in 0..Stake
  BY AmountsAssumption, OrdersAssumption DEF PlaceOrder, place_circuit, Unused
<1>3. TypeOK'
  <2>1. vault' \in Nat /\ placed' \in SUBSET Orders /\ order_count' \in Nat
    BY <1>1, <1>2 DEF TypeOK
  <2>2. placed_under' \in [Orders -> Pairs \cup {NoPair}]
    BY <1>1 DEF TypeOK, PlaceOrder
  <2>3. QED
    BY <1>1, <2>1, <2>2 DEF TypeOK, PlaceOrder
<1>4. \A S \in SUBSET Orders : IsFiniteSet(S) /\ Cardinality(S) \in Nat
  BY <1>1, FiniteOrders
<1>5. Counting'
  <2>1. Cardinality(placed') = order_count + 1
    BY <1>1, <1>4, FS_AddElement DEF TypeOK, Counting
  <2>2. QED
    BY <1>1, <2>1 DEF Counting, PlaceOrder, place_circuit
<1>6. Total(Unused, placed', Stake) = Total(Unused, placed, Stake) + (Stake - Amount[o])
  BY <1>1, <1>2, <1>4, TotalAdd DEF TypeOK
<1>7. ASSUME NEW s \in {YES, NO}
      PROVE  /\ OrdersOn(s)' = IF Side[o] = s THEN OrdersOn(s) \cup {o} ELSE OrdersOn(s)
             /\ o \notin OrdersOn(s) /\ OrdersOn(s) \in SUBSET Orders
  BY <1>1 DEF OrdersOn, TypeOK
<1>8. ASSUME NEW s \in {YES, NO}
      PROVE  /\ WagerOn(s) \in Nat /\ Cardinality(OrdersOn(s)) \in Nat
             /\ Side[o] = s => /\ WagerOn(s)' = WagerOn(s) + Amount[o]
                               /\ Cardinality(OrdersOn(s)') = Cardinality(OrdersOn(s)) + 1
             /\ Side[o] # s => /\ WagerOn(s)' = WagerOn(s)
                               /\ Cardinality(OrdersOn(s)') = Cardinality(OrdersOn(s))
  <2>1. IsFiniteSet(OrdersOn(s)) /\ Cardinality(OrdersOn(s)) \in Nat
    BY <1>4, <1>7
  <2>2. WagerOn(s) \in Nat
    BY <1>2, <2>1, UnitsFinite DEF WagerOn
  <2>3. ASSUME Side[o] = s
        PROVE  Total(Amount, OrdersOn(s)', Stake) = Total(Amount, OrdersOn(s), Stake) + Amount[o]
               /\ Cardinality(OrdersOn(s)') = Cardinality(OrdersOn(s)) + 1
    <3>1. OrdersOn(s)' = OrdersOn(s) \cup {o} /\ o \notin OrdersOn(s)
      BY <1>7, <2>3
    <3>2. Total(Amount, OrdersOn(s) \cup {o}, Stake) = Total(Amount, OrdersOn(s), Stake) + Amount[o]
      BY <1>2, <2>1, <3>1, TotalAdd
    <3>3. Cardinality(OrdersOn(s) \cup {o}) = Cardinality(OrdersOn(s)) + 1
      BY <2>1, <3>1, FS_AddElement
    <3>4. QED
      BY <3>1, <3>2, <3>3
  <2>4. QED
    BY <1>7, <2>1, <2>2, <2>3 DEF WagerOn
<1>9. AggregateFacts'
  <2>1. Total(Unused, placed, Stake) \in Nat
    BY <1>1, <1>2, <1>4, UnitsFinite DEF TypeOK
  <2>2. Side[o] \in {YES, NO} /\ YES # NO /\ Unused' = Unused
    BY OrdersAssumption DEF YES, NO, Unused
  <2>3. /\ WagerOn(YES) \in Nat /\ Cardinality(OrdersOn(YES)) \in Nat
        /\ WagerOn(NO) \in Nat /\ Cardinality(OrdersOn(NO)) \in Nat
        /\ within_side(Cardinality(OrdersOn(YES)), WagerOn(YES))
        /\ within_side(Cardinality(OrdersOn(NO)), WagerOn(NO))
    BY <1>1, <1>8 DEF AggregateFacts, valid_private_batch_amounts, finalizeCommitteeAggregates
  <2>4. CASE Side[o] = YES
    <3>1. /\ WagerOn(YES)' = WagerOn(YES) + Amount[o] /\ WagerOn(NO)' = WagerOn(NO)
          /\ Cardinality(OrdersOn(YES)') = Cardinality(OrdersOn(YES)) + 1
          /\ Cardinality(OrdersOn(NO)') = Cardinality(OrdersOn(NO))
      BY <1>8, <2>2, <2>4
    <3>2. /\ within_side(Cardinality(OrdersOn(YES)'), WagerOn(YES)')
          /\ within_side(Cardinality(OrdersOn(NO)'), WagerOn(NO)')
      BY <1>2, <2>3, <3>1 DEF within_side
    <3>3. QED
      BY <1>1, <1>2, <1>6, <2>1, <2>2, <2>3, <3>1, <3>2
         DEF AggregateFacts, valid_private_batch_amounts, finalizeCommitteeAggregates, TypeOK
  <2>5. CASE Side[o] = NO
    <3>1. /\ WagerOn(NO)' = WagerOn(NO) + Amount[o] /\ WagerOn(YES)' = WagerOn(YES)
          /\ Cardinality(OrdersOn(NO)') = Cardinality(OrdersOn(NO)) + 1
          /\ Cardinality(OrdersOn(YES)') = Cardinality(OrdersOn(YES))
      BY <1>8, <2>2, <2>5
    <3>2. /\ within_side(Cardinality(OrdersOn(YES)'), WagerOn(YES)')
          /\ within_side(Cardinality(OrdersOn(NO)'), WagerOn(NO)')
      BY <1>2, <2>3, <3>1 DEF within_side
    <3>3. QED
      BY <1>1, <1>2, <1>6, <2>1, <2>2, <2>3, <3>1, <3>2
         DEF AggregateFacts, valid_private_batch_amounts, finalizeCommitteeAggregates, TypeOK
  <2>6. QED
    BY <2>2, <2>4, <2>5
<1>10. PhaseFacts' /\ ResolvedVault' /\ EscrowPaidOut'
  BY <1>1 DEF PhaseFacts, ResolvedVault, EscrowPaidOut
<1>11. EscrowIntact'
  BY <1>1, <1>2 DEF EscrowIntact, TypeOK
<1>12. QED
  BY <1>3, <1>5, <1>9, <1>10, <1>11 DEF IInv

\* submit_batch keeps the invariant: it records what the committee reconstructs.
LEMMA SubmitBatchInv == IInv /\ SubmitBatch => IInv'
<1>1. SUFFICES ASSUME IInv, SubmitBatch PROVE IInv'
  OBVIOUS
<1> USE DEF verifierVars, orderVars, settleVars, refundVars, claimVars, moneyVars
<1>2. /\ TypeOK /\ Counting /\ AggregateFacts /\ PhaseFacts /\ EscrowIntact
      /\ phase = "Open" /\ phase' = "Batched" /\ order_count > 0
      /\ yes_count' = Cardinality(OrdersOn(YES)) /\ no_count' = Cardinality(OrdersOn(NO))
      /\ yes_amount' = WagerOn(YES) /\ no_amount' = WagerOn(NO)
      /\ UNCHANGED <<now, verifierVars, orderVars, settleVars, refundVars, claimVars, moneyVars>>
  BY <1>1 DEF IInv, SubmitBatch, finalizeCommitteeAggregates
<1>3. /\ OrdersOn(YES) \in SUBSET Orders /\ OrdersOn(NO) \in SUBSET Orders
      /\ Stake \in Nat
  BY <1>2, AmountsAssumption DEF OrdersOn, TypeOK
<1>4. /\ Cardinality(OrdersOn(YES)) \in Nat /\ Cardinality(OrdersOn(NO)) \in Nat
      /\ WagerOn(YES) \in Nat /\ WagerOn(NO) \in Nat
  BY <1>2, <1>3, FiniteOrders, UnitsFinite DEF WagerOn
<1>5. TypeOK'
  BY <1>2, <1>4 DEF TypeOK, Phases
<1>6. Counting' /\ AggregateFacts'
  BY <1>2 DEF Counting, place_circuit, AggregateFacts, finalizeCommitteeAggregates,
     WagerOn, OrdersOn, Unused
<1>7. OrdersOn(YES)' = OrdersOn(YES) /\ OrdersOn(NO)' = OrdersOn(NO)
      /\ WagerOn(YES)' = WagerOn(YES) /\ WagerOn(NO)' = WagerOn(NO)
  BY <1>2 DEF OrdersOn, WagerOn
<1>8. PhaseFacts'
  BY <1>2, <1>7 DEF PhaseFacts
<1>9. EscrowIntact' /\ ResolvedVault' /\ EscrowPaidOut'
  BY <1>2 DEF EscrowIntact, ResolvedVault, EscrowPaidOut
<1>10. QED
  BY <1>5, <1>6, <1>8, <1>9 DEF IInv

\* begin_refund keeps the invariant: only an unresolved market starts refunding.
LEMMA BeginRefundInv == IInv /\ BeginRefund => IInv'
<1>1. SUFFICES ASSUME IInv, BeginRefund PROVE IInv'
  OBVIOUS
<1> USE DEF verifierVars, orderVars, batchVars, settleVars, refundVars, claimVars, moneyVars
<1>2. /\ TypeOK /\ Counting /\ AggregateFacts /\ PhaseFacts /\ EscrowIntact
      /\ phase \in {"Open", "Batched"}
      /\ phase' = IF order_count = 0 THEN "Closed" ELSE "Refunding"
      /\ UNCHANGED <<now, verifierVars, orderVars, batchVars, settleVars, refundVars,
                     claimVars, moneyVars>>
  BY <1>1 DEF IInv, BeginRefund, timed_out
<1>3. TypeOK'
  BY <1>2 DEF TypeOK, Phases
<1>4. Counting' /\ AggregateFacts'
  BY <1>2 DEF Counting, place_circuit, AggregateFacts, finalizeCommitteeAggregates,
     WagerOn, OrdersOn, Unused
<1>5. PhaseFacts' /\ ResolvedVault'
  BY <1>2 DEF PhaseFacts, ResolvedVault
<1>6. refunded_count = 0
  BY <1>2, FS_EmptySet DEF PhaseFacts, Counting
<1>7. EscrowIntact' /\ EscrowPaidOut'
  BY <1>2, <1>6, AmountsAssumption DEF EscrowIntact, EscrowPaidOut, TypeOK
<1>8. QED
  BY <1>3, <1>4, <1>5, <1>7 DEF IInv

\* refund_order keeps the invariant: the last refund leaves only donations.
LEMMA RefundOrderInv == ASSUME NEW o \in Orders, IInv, RefundOrder(o) PROVE IInv'
<1> USE DEF verifierVars, orderVars, batchVars, settleVars, claimVars
<1>1. /\ TypeOK /\ Counting /\ AggregateFacts /\ PhaseFacts /\ EscrowIntact
      /\ phase = "Refunding" /\ o \in placed /\ o \notin refunded
      /\ refunded' = refunded \cup {o} /\ refunded_count' = refunded_count + 1
      /\ phase' = IF refunded_count + 1 = order_count THEN "Closed" ELSE phase
      /\ vault >= Stake /\ vault' = vault - Stake
      /\ paid' = [paid EXCEPT ![o] = @ + Stake]
      /\ UNCHANGED <<now, verifierVars, orderVars, batchVars, settleVars, claimVars, donated>>
  BY DEF IInv, RefundOrder, refundable
<1>2. Stake \in Nat
  BY AmountsAssumption
<1>3. TypeOK'
  <2>1. vault' \in Nat /\ refunded' \in SUBSET Orders /\ refunded_count' \in Nat
    BY <1>1, <1>2 DEF TypeOK
  <2>2. paid' \in [Orders -> Nat]
    BY <1>1, <1>2 DEF TypeOK
  <2>3. QED
    BY <1>1, <2>1, <2>2 DEF TypeOK, Phases
<1>4. Counting'
  <2>1. IsFiniteSet(refunded)
    BY <1>1, FiniteOrders DEF TypeOK
  <2>2. Cardinality(refunded') = refunded_count + 1
    BY <1>1, <2>1, FS_AddElement DEF Counting
  <2>3. QED
    BY <1>1, <2>2 DEF Counting, place_circuit
<1>5. AggregateFacts'
  BY <1>1 DEF AggregateFacts, finalizeCommitteeAggregates, WagerOn, OrdersOn, Unused
<1>6. PhaseFacts' /\ ResolvedVault'
  BY <1>1 DEF PhaseFacts, ResolvedVault
<1>7. EscrowIntact' /\ EscrowPaidOut'
  BY <1>1, <1>2 DEF EscrowIntact, EscrowPaidOut, TypeOK
<1>8. QED
  BY <1>3, <1>4, <1>5, <1>6, <1>7 DEF IInv

\* Resolution takes exactly the fee out of the vault, so the pool that is
\* left is the net pool and equals the shares of all the winners together.
LEMMA ResolveMarketInv == ASSUME NEW side \in {YES, NO}, IInv, ResolveMarket(side) PROVE IInv'
<1> DEFINE gross == yes_amount + no_amount
           fee == (gross * FeeBps) \div Denominator
           keeper == (fee * KeeperBps) \div Denominator
           W == winning_amount(side)
<1> USE DEF verifierVars, orderVars, batchVars, refundVars, claimVars
<1>1. /\ TypeOK /\ Counting /\ AggregateFacts /\ PhaseFacts /\ EscrowIntact
      /\ phase = "Batched" /\ phase' = "Resolved" /\ outcome' = side
      /\ W > 0 /\ vault >= Stake * order_count
      /\ net_pool' = gross - fee /\ keeper_reward' = keeper /\ treasury_fee' = fee - keeper
      /\ vault' = vault - (fee - keeper) - keeper
      /\ UNCHANGED <<now, verifierVars, orderVars, batchVars, refundVars, claimVars, paid, donated>>
  BY DEF IInv, ResolveMarket, calculate_settlement
<1>2. Stake \in Nat /\ yes_amount \in Nat /\ no_amount \in Nat /\ gross \in Nat
      /\ vault \in Nat /\ donated \in Nat /\ order_count \in Nat /\ W \in Nat
  BY <1>1, AmountsAssumption DEF TypeOK, winning_amount
<1>3. fee \in 0..gross
  BY <1>2, AmountsAssumption, RateFacts
<1>4. keeper \in 0..fee
  BY <1>3, AmountsAssumption, RateFacts
<1> HIDE DEF fee, keeper, W
<1>5. /\ claims = {} /\ refunded = {} /\ refunded_count = 0 /\ order_count > 0
      /\ yes_amount = WagerOn(YES) /\ no_amount = WagerOn(NO)
  BY <1>1, FS_EmptySet DEF PhaseFacts, Counting
<1>6. Total(Unused, placed, Stake) + gross = Stake * order_count
      /\ Total(Unused, placed, Stake) \in Nat
  <2>1. IsFiniteSet(placed)
    BY <1>1, FiniteOrders DEF TypeOK
  <2>2. Total(Unused, placed, Stake) \in Nat
    BY <1>2, <2>1, UnitsFinite
  <2>3. QED
    BY <1>1, <1>2, <1>5, <2>2 DEF AggregateFacts
<1>7. Stake * order_count \in Nat /\ vault = Stake * order_count + donated
  <2>1. vault = Stake * (order_count - 0) + donated
    BY <1>1, <1>5 DEF EscrowIntact
  <2>2. QED
    BY <1>2, <2>1
<1>8. vault' \in Nat /\ vault' = vault - fee
  BY <1>1, <1>2, <1>3, <1>4, <1>6, <1>7
<1>9. TypeOK'
  <2>1. net_pool' \in Nat /\ treasury_fee' \in Nat /\ keeper_reward' \in Nat
    BY <1>1, <1>2, <1>3, <1>4
  <2>2. QED
    BY <1>1, <1>8, <2>1 DEF TypeOK, Phases
<1>10. Counting' /\ AggregateFacts'
  BY <1>1 DEF Counting, place_circuit, AggregateFacts, finalizeCommitteeAggregates,
     WagerOn, OrdersOn, Unused
<1>11. PhaseFacts'
  <2>1. winning_amount(side)' = W
    BY <1>1 DEF winning_amount, W
  <2>2. QED
    BY <1>1, <2>1 DEF PhaseFacts, WagerOn, OrdersOn, winning_amount
<1>12. EscrowIntact' /\ EscrowPaidOut'
  BY <1>1 DEF EscrowIntact, EscrowPaidOut
<1>13. ResolvedVault'
  <2>1. OpenOrders' = placed /\ Winning' = OrdersOn(side) /\ claims' \cap Winning' = {}
    BY <1>1, <1>5 DEF OpenOrders, Winning, OrdersOn
  <2>2. OpenUnused' = Total(Unused, placed, Stake)
    BY <2>1 DEF OpenUnused, Unused
  <2>3. OpenWager' = W
    <3>1. placed \cap OrdersOn(side) = OrdersOn(side)
      BY DEF OrdersOn
    <3>2. OpenWager' = WagerOn(side)
      BY <2>1, <3>1 DEF OpenWager, WagerOn
    <3>3. QED
      BY <1>5, <3>2 DEF W, winning_amount, YES, NO
  <2>4. PoolLeft' = net_pool'
    <3>1. PoolLeft' = vault' - donated - Total(Unused, placed, Stake)
      BY <1>1, <2>2 DEF PoolLeft
    <3>2. vault' = Stake * order_count + donated - fee
      BY <1>2, <1>3, <1>7, <1>8
    <3>3. QED
      BY <1>1, <1>2, <1>3, <1>6, <1>7, <3>1, <3>2
  <2>5. Cardinality((claims \cap Winning)') = 0
    BY <2>1, FS_EmptySet
  <2>6. winning_amount(outcome)' = W
    BY <1>1 DEF winning_amount, W
  <2>7. net_pool' * W = W * net_pool' /\ net_pool' * W \in Nat /\ 0 * (W - 1) = 0
    <3>1. net_pool' \in Nat
      BY <1>9 DEF TypeOK
    <3>2. \A a \in Nat, b \in Nat : a * b = b * a /\ a * b \in Nat /\ 0 * (b - 1) = 0
      BY Z3
    <3>3. QED
      BY <1>2, <3>1, <3>2, Zenon
  <2>8. QED
    BY <2>3, <2>4, <2>5, <2>6, <2>7 DEF ResolvedVault
<1>14. QED
  BY <1>9, <1>10, <1>11, <1>12, <1>13 DEF IInv

\* What the invariant says of one unclaimed position of a resolved market.
LEMMA OpenPosition ==
  ASSUME IInv, phase = "Resolved", NEW o \in placed \ claims
  PROVE  /\ Amount[o] \in 1..Stake /\ Winnings(o) \in Nat /\ Payout(o) \in Nat
         /\ Payout(o) = (Stake - Amount[o]) + Winnings(o)
         /\ winning_amount(outcome) \in Nat /\ winning_amount(outcome) > 0
         /\ net_pool \in Nat /\ vault \in Nat /\ donated \in Nat /\ Stake \in Nat
         /\ OpenUnused \in Nat /\ OpenWager \in Nat /\ PoolLeft \in Int
         /\ OpenUnused - (Stake - Amount[o]) \in Nat
         /\ Total(Unused, OpenOrders \ {o}, Stake) = OpenUnused - (Stake - Amount[o])
         /\ Side[o] = outcome =>
              /\ OpenWager - Amount[o] \in Nat
              /\ Total(Amount, (OpenOrders \ {o}) \cap Winning, Stake) = OpenWager - Amount[o]
              /\ Winnings(o) * winning_amount(outcome) <= Amount[o] * net_pool
              /\ Amount[o] * net_pool
                   < Winnings(o) * winning_amount(outcome) + winning_amount(outcome)
         /\ Side[o] # outcome =>
              /\ Winnings(o) = 0
              /\ (OpenOrders \ {o}) \cap Winning = OpenOrders \cap Winning
         /\ PoolLeft * winning_amount(outcome) >= OpenWager * net_pool
         /\ PoolLeft * winning_amount(outcome) <= OpenWager * net_pool
              + Cardinality(claims \cap Winning) * (winning_amount(outcome) - 1)
<1> DEFINE W == winning_amount(outcome)
<1>1. TypeOK /\ Counting /\ PhaseFacts /\ ResolvedVault
  BY DEF IInv
<1>2. /\ Stake \in Nat /\ o \in Orders /\ Amount[o] \in 1..Stake
      /\ Unused[o] = Stake - Amount[o] /\ Unused[o] \in 0..Stake
  BY <1>1, AmountsAssumption, OrdersAssumption DEF TypeOK, Counting, place_circuit, Unused
<1>3. W \in Nat /\ W > 0 /\ net_pool \in Nat /\ vault \in Nat /\ donated \in Nat
  BY <1>1 DEF TypeOK, PhaseFacts, winning_amount
<1>4. IsFiniteSet(OpenOrders) /\ IsFiniteSet(OpenOrders \cap Winning) /\ o \in OpenOrders
  BY <1>1, FiniteOrders DEF TypeOK, OpenOrders
<1>5. OpenUnused \in Nat /\ OpenWager \in Nat
  BY <1>2, <1>4, UnitsFinite DEF OpenUnused, OpenWager
<1>6. PoolLeft \in Int
  BY <1>3, <1>5 DEF PoolLeft
<1>7. /\ Total(Unused, OpenOrders \ {o}, Stake) = OpenUnused - (Stake - Amount[o])
      /\ OpenUnused - (Stake - Amount[o]) \in Nat
  <2>1. /\ Total(Unused, OpenOrders \ {o}, Stake) = Total(Unused, OpenOrders, Stake) - Unused[o]
        /\ Total(Unused, OpenOrders \ {o}, Stake) \in Nat
    BY <1>2, <1>4, TotalRemove
  <2>2. QED
    BY <1>2, <2>1 DEF OpenUnused
<1>8. ASSUME Side[o] = outcome
      PROVE  /\ OpenWager - Amount[o] \in Nat
             /\ Total(Amount, (OpenOrders \ {o}) \cap Winning, Stake) = OpenWager - Amount[o]
             /\ Winnings(o) \in Nat
             /\ Winnings(o) * W <= Amount[o] * net_pool
             /\ Amount[o] * net_pool < Winnings(o) * W + W
  <2>1. o \in OpenOrders \cap Winning
    BY <1>8 DEF OpenOrders, Winning
  <2>2. (OpenOrders \ {o}) \cap Winning = (OpenOrders \cap Winning) \ {o}
    OBVIOUS
  <2>3. Amount[o] \in 0..Stake
    BY <1>2
  <2>4. /\ Total(Amount, (OpenOrders \cap Winning) \ {o}, Stake)
             = Total(Amount, OpenOrders \cap Winning, Stake) - Amount[o]
        /\ Total(Amount, (OpenOrders \cap Winning) \ {o}, Stake) \in Nat
    BY <1>2, <1>4, <2>1, <2>3, TotalRemove
  <2>5. Amount[o] * net_pool \in Nat
    BY <1>2, <1>3
  <2>6. Winnings(o) = (Amount[o] * net_pool) \div W
    BY <1>8 DEF Winnings
  <2>7. /\ Winnings(o) \in Nat
        /\ Winnings(o) * W <= Amount[o] * net_pool
        /\ Amount[o] * net_pool < Winnings(o) * W + W
    BY <1>3, <2>5, <2>6, DivFacts
  <2>8. Total(Amount, (OpenOrders \ {o}) \cap Winning, Stake) = OpenWager - Amount[o]
        /\ OpenWager - Amount[o] \in Nat
    BY <2>2, <2>4, Zenon DEF OpenWager
  <2>9. QED
    BY <2>7, <2>8
<1>9. ASSUME Side[o] # outcome
      PROVE  /\ Winnings(o) = 0
             /\ (OpenOrders \ {o}) \cap Winning = OpenOrders \cap Winning
  BY <1>9 DEF Winnings, Winning
<1>10. Winnings(o) \in Nat
  BY <1>8, <1>9
<1>11. Payout(o) \in Nat /\ Payout(o) = (Stake - Amount[o]) + Winnings(o)
  BY <1>2, <1>10 DEF Payout
<1>12. /\ PoolLeft * W >= OpenWager * net_pool
       /\ PoolLeft * W <= OpenWager * net_pool + Cardinality(claims \cap Winning) * (W - 1)
  BY <1>1 DEF ResolvedVault
<1>13. QED
  BY <1>2, <1>3, <1>5, <1>6, <1>7, <1>8, <1>9, <1>10, <1>11, <1>12

\* redeem keeps the invariant: rounding down never takes from the others, and the
\* last claim's dust is within its cap.
LEMMA RedeemInv == ASSUME NEW o \in Orders, IInv, Redeem(o) PROVE IInv'
<1> DEFINE W == winning_amount(outcome)
           k == Cardinality(claims \cap Winning)
           dust == vault - Payout(o)
           cap == IF winning_count > 0 THEN winning_count - 1 ELSE 0
<1> USE DEF verifierVars, orderVars, batchVars, settleVars, refundVars
<1>1. /\ TypeOK /\ Counting /\ AggregateFacts /\ PhaseFacts /\ ResolvedVault
      /\ phase = "Resolved" /\ o \in placed /\ o \notin claims
      /\ vault >= Payout(o)
      /\ claims' = claims \cup {o} /\ claimed_count' = claimed_count + 1
      /\ phase' = IF final_claim THEN "Closed" ELSE "Resolved"
      /\ vault' = vault - redeem_amount(Payout(o))
      /\ paid' = [paid EXCEPT ![o] = @ + redeem_amount(Payout(o))]
      /\ UNCHANGED <<now, verifierVars, orderVars, batchVars, settleVars, refundVars, donated>>
  BY DEF IInv, Redeem, unclaimed, final_claim
<1>2. o \in placed \ claims
  BY <1>1
<1>3. /\ Amount[o] \in 1..Stake /\ Winnings(o) \in Nat /\ Payout(o) \in Nat
      /\ Payout(o) = (Stake - Amount[o]) + Winnings(o)
      /\ W \in Nat /\ W > 0 /\ net_pool \in Nat /\ vault \in Nat /\ donated \in Nat
      /\ Stake \in Nat /\ OpenUnused \in Nat /\ OpenWager \in Nat /\ PoolLeft \in Int
  BY <1>1, <1>2, OpenPosition
<1>4. k \in Nat /\ dust \in Nat /\ cap \in Nat /\ winning_count \in Nat
      /\ IsFiniteSet(claims \cap Winning) /\ IsFiniteSet(placed) /\ IsFiniteSet(claims)
      /\ IsFiniteSet(Winning)
  <2>1. winning_count \in Nat
    BY <1>1 DEF winning_count, TypeOK
  <2>2. claims \cap Winning \in SUBSET Orders /\ placed \in SUBSET Orders
        /\ claims \in SUBSET Orders /\ Winning \in SUBSET Orders
    BY <1>1 DEF TypeOK, Winning
  <2>3. QED
    BY <1>1, <1>3, <2>1, <2>2, FiniteOrders
<1>5. redeem_amount(Payout(o)) = IF final_claim THEN Payout(o) + (IF dust <= cap THEN dust ELSE cap)
                                 ELSE Payout(o)
  BY DEF redeem_amount, rounding_dust
<1> HIDE DEF W, k, dust, cap
<1>6. redeem_amount(Payout(o)) \in Nat /\ vault' \in Nat
  BY <1>1, <1>3, <1>4, <1>5 DEF dust
<1>7. TypeOK'
  <2>1. claims' \in SUBSET Orders /\ claimed_count' \in Nat
    BY <1>1 DEF TypeOK
  <2>2. paid' \in [Orders -> Nat]
    BY <1>1, <1>6 DEF TypeOK
  <2>3. QED
    BY <1>1, <1>6, <2>1, <2>2 DEF TypeOK, Phases
<1>8. Counting'
  <2>1. Cardinality(claims') = claimed_count + 1
    BY <1>1, <1>4, FS_AddElement DEF Counting
  <2>2. QED
    BY <1>1, <2>1 DEF Counting, place_circuit
<1>9. AggregateFacts'
  BY <1>1 DEF AggregateFacts, finalizeCommitteeAggregates, WagerOn, OrdersOn, Unused
<1>10. PhaseFacts'
  BY <1>1 DEF PhaseFacts, WagerOn, OrdersOn, winning_amount
<1>11. EscrowIntact'
  BY <1>1 DEF EscrowIntact
<1>12. CASE ~final_claim
  <2>1. PoolLeft' = PoolLeft - Winnings(o)
    <3>1. OpenOrders' = OpenOrders \ {o}
      BY <1>1 DEF OpenOrders
    <3>2. OpenUnused' = OpenUnused - (Stake - Amount[o])
      BY <1>1, <1>2, <3>1, OpenPosition DEF OpenUnused, Unused
    <3>3. vault' = vault - ((Stake - Amount[o]) + Winnings(o)) /\ donated' = donated
      BY <1>1, <1>3, <1>5, <1>12
    <3>4. QED
      BY <1>3, <3>2, <3>3 DEF PoolLeft
  <2>2. winning_amount(outcome)' = W /\ net_pool' = net_pool
    BY <1>1 DEF winning_amount, W
  <2>3. CASE Side[o] = outcome
    <3>1. OpenWager' = OpenWager - Amount[o]
      <4>1. OpenOrders' = OpenOrders \ {o} /\ Winning' = Winning
        BY <1>1 DEF OpenOrders, Winning
      <4>2. QED
        BY <1>1, <1>2, <2>3, <4>1, OpenPosition DEF OpenWager
    <3>2. Cardinality((claims \cap Winning)') = k + 1
      <4>1. (claims \cap Winning)' = (claims \cap Winning) \cup {o} /\ o \notin claims \cap Winning
        BY <1>1, <2>3 DEF Winning
      <4>2. QED
        BY <1>4, <4>1, FS_AddElement DEF k
    <3>3. /\ Winnings(o) * W <= Amount[o] * net_pool
          /\ Amount[o] * net_pool < Winnings(o) * W + W
          /\ PoolLeft * W >= OpenWager * net_pool
          /\ PoolLeft * W <= OpenWager * net_pool + k * (W - 1)
      BY <1>1, <1>2, <2>3, OpenPosition DEF W, k
    <3>4. (PoolLeft - Winnings(o)) * W >= (OpenWager - Amount[o]) * net_pool
      BY <1>3, <3>3, RedeemLower
    <3>5. (PoolLeft - Winnings(o)) * W <= (OpenWager - Amount[o]) * net_pool + (k + 1) * (W - 1)
      BY <1>3, <1>4, <3>3, RedeemUpper
    <3>6. ResolvedVault'
      BY <2>1, <2>2, <3>1, <3>2, <3>4, <3>5 DEF ResolvedVault
    <3>7. QED
      BY <1>1, <1>7, <1>8, <1>9, <1>10, <1>11, <1>12, <3>6 DEF IInv, EscrowPaidOut
  <2>4. CASE Side[o] # outcome
    <3>1. OpenWager' = OpenWager
      <4>1. OpenOrders' = OpenOrders \ {o} /\ Winning' = Winning
        BY <1>1 DEF OpenOrders, Winning
      <4>2. (OpenOrders \ {o}) \cap Winning = OpenOrders \cap Winning
        BY <1>1, <1>2, <2>4, OpenPosition
      <4>3. QED
        BY <4>1, <4>2 DEF OpenWager
    <3>2. Cardinality((claims \cap Winning)') = k
      <4>1. (claims \cap Winning)' = claims \cap Winning
        BY <1>1, <2>4 DEF Winning
      <4>2. QED
        BY <4>1 DEF k
    <3>3. /\ Winnings(o) = 0
          /\ PoolLeft * W >= OpenWager * net_pool
          /\ PoolLeft * W <= OpenWager * net_pool + k * (W - 1)
      BY <1>1, <1>2, <2>4, OpenPosition DEF W, k
    <3>4. PoolLeft' = PoolLeft
      BY <1>3, <2>1, <3>3
    <3>5. ResolvedVault'
      BY <2>2, <3>1, <3>2, <3>3, <3>4 DEF ResolvedVault
    <3>6. QED
      BY <1>1, <1>7, <1>8, <1>9, <1>10, <1>11, <1>12, <3>5 DEF IInv, EscrowPaidOut
  <2>5. QED
    BY <2>3, <2>4
<1>13. CASE final_claim
  <2>1. claims = placed \ {o} /\ OpenOrders = {o}
    <3>1. Cardinality(claims \cup {o}) = Cardinality(placed)
      BY <1>1, <1>4, <1>13, FS_AddElement DEF final_claim, Counting
    <3>2. claims \cup {o} \in SUBSET placed
      BY <1>1 DEF Counting
    <3>3. claims \cup {o} = placed
      BY <1>4, <3>1, <3>2, FS_Subset
    <3>4. QED
      BY <1>1, <3>3 DEF OpenOrders
  <2>2. OpenUnused = Stake - Amount[o]
    <3>1. OpenOrders \ {o} = {}
      BY <2>1
    <3>2. Total(Unused, {}, Stake) = 0
      BY <1>3, TotalEmpty
    <3>3. Total(Unused, OpenOrders \ {o}, Stake) = OpenUnused - (Stake - Amount[o])
      BY <1>1, <1>2, OpenPosition
    <3>4. 0 = OpenUnused - (Stake - Amount[o])
      BY <3>1, <3>2, <3>3, Zenon
    <3>5. QED
      BY <1>3, <3>4
  <2>3. winning_count = Cardinality(Winning)
    BY <1>1 DEF PhaseFacts, winning_count, Winning, OrdersOn, YES, NO
  <2>4. PoolLeft - Winnings(o) <= cap
    <3>1. CASE Side[o] = outcome
      <4>1. o \in Winning /\ claims \cap Winning = Winning \ {o}
        BY <1>1, <2>1, <3>1 DEF Winning
      <4>2. k = winning_count - 1
        BY <1>4, <2>3, <4>1, FS_RemoveElement DEF k
      <4>3. OpenWager = Amount[o]
        <5>1. (OpenOrders \ {o}) \cap Winning = {}
          BY <2>1
        <5>2. Total(Amount, {}, Stake) = 0
          BY <1>3, TotalEmpty
        <5>3. Total(Amount, (OpenOrders \ {o}) \cap Winning, Stake) = OpenWager - Amount[o]
          BY <1>1, <1>2, <3>1, OpenPosition
        <5>4. 0 = OpenWager - Amount[o]
          BY <5>1, <5>2, <5>3, Zenon
        <5>5. QED
          BY <1>3, <5>4
      <4>4. /\ Amount[o] * net_pool < Winnings(o) * W + W
            /\ PoolLeft * W <= Amount[o] * net_pool + k * (W - 1)
        BY <1>1, <1>2, <3>1, <4>3, OpenPosition DEF W, k
      <4>5. Amount[o] * net_pool \in Nat
        BY <1>3
      <4>6. PoolLeft - Winnings(o) <= k
        BY <1>3, <1>4, <4>4, <4>5, DustWinner
      <4>7. QED
        BY <1>3, <1>4, <4>2, <4>6 DEF cap
    <3>2. CASE Side[o] # outcome
      <4>1. claims \cap Winning = Winning /\ OpenOrders \cap Winning = {}
        BY <1>1, <2>1, <3>2 DEF Winning
      <4>2. k = winning_count
        BY <2>3, <4>1 DEF k
      <4>3. OpenWager = 0
        BY <1>3, <4>1, TotalEmpty DEF OpenWager
      <4>4. Winnings(o) = 0 /\ PoolLeft * W <= 0 * net_pool + k * (W - 1)
        BY <1>1, <1>2, <3>2, <4>3, OpenPosition DEF W, k
      <4>5. PoolLeft * W <= k * (W - 1)
        BY <1>3, <1>4, <4>4
      <4>6. PoolLeft <= IF k > 0 THEN k - 1 ELSE 0
        BY <1>3, <1>4, <4>5, DustLoser
      <4>7. QED
        BY <1>3, <1>4, <4>2, <4>4, <4>6 DEF cap
    <3>3. QED
      BY <3>1, <3>2
  <2>5. vault' = vault - (Payout(o) + (IF dust <= cap THEN dust ELSE cap))
    BY <1>1, <1>5, <1>13
  <2>6. PoolLeft = vault - donated - (Stake - Amount[o])
    BY <2>2 DEF PoolLeft
  <2>7. vault' <= donated'
    BY <1>1, <1>3, <1>4, <2>4, <2>5, <2>6 DEF dust
  <2>8. QED
    BY <1>1, <1>7, <1>8, <1>9, <1>10, <1>11, <1>13, <2>7 DEF IInv, EscrowPaidOut, ResolvedVault
<1>14. QED
  BY <1>12, <1>13

----------------------------------------------------------------------------
(* The theorems.                                                           *)

\* Every step keeps the inductive invariant.
LEMMA NextInv == IInv /\ [Next]_vars => IInv'
<1>1. SUFFICES ASSUME IInv, [Next]_vars PROVE IInv'
  OBVIOUS
<1>2. CASE Tick
  <2>1. TypeOK'
    BY <1>1, <1>2, TimesAssumption DEF IInv, TypeOK, Tick, verifierVars, orderVars, batchVars,
       settleVars, refundVars, claimVars, moneyVars
  <2>2. QED
    BY <1>1, <1>2, <2>1, FrameInv DEF Tick, orderVars
<1>3. CASE RotateVerifiers
  <2>1. TypeOK'
    BY <1>1, <1>3 DEF IInv, TypeOK, RotateVerifiers, orderVars, batchVars, settleVars,
       refundVars, claimVars, moneyVars
  <2>2. QED
    BY <1>1, <1>3, <2>1, FrameInv DEF RotateVerifiers, orderVars
<1>4. CASE SyncMarketVerifiers
  <2>1. TypeOK'
    BY <1>1, <1>4 DEF IInv, TypeOK, SyncMarketVerifiers, orderVars, batchVars, settleVars,
       refundVars, claimVars, moneyVars
  <2>2. QED
    BY <1>1, <1>4, <2>1, FrameInv DEF SyncMarketVerifiers, orderVars
<1>5. CASE UNCHANGED vars
  <2>1. TypeOK'
    BY <1>1, <1>5 DEF IInv, TypeOK, vars, verifierVars, orderVars, batchVars, settleVars,
       refundVars, claimVars, moneyVars
  <2>2. QED
    BY <1>1, <1>5, <2>1, FrameInv DEF vars, orderVars
<1>6. CASE Donate
  BY <1>1, <1>6, DonateInv
<1>7. CASE InitializeMarket
  BY <1>1, <1>7, InitializeMarketInv
<1>8. CASE SubmitBatch
  BY <1>1, <1>8, SubmitBatchInv
<1>9. CASE BeginRefund
  BY <1>1, <1>9, BeginRefundInv
<1>10. CASE \E side \in {YES, NO} : ResolveMarket(side)
  BY <1>1, <1>10, ResolveMarketInv
<1>11. CASE \E o \in Orders : PlaceOrder(o) \/ RefundOrder(o) \/ Redeem(o)
  BY <1>1, <1>11, PlaceOrderInv, RefundOrderInv, RedeemInv
<1>12. QED
  BY <1>1, <1>2, <1>3, <1>4, <1>5, <1>6, <1>7, <1>8, <1>9, <1>10, <1>11 DEF Next

\* The inductive invariant of the private market holds in every behaviour of
\* every instance: the fact the theorems about the escrow rest on.
THEOREM Invariance == Spec => []IInv
  BY InitInv, NextInv, PTL DEF Spec

\* Types: no amount and no counter of the program ever underflows.
THEOREM TypeCorrect == Spec => []TypeOK
<1>1. IInv => TypeOK
  BY DEF IInv
<1>2. QED
  BY <1>1, Invariance, PTL

\* refund_order can always pay: before resolution the vault holds the stakes.
THEOREM EscrowIntactAlways == Spec => []EscrowIntact
<1>1. IInv => EscrowIntact
  BY DEF IInv
<1>2. QED
  BY <1>1, Invariance, PTL

\* redeem never fails with InsufficientVaultBalance on an unclaimed position.
THEOREM RedeemAlwaysCovered == Spec => []RedeemNeverShort
<1>1. IInv => RedeemNeverShort
  <2>1. SUFFICES ASSUME IInv, phase = "Resolved", NEW o \in placed \ claims
                 PROVE  vault >= Payout(o)
    BY DEF RedeemNeverShort
  <2> DEFINE W == winning_amount(outcome)
  <2>2. /\ Amount[o] \in 1..Stake /\ Winnings(o) \in Nat
        /\ Payout(o) = (Stake - Amount[o]) + Winnings(o)
        /\ W \in Nat /\ W > 0 /\ net_pool \in Nat /\ vault \in Nat /\ donated \in Nat
        /\ Stake \in Nat /\ OpenUnused \in Nat /\ OpenWager \in Nat /\ PoolLeft \in Int
        /\ OpenUnused - (Stake - Amount[o]) \in Nat
        /\ PoolLeft * W >= OpenWager * net_pool
    BY <2>1, OpenPosition
  <2>3. Winnings(o) * W <= OpenWager * net_pool
    <3>1. CASE Side[o] = outcome
      <4>1. Winnings(o) * W <= Amount[o] * net_pool /\ OpenWager - Amount[o] \in Nat
        BY <2>1, <3>1, OpenPosition
      <4>2. Amount[o] \in Nat /\ Amount[o] <= OpenWager
        BY <2>2, <4>1
      <4>3. Amount[o] * net_pool <= OpenWager * net_pool
        BY <2>2, <4>2, MulFacts
      <4>4. QED
        BY <2>2, <4>1, <4>2, <4>3
    <3>2. CASE Side[o] # outcome
      <4>1. Winnings(o) = 0
        BY <2>1, <3>2, OpenPosition
      <4>2. 0 * W = 0 /\ OpenWager * net_pool \in Nat
        BY <2>2
      <4>3. QED
        BY <4>1, <4>2
    <3>3. QED
      BY <3>1, <3>2
  <2> HIDE DEF W
  <2>4. PoolLeft * W >= Winnings(o) * W
    BY <2>2, <2>3
  <2>5. PoolLeft >= Winnings(o)
    BY <2>2, <2>4, PoolCovers
  <2>6. PoolLeft = vault - donated - OpenUnused
    BY DEF PoolLeft
  <2>7. QED
    BY <2>2, <2>5, <2>6
<1>2. QED
  BY <1>1, Invariance, PTL

\* A closed market keeps nothing but donations: the last claim's dust cap is
\* exactly large enough for everything that rounding withheld.
THEOREM ClosedPaidOut == Spec => []EscrowPaidOut
<1>1. IInv => EscrowPaidOut
  BY DEF IInv
<1>2. QED
  BY <1>1, Invariance, PTL

\* submit_batch never rejects the amounts of an honest committee.
THEOREM HonestBatchAlwaysAccepted == Spec => []HonestBatchAccepted
<1>1. IInv => HonestBatchAccepted
  BY DEF IInv, AggregateFacts, HonestBatchAccepted
<1>2. QED
  BY <1>1, Invariance, PTL

----------------------------------------------------------------------------
(* Who was paid what.                                                      *)

\* Nobody has been paid before initialize_market.
LEMMA InitPay == Init => PayInv
  BY DEF Init, PayInv, PaidFacts, RefundsFeeFree, PaidAsProved, VerifiersBinding

\* A step that changes no payment, claim, order or settlement field.
LEMMA FramePay ==
  ASSUME PayInv, VerifiersBinding',
         UNCHANGED <<phase, placed, order_count, batchVars, settleVars, refundVars, claimVars, paid>>
  PROVE  PayInv'
<1> USE DEF batchVars, settleVars, refundVars, claimVars
<1>1. \A o : Payout(o)' = Payout(o)
  BY DEF Payout, Winnings, winning_amount
<1>2. winning_count' = winning_count
  BY DEF winning_count
<1>3. PaidFacts'
  BY <1>1 DEF PayInv, PaidFacts
<1>4. RefundsFeeFree'
  BY DEF PayInv, RefundsFeeFree
<1>5. PaidAsProved'
  BY <1>1, <1>2 DEF PayInv, PaidAsProved
<1>6. QED
  BY <1>3, <1>4, <1>5 DEF PayInv

\* While no order is claimed the settlement fields are free to change.
LEMMA UnclaimedPay ==
  ASSUME PayInv, claims = {}, refunded = {}, VerifiersBinding',
         UNCHANGED <<refundVars, claimVars, paid>>
  PROVE  PayInv'
  BY DEF PayInv, PaidFacts, RefundsFeeFree, PaidAsProved, refundVars, claimVars

\* refund_order pays one unpaid order its whole stake.
LEMMA RefundPay == ASSUME NEW o \in Orders, IInv, PayInv, RefundOrder(o) PROVE PayInv'
<1>1. /\ claims = {} /\ claims' = {} /\ treasury_fee' = 0 /\ keeper_reward' = 0
      /\ o \notin refunded /\ refunded' = refunded \cup {o} /\ phase' # "Resolved"
      /\ paid' = [paid EXCEPT ![o] = @ + Stake] /\ paid \in [Orders -> Nat]
      /\ refunded \in SUBSET Orders
      /\ UNCHANGED <<placed, placed_under, market_verifiers>>
  BY DEF IInv, TypeOK, PhaseFacts, RefundOrder, refundable, settleVars, claimVars, orderVars,
     verifierVars
<1>2. paid[o] = 0 /\ Stake \in Nat /\ \A p \in refunded : paid[p] = Stake
  BY <1>1, AmountsAssumption DEF PayInv, PaidFacts, RefundsFeeFree
<1>3. PaidFacts'
  BY <1>1, <1>2 DEF PayInv, PaidFacts
<1>4. RefundsFeeFree'
  BY <1>1, <1>2 DEF RefundsFeeFree
<1>5. PaidAsProved' /\ VerifiersBinding'
  BY <1>1 DEF PayInv, PaidAsProved, VerifiersBinding
<1>6. QED
  BY <1>3, <1>4, <1>5 DEF PayInv

\* redeem pays one unclaimed order what its proof shows.
LEMMA RedeemPay == ASSUME NEW o \in Orders, IInv, PayInv, Redeem(o) PROVE PayInv'
<1> DEFINE extra == IF final_claim THEN rounding_dust(Payout(o)) ELSE 0
<1>1. /\ refunded = {} /\ refunded' = {} /\ o \in placed /\ o \notin claims
      /\ claims' = claims \cup {o} /\ claims \in SUBSET Orders
      /\ phase = "Resolved" /\ phase' = IF final_claim THEN "Closed" ELSE "Resolved"
      /\ vault >= Payout(o)
      /\ paid' = [paid EXCEPT ![o] = @ + redeem_amount(Payout(o))] /\ paid \in [Orders -> Nat]
      /\ UNCHANGED <<placed, placed_under, market_verifiers, batchVars, settleVars>>
  BY DEF IInv, TypeOK, PhaseFacts, Redeem, unclaimed, final_claim, refundVars, orderVars,
     verifierVars
<1>2. Payout(o) \in Nat /\ vault \in Nat /\ winning_count \in Nat
  <2>1. Payout(o) \in Nat /\ vault \in Nat
    BY <1>1, OpenPosition
  <2>2. QED
    BY <2>1 DEF IInv, TypeOK, winning_count
<1>3. /\ extra \in Nat
      /\ extra > 0 => final_claim /\ extra <= winning_count - 1
      /\ redeem_amount(Payout(o)) = Payout(o) + extra
  BY <1>1, <1>2 DEF rounding_dust, redeem_amount
<1> HIDE DEF extra
<1>4. (\A c : Payout(c)' = Payout(c)) /\ winning_count' = winning_count
  BY <1>1 DEF Payout, Winnings, winning_amount, winning_count, batchVars, settleVars
<1>5. paid[o] = 0 /\ (\A c \in claims : paid[c] = Payout(c))
  BY <1>1 DEF PayInv, PaidFacts
<1>6. paid'[o] = Payout(o) + extra /\ \A c \in Orders \ {o} : paid'[c] = paid[c]
  BY <1>1, <1>2, <1>3, <1>5
<1>7. PaidFacts'
  <2>1. phase' = "Resolved" => extra = 0
    BY <1>1, <1>3
  <2>2. QED
    BY <1>1, <1>2, <1>3, <1>4, <1>5, <1>6, <2>1 DEF PayInv, PaidFacts
<1>8. RefundsFeeFree' /\ VerifiersBinding'
  BY <1>1 DEF PayInv, RefundsFeeFree, VerifiersBinding
<1>9. PaidAsProved'
  <2>1. \A c \in claims : paid'[c] = Payout(c)
    BY <1>1, <1>5, <1>6
  <2>2. paid'[o] >= Payout(o) /\ (paid'[o] # Payout(o) =>
           phase' = "Closed" /\ paid'[o] <= Payout(o) + winning_count - 1)
    BY <1>1, <1>2, <1>3, <1>6
  <2>3. \A c \in claims : Payout(c) \in Nat
    BY <1>5, <1>1
  <2>4. QED
    BY <1>1, <1>4, <2>1, <2>2, <2>3 DEF PaidAsProved
<1>10. QED
  BY <1>7, <1>8, <1>9 DEF PayInv

\* Every step keeps the invariant about payments.
LEMMA NextPay == IInv /\ PayInv /\ [Next]_vars => PayInv'
<1>1. SUFFICES ASSUME IInv, PayInv, [Next]_vars PROVE PayInv'
  OBVIOUS
<1> USE DEF verifierVars, orderVars, batchVars, settleVars, refundVars, claimVars, moneyVars
<1>2. CASE Tick \/ Donate \/ RotateVerifiers \/ UNCHANGED vars
  <2>1. VerifiersBinding'
    BY <1>1, <1>2 DEF PayInv, VerifiersBinding, Tick, Donate, RotateVerifiers, vars
  <2>2. UNCHANGED <<phase, placed, order_count, batchVars, settleVars, refundVars, claimVars, paid>>
    BY <1>2 DEF Tick, Donate, RotateVerifiers, vars
  <2>3. QED
    BY <1>1, <2>1, <2>2, FramePay
<1>3. CASE SyncMarketVerifiers
  <2>1. placed = {}
    BY <1>1, <1>3, FS_EmptySet, FiniteOrders
       DEF IInv, Counting, TypeOK, SyncMarketVerifiers, market_verifiers_can_sync
  <2>2. VerifiersBinding'
    BY <1>3, <2>1 DEF VerifiersBinding, SyncMarketVerifiers
  <2>3. QED
    BY <1>1, <1>3, <2>2, FramePay DEF SyncMarketVerifiers
<1>4. CASE InitializeMarket
  <2>1. placed = {} /\ claims = {} /\ refunded = {}
    BY <1>1, <1>4 DEF IInv, PhaseFacts, InitializeMarket
  <2>2. VerifiersBinding'
    BY <1>4, <2>1 DEF VerifiersBinding, InitializeMarket
  <2>3. QED
    BY <1>1, <1>4, <2>1, <2>2, UnclaimedPay DEF InitializeMarket
<1>5. CASE SubmitBatch \/ \E side \in {YES, NO} : ResolveMarket(side)
  <2>1. claims = {} /\ refunded = {}
    BY <1>1, <1>5 DEF IInv, PhaseFacts, SubmitBatch, ResolveMarket
  <2>2. VerifiersBinding'
    BY <1>1, <1>5 DEF PayInv, VerifiersBinding, SubmitBatch, ResolveMarket
  <2>3. UNCHANGED <<refundVars, claimVars, paid>>
    BY <1>5 DEF SubmitBatch, ResolveMarket
  <2>4. QED
    BY <1>1, <2>1, <2>2, <2>3, UnclaimedPay
<1>6. CASE BeginRefund
  <2>1. claims = {} /\ refunded = {}
    BY <1>1, <1>6 DEF IInv, PhaseFacts, BeginRefund, timed_out
  <2>2. VerifiersBinding'
    BY <1>1, <1>6 DEF PayInv, VerifiersBinding, BeginRefund
  <2>3. QED
    BY <1>1, <1>6, <2>1, <2>2, UnclaimedPay DEF BeginRefund
<1>7. CASE \E o \in Orders : PlaceOrder(o)
  <2>1. PICK o \in Orders : PlaceOrder(o)
    BY <1>7
  <2>2. claims = {} /\ refunded = {}
    BY <1>1, <2>1 DEF IInv, PhaseFacts, PlaceOrder
  <2>3. VerifiersBinding'
    BY <1>1, <2>1 DEF IInv, TypeOK, PayInv, VerifiersBinding, PlaceOrder
  <2>4. QED
    BY <1>1, <2>1, <2>2, <2>3, UnclaimedPay DEF PlaceOrder
<1>8. CASE \E o \in Orders : RefundOrder(o) \/ Redeem(o)
  BY <1>1, <1>8, RefundPay, RedeemPay
<1>9. QED
  BY <1>1, <1>2, <1>3, <1>4, <1>5, <1>6, <1>7, <1>8 DEF Next

\* The invariant about payments, on top of the one about the escrow, holds in
\* every behaviour: what was paid, to whom and under which verifiers.
THEOREM PayInvariance == Spec => [](IInv /\ PayInv)
<1>1. IInv /\ PayInv /\ [Next]_vars => (IInv /\ PayInv)'
  BY NextInv, NextPay
<1>2. Init => IInv /\ PayInv
  BY InitInv, InitPay
<1>3. QED
  BY <1>1, <1>2, PTL DEF Spec

\* Claims pay what they prove; only the closing one gets the bounded dust.
THEOREM ClaimsPaidAsProved == Spec => []PaidAsProved
<1>1. PayInv => PaidAsProved
  BY DEF PayInv
<1>2. QED
  BY <1>1, PayInvariance, PTL

\* Refunded markets take no fee and pay every refund in full.
THEOREM RefundsAlwaysFeeFree == Spec => []RefundsFeeFree
<1>1. PayInv => RefundsFeeFree
  BY DEF PayInv
<1>2. QED
  BY <1>1, PayInvariance, PTL

\* No rotation or sync strands an order placed under other verifiers.
THEOREM VerifiersAlwaysBinding == Spec => []VerifiersBinding
<1>1. PayInv => VerifiersBinding
  BY DEF PayInv
<1>2. QED
  BY <1>1, PayInvariance, PTL

\* No order is ever paid twice.
THEOREM NeverPaidTwice == Spec => PaidOnce
<1>1. IInv /\ PayInv /\ [Next]_vars => [\A o \in Orders : paid[o] > 0 => paid'[o] = paid[o]]_vars
  <2>1. SUFFICES ASSUME IInv, PayInv, Next, NEW o \in Orders, paid[o] > 0
                 PROVE  paid'[o] = paid[o]
    OBVIOUS
  <2> USE DEF verifierVars, orderVars, batchVars, settleVars, refundVars, claimVars, moneyVars
  <2>2. o \in refunded \cup claims
    BY <2>1 DEF PayInv, PaidFacts
  <2>3. CASE \E p \in Orders : RefundOrder(p) \/ Redeem(p)
    <3>1. PICK p \in Orders : RefundOrder(p) \/ Redeem(p)
      BY <2>3
    <3>2. p \notin refunded \cup claims
      BY <2>1, <3>1 DEF IInv, PhaseFacts, RefundOrder, refundable, Redeem, unclaimed
    <3>3. p # o
      BY <2>2, <3>2
    <3>4. QED
      BY <2>1, <3>1, <3>3 DEF IInv, TypeOK, RefundOrder, Redeem
  <2>4. CASE ~ \E p \in Orders : RefundOrder(p) \/ Redeem(p)
    <3>1. paid' = paid
      BY <2>1, <2>4 DEF Next, Tick, Donate, RotateVerifiers, SyncMarketVerifiers,
         InitializeMarket, SubmitBatch, BeginRefund, ResolveMarket, PlaceOrder
    <3>2. QED
      BY <3>1
  <2>5. QED
    BY <2>3, <2>4
<1>2. QED
  BY <1>1, PayInvariance, PTL DEF Spec, PaidOnce

----------------------------------------------------------------------------
(* No unit is created or lost.                                             *)

\* The bound on what can be paid is a natural number, and no market holds more.
LEMMA MostFacts ==
  ASSUME TypeOK, Counting
  PROVE  /\ MostPaid \in Nat /\ Stake \in Nat /\ donated \in Nat /\ order_count \in Nat
         /\ Stake * order_count \in Nat
         /\ Stake * order_count + donated <= MostPaid
         /\ IsFiniteSet(placed)
<1>1. /\ Stake \in Nat /\ MaxDonation \in Nat /\ donated \in Nat /\ donated <= MaxDonation
      /\ order_count \in Nat /\ order_count = Cardinality(placed)
  BY AmountsAssumption DEF TypeOK, Counting
<1>2. IsFiniteSet(Orders) /\ IsFiniteSet(placed) /\ Cardinality(Orders) \in Nat
  BY FiniteOrders, FS_CardinalityType DEF TypeOK
<1>3. order_count <= Cardinality(Orders)
  BY <1>1, <1>2, FS_Subset DEF TypeOK
<1>4. /\ order_count * Stake \in Nat /\ Cardinality(Orders) * Stake \in Nat
      /\ order_count * Stake <= Cardinality(Orders) * Stake
  BY <1>1, <1>2, <1>3, MulFacts
<1>5. /\ order_count * Stake = Stake * order_count
      /\ Cardinality(Orders) * Stake = Stake * Cardinality(Orders)
  BY <1>1, <1>2
<1>6. QED
  BY <1>1, <1>2, <1>4, <1>5 DEF MostPaid

\* Paying an order that has nothing yet moves the amount from the vault to its
\* owner; the vault never holds more than MostPaid.
LEMMA PaymentConserves ==
  ASSUME NEW o \in placed, NEW amount \in Nat, IInv, MoneyInv, paid[o] = 0,
         amount <= vault, vault' = vault - amount, paid' = [paid EXCEPT ![o] = amount],
         UNCHANGED <<placed, order_count, treasury_fee, keeper_reward, donated>>
  PROVE  MoneyInv'
<1>1. /\ TypeOK /\ Counting /\ o \in Orders /\ paid \in [Orders -> Nat]
      /\ vault \in Nat /\ treasury_fee \in Nat /\ keeper_reward \in Nat
  BY DEF IInv, TypeOK
<1>2. /\ MostPaid \in Nat /\ Stake * order_count \in Nat /\ donated \in Nat
      /\ Stake * order_count + donated <= MostPaid /\ IsFiniteSet(placed)
  BY <1>1, MostFacts
<1>3. Total(paid, placed, MostPaid) \in Nat
  BY <1>2, UnitsFinite
<1>4. vault <= MostPaid
  BY <1>1, <1>2, <1>3 DEF MoneyInv, MoneyConserved
<1>5. amount \in 0..MostPaid /\ paid[o] \in 0..MostPaid
  BY <1>2, <1>4, <1>1
<1>6. paid'[o] = amount /\ \A p \in placed \ {o} : paid'[p] = paid[p]
  BY <1>1 DEF TypeOK
<1>7. Total(paid', placed, MostPaid) = Total(paid, placed, MostPaid) - paid[o] + paid'[o]
  <2>1. ASSUME NEW f, NEW g, f[o] \in 0..MostPaid, g[o] \in 0..MostPaid,
               \A p \in placed \ {o} : g[p] = f[p]
        PROVE  Total(g, placed, MostPaid) = Total(f, placed, MostPaid) - f[o] + g[o]
    BY <1>2, <2>1, TotalUpdate
  <2>2. QED
    BY <1>5, <1>6, <2>1
<1>8. MoneyConserved'
  <2>1. Total(paid', placed', MostPaid) = Total(paid, placed, MostPaid) + amount
    BY <1>3, <1>5, <1>6, <1>7
  <2>2. vault + treasury_fee + keeper_reward + Total(paid, placed, MostPaid)
          = Stake * order_count + donated
    BY DEF MoneyInv, MoneyConserved
  <2>3. vault' + treasury_fee' + keeper_reward' + Total(paid', placed', MostPaid)
          = Stake * order_count' + donated'
    BY <1>1, <1>2, <1>3, <2>1, <2>2
  <2>4. QED
    BY <2>3 DEF MoneyConserved, MostPaid
<1>9. \A p \in Orders : paid'[p] <= MostPaid
  BY <1>1, <1>2, <1>5 DEF MoneyInv
<1>10. QED
  BY <1>8, <1>9 DEF MoneyInv, MostPaid

\* Every step conserves the money.
LEMMA NextMoney == IInv /\ PayInv /\ MoneyInv /\ [Next]_vars => MoneyInv'
<1>1. SUFFICES ASSUME IInv, PayInv, MoneyInv, [Next]_vars PROVE MoneyInv'
  OBVIOUS
<1>2. /\ TypeOK /\ Counting /\ PhaseFacts /\ PaidFacts
      /\ MostPaid \in Nat /\ Stake \in Nat /\ donated \in Nat /\ order_count \in Nat
      /\ Stake * order_count \in Nat /\ IsFiniteSet(placed)
  BY <1>1, MostFacts DEF IInv, PayInv
<1>3. /\ vault \in Nat /\ treasury_fee \in Nat /\ keeper_reward \in Nat
      /\ paid \in [Orders -> Nat] /\ Total(paid, placed, MostPaid) \in Nat
  BY <1>2, UnitsFinite DEF TypeOK
<1>4. vault + treasury_fee + keeper_reward + Total(paid, placed, MostPaid)
        = Stake * order_count + donated
  BY <1>1 DEF MoneyInv, MoneyConserved
<1>5. CASE Tick \/ RotateVerifiers \/ SyncMarketVerifiers \/ InitializeMarket
           \/ SubmitBatch \/ BeginRefund \/ UNCHANGED vars
  <2>1. UNCHANGED <<vault, treasury_fee, keeper_reward, paid, placed, order_count, donated>>
    BY <1>5 DEF Tick, RotateVerifiers, SyncMarketVerifiers, InitializeMarket, SubmitBatch,
       BeginRefund, vars, orderVars, settleVars, moneyVars
  <2>2. QED
    BY <1>1, <2>1 DEF MoneyInv, MoneyConserved, MostPaid
<1>6. CASE Donate
  <2>1. /\ vault' = vault + 1 /\ donated' = donated + 1
        /\ UNCHANGED <<treasury_fee, keeper_reward, paid, placed, order_count>>
    BY <1>6 DEF Donate, orderVars, settleVars
  <2>2. MoneyConserved'
    BY <1>2, <1>3, <1>4, <2>1 DEF MoneyConserved, MostPaid
  <2>3. QED
    BY <1>1, <2>1, <2>2 DEF MoneyInv, MostPaid
<1>7. CASE \E side \in {YES, NO} : ResolveMarket(side)
  <2>1. PICK side \in {YES, NO} : ResolveMarket(side)
    BY <1>7
  <2>2. /\ treasury_fee = 0 /\ keeper_reward = 0
        /\ vault' = vault - treasury_fee' - keeper_reward'
        /\ UNCHANGED <<paid, placed, order_count, donated>>
    BY <1>2, <2>1 DEF PhaseFacts, ResolveMarket, orderVars
  <2>3. treasury_fee' \in Nat /\ keeper_reward' \in Nat
    BY <1>1, NextInv DEF IInv, TypeOK
  <2>4. MoneyConserved'
    BY <1>2, <1>3, <1>4, <2>2, <2>3 DEF MoneyConserved, MostPaid
  <2>5. QED
    BY <1>1, <2>2, <2>4 DEF MoneyInv, MostPaid
<1>8. CASE \E o \in Orders : PlaceOrder(o)
  <2>1. PICK o \in Orders : PlaceOrder(o)
    BY <1>8
  <2>2. /\ o \notin placed /\ placed' = placed \cup {o} /\ order_count' = order_count + 1
        /\ vault' = vault + Stake
        /\ UNCHANGED <<treasury_fee, keeper_reward, paid, donated>>
    BY <2>1 DEF PlaceOrder, settleVars
  <2>3. paid[o] = 0
    BY <1>2, <2>2 DEF Counting, PaidFacts
  <2>4. Total(paid, placed \cup {o}, MostPaid) = Total(paid, placed, MostPaid) + paid[o]
    BY <1>2, <2>2, <2>3, TotalAdd
  <2>5. Stake * (order_count + 1) = Stake * order_count + Stake
    BY <1>2
  <2>6. MoneyConserved'
    <3>1. Total(paid', placed', MostPaid) = Total(paid, placed, MostPaid)
      BY <1>3, <2>2, <2>3, <2>4
    <3>2. vault' + treasury_fee' + keeper_reward' + Total(paid', placed', MostPaid)
            = Stake * order_count' + donated'
      BY <1>2, <1>3, <1>4, <2>2, <2>5, <3>1
    <3>3. QED
      BY <3>2 DEF MoneyConserved, MostPaid
  <2>7. QED
    BY <1>1, <2>2, <2>6 DEF MoneyInv, MostPaid
<1>9. CASE \E o \in Orders : RefundOrder(o)
  <2>1. PICK o \in Orders : RefundOrder(o)
    BY <1>9
  <2>2. /\ o \in placed /\ o \notin refunded \cup claims
        /\ Stake <= vault /\ vault' = vault - Stake
        /\ paid' = [paid EXCEPT ![o] = @ + Stake]
        /\ UNCHANGED <<placed, order_count, treasury_fee, keeper_reward, donated>>
    BY <1>2, <1>3, <2>1 DEF RefundOrder, refundable, PhaseFacts, orderVars, settleVars
  <2>3. paid[o] = 0
    BY <1>2, <2>2 DEF PaidFacts
  <2>4. paid' = [paid EXCEPT ![o] = Stake]
    BY <1>2, <1>3, <2>2, <2>3
  <2>5. QED
    BY <1>1, <1>2, <2>2, <2>3, <2>4, PaymentConserves
<1>10. CASE \E o \in Orders : Redeem(o)
  <2>1. PICK o \in Orders : Redeem(o)
    BY <1>10
  <2> DEFINE amount == redeem_amount(Payout(o))
  <2>2. /\ phase = "Resolved" /\ o \in placed /\ o \notin refunded \cup claims
        /\ vault' = vault - amount
        /\ paid' = [paid EXCEPT ![o] = @ + amount]
        /\ UNCHANGED <<placed, order_count, treasury_fee, keeper_reward, donated>>
    BY <1>2, <2>1 DEF Redeem, unclaimed, PhaseFacts, orderVars, settleVars
  <2>3. amount \in 0..vault
    <3>1. o \in placed \ claims
      BY <2>2
    <3>2. Payout(o) \in Nat
      BY <1>1, <2>2, <3>1, OpenPosition
    <3>3. vault >= Payout(o) /\ winning_count \in Nat
      BY <1>2, <2>1 DEF Redeem, TypeOK, winning_count
    <3>4. QED
      BY <1>3, <3>2, <3>3 DEF redeem_amount, rounding_dust
  <2> HIDE DEF amount
  <2>4. paid[o] = 0
    BY <1>2, <2>2 DEF PaidFacts
  <2>5. amount \in Nat /\ amount <= vault
    BY <1>3, <2>3
  <2>6. paid' = [paid EXCEPT ![o] = amount]
    BY <1>3, <2>2, <2>4, <2>5
  <2>7. QED
    BY <1>1, <2>2, <2>4, <2>5, <2>6, PaymentConserves
<1>11. QED
  BY <1>1, <1>5, <1>6, <1>7, <1>8, <1>9, <1>10 DEF Next

\* Whatever is rounded, refunded, claimed or donated, the vault, the two fees and
\* what the owners received always add up to the stakes and the donations.
THEOREM MoneyAlwaysConserved == Spec => []MoneyConserved
<1>1. Init => MoneyInv
  <2>1. SUFFICES ASSUME Init PROVE MoneyInv
    OBVIOUS
  <2>2. MostPaid \in Nat /\ Stake \in Nat
    BY <2>1, InitInv, MostFacts DEF IInv
  <2>3. Total(paid, placed, MostPaid) = 0
    BY <2>1, <2>2, TotalEmpty DEF Init
  <2>4. QED
    BY <2>1, <2>2, <2>3 DEF Init, MoneyInv, MoneyConserved
<1>2. IInv /\ PayInv /\ MoneyInv /\ [Next]_vars => MoneyInv'
  BY NextMoney
<1>3. MoneyInv => MoneyConserved
  BY DEF MoneyInv
<1>4. Spec => [](IInv /\ PayInv)
  BY PayInvariance
<1>5. QED
  BY <1>1, <1>2, <1>3, <1>4, PTL DEF Spec

----------------------------------------------------------------------------
(* The market implements the promise of Escrow.                            *)

\* A market that does not exist is a pool that has not opened.
LEMMA InitPromise == Init => Promise!Init
<1>1. SUFFICES ASSUME Init PROVE Promise!Init
  OBVIOUS
<1>2. stage = "before"
  BY <1>1 DEF Init, stage
<1>3. refunded \cup claims = {} /\ treasury_fee + keeper_reward = 0
  BY <1>1 DEF Init
<1>4. QED
  BY <1>1, <1>2, <1>3 DEF Init, Promise!Init

\* The clock, the verifiers and the committee's batch move no money and settle
\* nobody: an open pool stays open.
LEMMA FramePromise ==
  ASSUME stage' = stage,
         UNCHANGED <<orderVars, settleVars, refundVars, claimVars, moneyVars>>
  PROVE  UNCHANGED Promise!vars
  BY DEF Promise!vars, orderVars, settleVars, refundVars, claimVars, moneyVars

\* Tokens sent by strangers are gifts.
LEMMA DonatePromise == IInv /\ Donate => Promise!Give
<1>1. SUFFICES ASSUME IInv, Donate PROVE Promise!Give
  OBVIOUS
<1>2. stage' = stage /\ stage # "before"
  BY <1>1 DEF IInv, TypeOK, Phases, Donate, stage
<1>3. QED
  BY <1>1, <1>2 DEF Donate, Promise!Give, orderVars, settleVars, refundVars, claimVars

\* place_order is a deposit.
LEMMA PlacePromise == ASSUME NEW o \in Orders, PlaceOrder(o) PROVE Promise!Deposit(o)
<1>1. stage = "open" /\ stage' = stage
  BY DEF PlaceOrder, stage
<1>2. QED
  BY <1>1 DEF PlaceOrder, Promise!Deposit, settleVars, refundVars, claimVars

\* begin_refund gives up, and closes a market nobody staked in.
LEMMA BeginRefundPromise == IInv /\ BeginRefund => Promise!GiveUp
<1>1. SUFFICES ASSUME IInv, BeginRefund PROVE Promise!GiveUp
  OBVIOUS
<1>2. phase \in {"Open", "Batched"} /\ stage = "open"
  BY <1>1 DEF BeginRefund, timed_out, stage
<1>3. order_count = 0 <=> placed = {}
  <2>1. IsFiniteSet(placed) /\ order_count = Cardinality(placed)
    BY <1>1, FiniteOrders DEF IInv, TypeOK, Counting
  <2>2. QED
    BY <2>1, FS_EmptySet
<1>4. stage' = IF placed = {} THEN "closed" ELSE "refunding"
  BY <1>1, <1>3 DEF BeginRefund, stage
<1>5. QED
  BY <1>1, <1>2, <1>4
     DEF BeginRefund, Promise!GiveUp, orderVars, settleVars, refundVars, claimVars, moneyVars

\* resolve_market takes one fee: treasury and keeper together get at most the fee
\* rate of the wagers, which are at most the stakes.
LEMMA ResolvePromise ==
  ASSUME NEW side \in {YES, NO}, IInv, ResolveMarket(side)
  PROVE  \E fee \in 0..vault : Promise!Decide(fee)
<1> DEFINE gross == yes_amount + no_amount
           fee == (gross * FeeBps) \div Denominator
           keeper == (fee * KeeperBps) \div Denominator
<1>1. /\ TypeOK /\ Counting /\ AggregateFacts /\ PhaseFacts
      /\ phase = "Batched" /\ phase' = "Resolved" /\ vault >= Stake * order_count
      /\ keeper_reward' = keeper /\ treasury_fee' = fee - keeper
      /\ vault' = vault - (fee - keeper) - keeper
      /\ UNCHANGED <<orderVars, refundVars, claimVars, paid, donated>>
  BY DEF IInv, ResolveMarket, calculate_settlement
<1>2. /\ Stake \in Nat /\ FeeBps \in Nat /\ Denominator \in Nat /\ Denominator > 0
      /\ gross \in Nat /\ vault \in Nat /\ order_count \in Nat
      /\ IsFiniteSet(placed) /\ order_count = Cardinality(placed)
  BY <1>1, AmountsAssumption, FiniteOrders DEF TypeOK, Counting
<1>3. fee \in 0..gross
  BY <1>2, AmountsAssumption, RateFacts
<1>4. keeper \in 0..fee
  BY <1>2, <1>3, AmountsAssumption, RateFacts
<1>5. gross <= Stake * order_count
  <2>1. Total(Unused, placed, Stake) \in Nat
    BY <1>2, UnitsFinite
  <2>2. gross = WagerOn(YES) + WagerOn(NO)
    BY <1>1 DEF PhaseFacts
  <2>3. Total(Unused, placed, Stake) + WagerOn(YES) + WagerOn(NO) = Stake * order_count
    BY <1>1 DEF AggregateFacts
  <2>4. yes_amount = WagerOn(YES) /\ no_amount = WagerOn(NO) /\ yes_amount \in Nat /\ no_amount \in Nat
    BY <1>1 DEF PhaseFacts, TypeOK
  <2> HIDE DEF gross
  <2>5. Stake * order_count \in Nat
    BY <1>2
  <2>6. QED
    BY <1>2, <2>1, <2>2, <2>3, <2>4, <2>5
<1>6. fee * Denominator <= gross * FeeBps
  <2>1. gross * FeeBps \in Nat
    BY <1>2
  <2>2. QED
    BY <1>2, <2>1, DivFacts
<1> HIDE DEF gross, fee, keeper
<1>7. fee * Denominator <= (vault - donated) * FeeBps
  <2>1. Stake * order_count \in Nat
    BY <1>2
  <2>2. gross * FeeBps <= (Stake * order_count) * FeeBps /\ gross * FeeBps \in Nat
    BY <1>2, <1>5, <2>1, MulFacts
  <2>3. fee * Denominator \in Nat
    BY <1>2, <1>3
  <2>4. (Stake * order_count) * FeeBps \in Nat
    BY <1>2, <2>1
  <2>5. vault - donated = Stake * order_count
    <3>1. refunded = {} /\ refunded_count = 0
      BY <1>1, FS_EmptySet DEF PhaseFacts, Counting
    <3>2. vault = Stake * (order_count - 0) + donated /\ donated \in Nat
      BY <1>1, <3>1, AmountsAssumption DEF IInv, EscrowIntact, TypeOK
    <3>3. QED
      BY <1>2, <2>1, <3>2
  <2>6. QED
    BY <1>6, <2>2, <2>3, <2>4, <2>5
<1>8. fee \in 0..vault /\ treasury_fee' + keeper_reward' = fee /\ vault' = vault - fee
  BY <1>1, <1>2, <1>3, <1>4, <1>5
<1>9. stage = "open" /\ stage' = "paying"
  BY <1>1 DEF stage
<1>10. Promise!Decide(fee)
  BY <1>1, <1>7, <1>8, <1>9 DEF Promise!Decide, orderVars, refundVars, claimVars
<1>11. QED
  BY <1>8, <1>10

\* The count that closes a market is reached exactly with its last order.
LEMMA LastOrder ==
  ASSUME NEW P, NEW S, IsFiniteSet(P), S \subseteq P, NEW o \in P \ S
  PROVE  Cardinality(S) + 1 = Cardinality(P) <=> S \cup {o} = P
<1>1. IsFiniteSet(S) /\ IsFiniteSet(S \cup {o}) /\ S \cup {o} \subseteq P
  BY FS_Subset
<1>2. Cardinality(S \cup {o}) = Cardinality(S) + 1
  BY <1>1, FS_AddElement
<1>3. Cardinality(S \cup {o}) = Cardinality(P) => S \cup {o} = P
  BY <1>1, FS_Subset
<1>4. QED
  BY <1>2, <1>3

\* refund_order returns a whole stake to a depositor who has nothing yet.
LEMMA RefundPromise ==
  ASSUME NEW o \in Orders, IInv, PayInv, RefundOrder(o)
  PROVE  Promise!Refund(o)
<1>1. /\ TypeOK /\ Counting /\ phase = "Refunding" /\ claims = {} /\ claims' = claims
      /\ o \in placed /\ o \notin refunded
      /\ refunded' = refunded \cup {o}
      /\ phase' = IF refunded_count + 1 = order_count THEN "Closed" ELSE phase
      /\ vault >= Stake /\ vault' = vault - Stake
      /\ paid' = [paid EXCEPT ![o] = @ + Stake]
      /\ UNCHANGED <<orderVars, settleVars, donated>>
  BY DEF IInv, PhaseFacts, RefundOrder, refundable, claimVars
<1>2. paid[o] = 0 /\ Stake \in Nat /\ vault \in Nat /\ paid \in [Orders -> Nat]
  BY <1>1, AmountsAssumption DEF PayInv, PaidFacts, TypeOK
<1>3. paid' = [paid EXCEPT ![o] = Stake]
  BY <1>1, <1>2
<1>4. refunded_count + 1 = order_count <=> (refunded \cup claims)' = placed'
  <2>1. IsFiniteSet(placed)
    BY <1>1, FiniteOrders DEF TypeOK
  <2>2. refunded_count + 1 = order_count <=> refunded \cup {o} = placed
    BY <1>1, <2>1, LastOrder DEF Counting
  <2>3. QED
    BY <1>1, <2>2 DEF orderVars
<1>5. stage = "refunding"
  BY <1>1 DEF stage
<1>6. stage' = IF (refunded \cup claims)' = placed THEN "closed" ELSE stage
  BY <1>1, <1>4, <1>5 DEF stage, orderVars
<1>7. Promise!Settle(o, Stake)
  BY <1>1, <1>3, <1>6 DEF Promise!Settle, orderVars, settleVars
<1>8. Stake <= vault
  BY <1>1, <1>2
<1>9. QED
  BY <1>5, <1>7, <1>8 DEF Promise!Refund

\* redeem pays an unsettled depositor at least the unused collateral, and the
\* payment that closes the market leaves donations only.
LEMMA RedeemPromise ==
  ASSUME NEW o \in Orders, IInv, IInv', PayInv, Redeem(o)
  PROVE  \E amount \in 0..vault : Promise!Pay(o, amount)
<1> DEFINE amount == redeem_amount(Payout(o))
<1>1. /\ TypeOK /\ Counting /\ phase = "Resolved" /\ refunded = {} /\ refunded' = refunded
      /\ o \in placed /\ o \notin claims
      /\ claims' = claims \cup {o}
      /\ phase' = IF claimed_count + 1 = order_count THEN "Closed" ELSE phase
      /\ vault >= Payout(o) /\ vault' = vault - amount
      /\ paid' = [paid EXCEPT ![o] = @ + amount]
      /\ UNCHANGED <<orderVars, settleVars, donated>>
  BY DEF IInv, PhaseFacts, Redeem, unclaimed, refundVars
<1>2. /\ Payout(o) \in Nat /\ Winnings(o) \in Nat /\ Stake \in Nat /\ Amount[o] \in 1..Stake
      /\ Payout(o) = (Stake - Amount[o]) + Winnings(o) /\ vault \in Nat
  BY <1>1, OpenPosition
<1>3. paid[o] = 0 /\ paid \in [Orders -> Nat]
  BY <1>1 DEF PayInv, PaidFacts, TypeOK
<1>4. winning_count \in Nat
  BY <1>1 DEF TypeOK, winning_count
<1>5. amount \in Payout(o)..vault
  BY <1>1, <1>2, <1>4 DEF redeem_amount, rounding_dust
<1> HIDE DEF amount
<1>6. amount \in 0..vault /\ Stake - Amount[o] <= amount
  BY <1>2, <1>5
<1>7. paid' = [paid EXCEPT ![o] = amount]
  BY <1>1, <1>3, <1>6
<1>8. claimed_count + 1 = order_count <=> (refunded \cup claims)' = placed'
  <2>1. IsFiniteSet(placed)
    BY <1>1, FiniteOrders DEF TypeOK
  <2>2. claimed_count + 1 = order_count <=> claims \cup {o} = placed
    BY <1>1, <2>1, LastOrder DEF Counting
  <2>3. QED
    BY <1>1, <2>2 DEF orderVars
<1>9. stage = "paying"
  BY <1>1 DEF stage
<1>10. stage' = IF (refunded \cup claims)' = placed THEN "closed" ELSE stage
  BY <1>1, <1>8, <1>9 DEF stage, orderVars
<1>11. stage' = "closed" => vault' <= donated
  <2>1. stage' = "closed" => phase' = "Closed"
    BY <1>1 DEF stage
  <2>2. phase' = "Closed" => vault' <= donated'
    BY DEF IInv, EscrowPaidOut
  <2>3. QED
    BY <1>1, <2>1, <2>2
<1>12. Promise!Settle(o, amount)
  BY <1>1, <1>7, <1>10 DEF Promise!Settle, orderVars, settleVars
<1>13. Promise!Pay(o, amount)
  BY <1>6, <1>9, <1>11, <1>12 DEF Promise!Pay
<1>14. QED
  BY <1>6, <1>13

\* Every step of the market is a step of the pool, or none.
LEMMA NextPromise ==
  IInv /\ IInv' /\ PayInv /\ [Next]_vars => [Promise!Next]_(Promise!vars)
<1>1. SUFFICES ASSUME IInv, IInv', PayInv, [Next]_vars
               PROVE  Promise!Next \/ UNCHANGED Promise!vars
  OBVIOUS
<1>2. CASE Tick \/ RotateVerifiers \/ SyncMarketVerifiers \/ SubmitBatch \/ UNCHANGED vars
  <2>1. stage' = stage
    BY <1>2 DEF Tick, RotateVerifiers, SyncMarketVerifiers, SubmitBatch, vars, stage
  <2>2. UNCHANGED <<orderVars, settleVars, refundVars, claimVars, moneyVars>>
    BY <1>2 DEF Tick, RotateVerifiers, SyncMarketVerifiers, SubmitBatch, vars
  <2>3. QED
    BY <2>1, <2>2, FramePromise
<1>3. CASE Donate
  BY <1>1, <1>3, DonatePromise DEF Promise!Next
<1>4. CASE InitializeMarket
  <2>1. stage = "before" /\ stage' = "open"
    BY <1>4 DEF InitializeMarket, stage
  <2>2. Promise!Open
    BY <1>4, <2>1 DEF InitializeMarket, Promise!Open, orderVars, settleVars, refundVars,
       claimVars, moneyVars
  <2>3. QED
    BY <2>2 DEF Promise!Next
<1>5. CASE BeginRefund
  BY <1>1, <1>5, BeginRefundPromise DEF Promise!Next
<1>6. CASE \E side \in {YES, NO} : ResolveMarket(side)
  BY <1>1, <1>6, ResolvePromise DEF Promise!Next
<1>7. CASE \E o \in Orders : PlaceOrder(o) \/ RefundOrder(o) \/ Redeem(o)
  <2>1. PICK o \in Orders : PlaceOrder(o) \/ RefundOrder(o) \/ Redeem(o)
    BY <1>7
  <2>2. Promise!Deposit(o) \/ Promise!Refund(o) \/ \E amount \in 0..vault : Promise!Pay(o, amount)
    BY <1>1, <2>1, PlacePromise, RefundPromise, RedeemPromise
  <2>3. QED
    BY <2>2 DEF Promise!Next
<1>8. QED
  BY <1>1, <1>2, <1>3, <1>4, <1>5, <1>6, <1>7 DEF Next

\* The market is a pool of equal stakes that keeps its promise, for every set of
\* orders, every fee rate and every order of instructions.
THEOREM RefinesEscrow == Spec => ImplementsEscrow
<1>1. Init => Promise!Init
  BY InitPromise
<1>2. IInv /\ IInv' /\ PayInv /\ [Next]_vars => [Promise!Next]_(Promise!vars)
  BY NextPromise
<1>3. Spec => []IInv /\ [](IInv /\ PayInv)
  BY Invariance, PayInvariance, PTL
<1>4. QED
  BY <1>1, <1>2, <1>3, PTL DEF Spec, ImplementsEscrow, Promise!Spec
=============================================================================
