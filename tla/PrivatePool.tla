---------------------------- MODULE PrivatePool ----------------------------
(***************************************************************************)
(* One private pool market of programs/nortia/src/lib.rs: the escrow vault,*)
(* the phases of Market, and every instruction that changes them.          *)
(*                                                                         *)
(* An element of Orders stands for an order commitment.  A commitment      *)
(* binds the hidden side, amount and nullifier of its order, so these are  *)
(* constant functions of the commitment; the program never reads them, it  *)
(* only sees what the zero-knowledge proofs and the committee say of them. *)
(* Amounts are counts of base units of the collateral token.               *)
(***************************************************************************)
EXTENDS Integers, FiniteSets, Sums

CONSTANTS
  Orders,              \* order commitments that clients may submit
  Side,                \* Side[o]: the hidden side, YES or NO
  Amount,              \* Amount[o]: the hidden wager
  Nullifier,           \* Nullifier[o]: the hidden nullifier (hash)
  Programs,            \* verifier program ids
  Committee,           \* committee keys
  Stake,               \* market.stake_amount, the public collateral
  MinWager,            \* MIN_PRIVATE_WAGER_AMOUNT
  MinBatchOrders,      \* MIN_PRIVATE_BATCH_ORDERS
  Threshold,           \* COMMITTEE_THRESHOLD
  Denominator,         \* BASIS_POINTS_DENOMINATOR
  FeeBps,              \* market.fee_bps
  KeeperBps,           \* market.keeper_reward_bps
  LockTs, BatchDeadline, ResolutionDeadline,
  MaxTime,             \* bound: the clock stops here
  MaxDonation          \* bound: units strangers may send to the vault

YES == 1
NO == 0
UNSET == 2             \* Market::OUTCOME_UNSET
NoPair == [placement |-> "none", redeem |-> "none"]

ASSUME OrdersAssumption ==
  /\ IsFiniteSet(Orders)
  /\ Side \in [Orders -> {YES, NO}]
  /\ Amount \in [Orders -> Nat]
  /\ DOMAIN Nullifier = Orders

\* calculate_settlement and initialize_protocol require 0 < fee_bps and both
\* rates below the denominator.
ASSUME AmountsAssumption ==
  /\ Stake \in Nat /\ MinWager \in Nat /\ 0 < MinWager /\ MinWager <= Stake
  /\ MinBatchOrders \in Nat
  /\ Denominator \in Nat /\ Denominator > 0
  /\ FeeBps \in 1..Denominator
  /\ KeeperBps \in 0..Denominator
  /\ MaxDonation \in Nat

\* initialize_market requires lock < batch deadline < resolution deadline.
ASSUME TimesAssumption ==
  /\ LockTs \in Nat /\ BatchDeadline \in Nat /\ ResolutionDeadline \in Nat
  /\ LockTs < BatchDeadline
  /\ BatchDeadline < ResolutionDeadline
  /\ MaxTime \in Nat

VARIABLES
  now,                 \* Clock::get()?.unix_timestamp
  phase,               \* market.phase; "None" before initialize_market
  protocol_verifiers,  \* protocol.{placement,redeem}_verifier
  market_verifiers,    \* market.{placement,redeem}_verifier
  placed,              \* the Order accounts of the market
  order_count,
  placed_under,        \* history: the verifier pair an order was placed under
  yes_count, no_count, yes_amount, no_amount,
  outcome,
  net_pool, treasury_fee, keeper_reward,
  vault,               \* vault.amount
  refunded,            \* orders with order.refunded
  refunded_count,
  claims,              \* orders whose nullifier has a Claim account
  claimed_count,
  paid,                \* history: units the owner of an order received
  donated              \* history: units sent to the vault by strangers

verifierVars == <<protocol_verifiers, market_verifiers, placed_under>>
orderVars == <<placed, order_count>>
batchVars == <<yes_count, no_count, yes_amount, no_amount>>
settleVars == <<outcome, net_pool, treasury_fee, keeper_reward>>
refundVars == <<refunded, refunded_count>>
claimVars == <<claims, claimed_count>>
moneyVars == <<vault, paid, donated>>

vars == <<now, phase, verifierVars, orderVars, batchVars, settleVars,
          refundVars, claimVars, moneyVars>>

----------------------------------------------------------------------------
(* What the committee computes.                                            *)

OrdersOn(side) == {o \in placed : Side[o] = side}
WagerOn(side) == Total(Amount, OrdersOn(side), Stake)

\* What finalizeCommitteeAggregates reconstructs from two members' share
\* sums over all the orders of the market.
finalizeCommitteeAggregates ==
  [yes_count |-> Cardinality(OrdersOn(YES)), no_count |-> Cardinality(OrdersOn(NO)),
   yes_amount |-> WagerOn(YES), no_amount |-> WagerOn(NO)]

----------------------------------------------------------------------------
(* The pure functions of lib.rs and of the circuits.                       *)

Pairs == [placement : Programs, redeem : Programs]

valid_verifier_pair(p) == p.placement # p.redeem

verify_committee_quorum(signers) == Cardinality(signers \cap Committee) >= Threshold

has_min_private_set(n) == n >= MinBatchOrders
has_two_private_sides(y, n) == y > 0 /\ n > 0

\* Deviation: the upper bound made strict.
within_side_strict(count, amount) == MinWager * count <= amount /\ amount < Stake * count

within_side(count, amount) == MinWager * count <= amount /\ amount <= Stake * count

valid_private_batch_amounts(b) ==
  /\ within_side(b.yes_count, b.yes_amount)
  /\ within_side(b.no_count, b.no_amount)

\* The placement circuit's assertions on the hidden amount.
place_circuit(o) == MinWager <= Amount[o] /\ Amount[o] <= Stake

calculate_settlement(gross) ==
  LET protocol_fee == (gross * FeeBps) \div Denominator
      keeper == (protocol_fee * KeeperBps) \div Denominator
  IN  [net_pool |-> gross - protocol_fee,
       keeper_reward |-> keeper,
       treasury_fee |-> protocol_fee - keeper]

winning_amount(side) == IF side = YES THEN yes_amount ELSE no_amount
winning_count == IF outcome = YES THEN yes_count ELSE no_count

\* The return the redeem circuit forces: unused collateral, plus the
\* proportional share of the net pool for a winner, rounded down.
Winnings(o) ==
  IF Side[o] = outcome THEN (Amount[o] * net_pool) \div winning_amount(outcome) ELSE 0
Payout(o) == (Stake - Amount[o]) + Winnings(o)

final_claim == claimed_count + 1 = order_count

\* Deviations: the cap off by one; no cap at all.
rounding_dust_short(payout) ==
  LET cap == IF winning_count > 1 THEN winning_count - 2 ELSE 0
      dust == vault - payout
  IN  IF dust <= cap THEN dust ELSE cap
rounding_dust_uncapped(payout) == vault - payout

\* What redeem transfers: the last claim also takes the vault's remainder,
\* capped at one unit per other winning position.
rounding_dust(payout) ==
  LET cap == IF winning_count > 0 THEN winning_count - 1 ELSE 0
      dust == vault - payout
  IN  IF dust <= cap THEN dust ELSE cap
redeem_amount(payout) ==
  IF final_claim THEN payout + rounding_dust(payout) ELSE payout

----------------------------------------------------------------------------
Init ==
  /\ now = 0
  /\ phase = "None"
  /\ protocol_verifiers \in {p \in Pairs : valid_verifier_pair(p)}
  /\ market_verifiers = NoPair
  /\ placed = {} /\ order_count = 0
  /\ placed_under = [o \in Orders |-> NoPair]
  /\ yes_count = 0 /\ no_count = 0 /\ yes_amount = 0 /\ no_amount = 0
  /\ outcome = UNSET
  /\ net_pool = 0 /\ treasury_fee = 0 /\ keeper_reward = 0
  /\ vault = 0
  /\ refunded = {} /\ refunded_count = 0
  /\ claims = {} /\ claimed_count = 0
  /\ paid = [o \in Orders |-> 0]
  /\ donated = 0

\* The Solana clock advances.
Tick ==
  /\ now < MaxTime
  /\ now' = now + 1
  /\ UNCHANGED <<phase, verifierVars, orderVars, batchVars, settleVars,
                 refundVars, claimVars, moneyVars>>

\* Anyone may send tokens to a token account, the vault included.
Donate ==
  /\ phase # "None"
  /\ donated < MaxDonation
  /\ donated' = donated + 1
  /\ vault' = vault + 1
  /\ UNCHANGED <<now, phase, verifierVars, orderVars, batchVars, settleVars,
                 refundVars, claimVars, paid>>

RotateVerifiers ==
  /\ \E p \in Pairs :
       /\ valid_verifier_pair(p)
       /\ protocol_verifiers' = p
  /\ UNCHANGED <<now, phase, market_verifiers, placed_under, orderVars, batchVars,
                 settleVars, refundVars, claimVars, moneyVars>>

market_verifiers_can_sync ==
  /\ phase = "Open"
  /\ order_count = 0
  /\ yes_count = 0 /\ no_count = 0 /\ yes_amount = 0 /\ no_amount = 0
  /\ outcome = UNSET
  /\ net_pool = 0 /\ treasury_fee = 0 /\ keeper_reward = 0
  /\ claimed_count = 0 /\ refunded_count = 0
  /\ vault = 0

SyncMarketVerifiers ==
  /\ now < LockTs
  /\ market_verifiers_can_sync
  /\ market_verifiers' = protocol_verifiers
  /\ UNCHANGED <<now, phase, protocol_verifiers, placed_under, orderVars, batchVars,
                 settleVars, refundVars, claimVars, moneyVars>>

InitializeMarket ==
  /\ phase = "None"
  /\ now < LockTs
  /\ phase' = "Open"
  /\ market_verifiers' = protocol_verifiers
  /\ UNCHANGED <<now, protocol_verifiers, placed_under, orderVars, batchVars,
                 settleVars, refundVars, claimVars, moneyVars>>

\* The Order account is created at an address derived from the commitment:
\* a commitment can be placed once.
PlaceOrder(o) ==
  /\ phase = "Open"
  /\ now < LockTs
  /\ o \notin placed
  /\ place_circuit(o)
  /\ placed' = placed \cup {o}
  /\ order_count' = order_count + 1
  /\ placed_under' = [placed_under EXCEPT ![o] = market_verifiers]
  /\ vault' = vault + Stake
  /\ UNCHANGED <<now, phase, protocol_verifiers, market_verifiers, batchVars,
                 settleVars, refundVars, claimVars, paid, donated>>

SubmitBatch ==
  LET batch == finalizeCommitteeAggregates
  IN  /\ phase = "Open"
      /\ now >= LockTs
      /\ now <= BatchDeadline
      /\ order_count > 0
      /\ has_min_private_set(order_count)
      /\ batch.yes_count + batch.no_count = order_count
      /\ has_two_private_sides(batch.yes_count, batch.no_count)
      /\ valid_private_batch_amounts(batch)
      /\ \E signers \in SUBSET Committee : verify_committee_quorum(signers)
      /\ yes_count' = batch.yes_count
      /\ no_count' = batch.no_count
      /\ yes_amount' = batch.yes_amount
      /\ no_amount' = batch.no_amount
      /\ phase' = "Batched"
      /\ UNCHANGED <<now, verifierVars, orderVars, settleVars, refundVars,
                     claimVars, moneyVars>>

\* txline::resolve_total_goals_over decides the outcome; nothing in the
\* program constrains which one it is.
ResolveMarket(side) ==
  LET settlement == calculate_settlement(yes_amount + no_amount)
  IN  /\ phase = "Batched"
      /\ now <= ResolutionDeadline
      /\ yes_amount + no_amount > 0
      /\ winning_amount(side) > 0
      /\ vault >= Stake * order_count
      /\ outcome' = side
      /\ net_pool' = settlement.net_pool
      /\ treasury_fee' = settlement.treasury_fee
      /\ keeper_reward' = settlement.keeper_reward
      /\ phase' = "Resolved"
      /\ vault' = vault - settlement.treasury_fee - settlement.keeper_reward
      /\ UNCHANGED <<now, verifierVars, orderVars, batchVars, refundVars,
                     claimVars, paid, donated>>

\* Deviations: a resolved market times out too; a batched one never does.
timed_out_resolved ==
  \/ phase = "Open" /\ now > BatchDeadline
  \/ phase \in {"Batched", "Resolved"} /\ now > ResolutionDeadline
timed_out_open_only == phase = "Open" /\ now > BatchDeadline

timed_out ==
  \/ phase = "Open" /\ now > BatchDeadline
  \/ phase = "Batched" /\ now > ResolutionDeadline

BeginRefund ==
  /\ timed_out
  /\ phase' = IF order_count = 0 THEN "Closed" ELSE "Refunding"
  /\ UNCHANGED <<now, verifierVars, orderVars, batchVars, settleVars, refundVars,
                 claimVars, moneyVars>>

refundable(o) == o \in placed /\ o \notin refunded

RefundOrder(o) ==
  /\ phase = "Refunding"
  /\ refundable(o)
  /\ refunded' = refunded \cup {o}
  /\ refunded_count' = refunded_count + 1
  /\ phase' = IF refunded_count + 1 = order_count THEN "Closed" ELSE phase
  /\ vault >= Stake                       \* else the token transfer fails
  /\ vault' = vault - Stake
  /\ paid' = [paid EXCEPT ![o] = @ + Stake]
  /\ UNCHANGED <<now, verifierVars, orderVars, batchVars, settleVars, claimVars, donated>>

unclaimed(o) == o \in placed /\ Nullifier[o] \notin {Nullifier[c] : c \in claims}

\* The proof shows that o is a leaf of the committed tree and what it is
\* due; the Claim account at the nullifier hash's address must not exist.
Redeem(o) ==
  /\ phase = "Resolved"
  /\ claimed_count < order_count
  /\ unclaimed(o)
  /\ vault >= Payout(o)
  /\ claims' = claims \cup {o}
  /\ claimed_count' = claimed_count + 1
  /\ phase' = IF claimed_count + 1 = order_count THEN "Closed" ELSE phase
  /\ vault' = vault - redeem_amount(Payout(o))
  /\ paid' = [paid EXCEPT ![o] = @ + redeem_amount(Payout(o))]
  /\ UNCHANGED <<now, verifierVars, orderVars, batchVars, settleVars, refundVars, donated>>

Next ==
  \/ Tick
  \/ Donate
  \/ RotateVerifiers
  \/ SyncMarketVerifiers
  \/ InitializeMarket
  \/ SubmitBatch
  \/ BeginRefund
  \/ \E side \in {YES, NO} : ResolveMarket(side)
  \/ \E o \in Orders : PlaceOrder(o) \/ RefundOrder(o) \/ Redeem(o)

Spec == Init /\ [][Next]_vars

\* Time passes; anyone may open refunds (begin_refund has no signer); every
\* owner keeps trying to collect.  The committee and the oracle owe nothing.
Fairness ==
  /\ WF_vars(Tick)
  /\ WF_vars(BeginRefund)
  /\ \A o \in Orders : WF_vars(RefundOrder(o)) /\ WF_vars(Redeem(o))

FairSpec == Spec /\ Fairness

----------------------------------------------------------------------------
Phases == {"None", "Open", "Batched", "Refunding", "Resolved", "Closed"}

\* The type of every variable; amounts and counters never underflow.
TypeOK ==
  /\ now \in 0..MaxTime
  /\ phase \in Phases
  /\ protocol_verifiers \in Pairs
  /\ market_verifiers \in Pairs \cup {NoPair}
  /\ placed \in SUBSET Orders /\ order_count \in Nat
  /\ placed_under \in [Orders -> Pairs \cup {NoPair}]
  /\ yes_count \in Nat /\ no_count \in Nat
  /\ yes_amount \in Nat /\ no_amount \in Nat
  /\ outcome \in {YES, NO, UNSET}
  /\ net_pool \in Nat /\ treasury_fee \in Nat /\ keeper_reward \in Nat
  /\ vault \in Nat
  /\ refunded \in SUBSET Orders /\ refunded_count \in Nat
  /\ claims \in SUBSET Orders /\ claimed_count \in Nat
  /\ paid \in [Orders -> Nat]
  /\ donated \in 0..MaxDonation

\* Until the market resolves the vault holds exactly the stakes not yet
\* refunded and what strangers sent, so the transfer in refund_order and the
\* InsufficientVaultBalance check in resolve_market never fail.
EscrowIntact ==
  phase \in {"None", "Open", "Batched", "Refunding"} =>
    vault = Stake * (order_count - refunded_count) + donated

\* redeem never meets InsufficientVaultBalance: whatever was claimed before,
\* in whatever order and with whatever rounding, the vault covers the proven
\* payout of every position that is still unclaimed.
RedeemNeverShort ==
  phase = "Resolved" => \A o \in placed \ claims : vault >= Payout(o)

\* A market that closes has paid out the whole escrow: after the last refund,
\* or after the last claim with its rounding dust, only donations remain.
EscrowPaidOut == phase = "Closed" => vault <= donated

\* A claim pays what its proof shows, and the one that closes the market at
\* most one unit more per other winning position.
PaidAsProved ==
  \A o \in claims :
    /\ paid[o] >= Payout(o)
    /\ paid[o] # Payout(o) =>
         /\ phase = "Closed"
         /\ paid[o] <= Payout(o) + winning_count - 1
         /\ \A c \in claims \ {o} : paid[c] = Payout(c)

\* Refunds are full and fee-free: once one order is refunded no order was or
\* will be claimed, no fee was taken, and every refund is the whole stake.
RefundsFeeFree ==
  refunded # {} =>
    /\ claims = {}
    /\ treasury_fee = 0 /\ keeper_reward = 0
    /\ \A o \in refunded : paid[o] = Stake

\* No unit is created or lost: what the vault holds, the two fees and what the
\* owners received are together the stakes and the donations. MostPaid is all
\* the market can ever hold.
MostPaid == Stake * Cardinality(Orders) + MaxDonation
MoneyConserved ==
  vault + treasury_fee + keeper_reward + Total(paid, placed, MostPaid)
    = Stake * order_count + donated

\* An order keeps the verifier pair it was placed under: rotating the
\* protocol's verifiers and syncing markets never strands a placed order.
VerifiersBinding == \A o \in placed : placed_under[o] = market_verifiers

\* The amounts an honest committee reconstructs always lie within the bounds
\* submit_batch checks, so BatchAmountMismatch never blocks an honest batch.
HonestBatchAccepted ==
  phase = "Open" => valid_private_batch_amounts(finalizeCommitteeAggregates)

\* No order is paid twice, neither by a second refund, a replayed claim, nor
\* one of each.
PaidOnce == [][\A o \in Orders : paid[o] > 0 => paid'[o] = paid[o]]_vars

\* A client draws a nullifier of its own for every order. Of two orders that
\* share one, only the first is ever redeemed.
OwnNullifier(o) == \A p \in placed \ {o} : Nullifier[p] # Nullifier[o]

\* Whatever the committee and the oracle do, every order with a nullifier of
\* its own is paid at least its unused collateral, and a market in which every
\* order has one ends up closed.
EveryOrderSettled ==
  placed # {} ~>
    /\ \A o \in placed : OwnNullifier(o) => paid[o] >= Stake - Amount[o]
    /\ (\A o \in placed : OwnNullifier(o)) => phase = "Closed"

\* README.md on the final settlement: "Unrelated vault donations cannot
\* inflate that settlement", that is, donations are still in the vault when
\* the market has closed.
DonationsUntouched == phase = "Closed" => vault >= donated

----------------------------------------------------------------------------
(* What the market promises, whatever it computes: the pool of Escrow.      *)

stage ==
  [None |-> "before", Open |-> "open", Batched |-> "open", Resolved |-> "paying",
   Refunding |-> "refunding", Closed |-> "closed"][phase]

Promise == INSTANCE Escrow WITH
       Depositors <- Orders, Wager <- Amount, MaxGifts <- MaxDonation,
       deposits <- placed, settled <- refunded \cup claims, received <- paid,
       held <- vault, taken <- treasury_fee + keeper_reward, gifts <- donated

\* Every behaviour of the market is one of a pool that pays or refunds, never
\* both: one fee within the rate, nobody settled twice, everyone given at least
\* the collateral they did not wager, a refund in full, and a closed market
\* left with donations only.
ImplementsEscrow == Promise!Spec

----------------------------------------------------------------------------
(* The inductive invariant.                                                *)

Unused == [o \in Orders |-> Stake - Amount[o]]
Winning == {o \in placed : Side[o] = outcome}

\* Counters agree with the accounts they count.
Counting ==
  /\ order_count = Cardinality(placed)
  /\ refunded \subseteq placed /\ refunded_count = Cardinality(refunded)
  /\ claims \subseteq placed /\ claimed_count = Cardinality(claims)
  /\ \A o \in placed : place_circuit(o)

\* What the committee reconstructs stays within the bounds of submit_batch,
\* and wagers and unused collateral together make up the stakes.
AggregateFacts ==
  /\ valid_private_batch_amounts(finalizeCommitteeAggregates)
  /\ Total(Unused, placed, Stake) + WagerOn(YES) + WagerOn(NO) = Stake * order_count
  /\ Cardinality(OrdersOn(YES)) + Cardinality(OrdersOn(NO)) = order_count

\* Which accounts and fields each phase can have.
PhaseFacts ==
  /\ phase \in {"None", "Open", "Batched", "Refunding"} =>
       claims = {} /\ outcome = UNSET /\ treasury_fee = 0 /\ keeper_reward = 0
  /\ phase \in {"None", "Open", "Batched", "Resolved"} => refunded = {}
  /\ phase = "None" => placed = {}
  /\ phase \in {"Batched", "Resolved"} =>
       /\ yes_count = Cardinality(OrdersOn(YES)) /\ no_count = Cardinality(OrdersOn(NO))
       /\ yes_amount = WagerOn(YES) /\ no_amount = WagerOn(NO)
       /\ order_count > 0
  /\ phase = "Resolved" => outcome \in {YES, NO} /\ winning_amount(outcome) > 0

\* The positions still unclaimed, their unused collateral, the winning wagers
\* among them, and what the vault holds above collateral and donations.
OpenOrders == placed \ claims
OpenUnused == Total(Unused, OpenOrders, Stake)
OpenWager == Total(Amount, OpenOrders \cap Winning, Stake)
PoolLeft == vault - donated - OpenUnused

\* A resolved vault holds, above the collateral of the unclaimed positions and
\* the donations, at least their exact shares of the net pool, and less than
\* one unit more for every winner already paid.
ResolvedVault ==
  phase = "Resolved" =>
    LET W == winning_amount(outcome)
    IN  /\ PoolLeft * W >= OpenWager * net_pool
        /\ PoolLeft * W <= OpenWager * net_pool + Cardinality(claims \cap Winning) * (W - 1)

IInv ==
  /\ TypeOK /\ Counting /\ AggregateFacts /\ PhaseFacts
  /\ EscrowIntact /\ ResolvedVault /\ EscrowPaidOut

\* An order that was neither refunded nor claimed got nothing, and no market
\* both refunds and redeems.
PaidFacts ==
  /\ \A o \in Orders \ (refunded \cup claims) : paid[o] = 0
  /\ refunded = {} \/ claims = {}
  /\ phase = "Resolved" => \A o \in claims : paid[o] = Payout(o)

PayInv == PaidFacts /\ RefundsFeeFree /\ PaidAsProved /\ VerifiersBinding

MoneyInv == MoneyConserved /\ \A o \in Orders : paid[o] <= MostPaid
=============================================================================
