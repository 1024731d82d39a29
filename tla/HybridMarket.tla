---------------------------- MODULE HybridMarket ----------------------------
(***************************************************************************)
(* One public LMSR market of programs/nortia/src/lib.rs: the collateral    *)
(* vault, the traders' positions, resolution, settlement and the liquidity *)
(* owner's withdrawal.  Which resolver decides the outcome is left open:   *)
(* any resolver ends in finalize_hybrid_resolution, so ResolveHybrid lets  *)
(* either outcome be resolved whenever that function accepts it.           *)
(*                                                                         *)
(* Statistics the program never reads (volume, fee totals, total_spent,    *)
(* total_proceeds) are left out, as are the caller's own amount_guard and  *)
(* deadline_ts, which only let a caller refuse a trade.                    *)
(***************************************************************************)
EXTENDS Lmsr, FiniteSets, Sums

CONSTANTS
  Traders,               \* wallets that may hold a Position
  TreasuryShareBps,      \* market.treasury_fee_share_bps, of FeeDenominator
  SecurityCap,           \* market.resolver_security_cap
  LockTs, ResolveNotBefore, ResolutionDeadline,
  MaxTime,               \* bound: the clock stops here
  MaxTrades,             \* bound: trades of the market
  MaxDonation            \* bound: units strangers may send to the vault

INVALID == 2             \* HybridMarket::OUTCOME_INVALID
UNSET == 3               \* HybridMarket::OUTCOME_UNSET

ASSUME TradersAssumption == IsFiniteSet(Traders)

\* initialize_hybrid_market requires the order of the three timestamps, and
\* initialize_engine a treasury share below the whole.
ASSUME HybridAssumption ==
  /\ LockTs \in Nat /\ ResolveNotBefore \in Nat /\ ResolutionDeadline \in Nat
  /\ LockTs <= ResolveNotBefore
  /\ ResolveNotBefore < ResolutionDeadline
  /\ TreasuryShareBps \in 0..(FeeDenominator - 1)
  /\ SecurityCap \in Nat
  /\ MaxTime \in Nat /\ MaxTrades \in Nat
  /\ MaxDonation \in Nat

VARIABLES
  now,                   \* Clock::get()?.unix_timestamp
  phase,                 \* market.phase; "None" before the market exists
  yes_quantity, no_quantity, trade_count,
  vault,                 \* vault.amount
  opened,                \* wallets with a Position account
  yes_shares, no_shares, \* the shares of each position
  settled,               \* positions with position.settled
  consumed,              \* oracle.consumed, set with the ResolutionReceipt
  outcome, settled_at, outstanding_liability, redeemed_liability,
  donated                \* history: units sent to the vault by strangers

quantityVars == <<yes_quantity, no_quantity, trade_count>>
positionVars == <<yes_shares, no_shares>>
resolutionVars == <<consumed, outcome, settled_at>>
liabilityVars == <<outstanding_liability, redeemed_liability>>

vars == <<now, phase, quantityVars, vault, opened, positionVars, settled,
          resolutionVars, liabilityVars, donated>>

----------------------------------------------------------------------------
lmsr_quantities == [yes |-> yes_quantity, no |-> no_quantity]
LargestOutcome(q) == MaxOf(q.yes, q.no)

position_shares(t, side) == IF side = YES THEN yes_shares[t] ELSE no_shares[t]

\* Deviation: trading goes on until someone locks the market.
validate_hybrid_trade_late(shares) == phase = "Open" /\ validate_trade(shares)

validate_hybrid_trade(shares) ==
  /\ phase = "Open"
  /\ now < LockTs
  /\ validate_trade(shares)

validate_resolver_security_cap(q) == LargestOutcome(q) <= SecurityCap

split_hybrid_fee(fee) ==
  LET treasury == (fee * TreasuryShareBps) \div FeeDenominator
  IN  [treasury |-> treasury, liquidity |-> fee - treasury]

\* One transfer when the treasury and the liquidity owner share an account.
coalesce_hybrid_fee_transfers(same_account, split) ==
  IF same_account
  THEN [treasury |-> split.treasury + split.liquidity, liquidity |-> 0]
  ELSE split

\* Deviation: an invalid market owes the rounded-up half.
hybrid_position_payout_up(t) ==
  CASE outcome = YES     -> yes_shares[t]
    [] outcome = NO      -> no_shares[t]
    [] outcome = INVALID -> (yes_shares[t] + no_shares[t] + 1) \div 2

hybrid_position_payout(t) ==
  CASE outcome = YES     -> yes_shares[t]
    [] outcome = NO      -> no_shares[t]
    [] outcome = INVALID -> (yes_shares[t] + no_shares[t]) \div 2

hybrid_market_liability(out) ==
  CASE out = YES     -> yes_quantity
    [] out = NO      -> no_quantity
    [] out = INVALID -> (yes_quantity + no_quantity) \div 2

\* Deviation: the market closes when its liabilities are paid.
closes_when_drained_early(liability, projected_vault) == liability = 0

\* The condition on which close_hybrid_market_if_drained closes the market.
closes_when_drained(liability, projected_vault) == liability = 0 /\ projected_vault = 0

close_hybrid_market_if_drained(liability, projected_vault) ==
  /\ projected_vault >= liability
  /\ phase' = IF closes_when_drained(liability, projected_vault) THEN "Closed" ELSE phase

----------------------------------------------------------------------------
Init ==
  /\ now = 0
  /\ phase = "None"
  /\ yes_quantity = 0 /\ no_quantity = 0 /\ trade_count = 0
  /\ vault = 0
  /\ opened = {}
  /\ yes_shares = [t \in Traders |-> 0] /\ no_shares = [t \in Traders |-> 0]
  /\ settled = {}
  /\ consumed = FALSE /\ outcome = UNSET /\ settled_at = 0
  /\ outstanding_liability = 0 /\ redeemed_liability = 0
  /\ donated = 0

\* The Solana clock advances.
Tick ==
  /\ now < MaxTime
  /\ now' = now + 1
  /\ UNCHANGED <<phase, quantityVars, vault, opened, positionVars, settled,
                 resolutionVars, liabilityVars, donated>>

\* Anyone may send tokens to a token account, the vault included.
Donate ==
  /\ phase # "None"
  /\ donated < MaxDonation
  /\ donated' = donated + 1
  /\ vault' = vault + 1
  /\ UNCHANGED <<now, phase, quantityVars, opened, positionVars, settled,
                 resolutionVars, liabilityVars>>

\* engine.paused is false from initialize_engine on.
InitializeHybridMarket ==
  /\ phase = "None"
  /\ now < LockTs
  /\ required_subsidy <= SecurityCap
  /\ phase' = "Open"
  /\ vault' = vault + required_subsidy
  /\ UNCHANGED <<now, quantityVars, opened, positionVars, settled,
                 resolutionVars, liabilityVars, donated>>

InitializePosition(t) ==
  /\ phase = "Open"
  /\ t \notin opened
  /\ opened' = opened \cup {t}
  /\ UNCHANGED <<now, phase, quantityVars, vault, positionVars, settled,
                 resolutionVars, liabilityVars, donated>>

\* apply_market_trade, and the position's new number of shares on one side.
ApplyTrade(t, side, after, held) ==
  /\ yes_quantity' = after.yes
  /\ no_quantity' = after.no
  /\ trade_count < MaxTrades
  /\ trade_count' = trade_count + 1
  /\ IF side = YES
     THEN yes_shares' = [yes_shares EXCEPT ![t] = held] /\ UNCHANGED no_shares
     ELSE no_shares' = [no_shares EXCEPT ![t] = held] /\ UNCHANGED yes_shares

\* The fee goes from the buyer to the two fee accounts, not to the vault.
BuyHybridShares(t, side, shares) ==
  LET quote == quote_buy(lmsr_quantities, side, shares)
  IN  /\ validate_hybrid_trade(shares)
      /\ t \in opened /\ t \notin settled
      /\ quote_buy_ok(lmsr_quantities, side, shares)
      /\ vault + quote.raw >= LargestOutcome(quote.after)
      /\ validate_resolver_security_cap(quote.after)
      /\ ApplyTrade(t, side, quote.after, position_shares(t, side) + shares)
      /\ vault' = vault + quote.raw
      /\ UNCHANGED <<now, phase, opened, settled, resolutionVars, liabilityVars, donated>>

\* Proceeds and fees all leave the vault.
SellHybridShares(t, side, shares, same_account) ==
  LET quote == quote_sell(lmsr_quantities, side, shares)
      fees == coalesce_hybrid_fee_transfers(same_account, split_hybrid_fee(quote.fee))
  IN  /\ validate_hybrid_trade(shares)
      /\ t \in opened /\ t \notin settled
      /\ position_shares(t, side) >= shares
      /\ quote_sell_ok(lmsr_quantities, side, shares)
      /\ vault - quote.raw >= LargestOutcome(quote.after)
      /\ ApplyTrade(t, side, quote.after, position_shares(t, side) - shares)
      /\ vault' = vault - (quote.total + fees.treasury + fees.liquidity)
      /\ UNCHANGED <<now, phase, opened, settled, resolutionVars, liabilityVars, donated>>

LockHybridMarket ==
  /\ phase = "Open"
  /\ now >= LockTs
  /\ phase' = "Locked"
  /\ UNCHANGED <<now, quantityVars, vault, opened, positionVars, settled,
                 resolutionVars, liabilityVars, donated>>

\* A decision up to the deadline, a timeout only after it.
in_resolution_window(out, timeout) ==
  IF timeout
  THEN now > ResolutionDeadline /\ out = INVALID
  ELSE now <= ResolutionDeadline /\ out \in {YES, NO}

\* The phases finalize_hybrid_resolution accepts.
resolvable == phase \in {"Open", "Locked", "Resolving", "Disputed"}

finalize_hybrid_resolution(out, timeout) ==
  /\ resolvable
  /\ now >= LockTs
  /\ now >= ResolveNotBefore
  /\ in_resolution_window(out, timeout)
  /\ ~consumed
  /\ vault >= hybrid_market_liability(out)
  /\ consumed' = TRUE
  /\ phase' = "Resolved"
  /\ outcome' = out
  /\ outstanding_liability' = hybrid_market_liability(out)
  /\ settled_at' = now
  /\ UNCHANGED <<now, quantityVars, vault, opened, positionVars, settled,
                 redeemed_liability, donated>>

ResolveHybrid(out) == finalize_hybrid_resolution(out, FALSE)

ResolveHybridTimeout == finalize_hybrid_resolution(INVALID, TRUE)

SettleHybridPosition(t) ==
  LET amount == hybrid_position_payout(t)
      liability == outstanding_liability - amount
  IN  /\ phase = "Resolved"
      /\ t \in opened /\ t \notin settled
      /\ outstanding_liability >= amount
      /\ vault >= amount
      /\ settled' = settled \cup {t}
      /\ outstanding_liability' = liability
      /\ redeemed_liability' = redeemed_liability + amount
      /\ close_hybrid_market_if_drained(liability, vault - amount)
      /\ vault' = vault - amount
      /\ UNCHANGED <<now, quantityVars, opened, positionVars, resolutionVars, donated>>

withdrawable == vault - outstanding_liability

WithdrawHybridLiquidity ==
  /\ phase = "Resolved"
  /\ withdrawable > 0
  /\ close_hybrid_market_if_drained(outstanding_liability, vault - withdrawable)
  /\ vault' = vault - withdrawable
  /\ UNCHANGED <<now, quantityVars, opened, positionVars, settled, resolutionVars,
                 liabilityVars, donated>>

\* Every instruction but the ones that decide the outcome.
MarketStep ==
  \/ Tick
  \/ Donate
  \/ InitializeHybridMarket
  \/ LockHybridMarket
  \/ WithdrawHybridLiquidity
  \/ \E t \in Traders :
       \/ InitializePosition(t)
       \/ SettleHybridPosition(t)
       \/ \E side \in {YES, NO}, shares \in 1..MaxTradeShares :
            \/ BuyHybridShares(t, side, shares)
            \/ \E same_account \in BOOLEAN : SellHybridShares(t, side, shares, same_account)

Next ==
  \/ MarketStep
  \/ ResolveHybridTimeout
  \/ \E out \in {YES, NO} : ResolveHybrid(out)

Spec == Init /\ [][Next]_vars

----------------------------------------------------------------------------
Phases == {"None", "Open", "Locked", "Resolved", "Closed"}
Trading == {"Open", "Locked"}
Decided == {"Resolved", "Closed"}

\* The type of every variable: quantities stay within the pricing limits and
\* no amount underflows.
TypeOK ==
  /\ now \in 0..MaxTime
  /\ phase \in Phases
  /\ yes_quantity \in 0..MAX_OUTCOME_QUANTITY /\ no_quantity \in 0..MAX_OUTCOME_QUANTITY
  /\ trade_count \in 0..MaxTrades
  /\ vault \in Nat
  /\ opened \in SUBSET Traders
  /\ yes_shares \in [Traders -> 0..MAX_OUTCOME_QUANTITY]
  /\ no_shares \in [Traders -> 0..MAX_OUTCOME_QUANTITY]
  /\ settled \in SUBSET Traders
  /\ consumed \in BOOLEAN
  /\ outcome \in {YES, NO, INVALID, UNSET}
  /\ settled_at \in 0..MaxTime
  /\ outstanding_liability \in Nat /\ redeemed_liability \in Nat
  /\ donated \in 0..MaxDonation

\* The shares of all positions add up to the market's quantities, through any
\* interleaving of buys and sells.
SharesAccounted ==
  /\ Total(yes_shares, Traders, MAX_OUTCOME_QUANTITY) = yes_quantity
  /\ Total(no_shares, Traders, MAX_OUTCOME_QUANTITY) = no_quantity

\* Rounding favours the vault: however many trades there were, it holds the
\* LMSR cost of the outstanding shares, the rounding reserve and donations.
PotentialCovered ==
  phase \in Trading =>
    vault * FIXED_SCALE >= cost_fixed(lmsr_quantities) + (RoundingReserve + donated) * FIXED_SCALE

\* README, "Create": the subsidy bounds the market maker's worst-case loss.
\* Before resolution the vault covers the largest possible liability with the
\* rounding reserve to spare, so finalize_hybrid_resolution never fails with
\* InsolventMarket.
MarketSolvent ==
  phase \in Trading =>
    vault >= LargestOutcome(lmsr_quantities) + RoundingReserve + donated

\* The InsolventMarket checks of buy_hybrid_shares and sell_hybrid_shares
\* never reject a trade the pricing functions quote.
TradesNeverInsolvent ==
  phase = "Open" =>
    \A side \in {YES, NO}, shares \in 1..MaxTradeShares :
      LET q == lmsr_quantities
      IN  /\ quote_buy_ok(q, side, shares) =>
               vault + quote_buy(q, side, shares).raw
                 >= LargestOutcome(quote_buy(q, side, shares).after)
          /\ quote_sell_ok(q, side, shares) =>
               vault - quote_sell(q, side, shares).raw
                 >= LargestOutcome(quote_sell(q, side, shares).after)

\* README, "Settle": the liquidity owner can withdraw only collateral above all
\* unsettled liabilities.  Every unsettled position can be paid in full from
\* the vault, whoever settled or withdrew before.
SettlementCovered ==
  phase = "Resolved" =>
    /\ vault >= outstanding_liability
    /\ \A t \in opened \ settled : outstanding_liability >= hybrid_position_payout(t)

\* Twice what the unsettled positions are owed, before rounding.
Unsettled == Traders \ settled
OwedTwice ==
  LET y == Total(yes_shares, Unsettled, MAX_OUTCOME_QUANTITY)
      n == Total(no_shares, Unsettled, MAX_OUTCOME_QUANTITY)
  IN  CASE outcome = YES     -> 2 * y
        [] outcome = NO      -> 2 * n
        [] outcome = INVALID -> y + n

\* The liability counter follows the positions: exactly after a decisive
\* outcome; after an invalid one it is at most half a unit short, and half a
\* unit over for every position already settled.
LiabilityExact ==
  phase \in Decided =>
    /\ redeemed_liability + outstanding_liability = hybrid_market_liability(outcome)
    /\ outcome # INVALID => 2 * outstanding_liability = OwedTwice
    /\ outcome = INVALID =>
         /\ OwedTwice <= 2 * outstanding_liability + 1
         /\ 2 * outstanding_liability <= OwedTwice + Cardinality(settled)

\* A closed market owes nobody anything and keeps nothing but later donations.
ClosedPaidOut ==
  phase = "Closed" =>
    /\ outstanding_liability = 0
    /\ vault <= donated
    /\ \A t \in opened \ settled : hybrid_position_payout(t) = 0

\* A market is decided YES or NO up to its deadline and INVALID only after it.
DecidedInTime ==
  phase \in Decided =>
    /\ settled_at >= ResolveNotBefore
    /\ outcome = INVALID <=> settled_at > ResolutionDeadline

\* From the lock time on nobody trades, locked or not, and a decision is final.
DecisionsFinal ==
  [][/\ now >= LockTs => UNCHANGED <<quantityVars, positionVars>>
     /\ consumed => UNCHANGED resolutionVars]_vars

\* Whatever the resolver does, every position ends up settled, or is owed
\* nothing by a decided market.
PositionsSettled ==
  \A t \in Traders :
    (t \in opened) ~>
      (phase \in Decided /\ (t \in settled \/ hybrid_position_payout(t) = 0))

\* README, "Settle": "An invalid result pays half of the aggregate YES and NO
\* shares, rounded down", that is, once every position is settled they have
\* together received that half.
InvalidPaysHalf ==
  (phase \in Decided /\ outcome = INVALID /\ opened \subseteq settled) =>
    redeemed_liability = (yes_quantity + no_quantity) \div 2

----------------------------------------------------------------------------
(* The inductive invariant.                                                *)

\* Which fields and accounts each phase can have.
PhaseFacts ==
  /\ phase = "None" => vault = 0 /\ donated = 0 /\ opened = {} /\ yes_quantity = 0 /\ no_quantity = 0
  /\ phase \in Trading \cup {"None"} => ~consumed /\ settled = {} /\ redeemed_liability = 0
  /\ phase \in Decided => consumed /\ outcome # UNSET
  /\ validate_state(lmsr_quantities)
  /\ settled \subseteq opened
  /\ \A t \in Traders \ opened : yes_shares[t] = 0 /\ no_shares[t] = 0

VaultCoversLiability == phase = "Resolved" => vault >= outstanding_liability

ClosedEmpty == phase = "Closed" => outstanding_liability = 0 /\ vault <= donated

IInv ==
  /\ TypeOK /\ PhaseFacts /\ SharesAccounted /\ PotentialCovered
  /\ LiabilityExact /\ VaultCoversLiability /\ ClosedEmpty /\ DecidedInTime
=============================================================================
