---------------------------- MODULE TradingPanel ----------------------------
(***************************************************************************)
(* The trade ticket of a public market: client/src/lmsr.ts quotes a trade   *)
(* from the account read last, the panel turns the quote into the guard of  *)
(* the instruction, and the program prices the trade again when it lands,   *)
(* after other traders may have moved the market or the clock locked it.    *)
(* The owner's own shares do not change meanwhile: a sale offered is held.  *)
(***************************************************************************)
EXTENDS Lmsr

CONSTANTS
  MaxShares,      \* bound on the shares of one trade
  SlippageBps,    \* the choices of the slippage control
  SecurityCaps    \* the resolver_security_cap a market may have: its bond_amount
                  \* when its resolver is optimistic, u64::MAX otherwise

ASSUME PanelAssumption ==
  MaxShares \in Nat /\ SlippageBps \subseteq 0..10000 /\ SecurityCaps \subseteq Nat

VARIABLES
  security_cap,   \* the market's resolver_security_cap, fixed when it is made
  quantities,     \* the market's quantities, moved by every trade
  open,           \* trading has not been locked
  ticket          \* the panel, from the click to the landing

panelVars == <<security_cap, quantities, open, ticket>>
Idle == [pc |-> "idle"]

----------------------------------------------------------------------------
(* client/src/lmsr.ts, with bigint division; a throw is a missing quote.   *)

\* Deviation: the quotient rounded down.
divCeil_down(value, denominator) == value \div denominator

divCeil(value, denominator) ==
  IF value % denominator = 0 THEN value \div denominator ELSE value \div denominator + 1

\* The two loops, for every number of rounds.
exp_loop(rest) ==
  LET loop[d \in 0..22] ==
        IF d = 0 THEN [term |-> FIXED_SCALE, sum |-> FIXED_SCALE]
        ELSE LET last == loop[d - 1]
                 term == mul_div_floor(last.term, rest, FIXED_SCALE) \div d
             IN  [term |-> term, sum |-> IF d % 2 = 1 THEN last.sum - term ELSE last.sum + term]
  IN  loop

ln_loop(ratio) ==
  LET squared == mul_div_floor(ratio, ratio, FIXED_SCALE)
      loop[k \in 0..16] ==
        IF k = 0 THEN [power |-> ratio, sum |-> ratio]
        ELSE LET last == loop[k - 1]
                 power == mul_div_floor(last.power, squared, FIXED_SCALE)
             IN  [power |-> power, sum |-> last.sum + power \div (2 * k + 1)]
  IN  loop

expNegativeFixed(value) ==
  IF value \div LN_2_FIXED > 127 THEN 0
  ELSE shift_right(exp_loop(value % LN_2_FIXED)[22].sum, value \div LN_2_FIXED)

lnOnePlusFixed(value) ==
  2 * ln_loop(mul_div_floor(value, FIXED_SCALE, 2 * FIXED_SCALE + value))[16].sum

lmsrCostFixed(p) ==
  MaxOf(p.yes, p.no) * FIXED_SCALE
    + Liquidity * lnOnePlusFixed(expNegativeFixed(
        mul_div_floor(abs_diff(p.yes, p.no), FIXED_SCALE, Liquidity)))

validateState(p) ==
  /\ p.yes \in 0..MAX_OUTCOME_QUANTITY /\ p.no \in 0..MAX_OUTCOME_QUANTITY
  /\ abs_diff(p.yes, p.no) <= Liquidity * MAX_IMBALANCE_MULTIPLIER

moved(direction, p, side, shares) ==
  IF direction = "buy" THEN increase(p, side, shares) ELSE decrease(p, side, shares)

quoteFee(raw, shares) ==
  LET price == MinOf(mul_div_floor(raw, FIXED_SCALE, shares), FIXED_SCALE)
      curvature == mul_div_floor(price, FIXED_SCALE - price, FIXED_SCALE)
  IN  divCeil(shares * TradeFeeBps * curvature, FeeDenominator * FIXED_SCALE)

\* The amount of quoteLmsrBuy or quoteLmsrSell; zero or less stands for a throw.
quoteTotal(direction, p, side, shares) ==
  LET change == lmsrCostFixed(moved(direction, p, side, shares)) - lmsrCostFixed(p)
      raw == IF direction = "buy" THEN divCeil(change, FIXED_SCALE) ELSE (-change) \div FIXED_SCALE
  IN  IF raw <= 0 THEN 0
      ELSE IF direction = "buy" THEN raw + quoteFee(raw, shares) ELSE raw - quoteFee(raw, shares)

\* The client's own limit on the shares of a trade is above every market's.
quoted(direction, p, side, shares) ==
  /\ shares >= MIN_TRADE_SHARES
  /\ validateState(moved(direction, p, side, shares))
  /\ quoteTotal(direction, p, side, shares) > 0

----------------------------------------------------------------------------
(* The panel and the trade it sends.                                       *)

amountGuard(direction, total, slippage) ==
  IF direction = "buy" THEN (total * (10000 + slippage) + 9999) \div 10000
                       ELSE (total * (10000 - slippage)) \div 10000

exceedsTradeLimit(shares) == shares > MaxTradeShares

\* The button is pressed on a quote of the account as it was read last.
submit(direction, side, shares, slippage) ==
  /\ ticket.pc = "idle" /\ open
  /\ quoted(direction, quantities, side, shares) /\ ~exceedsTradeLimit(shares)
  /\ ticket' = [pc |-> "fetching", direction |-> direction, side |-> side, shares |-> shares,
                quantities |-> quantities, total |-> quoteTotal(direction, quantities, side, shares),
                guard |-> amountGuard(direction, quoteTotal(direction, quantities, side, shares), slippage)]
  /\ UNCHANGED <<security_cap, quantities, open>>

\* The account is read again: the phase is looked at, the quantities are not.
fetchCurrent ==
  /\ ticket.pc = "fetching"
  /\ ticket' = IF open THEN [ticket EXCEPT !.pc = "sent"] ELSE Idle
  /\ UNCHANGED <<security_cap, quantities, open>>

\* What a payout may come to before it is worth more than the proposer's bond.
\* The panel shows no such limit and does not check it.
within_security_cap(after) == MaxOf(after.yes, after.no) <= security_cap

\* What buy_hybrid_shares and sell_hybrid_shares require, and what they pay. The
\* vault a buy requires to cover the payout does so in every state (HybridMarket);
\* the owner's tokens and the two minutes of deadline_ts are left out.
program_total(t) ==
  IF t.direction = "buy" THEN quote_buy(quantities, t.side, t.shares).total
                         ELSE quote_sell(quantities, t.side, t.shares).total
accepted(t) ==
  /\ open
  /\ IF t.direction = "buy"
     THEN /\ quote_buy_ok(quantities, t.side, t.shares) /\ program_total(t) <= t.guard
          /\ within_security_cap(quote_buy(quantities, t.side, t.shares).after)
     ELSE quote_sell_ok(quantities, t.side, t.shares) /\ program_total(t) >= t.guard

land ==
  /\ ticket.pc = "sent" /\ accepted(ticket)
  /\ quantities' = moved(ticket.direction, quantities, ticket.side, ticket.shares)
  /\ ticket' = Idle /\ UNCHANGED <<security_cap, open>>

\* Refused by the program, the wallet or the network.
fail == ticket.pc = "sent" /\ ticket' = Idle /\ UNCHANGED <<security_cap, quantities, open>>

lock == open /\ open' = FALSE /\ UNCHANGED <<security_cap, quantities, ticket>>

\* While a ticket is out, another trader trades at most once.
others ==
  /\ open /\ (ticket.pc # "idle" => quantities = ticket.quantities)
  /\ \E side \in {YES, NO}, shares \in 1..MaxShares :
       /\ quote_buy_ok(quantities, side, shares)
       /\ within_security_cap(quote_buy(quantities, side, shares).after)
       /\ quantities' = quote_buy(quantities, side, shares).after
  /\ UNCHANGED <<security_cap, open, ticket>>

\* initialize_hybrid_market refuses a bond below the subsidy.
PanelInit ==
  /\ security_cap \in {cap \in SecurityCaps : required_subsidy <= cap}
  /\ quantities = [yes |-> 0, no |-> 0] /\ open = TRUE /\ ticket = Idle

PanelNext ==
  \/ \E direction \in {"buy", "sell"}, side \in {YES, NO}, shares \in 1..MaxShares + 1,
        slippage \in SlippageBps : submit(direction, side, shares, slippage)
  \/ fetchCurrent \/ land \/ fail \/ lock \/ others

PanelSpec == PanelInit /\ [][PanelNext]_panelVars

\* The cost lies between the larger quantity and that plus b * ln 2: the
\* market maker's loss is bounded by the subsidy.
CostBounds ==
  LET m == MaxOf(quantities.yes, quantities.no) * FIXED_SCALE
  IN  m <= cost_fixed(quantities) /\ cost_fixed(quantities) <= m + Liquidity * LN_2_FIXED

\* No round trip pays: whatever a buy of shares costs, selling them back, in
\* one sale or in two, returns at most as much.
NoRoundTripGain ==
  \A side \in {YES, NO}, shares \in 1..MaxShares :
    quote_buy_ok(quantities, side, shares) =>
      LET bought == quote_buy(quantities, side, shares)
      IN  \A first \in 1..shares :
            LET mid == decrease(bought.after, side, first)
            IN  sell_raw(bought.after, mid) + sell_raw(mid, quantities) <= bought.raw

\* The panel and the program price with two implementations of one curve. As
\* long as nobody moved the market and it is open, the trade the panel offered
\* is priced at exactly the amount shown, and it is accepted under the smallest
\* slippage limit; only a buy that would take the market past its resolver's
\* security cap is refused, which is the one limit the panel does not know.
QuoteHonoured ==
  ticket.pc = "sent" /\ open /\ quantities = ticket.quantities =>
    /\ program_total(ticket) = ticket.total
    /\ accepted(ticket) <=>
         \/ ticket.direction = "sell"
         \/ within_security_cap(increase(quantities, ticket.side, ticket.shares))

\* A ticket that is out holds the quote it was made from, at quantities that
\* validate_state has accepted, as the market's own always are.
QuotedAt(t) ==
  /\ t \in [pc : {"fetching", "sent"}, direction : {"buy", "sell"}, side : {YES, NO},
            shares : 1..MaxShares + 1, quantities : [yes : Nat, no : Nat], total : Int, guard : Int]
  /\ validateState(t.quantities)
  /\ quoted(t.direction, t.quantities, t.side, t.shares) /\ ~exceedsTradeLimit(t.shares)
  /\ t.total = quoteTotal(t.direction, t.quantities, t.side, t.shares)
  /\ \E slippage \in SlippageBps : t.guard = amountGuard(t.direction, t.total, slippage)

PanelIInv ==
  /\ quantities \in [yes : Nat, no : Nat] /\ validateState(quantities)
  /\ ticket = Idle \/ QuotedAt(ticket)
=============================================================================
