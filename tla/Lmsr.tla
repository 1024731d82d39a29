-------------------------------- MODULE Lmsr --------------------------------
(***************************************************************************)
(* programs/nortia/src/lmsr.rs: the fixed-point logarithmic market scoring *)
(* rule.  Every function that can return an LmsrError is a value plus the  *)
(* predicate under which the code returns it.  With the limits of lmsr.rs  *)
(* no intermediate u128 product overflows, so width is not modelled.       *)
(***************************************************************************)
EXTENDS Integers

CONSTANTS
  FIXED_SCALE,               \* one, in fixed point
  LN_2_FIXED,
  Liquidity,                 \* market.liquidity_parameter, b
  RoundingReserve,           \* market.rounding_reserve
  TradeFeeBps,               \* market.trade_fee_bps
  FeeDenominator,            \* 10_000
  MIN_TRADE_SHARES,
  MaxTradeShares,            \* market.max_trade_shares
  MAX_OUTCOME_QUANTITY,
  MAX_IMBALANCE_MULTIPLIER

ASSUME LmsrAssumption ==
  /\ FIXED_SCALE \in Nat /\ FIXED_SCALE > 0
  /\ LN_2_FIXED \in Nat /\ LN_2_FIXED > 0
  /\ Liquidity \in Nat /\ Liquidity > 0
  /\ RoundingReserve \in Nat
  /\ TradeFeeBps \in Nat
  /\ FeeDenominator \in Nat /\ FeeDenominator > 0
  /\ MIN_TRADE_SHARES \in Nat /\ MIN_TRADE_SHARES > 0
  /\ MaxTradeShares \in Nat
  /\ MAX_OUTCOME_QUANTITY \in Nat
  /\ MAX_IMBALANCE_MULTIPLIER \in Nat

YES == 1
NO == 0

MaxOf(a, b) == IF a >= b THEN a ELSE b
MinOf(a, b) == IF a <= b THEN a ELSE b
abs_diff(a, b) == IF a >= b THEN a - b ELSE b - a

mul_div_floor(a, b, d) == (a * b) \div d

\* Deviation: the quotient rounded down.
div_ceil_down(x, d) == x \div d

div_ceil(x, d) == IF x % d = 0 THEN x \div d ELSE (x \div d) + 1

----------------------------------------------------------------------------
(* exp(-value) and ln(1 + value): the truncated series of lmsr.rs.         *)

MaxImbalance == Liquidity * MAX_IMBALANCE_MULTIPLIER

\* Deviation: the series without its alternating signs.
exp_sign_positive(i) == 1

exp_sign(i) == IF i % 2 = 1 THEN -1 ELSE 1

\* The terms of the series, and its sums, for every number of rounds of the loop.
exp_terms(remainder) ==
  LET term[i \in 0..22] ==
        IF i = 0 THEN FIXED_SCALE
        ELSE mul_div_floor(term[i - 1], remainder, FIXED_SCALE) \div i
  IN  term

exp_sums(remainder) ==
  LET term == exp_terms(remainder)
      sum[i \in 0..22] ==
        IF i = 0 THEN FIXED_SCALE ELSE sum[i - 1] + exp_sign(i) * term[i]
  IN  sum

\* value >> power: halved power times.
halves(value, power) ==
  LET half[i \in 0..power] == IF i = 0 THEN value ELSE half[i - 1] \div 2
  IN  half

shift_right(value, power) == halves(value, power)[power]

exp_negative_fixed(value) ==
  IF value \div LN_2_FIXED > 127 THEN 0
  ELSE shift_right(exp_sums(value % LN_2_FIXED)[22], value \div LN_2_FIXED)

ln_denominator(i) == 2 * i + 1                    \* 3, 5, ..., 33

ln_powers(ratio) ==
  LET squared == mul_div_floor(ratio, ratio, FIXED_SCALE)
      power[i \in 0..16] ==
        IF i = 0 THEN ratio ELSE mul_div_floor(power[i - 1], squared, FIXED_SCALE)
  IN  power

ln_sums(ratio) ==
  LET power == ln_powers(ratio)
      sum[i \in 0..16] ==
        IF i = 0 THEN ratio ELSE sum[i - 1] + power[i] \div ln_denominator(i)
  IN  sum

ln_one_plus_fixed(value) ==
  2 * ln_sums(mul_div_floor(value, FIXED_SCALE, 2 * FIXED_SCALE + value))[16]

tail(difference) ==
  exp_negative_fixed(mul_div_floor(difference, FIXED_SCALE, Liquidity))

\* softplus[d] is ln(1 + exp(-d / b)) for every imbalance validate_state allows.
softplus == [d \in 0..MaxImbalance |-> ln_one_plus_fixed(tail(d))]

\* The constants of lmsr.rs: the logarithm of two is below one, and the series
\* for it stops at or below the value the subsidy is computed from.
ASSUME SeriesAssumption ==
  /\ LN_2_FIXED <= FIXED_SCALE
  /\ ln_one_plus_fixed(FIXED_SCALE) <= LN_2_FIXED

----------------------------------------------------------------------------
(* Quotes.  A pair of quantities is a record [yes, no].                    *)

required_subsidy == div_ceil(Liquidity * LN_2_FIXED, FIXED_SCALE) + RoundingReserve

validate_state(q) ==
  /\ q.yes <= MAX_OUTCOME_QUANTITY /\ q.no <= MAX_OUTCOME_QUANTITY
  /\ abs_diff(q.yes, q.no) <= MaxImbalance

validate_trade(shares) == MIN_TRADE_SHARES <= shares /\ shares <= MaxTradeShares

cost_fixed(q) ==
  MaxOf(q.yes, q.no) * FIXED_SCALE + Liquidity * softplus[abs_diff(q.yes, q.no)]

increase(q, side, shares) ==
  IF side = YES THEN [q EXCEPT !.yes = @ + shares] ELSE [q EXCEPT !.no = @ + shares]

decrease(q, side, shares) ==
  IF side = YES THEN [q EXCEPT !.yes = @ - shares] ELSE [q EXCEPT !.no = @ - shares]

\* What a buy costs and a sale returns before the fee: rounded in the
\* market's favour both times.
buy_raw(before, after) == div_ceil(cost_fixed(after) - cost_fixed(before), FIXED_SCALE)

\* Deviation: a sale's proceeds rounded up.
sell_raw_up(before, after) == div_ceil(cost_fixed(before) - cost_fixed(after), FIXED_SCALE)

sell_raw(before, after) == (cost_fixed(before) - cost_fixed(after)) \div FIXED_SCALE

fee_amount(raw, shares) ==
  LET price == MinOf(mul_div_floor(raw, FIXED_SCALE, shares), FIXED_SCALE)
      curvature == mul_div_floor(price, FIXED_SCALE - price, FIXED_SCALE)
  IN  div_ceil(shares * TradeFeeBps * curvature, FeeDenominator * FIXED_SCALE)

\* quote_buy and quote_sell, with the conditions under which they are not an
\* error.  checked_sub makes a buy at a falling cost an error.
quote_buy(q, side, shares) ==
  LET after == increase(q, side, shares)
      raw == buy_raw(q, after)
  IN  [after |-> after, raw |-> raw, fee |-> fee_amount(raw, shares),
       total |-> raw + fee_amount(raw, shares)]

quote_buy_ok(q, side, shares) ==
  LET after == increase(q, side, shares)
  IN  /\ validate_trade(shares)
      /\ validate_state(after)
      /\ cost_fixed(after) >= cost_fixed(q)
      /\ buy_raw(q, after) > 0

quote_sell(q, side, shares) ==
  LET after == decrease(q, side, shares)
      raw == sell_raw(q, after)
  IN  [after |-> after, raw |-> raw, fee |-> fee_amount(raw, shares),
       total |-> raw - fee_amount(raw, shares)]

quote_sell_ok(q, side, shares) ==
  LET after == decrease(q, side, shares)
      raw == sell_raw(q, after)
  IN  /\ validate_trade(shares)
      /\ after.yes >= 0 /\ after.no >= 0
      /\ validate_state(after)
      /\ cost_fixed(q) >= cost_fixed(after)
      /\ raw > 0
      /\ raw > fee_amount(raw, shares)
=============================================================================
