---------------------------- MODULE HybridPages ----------------------------
(***************************************************************************)
(* The portfolio page of the public markets: the rows of the traders'       *)
(* positions, and the console that tells the liquidity owner what can be    *)
(* withdrawn. The console reads the market and, in a later request, the     *)
(* vault's balance, while traders settle and strangers send tokens.         *)
(***************************************************************************)
EXTENDS HybridMarket

VARIABLE console         \* the liquidity console's refresh

pageVars == <<vars, console>>
Refreshed == [pc |-> "idle", liability |-> 0, shown |-> 0, payable |-> 0]

\* Deviation: the half share of an invalid market is rounded up.
hybridPositionPayout_up(t) ==
  CASE outcome = YES     -> yes_shares[t]
    [] outcome = NO      -> no_shares[t]
    [] outcome = INVALID -> (yes_shares[t] + no_shares[t] + 1) \div 2
    [] OTHER             -> 0

hybridPositionPayout(t) ==
  CASE outcome = YES     -> yes_shares[t]
    [] outcome = NO      -> no_shares[t]
    [] outcome = INVALID -> (yes_shares[t] + no_shares[t]) \div 2
    [] OTHER             -> 0

hybridPositionStatus(t) ==
  CASE t \in settled -> "settled"
    [] t \notin settled /\ phase # "Resolved" -> "waiting"
    [] t \notin settled /\ phase = "Resolved" /\ hybridPositionPayout(t) > 0 -> "claimable"
    [] OTHER -> "lost"

\* Deviation: what can be withdrawn is computed in every phase.
readMarket_any_phase ==
  /\ console.pc = "idle" /\ phase # "None"
  /\ console' = [Refreshed EXCEPT !.pc = "balance", !.liability = outstanding_liability]
  /\ UNCHANGED vars

\* The market is read; only a resolved one has something to withdraw.
readMarket ==
  /\ console.pc = "idle" /\ phase = "Resolved"
  /\ console' = [Refreshed EXCEPT !.pc = "balance", !.liability = outstanding_liability]
  /\ UNCHANGED vars

\* The balance is read. A settlement since has taken from the vault what the
\* liability read before still counts: withdrawableHybridLiquidity throws if
\* that leaves the vault short, and the whole refresh fails.
readBalance ==
  /\ console.pc = "balance"
  /\ console' = IF vault < console.liability THEN Refreshed
                ELSE [Refreshed EXCEPT !.shown = vault - console.liability,
                                       !.payable = IF phase \in {"Resolved", "Closed"}
                                                   THEN vault - outstanding_liability ELSE 0]
  /\ UNCHANGED vars

PagesInit == Init /\ console = Refreshed
PagesNext == (Next /\ UNCHANGED console) \/ readMarket \/ readBalance
PagesSpec == PagesInit /\ [][PagesNext]_pageVars

ConsoleType ==
  console \in [pc : {"idle", "balance"}, liability : Nat, shown : Nat, payable : Nat]

\* The inductive invariant of the console: between its two requests the market
\* stays decided, and what it owes only falls.
PagesIInv ==
  /\ IInv /\ ConsoleType
  /\ console.pc = "balance" =>
       phase \in Decided /\ outstanding_liability <= console.liability
  /\ console.shown <= console.payable

\* A row that says "claimable" is one the program settles, for the amount the
\* row shows; and no position with something to claim is shown otherwise.
PortfolioMatches ==
  \A t \in opened :
    hybridPositionStatus(t) = "claimable" <=>
      /\ phase = "Resolved" /\ t \notin settled
      /\ hybrid_position_payout(t) > 0
      /\ hybridPositionPayout(t) = hybrid_position_payout(t)
      /\ outstanding_liability >= hybridPositionPayout(t) /\ vault >= hybridPositionPayout(t)

\* hybrid-portfolio.tsx, "Only collateral above unresolved trader liability is
\* withdrawable": what the console shows is never more than what no trader had
\* a claim on when the balance was read, whatever was settled, withdrawn or sent
\* between its two requests. (It may still show a stray deposit to a market
\* that closed between them, which the program no longer pays.)
WithdrawableNeverOverstated == console.shown <= console.payable
=============================================================================
