-------------------------- MODULE OptimisticMarket --------------------------
(***************************************************************************)
(* A public market whose resolver is OracleResolver::Optimistic: a bonded  *)
(* proposal, one bonded challenge, the committee's arbitration, the        *)
(* timeouts, and the claims on the bond vault.  Everything else is         *)
(* HybridMarket, which this specification implements.                      *)
(*                                                                         *)
(* Evidence hashes and URIs are the caller's to get right; a call that     *)
(* carries wrong ones changes nothing and is left out.                     *)
(***************************************************************************)
EXTENDS HybridMarket

CONSTANTS
  Wallets,             \* keys that may propose, challenge and claim
  TreasuryOwner,       \* market.treasury_owner
  NoKey,               \* Pubkey::default()
  Committee,           \* protocol.committee
  Threshold,           \* COMMITTEE_THRESHOLD
  DisputeFeeBps,       \* OPTIMISTIC_DISPUTE_FEE_BPS, of FeeDenominator
  ObservationTs, ObservationWindow, ChallengePeriod

ASSUME OptimisticAssumption ==
  /\ TreasuryOwner \in Wallets /\ NoKey \notin Wallets
  /\ DisputeFeeBps \in 0..FeeDenominator
  /\ ObservationTs \in Nat /\ ObservationTs >= ResolveNotBefore
  /\ ObservationWindow \in Nat
  /\ ChallengePeriod \in Nat

\* initialize_hybrid_market sets the security cap to the bond.
BondAmount == SecurityCap

VARIABLES
  proposer, challenger,                   \* NoKey until set
  proposed_outcome, challenged_outcome,
  challenge_deadline,
  finalized,
  payout,                                 \* proposal.{role}_payout
  claimed,                                \* roles with proposal.{role}_claimed
  bond_vault                              \* bond_vault.amount

proposalVars == <<proposer, challenger, proposed_outcome, challenged_outcome,
                  challenge_deadline>>
bondVars == <<finalized, payout, claimed, bond_vault>>
optVars == <<proposalVars, bondVars>>
marketRest == <<now, quantityVars, vault, opened, positionVars, settled,
                resolutionVars, liabilityVars, donated>>

Roles == {"proposer", "challenger", "treasury"}

holder(role) ==
  CASE role = "proposer"   -> proposer
    [] role = "challenger" -> challenger
    [] role = "treasury"   -> TreasuryOwner

verify_committee_quorum(signers) == Cardinality(signers \cap Committee) >= Threshold

----------------------------------------------------------------------------
OptInit ==
  /\ Init
  /\ proposer = NoKey /\ challenger = NoKey
  /\ proposed_outcome = UNSET /\ challenged_outcome = UNSET
  /\ challenge_deadline = 0
  /\ finalized = FALSE
  /\ payout = [r \in Roles |-> 0]
  /\ claimed = {}
  /\ bond_vault = 0

\* Deviation: a proposal may come before the market is ready for one.
validate_optimistic_proposal_early(out) ==
  /\ phase \in {"Open", "Locked"}
  /\ now <= ResolutionDeadline
  /\ now <= ObservationTs + ObservationWindow
  /\ out \in {YES, NO}
  /\ proposer = NoKey
  /\ ~consumed
  /\ now + ChallengePeriod < ResolutionDeadline

validate_optimistic_proposal(out) ==
  /\ phase \in {"Open", "Locked"}
  /\ now >= LockTs
  /\ now >= ResolveNotBefore
  /\ now >= ObservationTs
  /\ now <= ResolutionDeadline
  /\ now <= ObservationTs + ObservationWindow
  /\ out \in {YES, NO}
  /\ proposer = NoKey
  /\ ~consumed
  /\ now + ChallengePeriod < ResolutionDeadline

ProposeOptimisticResolution(k, out) ==
  /\ validate_optimistic_proposal(out)
  /\ proposer' = k
  /\ proposed_outcome' = out
  /\ challenge_deadline' = now + ChallengePeriod
  /\ phase' = "Resolving"
  /\ bond_vault' = bond_vault + BondAmount
  /\ UNCHANGED <<marketRest, challenger, challenged_outcome, finalized, payout, claimed>>

validate_optimistic_challenge(k, out) ==
  /\ phase = "Resolving" /\ ~finalized
  /\ now <= challenge_deadline
  /\ challenger = NoKey
  /\ k # proposer
  /\ out # proposed_outcome
  /\ out \in {YES, NO}

ChallengeOptimisticResolution(k, out) ==
  /\ validate_optimistic_challenge(k, out)
  /\ bond_vault' = bond_vault + BondAmount
  /\ challenger' = k
  /\ challenged_outcome' = out
  /\ phase' = "Disputed"
  /\ UNCHANGED <<marketRest, proposer, proposed_outcome, challenge_deadline,
                 finalized, payout, claimed>>

deposited_bonds == IF challenger = NoKey THEN BondAmount ELSE 2 * BondAmount

record_optimistic_payouts(p, c, t) ==
  /\ ~finalized /\ claimed = {}
  /\ \A r \in Roles : payout[r] = 0
  /\ p + c + t = deposited_bonds
  /\ payout' = [r \in Roles |-> CASE r = "proposer"   -> p
                                  [] r = "challenger" -> c
                                  [] r = "treasury"   -> t]

\* The market is resolved and the bonds divided in one instruction.
Decide(out, timeout, p, c, t) ==
  /\ finalize_hybrid_resolution(out, timeout)
  /\ record_optimistic_payouts(p, c, t)
  /\ finalized' = TRUE
  /\ UNCHANGED <<proposalVars, claimed, bond_vault>>

past_deadline == now > ResolutionDeadline

\* Deviation: the last second of the challenge window counts as elapsed.
window_elapsed_early == now >= challenge_deadline

window_elapsed == now > challenge_deadline

\* optimistic_finalize_outcome: unchallenged, the proposal stands once the
\* window is over, but a finalization after the hard deadline is INVALID.
FinalizeOptimisticResolution ==
  /\ phase = "Resolving" /\ ~finalized /\ challenger = NoKey
  /\ IF past_deadline
     THEN Decide(INVALID, TRUE, BondAmount, 0, 0)
     ELSE /\ window_elapsed
          /\ Decide(proposed_outcome, FALSE, BondAmount, 0, 0)

treasury_fee == (BondAmount * DisputeFeeBps) \div FeeDenominator
winner_payout == 2 * BondAmount - treasury_fee

\* Deviation: a dispute nobody challenged.
dispute_pending_unchallenged == phase = "Disputed" /\ ~finalized /\ challenger = NoKey

dispute_pending == phase = "Disputed" /\ ~finalized /\ challenger # NoKey

proposer_wins(out) == out = proposed_outcome

ArbitrateOptimisticResolution(out) ==
  /\ dispute_pending
  /\ ~past_deadline
  /\ out \in {proposed_outcome, challenged_outcome}
  /\ \E signers \in SUBSET Committee : verify_committee_quorum(signers)
  /\ IF proposer_wins(out)
     THEN Decide(out, FALSE, winner_payout, 0, treasury_fee)
     ELSE Decide(out, FALSE, 0, winner_payout, treasury_fee)

TimeoutOptimisticDispute ==
  /\ dispute_pending
  /\ past_deadline
  /\ Decide(INVALID, TRUE, BondAmount, BondAmount, 0)

\* resolve_hybrid_timeout is for markets nobody proposed an outcome for.
ResolveUnproposed ==
  /\ proposer = NoKey
  /\ ResolveHybridTimeout
  /\ UNCHANGED optVars

\* Deviations: a role may claim again; the treasury's share is forgotten; one
\* role is claimed at a time.
claimable_again(k) == {r \in Roles : holder(r) = k /\ payout[r] > 0}
claimable_bonders(k) ==
  {r \in {"proposer", "challenger"} : holder(r) = k /\ payout[r] > 0 /\ r \notin claimed}
\* prepare_optimistic_bond_claim: everything due to one key in all its roles.
claimable(k) == {r \in Roles : holder(r) = k /\ payout[r] > 0 /\ r \notin claimed}

Due(roles) ==
  LET of(r) == IF r \in roles THEN payout[r] ELSE 0
  IN  of("proposer") + of("challenger") + of("treasury")

ClaimOptimisticBond(k) ==
  LET roles == claimable(k)
  IN  /\ finalized
      /\ Due(roles) > 0
      /\ bond_vault >= Due(roles)            \* else the token transfer fails
      /\ claimed' = claimed \cup roles
      /\ bond_vault' = bond_vault - Due(roles)
      /\ UNCHANGED <<phase, marketRest, proposalVars, finalized, payout>>

OptNext ==
  \/ MarketStep /\ UNCHANGED optVars
  \/ ResolveUnproposed
  \/ FinalizeOptimisticResolution
  \/ TimeoutOptimisticDispute
  \/ \E out \in {YES, NO} : ArbitrateOptimisticResolution(out)
  \/ \E k \in Wallets :
       \/ ClaimOptimisticBond(k)
       \/ \E out \in {YES, NO} :
            ProposeOptimisticResolution(k, out) \/ ChallengeOptimisticResolution(k, out)

optAll == <<vars, optVars>>

OptSpec == OptInit /\ [][OptNext]_optAll

\* Time passes, the permissionless instructions are called, and bond winners,
\* position owners and the liquidity owner collect; nobody has to propose,
\* challenge or arbitrate.
OptFairness ==
  /\ WF_optAll(Tick /\ UNCHANGED optVars)
  /\ WF_optAll(ResolveUnproposed)
  /\ WF_optAll(FinalizeOptimisticResolution)
  /\ WF_optAll(TimeoutOptimisticDispute)
  /\ \A k \in Wallets : WF_optAll(ClaimOptimisticBond(k))
  /\ \A t \in Traders : WF_optAll(SettleHybridPosition(t) /\ UNCHANGED optVars)
  /\ WF_optAll(WithdrawHybridLiquidity /\ UNCHANGED optVars)

OptFairSpec == OptSpec /\ OptFairness

----------------------------------------------------------------------------
\* The bond vault holds exactly the bonds deposited until the decision, and
\* afterwards exactly what is still to be claimed, in whatever order the
\* claims come and whichever roles one key holds.
BondsCovered ==
  bond_vault =
    IF finalized THEN Due(Roles \ claimed)
    ELSE IF proposer = NoKey THEN 0 ELSE deposited_bonds

\* A decisive outcome is an assertion somebody bonded: one that stood
\* unchallenged for the whole window, or one of the two sides of a dispute;
\* and it is never decided after the hard deadline.
OutcomeJustified ==
  (phase \in Decided /\ outcome # INVALID) =>
    /\ finalized
    /\ settled_at <= ResolutionDeadline
    /\ challenger = NoKey => outcome = proposed_outcome /\ settled_at > challenge_deadline
    /\ challenger # NoKey => outcome \in {proposed_outcome, challenged_outcome}

\* The optimistic market is a public market: a pending proposal is a locked
\* market, and every decision one the public market allows.
BasePhase == IF phase \in {"Resolving", "Disputed"} THEN "Locked" ELSE phase
Base == INSTANCE HybridMarket WITH phase <- BasePhase
ImplementsHybridMarket == Base!Spec

\* Every bond is paid out in the end.
BondsReturned == proposer # NoKey ~> (finalized /\ bond_vault = 0)

----------------------------------------------------------------------------
(* The inductive invariant.                                                *)

\* The type of every variable of the proposal account and the bond vault.
OptTypeOK ==
  /\ now \in Nat
  /\ phase \in {"None", "Open", "Locked", "Resolving", "Disputed", "Resolved", "Closed"}
  /\ proposer \in Wallets \cup {NoKey} /\ challenger \in Wallets \cup {NoKey}
  /\ proposed_outcome \in {YES, NO, UNSET} /\ challenged_outcome \in {YES, NO, UNSET}
  /\ challenge_deadline \in Nat
  /\ finalized \in BOOLEAN
  /\ payout \in [Roles -> Nat]
  /\ claimed \in SUBSET Roles
  /\ bond_vault \in Nat

\* Which fields of the proposal each phase of the market can have.
ProposalFacts ==
  /\ phase \in {"None", "Open", "Locked"} => proposer = NoKey
  /\ phase = "Resolving" =>
       proposer # NoKey /\ challenger = NoKey /\ challenge_deadline < ResolutionDeadline
  /\ phase = "Disputed" => proposer # NoKey /\ challenger # NoKey
  /\ finalized <=> phase \in Decided /\ proposer # NoKey
  /\ proposer = NoKey => challenger = NoKey
  /\ proposer # NoKey => proposed_outcome # UNSET
  /\ challenger # NoKey => challenged_outcome \notin {UNSET, proposed_outcome}
  /\ ~finalized => claimed = {} /\ \A r \in Roles : payout[r] = 0

OptIInv == OptTypeOK /\ ProposalFacts /\ BondsCovered /\ OutcomeJustified
=============================================================================
