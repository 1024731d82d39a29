----------------------- MODULE OptimisticMarketProofs -----------------------
(***************************************************************************)
(* Theorems about OptimisticMarket and OptimisticPanel, for every value of  *)
(* the constants: the bonds, the outcome, the panel's offers, and the       *)
(* refinement of HybridMarket, with what the public market's own theorems   *)
(* give a disputed market through it.                                       *)
(***************************************************************************)
EXTENDS OptimisticPanel, TLAPS

-----------------------------------------------------------------------------
(* The bond vault.                                                         *)

\* prepare_optimistic_bond_claim adds up the payouts of the roles it is given;
\* LET-free, for the provers.
LEMMA DueSum ==
  ASSUME NEW roles \in SUBSET Roles, payout \in [Roles -> Nat]
  PROVE  /\ Due(roles) = (IF "proposer" \in roles THEN payout["proposer"] ELSE 0)
                         + (IF "challenger" \in roles THEN payout["challenger"] ELSE 0)
                         + (IF "treasury" \in roles THEN payout["treasury"] ELSE 0)
         /\ Due(roles) \in Nat
<1>1. payout["proposer"] \in Nat /\ payout["challenger"] \in Nat /\ payout["treasury"] \in Nat
  BY DEF Roles
<1>2. QED
  BY <1>1 DEF Due

\* A claim takes from what is due to the unclaimed roles exactly its own part.
LEMMA DueSplit ==
  ASSUME NEW roles \in SUBSET (Roles \ claimed), payout \in [Roles -> Nat], claimed \in SUBSET Roles
  PROVE  Due(Roles \ (claimed \cup roles)) = Due(Roles \ claimed) - Due(roles)
<1>1. payout["proposer"] \in Nat /\ payout["challenger"] \in Nat /\ payout["treasury"] \in Nat
  BY DEF Roles
<1> DEFINE part(r, s) == IF r \in s THEN payout[r] ELSE 0
           rest == Roles \ claimed
           left == Roles \ (claimed \cup roles)
<1>2. \A r \in Roles : part(r, left) = part(r, rest) - part(r, roles)
  <2> SUFFICES ASSUME NEW r \in Roles
               PROVE  part(r, left) = part(r, rest) - part(r, roles)
    OBVIOUS
  <2>1. payout[r] \in Nat
    OBVIOUS
  <2>2. QED
    BY <2>1
<1>3. rest \in SUBSET Roles /\ left \in SUBSET Roles /\ roles \in SUBSET Roles
  OBVIOUS
<1>4. \A s \in SUBSET Roles :
        /\ Due(s) = part("proposer", s) + part("challenger", s) + part("treasury", s)
        /\ part("proposer", s) \in Nat /\ part("challenger", s) \in Nat /\ part("treasury", s) \in Nat
  BY <1>1, DueSum
<1>5. /\ part("proposer", left) = part("proposer", rest) - part("proposer", roles)
      /\ part("challenger", left) = part("challenger", rest) - part("challenger", roles)
      /\ part("treasury", left) = part("treasury", rest) - part("treasury", roles)
  BY <1>2 DEF Roles
<1> HIDE DEF part, rest, left
<1>6. Due(left) = Due(rest) - Due(roles)
  BY <1>3, <1>4, <1>5
<1>7. QED
  BY <1>6 DEF rest, left

LEMMA OptConstantFacts ==
  /\ BondAmount \in Nat
  /\ treasury_fee \in Nat /\ treasury_fee <= BondAmount
  /\ winner_payout \in Nat
  /\ winner_payout + treasury_fee = 2 * BondAmount
  /\ YES # NO /\ YES # INVALID /\ NO # INVALID /\ UNSET \notin {YES, NO, INVALID}
  /\ NoKey \notin Wallets /\ TreasuryOwner \in Wallets
  /\ ChallengePeriod \in Nat /\ ResolutionDeadline \in Nat
<1>1. BondAmount \in Nat /\ DisputeFeeBps \in Nat /\ DisputeFeeBps <= FeeDenominator /\ FeeDenominator \in Nat /\ FeeDenominator > 0
  BY HybridAssumption, OptimisticAssumption, LmsrAssumption DEF BondAmount
<1>2. \A b, d, f \in Nat : d <= f /\ f > 0 => (b * d) \div f \in Nat /\ (b * d) \div f <= b
  <2> SUFFICES ASSUME NEW b \in Nat, NEW d \in Nat, NEW f \in Nat, d <= f, f > 0
               PROVE  (b * d) \div f \in Nat /\ (b * d) \div f <= b
    OBVIOUS
  <2>1. b * d \in Nat /\ b * d <= b * f
    OBVIOUS
  <2>2. QED
    BY <2>1
<1>3. treasury_fee \in Nat /\ treasury_fee <= BondAmount
  BY <1>1, <1>2 DEF treasury_fee
<1>4. QED
  BY <1>1, <1>3, HybridAssumption, OptimisticAssumption DEF winner_payout, YES, NO, INVALID, UNSET

-----------------------------------------------------------------------------
(* The inductive invariant, one lemma per group of instructions.           *)

LEMMA OptInitInv == OptInit => OptIInv
<1> SUFFICES ASSUME OptInit
             PROVE  OptIInv
  OBVIOUS
<1>1. OptTypeOK
  BY DEF OptInit, Init, OptTypeOK
<1>2. ProposalFacts
  BY OptConstantFacts DEF OptInit, Init, ProposalFacts, Decided
<1>3. BondsCovered
  BY DEF OptInit, BondsCovered
<1>4. OutcomeJustified
  BY DEF OptInit, Init, OutcomeJustified, Decided
<1>5. QED
  BY <1>1, <1>2, <1>3, <1>4 DEF OptIInv

\* The market's own instructions never touch the proposal, and reach no phase
\* but the ones an unproposed market or a decided one has.
LEMMA MarketStepShape ==
  ASSUME MarketStep, now \in Nat
  PROVE  /\ now' \in Nat
         /\ UNCHANGED resolutionVars
         /\ \/ phase' = phase
            \/ phase = "None" /\ phase' = "Open"
            \/ phase = "Open" /\ phase' = "Locked"
            \/ phase = "Resolved" /\ phase' = "Closed"
<1>1. CASE Tick
  BY <1>1 DEF Tick, resolutionVars
<1>2. CASE Donate
  BY <1>2 DEF Donate, resolutionVars
<1>3. CASE InitializeHybridMarket
  BY <1>3 DEF InitializeHybridMarket, resolutionVars
<1>4. CASE LockHybridMarket
  BY <1>4 DEF LockHybridMarket, resolutionVars
<1>5. CASE WithdrawHybridLiquidity
  BY <1>5 DEF WithdrawHybridLiquidity, close_hybrid_market_if_drained, resolutionVars
<1>6. ASSUME NEW t \in Traders, InitializePosition(t) \/ SettleHybridPosition(t)
      PROVE  /\ now' = now /\ UNCHANGED resolutionVars
             /\ phase' = phase \/ (phase = "Resolved" /\ phase' = "Closed")
  BY <1>6 DEF InitializePosition, SettleHybridPosition, close_hybrid_market_if_drained, resolutionVars
<1>7. ASSUME NEW t \in Traders, NEW side \in {YES, NO}, NEW shares \in 1..MaxTradeShares,
             \/ BuyHybridShares(t, side, shares)
             \/ \E same_account \in BOOLEAN : SellHybridShares(t, side, shares, same_account)
      PROVE  UNCHANGED <<now, phase, resolutionVars>>
  BY <1>7 DEF BuyHybridShares, SellHybridShares, resolutionVars
<1>8. QED
  BY <1>1, <1>2, <1>3, <1>4, <1>5, <1>6, <1>7 DEF MarketStep

LEMMA MarketStepOptInv == OptIInv /\ MarketStep /\ UNCHANGED optVars => OptIInv'
<1> SUFFICES ASSUME OptIInv, MarketStep, UNCHANGED optVars
             PROVE  OptIInv'
  OBVIOUS
<1>1. now \in Nat
  BY DEF OptIInv, OptTypeOK
<1>2. /\ now' \in Nat /\ UNCHANGED <<consumed, outcome, settled_at>>
      /\ \/ phase' = phase
         \/ phase = "None" /\ phase' = "Open"
         \/ phase = "Open" /\ phase' = "Locked"
         \/ phase = "Resolved" /\ phase' = "Closed"
  BY <1>1, MarketStepShape DEF resolutionVars
<1>3. UNCHANGED <<proposer, challenger, proposed_outcome, challenged_outcome, challenge_deadline,
                  finalized, payout, claimed, bond_vault>>
  BY DEF optVars, proposalVars, bondVars
<1>4. OptTypeOK'
  BY <1>2, <1>3 DEF OptIInv, OptTypeOK
<1>5. ProposalFacts'
  BY <1>2, <1>3 DEF OptIInv, ProposalFacts, Decided
<1>6. BondsCovered'
  BY <1>3 DEF OptIInv, BondsCovered, deposited_bonds, BondAmount, Due
<1>7. OutcomeJustified'
  BY <1>2, <1>3 DEF OptIInv, OutcomeJustified, Decided
<1>8. QED
  BY <1>4, <1>5, <1>6, <1>7 DEF OptIInv

LEMMA ResolveUnproposedInv == OptIInv /\ ResolveUnproposed => OptIInv'
<1> SUFFICES ASSUME OptIInv, ResolveUnproposed
             PROVE  OptIInv'
  OBVIOUS
<1>1. /\ proposer = NoKey /\ phase' = "Resolved" /\ outcome' = INVALID /\ now' = now
      /\ phase \in {"Open", "Locked", "Resolving", "Disputed"}
  BY DEF ResolveUnproposed, ResolveHybridTimeout, finalize_hybrid_resolution, resolvable
<1>2. UNCHANGED <<proposer, challenger, proposed_outcome, challenged_outcome, challenge_deadline,
                  finalized, payout, claimed, bond_vault>>
  BY DEF ResolveUnproposed, optVars, proposalVars, bondVars
<1>3. OptTypeOK'
  BY <1>1, <1>2 DEF OptIInv, OptTypeOK
<1>4. ProposalFacts'
  BY <1>1, <1>2 DEF OptIInv, ProposalFacts, Decided
<1>5. BondsCovered'
  BY <1>2 DEF OptIInv, BondsCovered, deposited_bonds, BondAmount, Due
<1>6. OutcomeJustified'
  BY <1>1 DEF OutcomeJustified
<1>7. QED
  BY <1>3, <1>4, <1>5, <1>6 DEF OptIInv

LEMMA ProposeInv ==
  ASSUME NEW k \in Wallets, NEW out \in {YES, NO}, OptIInv, ProposeOptimisticResolution(k, out)
  PROVE  OptIInv'
<1>1. /\ phase \in {"Open", "Locked"} /\ phase' = "Resolving" /\ now' = now
      /\ proposer = NoKey /\ proposer' = k /\ proposed_outcome' = out
      /\ challenge_deadline' = now + ChallengePeriod /\ now + ChallengePeriod < ResolutionDeadline
      /\ bond_vault' = bond_vault + BondAmount
      /\ UNCHANGED <<challenger, challenged_outcome, finalized, payout, claimed>>
  BY DEF ProposeOptimisticResolution, validate_optimistic_proposal, marketRest
<1>2. k # NoKey
  BY OptConstantFacts
<1>3. challenger = NoKey /\ ~finalized
  BY <1>1 DEF OptIInv, ProposalFacts, Decided
<1>4. OptTypeOK'
  BY <1>1, OptConstantFacts DEF OptIInv, OptTypeOK
<1>5. ProposalFacts'
  BY <1>1, <1>2, <1>3, OptConstantFacts DEF OptIInv, ProposalFacts, Decided
<1>6. BondsCovered'
  BY <1>1, <1>2, <1>3, OptConstantFacts
     DEF OptIInv, BondsCovered, deposited_bonds, BondAmount
<1>7. OutcomeJustified'
  BY <1>1 DEF OutcomeJustified, Decided
<1>8. QED
  BY <1>4, <1>5, <1>6, <1>7 DEF OptIInv

LEMMA ChallengeInv ==
  ASSUME NEW k \in Wallets, NEW out \in {YES, NO}, OptIInv, ChallengeOptimisticResolution(k, out)
  PROVE  OptIInv'
<1>1. /\ phase = "Resolving" /\ phase' = "Disputed" /\ now' = now
      /\ challenger = NoKey /\ challenger' = k
      /\ challenged_outcome' = out /\ out # proposed_outcome
      /\ bond_vault' = bond_vault + BondAmount
      /\ UNCHANGED <<proposer, proposed_outcome, challenge_deadline, finalized, payout, claimed>>
  BY DEF ChallengeOptimisticResolution, validate_optimistic_challenge, marketRest
<1>2. k # NoKey /\ out # UNSET
  BY OptConstantFacts
<1>3. proposer # NoKey /\ ~finalized
  BY <1>1 DEF OptIInv, ProposalFacts, Decided
<1>4. OptTypeOK'
  BY <1>1, OptConstantFacts DEF OptIInv, OptTypeOK
<1>5. ProposalFacts'
  BY <1>1, <1>2, <1>3 DEF OptIInv, ProposalFacts, Decided
<1>6. BondsCovered'
  BY <1>1, <1>2, <1>3, OptConstantFacts
     DEF OptIInv, BondsCovered, deposited_bonds, BondAmount
<1>7. OutcomeJustified'
  BY <1>1 DEF OutcomeJustified, Decided
<1>8. QED
  BY <1>4, <1>5, <1>6, <1>7 DEF OptIInv

\* The market is resolved and the bonds divided in one instruction: a decision
\* justified as OutcomeJustified asks, with payouts that add up to the bonds
\* deposited, preserves the invariant.
LEMMA DecideInv ==
  ASSUME NEW out \in {YES, NO, INVALID}, NEW timeout \in BOOLEAN,
         NEW p \in Nat, NEW c \in Nat, NEW t \in Nat,
         OptIInv, proposer # NoKey, Decide(out, timeout, p, c, t),
         out # INVALID =>
           /\ now <= ResolutionDeadline
           /\ challenger = NoKey => out = proposed_outcome /\ now > challenge_deadline
           /\ challenger # NoKey => out \in {proposed_outcome, challenged_outcome}
  PROVE  OptIInv'
<1>1. /\ phase' = "Resolved" /\ outcome' = out /\ now' = now /\ settled_at' = now
      /\ finalized' /\ finalized' \in BOOLEAN
      /\ ~finalized /\ claimed = {}
  BY DEF Decide, finalize_hybrid_resolution, record_optimistic_payouts
<1>2. UNCHANGED <<proposer, challenger, proposed_outcome, challenged_outcome, challenge_deadline,
                  claimed, bond_vault>>
  BY DEF Decide, proposalVars
<1>3. p + c + t = deposited_bonds
  BY DEF Decide, record_optimistic_payouts
<1>4. /\ payout' \in [Roles -> Nat]
      /\ payout'["proposer"] = p /\ payout'["challenger"] = c /\ payout'["treasury"] = t
  BY DEF Decide, record_optimistic_payouts, Roles
<1>5. OptTypeOK'
  BY <1>1, <1>2, <1>4 DEF OptIInv, OptTypeOK
<1>6. ProposalFacts'
  BY <1>1, <1>2 DEF OptIInv, ProposalFacts, Decided
<1>7. BondsCovered'
  <2>1. bond_vault' = deposited_bonds
    BY <1>1, <1>2 DEF OptIInv, BondsCovered
  <2>2. Due(Roles \ claimed)' = p + c + t
    BY <1>1, <1>2, <1>4 DEF Due, Roles
  <2>3. QED
    BY <1>1, <1>3, <2>1, <2>2 DEF BondsCovered
<1>8. OutcomeJustified'
  BY <1>1, <1>2 DEF OutcomeJustified
<1>9. QED
  BY <1>5, <1>6, <1>7, <1>8 DEF OptIInv

LEMMA FinalizeInv == OptIInv /\ FinalizeOptimisticResolution => OptIInv'
<1> SUFFICES ASSUME OptIInv, FinalizeOptimisticResolution
             PROVE  OptIInv'
  OBVIOUS
<1>1. /\ phase = "Resolving" /\ challenger = NoKey /\ proposer # NoKey
      /\ proposed_outcome \in {YES, NO} /\ now \in Nat
  BY DEF FinalizeOptimisticResolution, OptIInv, OptTypeOK, ProposalFacts
<1>2. CASE past_deadline /\ Decide(INVALID, TRUE, BondAmount, 0, 0)
  BY <1>1, <1>2, DecideInv, OptConstantFacts
<1>3. CASE ~past_deadline /\ window_elapsed /\ Decide(proposed_outcome, FALSE, BondAmount, 0, 0)
  <2>1. now <= ResolutionDeadline /\ now > challenge_deadline
    BY <1>1, <1>3, OptConstantFacts DEF past_deadline, window_elapsed
  <2>2. proposed_outcome \in {YES, NO, INVALID} /\ Decide(proposed_outcome, FALSE, BondAmount, 0, 0)
    BY <1>1, <1>3
  <2>3. QED
    BY <1>1, <2>1, <2>2, DecideInv, OptConstantFacts
<1>4. QED
  BY <1>2, <1>3 DEF FinalizeOptimisticResolution

LEMMA ArbitrateInv ==
  ASSUME NEW out \in {YES, NO}, OptIInv, ArbitrateOptimisticResolution(out)
  PROVE  OptIInv'
<1>1. /\ challenger # NoKey /\ proposer # NoKey /\ now <= ResolutionDeadline
      /\ out \in {proposed_outcome, challenged_outcome}
  BY OptConstantFacts
     DEF ArbitrateOptimisticResolution, dispute_pending, past_deadline, OptIInv, OptTypeOK, ProposalFacts
<1>2. CASE Decide(out, FALSE, winner_payout, 0, treasury_fee)
  BY <1>1, <1>2, DecideInv, OptConstantFacts
<1>3. CASE Decide(out, FALSE, 0, winner_payout, treasury_fee)
  BY <1>1, <1>3, DecideInv, OptConstantFacts
<1>4. QED
  BY <1>2, <1>3 DEF ArbitrateOptimisticResolution

LEMMA TimeoutDisputeInv == OptIInv /\ TimeoutOptimisticDispute => OptIInv'
<1> SUFFICES ASSUME OptIInv, TimeoutOptimisticDispute
             PROVE  OptIInv'
  OBVIOUS
<1>1. proposer # NoKey /\ Decide(INVALID, TRUE, BondAmount, BondAmount, 0)
  BY DEF TimeoutOptimisticDispute, dispute_pending, OptIInv, ProposalFacts
<1>2. QED
  BY <1>1, DecideInv, OptConstantFacts

LEMMA ClaimInv ==
  ASSUME NEW k \in Wallets, OptIInv, ClaimOptimisticBond(k)
  PROVE  OptIInv'
<1> DEFINE roles == claimable(k)
<1>1. /\ finalized /\ bond_vault >= Due(roles)
      /\ claimed' = claimed \cup roles /\ bond_vault' = bond_vault - Due(roles)
      /\ UNCHANGED <<phase, now, outcome, settled_at, proposer, challenger, proposed_outcome,
                     challenged_outcome, challenge_deadline, finalized, payout>>
  BY DEF ClaimOptimisticBond, marketRest, resolutionVars, proposalVars
<1>2. roles \in SUBSET (Roles \ claimed)
  BY DEF claimable
<1>3. /\ payout \in [Roles -> Nat] /\ claimed \in SUBSET Roles /\ bond_vault \in Nat
      /\ proposer # NoKey
  BY <1>1 DEF OptIInv, OptTypeOK, ProposalFacts
<1> HIDE DEF roles
<1>4. Due(roles) \in Nat
  BY <1>2, <1>3, DueSum
<1>5. OptTypeOK'
  BY <1>1, <1>2, <1>3, <1>4 DEF OptIInv, OptTypeOK
<1>6. ProposalFacts'
  BY <1>1 DEF OptIInv, ProposalFacts, Decided
<1>7. BondsCovered'
  <2>1. bond_vault = Due(Roles \ claimed)
    BY <1>1 DEF OptIInv, BondsCovered
  <2>2. Due(Roles \ (claimed \cup roles)) = Due(Roles \ claimed) - Due(roles)
    BY <1>2, <1>3, DueSplit
  <2>3. Due(Roles \ claimed)' = Due(Roles \ (claimed \cup roles))
    BY <1>1 DEF Due
  <2>4. QED
    BY <1>1, <2>1, <2>2, <2>3 DEF BondsCovered
<1>8. OutcomeJustified'
  BY <1>1 DEF OptIInv, OutcomeJustified
<1>9. QED
  BY <1>5, <1>6, <1>7, <1>8 DEF OptIInv

LEMMA OptNextInv == OptIInv /\ [OptNext]_optAll => OptIInv'
<1> SUFFICES ASSUME OptIInv, [OptNext]_optAll
             PROVE  OptIInv'
  OBVIOUS
<1>1. CASE UNCHANGED optAll
  BY <1>1 DEF optAll, vars, optVars, proposalVars, bondVars, resolutionVars, OptIInv, OptTypeOK,
     ProposalFacts, BondsCovered, deposited_bonds, BondAmount, Due, OutcomeJustified, Decided
<1>2. CASE OptNext
  BY <1>2, MarketStepOptInv, ResolveUnproposedInv, ProposeInv, ChallengeInv, FinalizeInv,
     ArbitrateInv, TimeoutDisputeInv, ClaimInv DEF OptNext
<1>3. QED
  BY <1>1, <1>2

\* The inductive invariant of the proposal account, the bond vault and the
\* market's phase.
THEOREM OptInvariance == OptSpec => []OptIInv
  BY OptInitInv, OptNextInv, PTL DEF OptSpec

\* claim_optimistic_bond: whatever the payouts, the order of the claims and the
\* roles one key holds, the bond vault holds exactly what is still to be paid.
THEOREM BondsAlwaysCovered == OptSpec => []BondsCovered
<1>1. OptIInv => BondsCovered
  BY DEF OptIInv
<1>2. QED
  BY <1>1, OptInvariance, PTL

\* finalize and arbitrate: a decisive outcome is one somebody bonded, decided in
\* time, after the whole window or between the two sides of the dispute.
THEOREM OutcomesAlwaysJustified == OptSpec => []OutcomeJustified
<1>1. OptIInv => OutcomeJustified
  BY DEF OptIInv
<1>2. QED
  BY <1>1, OptInvariance, PTL

-----------------------------------------------------------------------------
(* The web panel.                                                          *)

\* The two sums the panel and the program compute agree: a role paid nothing
\* adds nothing.
LEMMA ClaimableAgrees ==
  ASSUME NEW k \in Wallets, OptIInv, finalized
  PROVE  claimableAmount(k) = Due(claimable(k))
<1>1. payout \in [Roles -> Nat] /\ proposal
  BY DEF OptIInv, OptTypeOK, ProposalFacts, proposal
<1>2. payout["proposer"] \in Nat /\ payout["challenger"] \in Nat /\ payout["treasury"] \in Nat
  BY <1>1 DEF Roles
<1>3. claimable(k) \in SUBSET Roles
  BY DEF claimable
<1>4. /\ "proposer" \in claimable(k) <=>
           proposer = k /\ payout["proposer"] > 0 /\ "proposer" \notin claimed
      /\ "challenger" \in claimable(k) <=>
           challenger = k /\ payout["challenger"] > 0 /\ "challenger" \notin claimed
      /\ "treasury" \in claimable(k) <=>
           TreasuryOwner = k /\ payout["treasury"] > 0 /\ "treasury" \notin claimed
  BY DEF claimable, Roles, holder
<1>5. QED
  BY <1>1, <1>2, <1>3, <1>4, DueSum DEF claimableAmount

\* The browser's fraction of a second decides only in a deadline's own second.
LEMMA BrowserClock ==
  ASSUME now \in Int, NEW second \in Int, NEW part \in {0, 1}
  PROVE  /\ after(second, part) <=> now > second \/ in_last_second(second, part)
         /\ now < second => ~after(second, part)
         /\ now <= second /\ ~in_last_second(second, part) => ~after(second, part)
         /\ in_last_second(second, part) => now <= second
  BY DEF after, in_last_second

\* optimistic-resolution-panel: a panel that has just refreshed offers exactly
\* the challenge, finalization, timeout and claim the program accepts, but for
\* what is left of a deadline's own second.
THEOREM OffersAlwaysMatch == OptSpec => []OffersMatch
<1>1. ASSUME OptIInv, NEW part \in {0, 1}
      PROVE  /\ \A k \in Wallets :
                  /\ canChallenge(k, part) <=>
                       /\ \E out \in {YES, NO} : validate_optimistic_challenge(k, out)
                       /\ ~in_last_second(challenge_deadline, part)
                  /\ claimableAmount(k) = IF finalized THEN Due(claimable(k)) ELSE 0
             /\ canFinalize(part) <=>
                  /\ phase = "Resolving" /\ ~finalized /\ challenger = NoKey
                  /\ past_deadline \/ window_elapsed \/ in_last_second(challenge_deadline, part)
             /\ canFinalize(part) /\ ~in_last_second(ResolutionDeadline, part) =>
                  finalizeLabel(part) = IF past_deadline THEN INVALID ELSE proposed_outcome
             /\ canTimeoutDispute(part) <=>
                  dispute_pending /\ (past_deadline \/ in_last_second(ResolutionDeadline, part))
             /\ (\E out \in {YES, NO} : validate_optimistic_proposal(out)) => canPropose(part)
  <2>0. /\ now \in Int /\ challenge_deadline \in Int /\ ResolutionDeadline \in Int
        /\ ChallengePeriod \in Nat
    BY <1>1, OptConstantFacts, HybridAssumption DEF OptIInv, OptTypeOK
  <2>a. /\ after(challenge_deadline, part) <=>
             now > challenge_deadline \/ in_last_second(challenge_deadline, part)
        /\ now <= challenge_deadline /\ ~in_last_second(challenge_deadline, part)
             => ~after(challenge_deadline, part)
        /\ in_last_second(challenge_deadline, part) => now <= challenge_deadline
    BY <1>1, <2>0, BrowserClock
  <2>b. /\ after(ResolutionDeadline, part) <=>
             past_deadline \/ in_last_second(ResolutionDeadline, part)
        /\ now < ResolutionDeadline => ~after(ResolutionDeadline, part)
    BY <1>1, <2>0, BrowserClock DEF past_deadline
  <2>1. ASSUME NEW k \in Wallets
        PROVE  /\ canChallenge(k, part) <=>
                    /\ \E out \in {YES, NO} : validate_optimistic_challenge(k, out)
                    /\ ~in_last_second(challenge_deadline, part)
               /\ claimableAmount(k) = IF finalized THEN Due(claimable(k)) ELSE 0
    <3>1. canChallenge(k, part) => \E out \in {YES, NO} : out # proposed_outcome
      BY OptConstantFacts
    <3>2. canChallenge(k, part) <=>
            proposal /\ phase = "Resolving" /\ k # proposer
              /\ now <= challenge_deadline /\ ~in_last_second(challenge_deadline, part)
      BY <2>0, <2>a DEF canChallenge
    <3>3. canChallenge(k, part) <=>
            /\ \E out \in {YES, NO} : validate_optimistic_challenge(k, out)
            /\ ~in_last_second(challenge_deadline, part)
      BY <1>1, <3>1, <3>2 DEF validate_optimistic_challenge, proposal, OptIInv,
         ProposalFacts, Decided
    <3>4. claimableAmount(k) = IF finalized THEN Due(claimable(k)) ELSE 0
      BY <1>1, ClaimableAgrees DEF claimableAmount
    <3>5. QED
      BY <3>3, <3>4
  <2>2. phase = "Resolving" =>
          /\ proposal /\ ~finalized /\ challenger = NoKey
          /\ past_deadline => window_elapsed
    BY <1>1, OptConstantFacts DEF OptIInv, OptTypeOK, ProposalFacts, Decided, proposal,
       past_deadline, window_elapsed
  <2>3. canFinalize(part) <=>
          /\ phase = "Resolving" /\ ~finalized /\ challenger = NoKey
          /\ past_deadline \/ window_elapsed \/ in_last_second(challenge_deadline, part)
    BY <2>2, <2>a DEF canFinalize, window_elapsed
  <2>4. canFinalize(part) /\ ~in_last_second(ResolutionDeadline, part) =>
          finalizeLabel(part) = IF past_deadline THEN INVALID ELSE proposed_outcome
    BY <2>b DEF finalizeLabel, hardDeadlineElapsed
  <2>5. canTimeoutDispute(part) <=>
          dispute_pending /\ (past_deadline \/ in_last_second(ResolutionDeadline, part))
    BY <1>1, <2>b DEF canTimeoutDispute, dispute_pending, proposal, hardDeadlineElapsed,
       OptIInv, ProposalFacts, Decided
  <2>6. (\E out \in {YES, NO} : validate_optimistic_proposal(out)) => canPropose(part)
    <3>1. validate_optimistic_proposal(YES) \/ validate_optimistic_proposal(NO)
            => now < ResolutionDeadline
      BY <2>0 DEF validate_optimistic_proposal
    <3>2. QED
      BY <2>b, <3>1 DEF validate_optimistic_proposal, canPropose, proposal
  <2>7. QED
    BY <2>1, <2>3, <2>4, <2>5, <2>6
<1>2. OptIInv => OffersMatch
  BY <1>1 DEF OffersMatch
<1>3. QED
  BY <1>2, OptInvariance, PTL

-----------------------------------------------------------------------------
(* The refinement of HybridMarket. The instance has its own copy of every   *)
(* operator: first the copies of the pricing functions are the functions.   *)

LEMMA BaseSoftplus == Base!softplus = softplus /\ Base!MaxImbalance = MaxImbalance
<1>1. Base!MaxImbalance = MaxImbalance
  BY DEF Base!MaxImbalance, MaxImbalance
<1>2. \A d : Base!exp_negative_fixed(d) = exp_negative_fixed(d)
  BY DEF Base!exp_negative_fixed, exp_negative_fixed, Base!exp_sums, exp_sums,
     Base!exp_terms, exp_terms, Base!mul_div_floor, mul_div_floor, Base!exp_sign, exp_sign,
     Base!shift_right, shift_right, Base!halves, halves
<1>3. \A d : Base!ln_one_plus_fixed(d) = ln_one_plus_fixed(d)
  BY DEF Base!ln_one_plus_fixed, ln_one_plus_fixed, Base!ln_sums, ln_sums, Base!ln_powers,
     ln_powers, Base!mul_div_floor, mul_div_floor, Base!ln_denominator, ln_denominator
<1>4. \A d : Base!tail(d) = tail(d)
  BY <1>2 DEF Base!tail, tail, Base!mul_div_floor, mul_div_floor
<1>5. QED
  BY <1>1, <1>3, <1>4 DEF Base!softplus, softplus

LEMMA BasePricing ==
  /\ Base!required_subsidy = required_subsidy
  /\ \A q, side, n : Base!quote_buy(q, side, n) = quote_buy(q, side, n)
  /\ \A q, side, n : Base!quote_sell(q, side, n) = quote_sell(q, side, n)
  /\ \A q, side, n : Base!quote_buy_ok(q, side, n) <=> quote_buy_ok(q, side, n)
  /\ \A q, side, n : Base!quote_sell_ok(q, side, n) <=> quote_sell_ok(q, side, n)
<1>1. \A x, d : Base!div_ceil(x, d) = div_ceil(x, d)
  BY DEF Base!div_ceil, div_ceil
<1>2. \A q : Base!cost_fixed(q) = cost_fixed(q)
  BY BaseSoftplus DEF Base!cost_fixed, cost_fixed, Base!MaxOf, MaxOf, Base!abs_diff, abs_diff
<1>3. /\ \A q, side, n : Base!increase(q, side, n) = increase(q, side, n)
      /\ \A q, side, n : Base!decrease(q, side, n) = decrease(q, side, n)
  BY DEF Base!increase, increase, Base!decrease, decrease, Base!YES, YES
<1>4. /\ \A q, r : Base!buy_raw(q, r) = buy_raw(q, r)
      /\ \A q, r : Base!sell_raw(q, r) = sell_raw(q, r)
  BY <1>1, <1>2 DEF Base!buy_raw, buy_raw, Base!sell_raw, sell_raw
<1>5. \A raw, n : Base!fee_amount(raw, n) = fee_amount(raw, n)
  BY <1>1 DEF Base!fee_amount, fee_amount, Base!MinOf, MinOf, Base!mul_div_floor, mul_div_floor
<1>6. /\ \A q : Base!validate_state(q) <=> validate_state(q)
      /\ \A n : Base!validate_trade(n) <=> validate_trade(n)
  BY BaseSoftplus DEF Base!validate_state, validate_state, Base!abs_diff, abs_diff,
     Base!validate_trade, validate_trade
<1>7. Base!required_subsidy = required_subsidy
  BY <1>1 DEF Base!required_subsidy, required_subsidy
<1>8. QED
  BY <1>2, <1>3, <1>4, <1>5, <1>6, <1>7
     DEF Base!quote_buy, quote_buy, Base!quote_sell, quote_sell,
         Base!quote_buy_ok, quote_buy_ok, Base!quote_sell_ok, quote_sell_ok

LEMMA BaseInit == OptInit => Base!Init
  BY DEF OptInit, Init, Base!Init, BasePhase, UNSET, Base!UNSET

LEMMA BaseBuy ==
  ASSUME NEW t, NEW side, NEW shares, BuyHybridShares(t, side, shares)
  PROVE  Base!BuyHybridShares(t, side, shares)
<1>1. BasePhase = "Open" /\ BasePhase' = BasePhase
  BY DEF BuyHybridShares, validate_hybrid_trade, BasePhase
<1>2. Base!lmsr_quantities = lmsr_quantities
  BY DEF Base!lmsr_quantities, lmsr_quantities
<1>3. Base!quote_buy(Base!lmsr_quantities, side, shares) = quote_buy(lmsr_quantities, side, shares)
  BY <1>2, BasePricing
<1>4. Base!quote_buy_ok(Base!lmsr_quantities, side, shares)
  BY <1>2, BasePricing DEF BuyHybridShares
<1> DEFINE quote == quote_buy(lmsr_quantities, side, shares)
<1>5. Base!validate_hybrid_trade(shares)
  BY <1>1 DEF BuyHybridShares, validate_hybrid_trade, Base!validate_hybrid_trade,
     validate_trade, Base!validate_trade
<1>6. /\ vault + quote.raw >= Base!LargestOutcome(quote.after)
      /\ Base!validate_resolver_security_cap(quote.after)
  BY DEF BuyHybridShares, LargestOutcome, Base!LargestOutcome, MaxOf, Base!MaxOf,
     validate_resolver_security_cap, Base!validate_resolver_security_cap
<1>7. Base!ApplyTrade(t, side, quote.after, Base!position_shares(t, side) + shares)
  BY DEF BuyHybridShares, ApplyTrade, Base!ApplyTrade, position_shares, Base!position_shares,
     YES, Base!YES
<1>8. /\ t \in opened /\ t \notin settled /\ vault' = vault + quote.raw
      /\ UNCHANGED <<now, opened, settled, Base!resolutionVars, Base!liabilityVars, donated>>
  BY DEF BuyHybridShares, resolutionVars, Base!resolutionVars, liabilityVars, Base!liabilityVars
<1> HIDE DEF quote
<1>9. QED
  BY <1>1, <1>3, <1>4, <1>5, <1>6, <1>7, <1>8 DEF Base!BuyHybridShares, quote

LEMMA BaseSell ==
  ASSUME NEW t, NEW side, NEW shares, NEW same_account,
         SellHybridShares(t, side, shares, same_account)
  PROVE  Base!SellHybridShares(t, side, shares, same_account)
<1>1. BasePhase = "Open" /\ BasePhase' = BasePhase
  BY DEF SellHybridShares, validate_hybrid_trade, BasePhase
<1>2. Base!lmsr_quantities = lmsr_quantities
  BY DEF Base!lmsr_quantities, lmsr_quantities
<1>3. Base!quote_sell(Base!lmsr_quantities, side, shares) = quote_sell(lmsr_quantities, side, shares)
  BY <1>2, BasePricing
<1>4. Base!quote_sell_ok(Base!lmsr_quantities, side, shares)
  BY <1>2, BasePricing DEF SellHybridShares
<1> DEFINE quote == quote_sell(lmsr_quantities, side, shares)
           fees == coalesce_hybrid_fee_transfers(same_account, split_hybrid_fee(quote.fee))
<1>5. Base!validate_hybrid_trade(shares)
  BY <1>1 DEF SellHybridShares, validate_hybrid_trade, Base!validate_hybrid_trade,
     validate_trade, Base!validate_trade
<1>6. vault - quote.raw >= Base!LargestOutcome(quote.after)
  BY DEF SellHybridShares, LargestOutcome, Base!LargestOutcome, MaxOf, Base!MaxOf
<1>7. /\ Base!ApplyTrade(t, side, quote.after, Base!position_shares(t, side) - shares)
      /\ Base!position_shares(t, side) >= shares
  BY DEF SellHybridShares, ApplyTrade, Base!ApplyTrade, position_shares, Base!position_shares,
     YES, Base!YES
<1>8. Base!coalesce_hybrid_fee_transfers(same_account, Base!split_hybrid_fee(quote.fee)) = fees
  BY DEF coalesce_hybrid_fee_transfers, Base!coalesce_hybrid_fee_transfers, split_hybrid_fee,
     Base!split_hybrid_fee
<1>9. /\ t \in opened /\ t \notin settled
      /\ vault' = vault - (quote.total + fees.treasury + fees.liquidity)
      /\ UNCHANGED <<now, opened, settled, Base!resolutionVars, Base!liabilityVars, donated>>
  BY DEF SellHybridShares, resolutionVars, Base!resolutionVars, liabilityVars, Base!liabilityVars
<1> HIDE DEF quote, fees
<1>10. QED
  BY <1>1, <1>3, <1>4, <1>5, <1>6, <1>7, <1>8, <1>9 DEF Base!SellHybridShares, quote, fees

LEMMA BaseResolution ==
  ASSUME NEW out, NEW timeout, finalize_hybrid_resolution(out, timeout)
  PROVE  Base!finalize_hybrid_resolution(out, timeout)
<1>1. BasePhase \in {"Open", "Locked"} /\ BasePhase' = "Resolved"
  BY DEF finalize_hybrid_resolution, resolvable, BasePhase
<1>2. Base!in_resolution_window(out, timeout)
  BY DEF finalize_hybrid_resolution, in_resolution_window, Base!in_resolution_window,
     INVALID, Base!INVALID, YES, Base!YES, NO, Base!NO
<1>3. Base!hybrid_market_liability(out) = hybrid_market_liability(out)
  BY DEF hybrid_market_liability, Base!hybrid_market_liability,
     INVALID, Base!INVALID, YES, Base!YES, NO, Base!NO
<1>4. QED
  BY <1>1, <1>2, <1>3 DEF finalize_hybrid_resolution, Base!finalize_hybrid_resolution,
     Base!resolvable, quantityVars, Base!quantityVars, positionVars, Base!positionVars

LEMMA BaseSettle ==
  ASSUME NEW t, SettleHybridPosition(t)
  PROVE  Base!SettleHybridPosition(t)
<1>1. Base!hybrid_position_payout(t) = hybrid_position_payout(t)
  BY DEF hybrid_position_payout, Base!hybrid_position_payout,
     INVALID, Base!INVALID, YES, Base!YES, NO, Base!NO
<1>2. ASSUME NEW liability, NEW projected, phase = "Resolved",
             close_hybrid_market_if_drained(liability, projected)
      PROVE  Base!close_hybrid_market_if_drained(liability, projected)
  BY <1>2 DEF close_hybrid_market_if_drained, Base!close_hybrid_market_if_drained,
     closes_when_drained, Base!closes_when_drained, BasePhase
<1>3. BasePhase = "Resolved"
  BY DEF SettleHybridPosition, BasePhase
<1>4. QED
  BY <1>1, <1>2, <1>3 DEF SettleHybridPosition, Base!SettleHybridPosition, quantityVars,
     Base!quantityVars, positionVars, Base!positionVars, resolutionVars, Base!resolutionVars

LEMMA BaseMarketStep ==
  ASSUME MarketStep
  PROVE  Base!MarketStep
<1> USE DEF quantityVars, Base!quantityVars, positionVars, Base!positionVars, resolutionVars,
        Base!resolutionVars, liabilityVars, Base!liabilityVars
<1>1. CASE Tick
  <2>1. Base!Tick
    BY <1>1 DEF Tick, Base!Tick, BasePhase
  <2>2. QED
    BY <2>1 DEF Base!MarketStep
<1>2. CASE Donate
  <2>1. Base!Donate
    BY <1>2 DEF Donate, Base!Donate, BasePhase
  <2>2. QED
    BY <2>1 DEF Base!MarketStep
<1>3. CASE InitializeHybridMarket
  <2>1. Base!InitializeHybridMarket
    BY <1>3, BasePricing DEF InitializeHybridMarket, Base!InitializeHybridMarket, BasePhase
  <2>2. QED
    BY <2>1 DEF Base!MarketStep
<1>4. CASE LockHybridMarket
  <2>1. Base!LockHybridMarket
    BY <1>4 DEF LockHybridMarket, Base!LockHybridMarket, BasePhase
  <2>2. QED
    BY <2>1 DEF Base!MarketStep
<1>5. CASE WithdrawHybridLiquidity
  <2>1. Base!WithdrawHybridLiquidity
    BY <1>5 DEF WithdrawHybridLiquidity, Base!WithdrawHybridLiquidity, withdrawable,
       Base!withdrawable, close_hybrid_market_if_drained, Base!close_hybrid_market_if_drained,
       closes_when_drained, Base!closes_when_drained, BasePhase
  <2>2. QED
    BY <2>1 DEF Base!MarketStep
<1>6. ASSUME NEW t \in Traders, InitializePosition(t)
      PROVE  Base!MarketStep
  <2>1. Base!InitializePosition(t)
    BY <1>6 DEF InitializePosition, Base!InitializePosition, BasePhase
  <2>2. QED
    BY <2>1 DEF Base!MarketStep
<1>7. ASSUME NEW t \in Traders, SettleHybridPosition(t)
      PROVE  Base!MarketStep
  BY <1>7, BaseSettle DEF Base!MarketStep
<1>8. ASSUME NEW t \in Traders, NEW side \in {YES, NO}, NEW shares \in 1..MaxTradeShares,
             \/ BuyHybridShares(t, side, shares)
             \/ \E same_account \in BOOLEAN : SellHybridShares(t, side, shares, same_account)
      PROVE  Base!MarketStep
  <2>1. side \in {Base!YES, Base!NO}
    BY DEF YES, NO, Base!YES, Base!NO
  <2>2. QED
    BY <1>8, <2>1, BaseBuy, BaseSell DEF Base!MarketStep
<1>9. QED
  BY <1>1, <1>2, <1>3, <1>4, <1>5, <1>6, <1>7, <1>8 DEF MarketStep

\* Every decision the bonds and the committee take is one of the public
\* market's: a decisive outcome, or INVALID as a timeout.
LEMMA BaseDecision ==
  ASSUME NEW out, NEW timeout \in BOOLEAN, finalize_hybrid_resolution(out, timeout)
  PROVE  Base!Next
<1>1. Base!finalize_hybrid_resolution(out, timeout)
  BY BaseResolution
<1>2. IF timeout THEN out = Base!INVALID ELSE out \in {Base!YES, Base!NO}
  BY <1>1 DEF Base!finalize_hybrid_resolution, Base!in_resolution_window
<1>3. CASE timeout
  BY <1>1, <1>2, <1>3 DEF Base!Next, Base!ResolveHybridTimeout
<1>4. CASE ~timeout
  BY <1>1, <1>2, <1>4 DEF Base!Next, Base!ResolveHybrid
<1>5. QED
  BY <1>3, <1>4

LEMMA BaseStep == [OptNext]_optAll => [Base!Next]_Base!vars
<1> USE DEF quantityVars, Base!quantityVars, positionVars, Base!positionVars, resolutionVars,
        Base!resolutionVars, liabilityVars, Base!liabilityVars
<1> SUFFICES ASSUME [OptNext]_optAll
             PROVE  Base!Next \/ UNCHANGED Base!vars
  OBVIOUS
<1>1. CASE UNCHANGED optAll
  BY <1>1 DEF optAll, vars, Base!vars, BasePhase
<1>2. CASE MarketStep
  BY <1>2, BaseMarketStep DEF Base!Next
<1>3. CASE ResolveUnproposed
  BY <1>3, BaseDecision DEF ResolveUnproposed, ResolveHybridTimeout
<1>4. CASE FinalizeOptimisticResolution
  BY <1>4, BaseDecision DEF FinalizeOptimisticResolution, Decide
<1>5. CASE TimeoutOptimisticDispute
  BY <1>5, BaseDecision DEF TimeoutOptimisticDispute, Decide
<1>6. ASSUME NEW out \in {YES, NO}, ArbitrateOptimisticResolution(out)
      PROVE  Base!Next
  BY <1>6, BaseDecision DEF ArbitrateOptimisticResolution, Decide
<1>7. ASSUME NEW k \in Wallets, ClaimOptimisticBond(k)
      PROVE  UNCHANGED Base!vars
  BY <1>7 DEF ClaimOptimisticBond, marketRest, Base!vars, BasePhase
<1>8. ASSUME NEW k \in Wallets, NEW out \in {YES, NO}, ChallengeOptimisticResolution(k, out)
      PROVE  UNCHANGED Base!vars
  BY <1>8 DEF ChallengeOptimisticResolution, validate_optimistic_challenge, marketRest, Base!vars,
     BasePhase
\* A proposal locks a market nobody has locked yet, and changes nothing of one
\* that is locked.
<1>9. ASSUME NEW k \in Wallets, NEW out \in {YES, NO}, ProposeOptimisticResolution(k, out)
      PROVE  Base!Next \/ UNCHANGED Base!vars
  <2>1. CASE phase = "Open"
    <3>1. Base!LockHybridMarket
      BY <1>9, <2>1 DEF ProposeOptimisticResolution, validate_optimistic_proposal, marketRest,
         Base!LockHybridMarket, BasePhase
    <3>2. QED
      BY <3>1 DEF Base!Next, Base!MarketStep
  <2>2. CASE phase = "Locked"
    BY <1>9, <2>2 DEF ProposeOptimisticResolution, marketRest, Base!vars, BasePhase
  <2>3. QED
    BY <1>9, <2>1, <2>2 DEF ProposeOptimisticResolution, validate_optimistic_proposal
<1>10. QED
  BY <1>1, <1>2, <1>3, <1>4, <1>5, <1>6, <1>7, <1>8, <1>9 DEF OptNext

\* The optimistic market implements the public market: proposals and challenges
\* are invisible to it, and every decision is one it allows.
THEOREM RefinesHybridMarket == OptSpec => ImplementsHybridMarket
  BY BaseInit, BaseStep, PTL DEF OptSpec, ImplementsHybridMarket, Base!Spec

-----------------------------------------------------------------------------
(* What HybridMarketProofs proves of the public market holds of this one.   *)
(* Its theorems are about an instance of their own, with copies of every    *)
(* operator again.                                                          *)

Public == INSTANCE HybridMarketProofs WITH phase <- BasePhase,
  console <- [pc |-> "idle", liability |-> 0, shown |-> 0, payable |-> 0],
  quantities <- lmsr_quantities, open <- (phase = "Open"), ticket <- [pc |-> "idle"],
  security_cap <- SecurityCap, SecurityCaps <- {SecurityCap},
  MaxShares <- MaxTradeShares, SlippageBps <- {50, 100, 200}

LEMMA PublicSoftplus ==
  /\ Public!softplus = softplus /\ Public!MaxImbalance = MaxImbalance
  /\ \A d : Public!ln_one_plus_fixed(d) = ln_one_plus_fixed(d)
<1>1. Public!MaxImbalance = MaxImbalance
  BY DEF Public!MaxImbalance, MaxImbalance
<1>2. \A d : Public!exp_negative_fixed(d) = exp_negative_fixed(d)
  BY DEF Public!exp_negative_fixed, exp_negative_fixed, Public!exp_sums, exp_sums,
     Public!exp_terms, exp_terms, Public!mul_div_floor, mul_div_floor, Public!exp_sign, exp_sign,
     Public!shift_right, shift_right, Public!halves, halves
<1>3. \A d : Public!ln_one_plus_fixed(d) = ln_one_plus_fixed(d)
  BY DEF Public!ln_one_plus_fixed, ln_one_plus_fixed, Public!ln_sums, ln_sums, Public!ln_powers,
     ln_powers, Public!mul_div_floor, mul_div_floor, Public!ln_denominator, ln_denominator
<1>4. \A d : Public!tail(d) = tail(d)
  BY <1>2 DEF Public!tail, tail, Public!mul_div_floor, mul_div_floor
<1>5. QED
  BY <1>1, <1>3, <1>4 DEF Public!softplus, softplus

LEMMA PublicPricing ==
  /\ Public!required_subsidy = required_subsidy
  /\ \A q, side, n : Public!quote_buy(q, side, n) = quote_buy(q, side, n)
  /\ \A q, side, n : Public!quote_sell(q, side, n) = quote_sell(q, side, n)
  /\ \A q, side, n : Public!quote_buy_ok(q, side, n) <=> quote_buy_ok(q, side, n)
  /\ \A q, side, n : Public!quote_sell_ok(q, side, n) <=> quote_sell_ok(q, side, n)
<1>1. \A x, d : Public!div_ceil(x, d) = div_ceil(x, d)
  BY DEF Public!div_ceil, div_ceil
<1>2. \A q : Public!cost_fixed(q) = cost_fixed(q)
  BY PublicSoftplus DEF Public!cost_fixed, cost_fixed, Public!MaxOf, MaxOf, Public!abs_diff, abs_diff
<1>3. /\ \A q, side, n : Public!increase(q, side, n) = increase(q, side, n)
      /\ \A q, side, n : Public!decrease(q, side, n) = decrease(q, side, n)
  BY DEF Public!increase, increase, Public!decrease, decrease, Public!YES, YES
<1>4. /\ \A q, r : Public!buy_raw(q, r) = buy_raw(q, r)
      /\ \A q, r : Public!sell_raw(q, r) = sell_raw(q, r)
  BY <1>1, <1>2 DEF Public!buy_raw, buy_raw, Public!sell_raw, sell_raw
<1>5. \A raw, n : Public!fee_amount(raw, n) = fee_amount(raw, n)
  BY <1>1 DEF Public!fee_amount, fee_amount, Public!MinOf, MinOf, Public!mul_div_floor, mul_div_floor
<1>6. /\ \A q : Public!validate_state(q) <=> validate_state(q)
      /\ \A n : Public!validate_trade(n) <=> validate_trade(n)
  BY PublicSoftplus DEF Public!validate_state, validate_state, Public!abs_diff, abs_diff,
     Public!validate_trade, validate_trade
<1>7. Public!required_subsidy = required_subsidy
  BY <1>1 DEF Public!required_subsidy, required_subsidy
<1>8. QED
  BY <1>2, <1>3, <1>4, <1>5, <1>6, <1>7
     DEF Public!quote_buy, quote_buy, Public!quote_sell, quote_sell,
         Public!quote_buy_ok, quote_buy_ok, Public!quote_sell_ok, quote_sell_ok

LEMMA PublicAssumptions ==
  /\ LN_2_FIXED <= FIXED_SCALE /\ Public!ln_one_plus_fixed(FIXED_SCALE) <= LN_2_FIXED
  /\ Public!IsFiniteSet(Traders)
  /\ MaxTradeShares \in Nat /\ {50, 100, 200} \subseteq 0..10000
<1>1. Public!IsFiniteSet(Traders)
  BY TradersAssumption DEF Public!IsFiniteSet, IsFiniteSet
<1>2. QED
  BY <1>1, PublicSoftplus, SeriesAssumption, LmsrAssumption

LEMMA PublicBuy ==
  ASSUME NEW t, NEW side, NEW shares, Base!BuyHybridShares(t, side, shares)
  PROVE  Public!BuyHybridShares(t, side, shares)
<1> USE BasePricing, PublicPricing
<1>1. QED
  BY DEF Base!BuyHybridShares, Public!BuyHybridShares, Base!lmsr_quantities, Public!lmsr_quantities,
     Base!validate_hybrid_trade, Public!validate_hybrid_trade, Base!validate_trade, Public!validate_trade,
     Base!LargestOutcome, Public!LargestOutcome, Base!MaxOf, Public!MaxOf,
     Base!validate_resolver_security_cap, Public!validate_resolver_security_cap,
     Base!ApplyTrade, Public!ApplyTrade, Base!position_shares, Public!position_shares,
     Base!YES, Public!YES, Base!resolutionVars, Public!resolutionVars,
     Base!liabilityVars, Public!liabilityVars

LEMMA PublicSell ==
  ASSUME NEW t, NEW side, NEW shares, NEW same_account, Base!SellHybridShares(t, side, shares, same_account)
  PROVE  Public!SellHybridShares(t, side, shares, same_account)
<1> USE BasePricing, PublicPricing
<1>1. QED
  BY DEF Base!SellHybridShares, Public!SellHybridShares, Base!lmsr_quantities, Public!lmsr_quantities,
     Base!validate_hybrid_trade, Public!validate_hybrid_trade, Base!validate_trade, Public!validate_trade,
     Base!LargestOutcome, Public!LargestOutcome, Base!MaxOf, Public!MaxOf,
     Base!ApplyTrade, Public!ApplyTrade, Base!position_shares, Public!position_shares,
     Base!coalesce_hybrid_fee_transfers, Public!coalesce_hybrid_fee_transfers,
     Base!split_hybrid_fee, Public!split_hybrid_fee,
     Base!YES, Public!YES, Base!resolutionVars, Public!resolutionVars,
     Base!liabilityVars, Public!liabilityVars

LEMMA PublicDecision ==
  ASSUME NEW out, NEW timeout, Base!finalize_hybrid_resolution(out, timeout)
  PROVE  Public!finalize_hybrid_resolution(out, timeout)
  BY DEF Base!finalize_hybrid_resolution, Public!finalize_hybrid_resolution,
     Base!resolvable, Public!resolvable, Base!in_resolution_window, Public!in_resolution_window,
     Base!hybrid_market_liability, Public!hybrid_market_liability, Base!INVALID, Public!INVALID,
     Base!YES, Public!YES, Base!NO, Public!NO, Base!quantityVars, Public!quantityVars,
     Base!positionVars, Public!positionVars

LEMMA PublicMarketStep ==
  ASSUME Base!MarketStep
  PROVE  Public!MarketStep
<1> USE DEF Base!quantityVars, Public!quantityVars, Base!positionVars, Public!positionVars,
        Base!resolutionVars, Public!resolutionVars, Base!liabilityVars, Public!liabilityVars
<1>1. Base!Tick => Public!Tick
  BY DEF Base!Tick, Public!Tick
<1>2. Base!Donate => Public!Donate
  BY DEF Base!Donate, Public!Donate
<1>3. Base!InitializeHybridMarket => Public!InitializeHybridMarket
  BY BasePricing, PublicPricing DEF Base!InitializeHybridMarket, Public!InitializeHybridMarket
<1>4. Base!LockHybridMarket => Public!LockHybridMarket
  BY DEF Base!LockHybridMarket, Public!LockHybridMarket
<1>5. Base!WithdrawHybridLiquidity => Public!WithdrawHybridLiquidity
  BY DEF Base!WithdrawHybridLiquidity, Public!WithdrawHybridLiquidity, Base!withdrawable,
     Public!withdrawable, Base!close_hybrid_market_if_drained,
     Public!close_hybrid_market_if_drained, Base!closes_when_drained, Public!closes_when_drained
<1>6. ASSUME NEW t \in Traders
      PROVE  /\ Base!InitializePosition(t) => Public!InitializePosition(t)
             /\ Base!SettleHybridPosition(t) => Public!SettleHybridPosition(t)
  BY DEF Base!InitializePosition, Public!InitializePosition, Base!SettleHybridPosition,
     Public!SettleHybridPosition, Base!hybrid_position_payout, Public!hybrid_position_payout,
     Base!INVALID, Public!INVALID, Base!YES, Public!YES, Base!NO, Public!NO,
     Base!close_hybrid_market_if_drained, Public!close_hybrid_market_if_drained,
     Base!closes_when_drained, Public!closes_when_drained
<1>7. Base!YES = Public!YES /\ Base!NO = Public!NO
  BY DEF Base!YES, Public!YES, Base!NO, Public!NO
<1>8. QED
  BY <1>1, <1>2, <1>3, <1>4, <1>5, <1>6, <1>7, PublicBuy, PublicSell
     DEF Base!MarketStep, Public!MarketStep

LEMMA PublicStep == [Base!Next]_Base!vars => [Public!Next]_Public!vars
<1>1. UNCHANGED Base!vars => UNCHANGED Public!vars
  BY DEF Base!vars, Public!vars, Base!quantityVars, Public!quantityVars, Base!positionVars,
     Public!positionVars, Base!resolutionVars, Public!resolutionVars, Base!liabilityVars,
     Public!liabilityVars
<1>2. Base!YES = Public!YES /\ Base!NO = Public!NO /\ Base!INVALID = Public!INVALID
  BY DEF Base!YES, Public!YES, Base!NO, Public!NO, Base!INVALID, Public!INVALID
<1>3. Base!Next => Public!Next
  BY <1>2, PublicMarketStep, PublicDecision DEF Base!Next, Public!Next, Base!ResolveHybridTimeout,
     Public!ResolveHybridTimeout, Base!ResolveHybrid, Public!ResolveHybrid
<1>4. QED
  BY <1>1, <1>3

LEMMA ImplementsPublic == OptSpec => Public!Spec
<1>1. Base!Init => Public!Init
  BY DEF Base!Init, Public!Init, Base!UNSET, Public!UNSET
<1>2. QED
  BY <1>1, PublicStep, RefinesHybridMarket, PTL
     DEF ImplementsHybridMarket, Base!Spec, Public!Spec

\* finalize_hybrid_resolution's precondition, in the phases an optimistic market
\* adds: while a proposal waits or is disputed, too, the vault covers the
\* largest liability any outcome can cause.
DisputedSolvent ==
  phase \in {"Open", "Locked", "Resolving", "Disputed"} =>
    vault >= LargestOutcome(lmsr_quantities) + RoundingReserve + donated

\* Through any proposal and dispute the vault stays able to pay whatever
\* outcome is decided: finalize_hybrid_resolution never fails with
\* InsolventMarket, called by a finalization, an arbitration or a timeout.
THEOREM DisputedAlwaysSolvent == OptSpec => []DisputedSolvent
<1>1. Public!Spec => []Public!MarketSolvent
  BY Public!AlwaysSolvent, LmsrAssumption, HybridAssumption, TradersAssumption, PublicAssumptions
<1>2. Public!LargestOutcome(lmsr_quantities) = LargestOutcome(lmsr_quantities)
  BY DEF Public!LargestOutcome, LargestOutcome, Public!MaxOf, MaxOf
<1>3. Public!MarketSolvent => DisputedSolvent
  BY <1>2 DEF Public!MarketSolvent, DisputedSolvent, Public!Trading, BasePhase,
     Public!lmsr_quantities, lmsr_quantities
<1>4. QED
  BY <1>1, <1>3, ImplementsPublic, PTL

\* An optimistic market, however it was decided, pays every unsettled position in
\* full, in any order of settlements and of the owner's withdrawals.
THEOREM OptimisticSettlementCovered == OptSpec => []SettlementCovered
<1>1. Public!Spec => []Public!SettlementCovered
  BY Public!SettlementAlwaysCovered, LmsrAssumption, HybridAssumption, TradersAssumption,
     PublicAssumptions
<1>2. \A t : Public!hybrid_position_payout(t) = hybrid_position_payout(t)
  BY DEF Public!hybrid_position_payout, hybrid_position_payout, Public!INVALID, INVALID,
     Public!YES, YES, Public!NO, NO
<1>3. Public!SettlementCovered => SettlementCovered
  BY <1>2 DEF Public!SettlementCovered, SettlementCovered, BasePhase
<1>4. QED
  BY <1>1, <1>3, ImplementsPublic, PTL

\* From the lock time on nobody trades on an optimistic market either, and what
\* a finalization, an arbitration or a timeout decided no later one changes.
THEOREM OptimisticDecisionsFinal == OptSpec => DecisionsFinal
<1>1. Public!Spec => Public!DecisionsFinal
  BY Public!DecisionsAlwaysFinal, LmsrAssumption, HybridAssumption, TradersAssumption,
     PublicAssumptions
<1> DEFINE Kept == /\ now >= LockTs => UNCHANGED <<quantityVars, positionVars>>
                   /\ consumed => UNCHANGED resolutionVars
           PublicKept == /\ now >= LockTs =>
                              UNCHANGED <<Public!quantityVars, Public!positionVars>>
                         /\ consumed => UNCHANGED Public!resolutionVars
<1>2. [PublicKept]_Public!vars => [Kept]_vars
  BY DEF Public!vars, Public!quantityVars, quantityVars, Public!positionVars, positionVars,
     Public!resolutionVars, resolutionVars
<1>3. Public!DecisionsFinal <=> [][PublicKept]_Public!vars
  BY DEF Public!DecisionsFinal
<1>4. DecisionsFinal <=> [][Kept]_vars
  BY DEF DecisionsFinal
<1> HIDE DEF Kept, PublicKept
<1>5. QED
  BY <1>1, <1>2, <1>3, <1>4, ImplementsPublic, PTL
=============================================================================
