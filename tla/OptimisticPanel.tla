-------------------------- MODULE OptimisticPanel --------------------------
(***************************************************************************)
(* The web panel of an optimistic market: which buttons it offers the      *)
(* connected wallet k, from the accounts it last fetched and the time. The *)
(* panel's conditions are written apart from the program's, in another     *)
(* language; here they are read on the program's own states.               *)
(*                                                                         *)
(* The browser's clock is taken to be right, and to tell the fractions of a *)
(* second that the chain's clock drops.                                     *)
(***************************************************************************)
EXTENDS OptimisticMarket

\* Whether Date.now() / 1_000, a fraction (part = 1) or nothing (part = 0) past
\* the chain's second, is after a second named in an account.
after(second, part) == 2 * now + part > 2 * second

proposal == proposer # NoKey

canPropose(part) ==
  /\ ~proposal
  /\ phase \in {"Open", "Locked"}
  /\ now >= ResolveNotBefore /\ ~after(ResolutionDeadline, part)

canChallenge(k, part) ==
  /\ proposal /\ phase = "Resolving"
  /\ ~after(challenge_deadline, part)
  /\ k # proposer

\* The button of a panel that counts the window's last second as over.
canFinalize_inclusive(part) == proposal /\ phase = "Resolving" /\ now >= challenge_deadline

canFinalize(part) == proposal /\ phase = "Resolving" /\ after(challenge_deadline, part)

hardDeadlineElapsed(part) == after(ResolutionDeadline, part)
canTimeoutDispute(part) == proposal /\ phase = "Disputed" /\ hardDeadlineElapsed(part)

\* The sum the panel shows, role by role.
claimableAmount(k) ==
  LET due(role, key) == IF key = k /\ role \notin claimed THEN payout[role] ELSE 0
  IN  IF proposal /\ finalized
      THEN due("proposer", proposer) + due("challenger", challenger) + due("treasury", TreasuryOwner)
      ELSE 0

\* What the "Finalize" button says it will do.
finalizeLabel(part) == IF hardDeadlineElapsed(part) THEN INVALID ELSE proposed_outcome

\* The rest of a deadline's own second, over in the browser and not on the chain.
in_last_second(second, part) == part = 1 /\ now = second

\* A panel that has just refreshed offers a challenge, a finalization, a
\* timeout or a claim when the program accepts it and, but for the rest of a
\* deadline's own second, only then: in that second it withholds a challenge
\* that would be accepted, and offers a finalization or a timeout that is
\* refused. The amount it shows is the one that is paid, and the outcome too,
\* outside the hard deadline's own second. It never withholds a proposal the
\* program would accept. (It does offer some the program refuses: canPropose
\* knows neither the observation window nor the room a challenge needs.)
OffersMatch ==
  \A part \in {0, 1} :
    /\ \A k \in Wallets :
         /\ canChallenge(k, part) <=>
              /\ \E out \in {YES, NO} : validate_optimistic_challenge(k, out)
              /\ ~in_last_second(challenge_deadline, part)
         /\ claimableAmount(k) = IF finalized THEN Due(claimable(k)) ELSE 0
    /\ canFinalize(part) <=>
         /\ phase = "Resolving" /\ ~finalized /\ challenger = NoKey
         /\ past_deadline \/ window_elapsed \/ in_last_second(challenge_deadline, part)
    /\ canFinalize(part) /\ ~in_last_second(ResolutionDeadline, part) =>
         finalizeLabel(part) = IF past_deadline THEN INVALID ELSE proposed_outcome
    /\ canTimeoutDispute(part) <=>
         dispute_pending /\ (past_deadline \/ in_last_second(ResolutionDeadline, part))
    /\ (\E out \in {YES, NO} : validate_optimistic_proposal(out)) => canPropose(part)
=============================================================================
