----------------------------- MODULE Redemption -----------------------------
(***************************************************************************)
(* How a private position is redeemed: the portfolio page obtains a proof,  *)
(* in the browser or from the hosted prover's serial queue, and posts it    *)
(* through the web route to the relayer, which checks its queue bound,      *)
(* reads the body, queues the redemption and submits it. A request is one   *)
(* click on "redeem"; two tabs, or a retry after an error, make two         *)
(* requests for one position. Both routes give up after a time-out while    *)
(* the service behind them works on.                                        *)
(***************************************************************************)
EXTENDS Naturals, Sequences, FiniteSets

CONSTANTS
  Requests,        \* clicks, each with its own fresh payout wallet
  Nullifier,       \* Nullifier[r] is the nullifier of the position r redeems
  MaxPending,      \* MAX_PENDING_REDEMPTIONS
  Nobody

VARIABLES
  phase,           \* the market's phase
  claim,           \* claim[n] is the request whose redemption paid n, or Nobody
  answer,          \* what the page was told: "none", "ok", "failed"
  proof,           \* "none", "queued", "made": the page's proof
  proverQueue,     \* requests whose proof the prover works through
  witnessDirs,     \* temporary directories that hold a secret
  stage,           \* where the relayer is with a request
  relayQueue,      \* redemptions in the order they are relayed
  pending          \* pendingRedemptions

clientVars == <<answer, proof>>
proverVars == <<proverQueue, witnessDirs>>
relayVars == <<stage, relayQueue, pending>>
vars == <<phase, claim, clientVars, proverVars, relayVars>>

Nullifiers == {Nullifier[r] : r \in Requests}

Init ==
  /\ phase = "resolved"
  /\ claim = [n \in Nullifiers |-> Nobody]
  /\ answer = [r \in Requests |-> "none"]
  /\ proof = [r \in Requests |-> "none"]
  /\ proverQueue = <<>> /\ witnessDirs = {}
  /\ stage = [r \in Requests |-> "unsent"]
  /\ relayQueue = <<>> /\ pending = 0

Tell(r, what) ==
  answer' = [answer EXCEPT ![r] = IF @ = "none" THEN what ELSE @]

----------------------------------------------------------------------------
(* The page up to the proof.                                               *)

\* redeem: the market is read and must be resolved; generateBrowserProof.
redeemInBrowser(r) ==
  /\ answer[r] = "none" /\ proof[r] = "none"
  /\ \/ phase = "resolved" /\ proof' = [proof EXCEPT ![r] = "made"] /\ UNCHANGED answer
     \/ Tell(r, "failed") /\ UNCHANGED proof
  /\ UNCHANGED <<phase, claim, proverVars, relayVars>>

\* redeem with proofMode "server": the request joins the prover's queue.
redeemHosted(r) ==
  /\ answer[r] = "none" /\ proof[r] = "none" /\ phase = "resolved"
  /\ proof' = [proof EXCEPT ![r] = "queued"]
  /\ proverQueue' = Append(proverQueue, r)
  /\ UNCHANGED <<phase, claim, answer, witnessDirs, relayVars>>

\* The route's time-out: the page sees an error, the prover keeps working.
proofTimesOut(r) ==
  /\ answer[r] = "none" /\ proof[r] = "queued"
  /\ Tell(r, "failed")
  /\ UNCHANGED <<phase, claim, proof, proverVars, relayVars>>

----------------------------------------------------------------------------
(* The hosted prover.                                                      *)

\* proveRedeem writes the witness under a directory of its own ...
startProof ==
  /\ proverQueue # <<>> /\ Head(proverQueue) \notin witnessDirs
  /\ witnessDirs' = witnessDirs \cup {Head(proverQueue)}
  /\ UNCHANGED <<phase, claim, clientVars, proverQueue, relayVars>>

\* ... which its finally clause removes, proof or no proof.
proved(r) == witnessDirs' = witnessDirs \ {r}

\* nargo and sunspot succeeded, and the page still waits or has left.
finishProof ==
  /\ proverQueue # <<>>
  /\ LET r == Head(proverQueue) IN
       /\ r \in witnessDirs
       /\ proved(r)
       /\ proof' = [proof EXCEPT ![r] = "made"]
  /\ proverQueue' = Tail(proverQueue)
  /\ UNCHANGED <<phase, claim, answer, relayVars>>

\* A removal that is skipped when a command fails.
unproved_leak(r) == UNCHANGED witnessDirs
unproved(r) == witnessDirs' = witnessDirs \ {r}

\* The request was not well formed, the path did not hash to the root, or a
\* command failed or was killed after its time.
failProof ==
  /\ proverQueue # <<>>
  /\ LET r == Head(proverQueue) IN unproved(r) /\ Tell(r, "failed")
  /\ proverQueue' = Tail(proverQueue)
  /\ UNCHANGED <<phase, claim, proof, relayVars>>

----------------------------------------------------------------------------
(* The relayer.                                                            *)

\* The bound is tested when the request arrives, before its body is read.
post(r) ==
  /\ answer[r] = "none" /\ proof[r] = "made" /\ stage[r] = "unsent"
  /\ \/ /\ pending >= MaxPending
        /\ stage' = [stage EXCEPT ![r] = "done"] /\ Tell(r, "failed")
     \/ /\ pending < MaxPending
        /\ stage' = [stage EXCEPT ![r] = "reading"] /\ UNCHANGED answer
  /\ UNCHANGED <<phase, claim, proof, proverVars, relayQueue, pending>>

\* checkedRelayRedeem accepts the body: the redemption is counted and queued.
queueRedemption(r) ==
  /\ stage[r] = "reading"
  /\ stage' = [stage EXCEPT ![r] = "queued"]
  /\ pending' = pending + 1
  /\ relayQueue' = Append(relayQueue, r)
  /\ UNCHANGED <<phase, claim, clientVars, proverVars>>

\* The body was cut off or refused.
refuseBody(r) ==
  /\ stage[r] = "reading"
  /\ stage' = [stage EXCEPT ![r] = "done"]
  /\ Tell(r, "failed")
  /\ UNCHANGED <<phase, claim, proof, proverVars, relayQueue, pending>>

\* relay reads the market and the claim account before it sends anything.
relayReads ==
  /\ relayQueue # <<>>
  /\ LET r == Head(relayQueue) IN
       /\ stage[r] = "queued"
       /\ stage' = [stage EXCEPT ![r] =
                      IF phase = "resolved" /\ claim[Nullifier[r]] = Nobody
                      THEN "sending" ELSE "rejected"]
  /\ UNCHANGED <<phase, claim, clientVars, proverVars, relayQueue, pending>>

\* A relayer that takes an existing claim for its own.
relaySends_trusting ==
  /\ relayQueue # <<>>
  /\ LET r == Head(relayQueue)
         n == Nullifier[r] IN
       /\ stage[r] \in {"sending", "rejected"}
       /\ claim' = [claim EXCEPT ![n] = IF @ = Nobody THEN r ELSE @]
       /\ stage' = [stage EXCEPT ![r] = "relayed"]
  /\ UNCHANGED <<phase, clientVars, proverVars, relayQueue, pending>>

\* program.methods.redeem: the claim account is created once; the last claim
\* closes the market. The confirmation may be lost though the payout was made.
relaySends ==
  /\ relayQueue # <<>>
  /\ LET r == Head(relayQueue)
         n == Nullifier[r] IN
       /\ stage[r] = "sending"
       /\ \/ /\ phase = "resolved" /\ claim[n] = Nobody
             /\ claim' = [claim EXCEPT ![n] = r]
             /\ phase' = IF \A m \in Nullifiers \ {n} : claim[m] # Nobody
                         THEN "closed" ELSE phase
             /\ \E s \in {"relayed", "rejected"} : stage' = [stage EXCEPT ![r] = s]
          \/ /\ stage' = [stage EXCEPT ![r] = "rejected"]
             /\ UNCHANGED <<phase, claim>>
  /\ UNCHANGED <<clientVars, proverVars, relayQueue, pending>>

\* A count that only a successful relay takes back.
settled_leak(r) == IF stage[r] = "relayed" THEN pending - 1 ELSE pending
settled(r) == pending - 1

\* The work settles, its finally clause counts it out, and the caller is told.
relayAnswers ==
  /\ relayQueue # <<>>
  /\ LET r == Head(relayQueue) IN
       /\ stage[r] \in {"relayed", "rejected"}
       /\ Tell(r, IF stage[r] = "relayed" THEN "ok" ELSE "failed")
       /\ stage' = [stage EXCEPT ![r] = "done"]
       /\ pending' = settled(r)
  /\ relayQueue' = Tail(relayQueue)
  /\ UNCHANGED <<phase, claim, proof, proverVars>>

\* The relay route's time-out: the page sees an error, the relayer works on.
relayTimesOut(r) ==
  /\ answer[r] = "none" /\ stage[r] \notin {"unsent", "done"}
  /\ Tell(r, "failed")
  /\ UNCHANGED <<phase, claim, proof, proverVars, relayVars>>

----------------------------------------------------------------------------
Relays == relayReads \/ relaySends \/ relayAnswers

Next ==
  \/ startProof \/ finishProof \/ failProof \/ Relays
  \/ \E r \in Requests :
       \/ redeemInBrowser(r) \/ redeemHosted(r) \/ proofTimesOut(r)
       \/ post(r) \/ queueRedemption(r) \/ refuseBody(r) \/ relayTimesOut(r)

\* Every step of a queued redemption ends: the RPC calls have time-outs.
Fairness == WF_vars(Relays)

Spec == Init /\ [][Next]_vars /\ Fairness

----------------------------------------------------------------------------
\* A page that is told its redemption went through, and marks the position
\* claimed, was paid on chain by that very request, to the wallet it named: not
\* by the request of another tab, nor by an earlier one that was taken for lost.
ClaimedMeansPaid == \A r \in Requests : answer[r] = "ok" => claim[Nullifier[r]] = r

\* A witness lies on the prover's disk only while its proof is being made,
\* however proofs fail or time out.
WitnessErased ==
  witnessDirs \subseteq (IF proverQueue = <<>> THEN {} ELSE {Head(proverQueue)})

\* The queue bound is tested before the body is read, so a burst can exceed it;
\* but every redemption is counted out again, and the relayer always gets back
\* to accepting requests.
RelayRecovers == pending >= MaxPending ~> pending < MaxPending
----------------------------------------------------------------------------
(* The inductive invariant.                                                *)

Stages == {"unsent", "reading", "queued", "sending", "relayed", "rejected", "done"}

RedemptionOK ==
  /\ phase \in {"resolved", "closed"}
  /\ claim \in [Nullifiers -> Requests \cup {Nobody}]
  /\ answer \in [Requests -> {"none", "ok", "failed"}]
  /\ proof \in [Requests -> {"none", "queued", "made"}]
  /\ proverQueue \in Seq(Requests) /\ relayQueue \in Seq(Requests)
  /\ witnessDirs \subseteq Requests
  /\ stage \in [Requests -> Stages]

\* A redemption counts as relayed only after a claim of its own.
RelayedOwnClaim == \A r \in Requests : stage[r] = "relayed" => claim[Nullifier[r]] = r

\* The counter the bound is tested against is the length of the queue: a
\* redemption that is refused, lost or rejected is counted out like any other.
PendingExact == pending = Len(relayQueue)

RedemptionIInv ==
  RedemptionOK /\ RelayedOwnClaim /\ ClaimedMeansPaid /\ WitnessErased /\ PendingExact
=============================================================================
