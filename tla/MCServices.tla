----------------------------- MODULE MCServices -----------------------------
(***************************************************************************)
(* The long-running services: the keeper, the prover and relayer behind a   *)
(* redemption, and the indexer. They share nothing but the chain, so one    *)
(* run checks them side by side: a behaviour is one of the three services,  *)
(* and the other two are processes that have ended.                         *)
(***************************************************************************)
EXTENDS Keeper, Sequences, TLC

CONSTANTS
  Requests, Nullifier, MaxPending,   \* Redemption
  r1, r2, r3,
  Indexed, Runs, Inodes, MaxChanges   \* Indexer

\* The operating system always has an inode to give.
ASSUME ServicesAssumption ==
  /\ IsFiniteSet(Requests) /\ Nobody \notin Requests /\ MaxPending \in Nat
  /\ IsFiniteSet(Runs) /\ IsFiniteSet(Inodes) /\ "none" \notin Inodes
  /\ Cardinality(Runs) < Cardinality(Inodes)

VARIABLES
  part,
  phase, claim, answer, proof, proverQueue, witnessDirs, stage, relayQueue, pending,
  chain, changes, process, scheduled, run, file, data, overlapped, unnoticed

redemptionVars ==
  <<phase, claim, answer, proof, proverQueue, witnessDirs, stage, relayQueue, pending>>
indexerVars ==
  <<chain, changes, process, scheduled, run, file, data, overlapped, unnoticed>>
allVars == <<vars, redemptionVars, indexerVars, part>>

\* One private and one public market of any resolver kind, and three ways to
\* start the keeper.
MCSkew == {0, 1}
MCModes ==
  {[keeperDryRun |-> FALSE, keeperOnce |-> FALSE, txline |-> TRUE],
   [keeperDryRun |-> FALSE, keeperOnce |-> FALSE, txline |-> FALSE],
   [keeperDryRun |-> TRUE, keeperOnce |-> TRUE, txline |-> TRUE]}

\* Two tabs redeem one position, a third request another.
MCNullifier == r1 :> "a" @@ r2 :> "a" @@ r3 :> "b"

R == INSTANCE Redemption
I == INSTANCE Indexer WITH Markets <- Indexed

\* A keeper that has ended, on markets that are closed.
KeeperEnded ==
  /\ time = MaxTime /\ keeper = [Idle EXCEPT !.pc = "exited"] /\ sent = {}
  /\ mode = CHOOSE m \in Modes : TRUE
  /\ market = [m \in Markets |->
       IF m \in PoolMarkets THEN [phase |-> "closed", orders |-> FALSE]
       ELSE [phase |-> "closed", resolver |-> CHOOSE r \in Resolvers : TRUE, proposal |-> None]]

ServicesInit ==
  /\ part \in {"keeper", "redemption", "indexer"}
  /\ IF part = "keeper" THEN Init ELSE KeeperEnded
  /\ R!Init /\ I!Init

ServicesNext ==
  \/ part = "keeper" /\ Next /\ UNCHANGED <<redemptionVars, indexerVars, part>>
  \/ part = "redemption" /\ R!Next /\ UNCHANGED <<vars, indexerVars, part>>
  \/ part = "indexer" /\ I!Next /\ UNCHANGED <<vars, redemptionVars, part>>

\* Nothing of a service that is not running is enabled, so its fairness asks
\* for nothing.
ServicesSpec ==
  /\ ServicesInit /\ [][ServicesNext]_allVars
  /\ Fairness /\ R!Fairness /\ I!Fairness

-----------------------------------------------------------------------------
\* Redemption: a page told "paid" was paid by its own request.
ClaimedMeansPaid == R!ClaimedMeansPaid

\* Redemption: no secret outlives its proof on the prover's disk.
WitnessErased == R!WitnessErased

\* Redemption: a relayer at its queue's bound accepts requests again.
RelayRecovers == R!RelayRecovers

\* Indexer: the index file is whole whenever it is read.
FileWhole == I!FileWhole

\* Indexer: the index file ends up as the chain is.
FileCatchesUp == I!FileCatchesUp
=============================================================================
