--------------------------- MODULE ServicesProofs ---------------------------
(***************************************************************************)
(* Theorems about the long-running services, for every value of the         *)
(* constants: the keeper's plans and what becomes of them when they are     *)
(* late, the redemption relayer and the prover, and the indexer's file.     *)
(***************************************************************************)
EXTENDS MCServices, FiniteSetTheorems, TLAPS

-----------------------------------------------------------------------------
(* The keeper: what the instructions leave behind.                         *)

PoolRecords == [phase : PoolPhases, orders : BOOLEAN]

LEMMA KeeperConstants ==
  /\ LockTs \in Nat /\ BatchDeadlineTs \in Nat /\ ResolveNotBeforeTs \in Nat
  /\ ResolutionDeadlineTs \in Nat /\ ChallengePeriod \in Nat
  /\ LockTs <= ResolveNotBeforeTs /\ ResolveNotBeforeTs < ResolutionDeadlineTs
  /\ LockTs <= BatchDeadlineTs /\ BatchDeadlineTs < ResolutionDeadlineTs
BY KeeperAssumption

\* The parts of a public market's accounts.
LEMMA RecordFields ==
  ASSUME NEW r \in HybridRecords
  PROVE  /\ r = [phase |-> r.phase, resolver |-> r.resolver, proposal |-> r.proposal]
         /\ r.phase \in HybridPhases /\ r.resolver \in Resolvers
         /\ r.proposal \in {None} \cup Proposals
         /\ Agrees(r)
BY DEF HybridRecords

LEMMA ProposalNotNone == None \notin Proposals
<1>1. SUFFICES ASSUME None \in Proposals PROVE FALSE
  OBVIOUS
<1>2. DOMAIN None = {"at"}
  BY DEF None
<1>3. DOMAIN None = {"challengeDeadline", "challenged", "finalized"}
  BY <1>1 DEF Proposals
<1>4. QED
  BY <1>2, <1>3

LEMMA PoolCallsKeep ==
  ASSUME NEW r \in PoolRecords, NEW s, NEW t,
         s \in submit_batch(r, t) \cup begin_refund(r, t) \cup resolve_market(r, t)
  PROVE  s \in PoolRecords
BY DEF PoolRecords, PoolPhases, submit_batch, begin_refund, resolve_market

\* A decision keeps the resolver and the proposal.
LEMMA FinalizeKeeps ==
  ASSUME NEW r \in HybridRecords, NEW s, NEW t, NEW timeout,
         s \in finalize_hybrid_resolution(r, t, timeout)
  PROVE  /\ s \in HybridRecords /\ s.resolver = r.resolver
         /\ s.phase = "resolved" /\ s.proposal = r.proposal
<1>1. s = [phase |-> "resolved", resolver |-> r.resolver, proposal |-> r.proposal]
  BY RecordFields DEF finalize_hybrid_resolution
<1>2. QED
  BY <1>1, RecordFields DEF HybridRecords, HybridPhases, Agrees

\* So does one that marks its proposal finalized.
LEMMA FinalizedKeeps ==
  ASSUME NEW r \in HybridRecords, r.phase \in {"resolving", "disputed"}, NEW s, NEW t, NEW timeout,
         s \in Finalized(finalize_hybrid_resolution(r, t, timeout))
  PROVE  s \in HybridRecords /\ s.resolver = r.resolver
<1>1. PICK q \in finalize_hybrid_resolution(r, t, timeout) : s = [q EXCEPT !.proposal.finalized = TRUE]
  BY DEF Finalized
<1>2. /\ q \in HybridRecords /\ q.resolver = r.resolver
      /\ q.phase = "resolved" /\ q.proposal \in Proposals
  BY <1>1, FinalizeKeeps, RecordFields DEF Agrees
<1>3. [q.proposal EXCEPT !.finalized = TRUE] \in Proposals
  BY <1>2 DEF Proposals
<1>4. s = [phase |-> "resolved", resolver |-> r.resolver,
           proposal |-> [q.proposal EXCEPT !.finalized = TRUE]]
  <2>1. q = [phase |-> "resolved", resolver |-> r.resolver, proposal |-> q.proposal]
    BY <1>2, RecordFields
  <2>2. [q EXCEPT !.proposal.finalized = TRUE]
        = [q EXCEPT !.proposal = [q.proposal EXCEPT !.finalized = TRUE]]
    BY <2>1
  <2> DEFINE p == [q.proposal EXCEPT !.finalized = TRUE]
  <2>3. s = [q EXCEPT !.proposal = p]
    BY <1>1, <2>2
  <2> HIDE DEF p
  <2>4. s = [phase |-> "resolved", resolver |-> r.resolver, proposal |-> p]
    BY <2>1, <2>3
  <2>5. QED
    BY <2>4 DEF p
<1>5. QED
  BY <1>3, <1>4, RecordFields DEF HybridRecords, HybridPhases, Agrees

LEMMA LockKeeps ==
  ASSUME NEW r \in HybridRecords, NEW s, NEW t, s \in lock_hybrid_market(r, t)
  PROVE  s \in HybridRecords /\ s.resolver = r.resolver
<1>1. s = [phase |-> "locked", resolver |-> r.resolver, proposal |-> r.proposal] /\ r.phase = "open"
  BY RecordFields DEF lock_hybrid_market
<1>2. QED
  BY <1>1, RecordFields DEF HybridRecords, HybridPhases, Unresolved, Agrees

LEMMA ProposeKeeps ==
  ASSUME NEW r \in HybridRecords, r.resolver = "optimistic", NEW s, NEW t \in Nat,
         s \in propose_optimistic_resolution(r, t)
  PROVE  s \in HybridRecords /\ s.resolver = r.resolver
<1> DEFINE p == [challengeDeadline |-> t + ChallengePeriod, challenged |-> FALSE, finalized |-> FALSE]
<1>1. /\ s = [phase |-> "resolving", resolver |-> r.resolver, proposal |-> p]
      /\ t + ChallengePeriod < ResolutionDeadlineTs
  BY RecordFields DEF propose_optimistic_resolution
<1>2. p \in Proposals
  BY KeeperConstants DEF Proposals
<1>3. QED
  BY <1>1, <1>2, RecordFields DEF HybridRecords, HybridPhases, Unresolved, Agrees

LEMMA ChallengeKeeps ==
  ASSUME NEW r \in HybridRecords, NEW s, NEW t, s \in challenge_optimistic_resolution(r, t)
  PROVE  s \in HybridRecords /\ s.resolver = r.resolver
<1> DEFINE p == [r.proposal EXCEPT !.challenged = TRUE]
<1>1. s = [phase |-> "disputed", resolver |-> r.resolver, proposal |-> p] /\ r.phase = "resolving"
  <2>1. /\ s = [[r EXCEPT !.phase = "disputed"] EXCEPT !.proposal.challenged = TRUE]
        /\ r.phase = "resolving"
    BY DEF challenge_optimistic_resolution
  <2> DEFINE q == [r EXCEPT !.phase = "disputed"]
  <2>2. q = [phase |-> "disputed", resolver |-> r.resolver, proposal |-> r.proposal]
    BY RecordFields
  <2>3. q.proposal = r.proposal
    BY <2>2
  <2>4. s = [q EXCEPT !.proposal = [q.proposal EXCEPT !.challenged = TRUE]]
    BY <2>1
  <2>5. QED
    BY <2>1, <2>2, <2>3, <2>4
<1>2. r.proposal \in Proposals /\ Agrees(r) /\ r.resolver = "optimistic"
  BY <1>1, RecordFields DEF Agrees
<1>3. /\ p \in Proposals /\ p.challengeDeadline = r.proposal.challengeDeadline
      /\ p.challenged /\ p.finalized = r.proposal.finalized
  BY <1>2 DEF Proposals
<1>4. QED
  BY <1>1, <1>2, <1>3, RecordFields DEF HybridRecords, HybridPhases, Unresolved, Agrees

\* Every instruction on a public market keeps its resolver and leaves its phase
\* and its proposal in agreement.
LEMMA HybridInstructionKeeps ==
  ASSUME NEW r \in HybridRecords, NEW s, NEW t \in Nat,
         \/ s \in lock_hybrid_market(r, t)
         \/ s \in resolve_hybrid_timeout(r, t)
         \/ s \in resolve_hybrid_with_oracle(r, t)
         \/ r.resolver = "optimistic" /\ s \in propose_optimistic_resolution(r, t)
         \/ s \in challenge_optimistic_resolution(r, t)
         \/ s \in finalize_optimistic_resolution(r, t)
         \/ s \in arbitrate_optimistic_resolution(r, t)
         \/ s \in timeout_optimistic_dispute(r, t)
  PROVE  s \in HybridRecords /\ s.resolver = r.resolver
<1>1. CASE s \in lock_hybrid_market(r, t)
  BY <1>1, LockKeeps
<1>2. CASE s \in resolve_hybrid_timeout(r, t)
  BY <1>2, FinalizeKeeps DEF resolve_hybrid_timeout
<1>3. CASE s \in resolve_hybrid_with_oracle(r, t)
  BY <1>3, FinalizeKeeps DEF resolve_hybrid_with_oracle
<1>4. CASE r.resolver = "optimistic" /\ s \in propose_optimistic_resolution(r, t)
  BY <1>4, ProposeKeeps
<1>5. CASE s \in challenge_optimistic_resolution(r, t)
  BY <1>5, ChallengeKeeps
<1>6. CASE s \in finalize_optimistic_resolution(r, t)
  BY <1>6, FinalizedKeeps DEF finalize_optimistic_resolution
<1>7. CASE s \in arbitrate_optimistic_resolution(r, t)
  BY <1>7, FinalizedKeeps DEF arbitrate_optimistic_resolution, resolve_hybrid_with_oracle
<1>8. CASE s \in timeout_optimistic_dispute(r, t)
  BY <1>8, FinalizedKeeps DEF timeout_optimistic_dispute
<1>9. QED
  BY <1>1, <1>2, <1>3, <1>4, <1>5, <1>6, <1>7, <1>8

-----------------------------------------------------------------------------
(* The keeper: its planners.                                               *)

PoolActions == {"begin-refund", "resolve"}
HybridActions ==
  {"lock", "resolve-oracle", "finalize-optimistic", "timeout-optimistic-dispute", "resolve-timeout"}

\* When planKeeperAction asks for what.
LEMMA PoolPlan ==
  ASSUME NEW phase0, NEW t \in Int
  PROVE  LET a == planKeeperAction(phase0, t)
         IN  /\ a \in PoolActions \cup {"submit-batch", "none"}
             /\ a = "begin-refund" <=> \/ phase0 = "open" /\ t > BatchDeadlineTs
                                       \/ phase0 = "batched" /\ t > ResolutionDeadlineTs
             /\ a = "resolve" <=> phase0 = "batched" /\ t <= ResolutionDeadlineTs
BY KeeperConstants DEF planKeeperAction, PoolActions

\* The alternatives of planHybridKeeperAction exclude one another.
LEMMA HybridPlan ==
  ASSUME NEW phase0, NEW resolver, NEW p, NEW t \in Int
  PROVE  LET a == planHybridKeeperAction(phase0, resolver, p, t)
             live == phase0 \notin {"resolved", "closed"}
             unfinalized == p # None /\ ~p.finalized
             late == t > ResolutionDeadlineTs
             ready == ~late /\ t >= ResolveNotBeforeTs
             disputable == resolver = "optimistic" /\ unfinalized
         IN  /\ a \in HybridActions \cup {"none"}
             /\ a = "timeout-optimistic-dispute" <=> live /\ late /\ disputable /\ p.challenged
             /\ a = "finalize-optimistic" <=>
                  \/ live /\ late /\ disputable /\ ~p.challenged
                  \/ /\ ready /\ disputable /\ phase0 = "resolving"
                     /\ ~p.challenged /\ t > p.challengeDeadline
             /\ a = "resolve-timeout" <=> live /\ late /\ ~disputable
             /\ a = "lock" <=> LockTs <= t /\ t < ResolveNotBeforeTs /\ phase0 = "open"
             /\ a = "resolve-oracle" <=>
                  ready /\ resolver \in MachineResolvers /\ phase0 \in {"open", "locked"}
<1> DEFINE a == planHybridKeeperAction(phase0, resolver, p, t)
           live == phase0 \notin {"resolved", "closed"}
           unfinalized == p # None /\ ~p.finalized
           late == t > ResolutionDeadlineTs
           ready == ~late /\ t >= ResolveNotBeforeTs
           disputable == resolver = "optimistic" /\ unfinalized
<1>1. CASE ~live
  BY <1>1 DEF planHybridKeeperAction, HybridActions
<1>2. CASE live /\ late /\ disputable
  BY <1>2, KeeperConstants DEF planHybridKeeperAction, HybridActions
<1>3. CASE live /\ late /\ ~disputable
  BY <1>3, KeeperConstants DEF planHybridKeeperAction, HybridActions
<1>4. CASE live /\ ~late /\ t < ResolveNotBeforeTs
  BY <1>4, KeeperConstants DEF planHybridKeeperAction, HybridActions
<1>5. CASE live /\ ready
  <2>1. CASE resolver \in MachineResolvers
    BY <1>5, <2>1, KeeperConstants DEF planHybridKeeperAction, HybridActions, MachineResolvers
  <2>2. CASE resolver \notin MachineResolvers
    BY <1>5, <2>2, KeeperConstants DEF planHybridKeeperAction, HybridActions
  <2>3. QED
    BY <2>1, <2>2
<1>6. QED
  BY <1>1, <1>2, <1>3, <1>4, <1>5, KeeperConstants

\* When finalize_hybrid_resolution decides a market.
LEMMA FinalizeAccepts ==
  ASSUME NEW r \in HybridRecords, NEW t \in Nat
  PROVE  /\ r.phase \in Unresolved /\ t > ResolutionDeadlineTs =>
              finalize_hybrid_resolution(r, t, TRUE) # {}
         /\ r.phase \in Unresolved /\ ~(t > ResolutionDeadlineTs) /\ t >= ResolveNotBeforeTs =>
              finalize_hybrid_resolution(r, t, FALSE) # {}
<1>1. ASSUME r.phase \in Unresolved, t > ResolutionDeadlineTs
      PROVE  [r EXCEPT !.phase = "resolved"] \in finalize_hybrid_resolution(r, t, TRUE)
  BY <1>1, KeeperConstants DEF finalize_hybrid_resolution, Unresolved
<1>2. ASSUME r.phase \in Unresolved, ~(t > ResolutionDeadlineTs), t >= ResolveNotBeforeTs
      PROVE  [r EXCEPT !.phase = "resolved"] \in finalize_hybrid_resolution(r, t, FALSE)
  BY <1>2, KeeperConstants DEF finalize_hybrid_resolution, Unresolved
<1>3. QED
  BY <1>1, <1>2

LEMMA FinalizedNonempty == ASSUME NEW S PROVE Finalized(S) # {} <=> S # {}
BY DEF Finalized

\* What a public market's record says of the plan for it is what the program
\* asks of the instruction.
LEMMA HybridPlanAccepted ==
  ASSUME NEW r \in HybridRecords, NEW t \in Nat,
         planHybridKeeperAction(r.phase, r.resolver, r.proposal, t) # "none"
  PROVE  Program(planHybridKeeperAction(r.phase, r.resolver, r.proposal, t), r, t) # {}
<1> DEFINE a == planHybridKeeperAction(r.phase, r.resolver, r.proposal, t)
           p == r.proposal
           live == r.phase \notin {"resolved", "closed"}
           late == t > ResolutionDeadlineTs
           disputable == r.resolver = "optimistic" /\ p # None /\ ~p.finalized
<1>1. /\ r.phase \in HybridPhases /\ Agrees(r) /\ r.proposal \in {None} \cup Proposals
      /\ r.phase \in Unresolved => (p # None <=> r.phase \in {"resolving", "disputed"})
  BY RecordFields, ProposalNotNone DEF Agrees, Unresolved
<1>2. /\ a \in HybridActions
      /\ a = "timeout-optimistic-dispute" => live /\ late /\ disputable /\ p.challenged
      /\ a = "finalize-optimistic" =>
           \/ live /\ late /\ disputable /\ ~p.challenged
           \/ /\ ~late /\ t >= ResolveNotBeforeTs /\ disputable /\ r.phase = "resolving"
              /\ ~p.challenged /\ t > p.challengeDeadline
      /\ a = "resolve-timeout" => live /\ late /\ ~disputable
      /\ a = "lock" => LockTs <= t /\ r.phase = "open"
      /\ a = "resolve-oracle" =>
           ~late /\ t >= ResolveNotBeforeTs /\ r.phase \in {"open", "locked"}
  BY HybridPlan
<1> HIDE DEF a
<1>3. a = "timeout-optimistic-dispute" => Program(a, r, t) # {}
  BY <1>1, <1>2, KeeperConstants, FinalizeAccepts, FinalizedNonempty DEF Program, timeout_optimistic_dispute,
     HybridPhases, Unresolved, Agrees
<1>4. ASSUME a = "finalize-optimistic" PROVE Program(a, r, t) # {}
  <2>1. r.phase = "resolving" /\ p \in Proposals /\ ~p.finalized /\ ~p.challenged
    BY <1>1, <1>2, <1>4 DEF HybridPhases, Unresolved, Agrees
  <2>2. \/ t > ResolutionDeadlineTs
        \/ ~(t > ResolutionDeadlineTs) /\ t > p.challengeDeadline /\ t >= ResolveNotBeforeTs
    BY <1>1, <1>2, <1>4, KeeperConstants
  <2>3. \/ finalize_optimistic_resolution(r, t) = Finalized(finalize_hybrid_resolution(r, t, TRUE))
           /\ t > ResolutionDeadlineTs
        \/ finalize_optimistic_resolution(r, t) = Finalized(finalize_hybrid_resolution(r, t, FALSE))
           /\ ~(t > ResolutionDeadlineTs) /\ t >= ResolveNotBeforeTs
    BY <2>1, <2>2 DEF finalize_optimistic_resolution
  <2>4. finalize_optimistic_resolution(r, t) # {}
    <3>1. t > ResolutionDeadlineTs => finalize_hybrid_resolution(r, t, TRUE) # {}
      BY <2>1, FinalizeAccepts DEF Unresolved
    <3>2. ~(t > ResolutionDeadlineTs) /\ t >= ResolveNotBeforeTs =>
             finalize_hybrid_resolution(r, t, FALSE) # {}
      BY <2>1, FinalizeAccepts, KeeperConstants DEF Unresolved
    <3>3. QED
      BY <2>3, <3>1, <3>2, FinalizedNonempty
  <2>5. QED
    BY <1>4, <2>4 DEF Program
<1>5. a = "resolve-timeout" => Program(a, r, t) # {}
  BY <1>1, <1>2, KeeperConstants, FinalizeAccepts, FinalizedNonempty DEF Program, resolve_hybrid_timeout,
     HybridPhases, Unresolved, Agrees
<1>6. a = "lock" => Program(a, r, t) # {}
  BY <1>1, <1>2, KeeperConstants, FinalizeAccepts, FinalizedNonempty DEF Program, lock_hybrid_market
<1>7. a = "resolve-oracle" => Program(a, r, t) # {}
  BY <1>1, <1>2, KeeperConstants, FinalizeAccepts, FinalizedNonempty DEF Program, resolve_hybrid_with_oracle,
     Unresolved
<1>8. Program(a, r, t) # {}
  BY <1>3, <1>4, <1>5, <1>6, <1>7, <1>2 DEF HybridActions
<1>9. QED
  BY <1>8 DEF a

-----------------------------------------------------------------------------
(* The keeper: the invariant.                                              *)

LEMMA KeeperInitInv == Init \/ KeeperEnded => KeeperIInv
<1>1. Idle \in [pc : {"loop", "listing", "pools", "hybrids", "oracle", "exited"}, now : Int,
                queue : SUBSET [publicKey : Markets, phase : PoolPhases \cup HybridPhases],
                current : {Nobody} \cup
                  [publicKey : HybridMarkets, phase : HybridPhases, named : BOOLEAN]]
      /\ Idle.queue = {}
  BY DEF Idle
<1>2. [Idle EXCEPT !.pc = "exited"]
        \in [pc : {"loop", "listing", "pools", "hybrids", "oracle", "exited"}, now : Int,
             queue : SUBSET [publicKey : Markets, phase : PoolPhases \cup HybridPhases],
             current : {Nobody} \cup
               [publicKey : HybridMarkets, phase : HybridPhases, named : BOOLEAN]]
      /\ [Idle EXCEPT !.pc = "exited"].queue = {}
  BY DEF Idle
<1>3. ASSUME NEW ph \in {"open", "closed"}, NEW resolver \in Resolvers
      PROVE  [phase |-> ph, resolver |-> resolver, proposal |-> None] \in HybridRecords
  BY DEF HybridRecords, HybridPhases, Unresolved, Agrees
<1>4. ASSUME NEW ph \in {"open", "closed"}, NEW orders \in BOOLEAN
      PROVE  [phase |-> ph, orders |-> orders] \in PoolRecords
  BY DEF PoolRecords, PoolPhases
<1>5. ASSUME Init PROVE KeeperIInv
  <2>1. PICK orders \in [PoolMarkets -> BOOLEAN], resolver \in [HybridMarkets -> Resolvers] :
          market = [m \in Markets |->
                     IF m \in PoolMarkets THEN [phase |-> "open", orders |-> orders[m]]
                     ELSE [phase |-> "open", resolver |-> resolver[m], proposal |-> None]]
    BY <1>5 DEF Init
  <2>2. MarketsOK
    BY <2>1, <1>3, <1>4, KeeperAssumption DEF MarketsOK, Markets, PoolRecords
  <2>3. QED
    BY <1>1, <1>5, <2>2 DEF Init, KeeperIInv, KeeperOK, SentOK
<1>6. ASSUME KeeperEnded PROVE KeeperIInv
  <2>1. (CHOOSE r \in Resolvers : TRUE) \in Resolvers
    BY KeeperAssumption
  <2>2. MarketsOK
    BY <1>6, <2>1, <1>3, <1>4, KeeperAssumption DEF KeeperEnded, MarketsOK, Markets, PoolRecords
  <2>3. QED
    BY <1>2, <1>6, <2>2, KeeperAssumption DEF KeeperEnded, KeeperIInv, KeeperOK, SentOK
<1>7. QED
  BY <1>5, <1>6

\* One market's accounts change and keep their resolver.
LEMMA MarketChangeInv ==
  ASSUME KeeperIInv, NEW m \in Markets, NEW r,
         m \in PoolMarkets => r \in PoolRecords,
         m \in HybridMarkets => r \in HybridRecords /\ r.resolver = market[m].resolver,
         market' = [market EXCEPT ![m] = r],
         sent' \subseteq sent, UNCHANGED <<time, keeper>>
  PROVE  KeeperIInv'
<1>1. MarketsOK'
  BY DEF KeeperIInv, MarketsOK, Markets, PoolRecords
<1>2. \A n \in HybridMarkets : market'[n].resolver = market[n].resolver
  BY DEF KeeperIInv, MarketsOK, Markets
<1>3. SentOK'
  BY <1>2, KeeperAssumption DEF KeeperIInv, SentOK, Markets, MachineResolvers
<1>4. KeeperOK'
  BY DEF KeeperIInv, KeeperOK
<1>5. QED
  BY <1>1, <1>3, <1>4 DEF KeeperIInv

\* What the program does with a transaction in flight.
LEMMA LandInv ==
  ASSUME KeeperIInv, NEW p \in sent, land(p)
  PROVE  KeeperIInv'
<1> DEFINE m == p.market
           results == Program(p.action, market[m], time)
<1>1. /\ m \in Markets /\ time \in Nat /\ p.action \in PoolActions \cup HybridActions
      /\ m \in PoolMarkets <=> p.action \in PoolActions
      /\ m \in PoolMarkets => market[m] \in PoolRecords
      /\ m \in HybridMarkets => market[m] \in HybridRecords
  BY DEF KeeperIInv, SentOK, MarketsOK, PoolActions, HybridActions, PoolRecords
<1>2. CASE market' = market
  BY <1>2 DEF land, KeeperIInv, MarketsOK, KeeperOK, SentOK, MachineResolvers
<1>3. CASE market' # market
  <2>1. PICK r \in results : market' = [market EXCEPT ![m] = r]
    BY <1>3 DEF land
  <2>2. ASSUME m \in PoolMarkets PROVE r \in PoolRecords /\ m \notin HybridMarkets
    <3>1. r \in begin_refund(market[m], time) \cup resolve_market(market[m], time)
      BY <1>1, <2>1, <2>2 DEF Program, PoolActions
    <3>2. QED
      BY <1>1, <2>2, <3>1, PoolCallsKeep, KeeperAssumption
  <2>3. ASSUME m \in HybridMarkets
        PROVE  r \in HybridRecords /\ r.resolver = market[m].resolver
    <3>1. m \notin PoolMarkets
      BY <2>3, KeeperAssumption
    <3>2. \/ r \in lock_hybrid_market(market[m], time)
          \/ r \in resolve_hybrid_timeout(market[m], time)
          \/ r \in resolve_hybrid_with_oracle(market[m], time)
          \/ r \in finalize_optimistic_resolution(market[m], time)
          \/ r \in timeout_optimistic_dispute(market[m], time)
      BY <1>1, <2>1, <3>1 DEF Program, HybridActions
    <3>3. QED
      BY <1>1, <2>3, <3>2, HybridInstructionKeeps
  <2>4. QED
    BY <1>1, <2>1, <2>2, <2>3, MarketChangeInv DEF land
<1>4. QED
  BY <1>2, <1>3

LEMMA OthersInv ==
  ASSUME KeeperIInv, NEW m \in Markets, others(m)
  PROVE  KeeperIInv'
<1>1. time \in Nat
  BY DEF KeeperIInv
<1>2. CASE m \in PoolMarkets
  <2>1. PICK r \in PoolCalls(market[m]) : market' = [market EXCEPT ![m] = r]
    BY <1>2 DEF others
  <2>2. r \in PoolRecords
    BY <1>2, <2>1, PoolCallsKeep DEF PoolCalls, KeeperIInv, MarketsOK, PoolRecords
  <2>3. QED
    BY <1>2, <2>1, <2>2, MarketChangeInv, KeeperAssumption DEF others
<1>3. CASE m \notin PoolMarkets
  <2>1. PICK r \in HybridCalls(market[m]) : market' = [market EXCEPT ![m] = r]
    BY <1>3 DEF others
  <2>2. market[m] \in HybridRecords
    BY <1>3 DEF KeeperIInv, MarketsOK, Markets
  <2>3. r \in HybridRecords /\ r.resolver = market[m].resolver
    <3>1. CASE market[m].resolver = "optimistic"
      BY <1>1, <2>1, <2>2, <3>1, HybridInstructionKeeps DEF HybridCalls, MachineResolvers
    <3>2. CASE market[m].resolver \in MachineResolvers
      BY <1>1, <2>1, <2>2, <3>2, HybridInstructionKeeps DEF HybridCalls, MachineResolvers
    <3>3. CASE market[m].resolver # "optimistic" /\ market[m].resolver \notin MachineResolvers
      BY <1>1, <2>1, <2>2, <3>3, HybridInstructionKeeps DEF HybridCalls
    <3>4. QED
      BY <3>1, <3>2, <3>3
  <2>4. QED
    BY <1>3, <2>1, <2>3, MarketChangeInv DEF others
<1>4. QED
  BY <1>2, <1>3

\* The steps of a pass: the clock, the listings, the plans.
LEMMA ServePoolInv == KeeperIInv /\ servePool => KeeperIInv'
<1> SUFFICES ASSUME KeeperIInv, servePool PROVE KeeperIInv'
  OBVIOUS
<1>1. PICK e \in keeper.queue :
        /\ submit(e.publicKey, planKeeperAction(e.phase, keeper.now))
        /\ keeper' = [keeper EXCEPT !.queue = @ \ {e}]
  BY DEF servePool
<1>2. e.publicKey \in PoolMarkets /\ e.publicKey \in Markets /\ keeper.now \in Int
  BY DEF KeeperIInv, KeeperOK, servePool, Markets
<1> DEFINE a == planKeeperAction(e.phase, keeper.now)
<1>3. Submits(e.publicKey, a) => a \in PoolActions
  BY <1>2, PoolPlan DEF Submits
<1> HIDE DEF a
<1>4. SentOK'
  <2>1. CASE UNCHANGED sent
    BY <2>1 DEF KeeperIInv, SentOK, servePool, MachineResolvers
  <2>2. CASE Submits(e.publicKey, a) /\ sent' = sent \cup {[market |-> e.publicKey, action |-> a]}
    BY <1>2, <1>3, <2>2 DEF KeeperIInv, SentOK, servePool, PoolActions, MachineResolvers
  <2>3. QED
    BY <1>1, <2>1, <2>2 DEF submit, a
<1>5. KeeperOK'
  BY <1>1 DEF KeeperIInv, KeeperOK, servePool
<1>6. QED
  BY <1>4, <1>5 DEF KeeperIInv, servePool, MarketsOK

LEMMA ServeHybridInv == ASSUME NEW m \in HybridMarkets PROVE KeeperIInv /\ serveHybrid(m) => KeeperIInv'
<1> SUFFICES ASSUME KeeperIInv, serveHybrid(m) PROVE KeeperIInv'
  OBVIOUS
<1> DEFINE p == IF keeper.current.named THEN market[m].proposal ELSE None
           a == planHybridKeeperAction(keeper.current.phase, market[m].resolver, p, keeper.now)
<1>1. keeper.now \in Int /\ m \in Markets /\ m \notin PoolMarkets
  BY KeeperAssumption DEF KeeperIInv, KeeperOK, Markets
<1> HIDE DEF p
<1>2. /\ Submits(m, a) => a \in HybridActions
      /\ a = "resolve-oracle" => market[m].resolver \in MachineResolvers
  BY <1>1, HybridPlan DEF Submits
<1>3. submit(m, a)
  BY DEF serveHybrid, p
<1> HIDE DEF a
<1>4. SentOK'
  <2>1. CASE UNCHANGED sent
    BY <2>1 DEF KeeperIInv, SentOK, serveHybrid, MachineResolvers
  <2>2. CASE Submits(m, a) /\ sent' = sent \cup {[market |-> m, action |-> a]}
    BY <1>1, <1>2, <2>2 DEF KeeperIInv, SentOK, serveHybrid, HybridActions
  <2>3. QED
    BY <1>3, <2>1, <2>2 DEF submit
<1>5. KeeperOK'
  BY DEF KeeperIInv, KeeperOK, serveHybrid
<1>6. QED
  BY <1>4, <1>5 DEF KeeperIInv, serveHybrid, MarketsOK

LEMMA ReadsInv ==
  ASSUME KeeperIInv, Reads, KeeperOK'
  PROVE  KeeperIInv'
BY DEF KeeperIInv, Reads, MarketsOK, SentOK, MachineResolvers

LEMMA ListedMarkets ==
  ASSUME MarketsOK
  PROVE  /\ Listed(PoolMarkets) \subseteq [publicKey : PoolMarkets, phase : PoolPhases]
         /\ Listed(HybridMarkets) \subseteq [publicKey : HybridMarkets, phase : HybridPhases]
BY RecordFields DEF MarketsOK, Listed

LEMMA MainInv == KeeperIInv /\ main => KeeperIInv'
<1> SUFFICES ASSUME KeeperIInv, main PROVE KeeperIInv'
  OBVIOUS
<1>1. CASE readClock
  <2>1. time \in Nat /\ Skew \subseteq Int
    BY KeeperAssumption DEF KeeperIInv
  <2>2. PICK d \in Skew : keeper' = [keeper EXCEPT !.pc = "listing", !.now = time + d]
    BY <1>1 DEF readClock
  <2>3. time + d \in Int
    BY <2>1
  <2>4. KeeperOK'
    BY <1>1, <2>2, <2>3 DEF KeeperIInv, KeeperOK, readClock
  <2>5. QED
    BY <1>1, <2>4, ReadsInv DEF readClock
<1>2. CASE listPools
  <2>1. KeeperOK'
    BY <1>2, ListedMarkets DEF KeeperIInv, KeeperOK, listPools, Markets
  <2>2. QED
    BY <1>2, <2>1, ReadsInv DEF listPools
<1>3. CASE servePool
  BY <1>3, ServePoolInv
<1>4. CASE listHybrids
  <2>1. KeeperOK'
    BY <1>4, ListedMarkets DEF KeeperIInv, KeeperOK, listHybrids, Markets
  <2>2. QED
    BY <1>4, <2>1, ReadsInv DEF listHybrids
<1>5. CASE readOracle
  <2>1. PICK e \in keeper.queue :
          keeper' = [keeper EXCEPT !.pc = "oracle", !.queue = @ \ {e},
                       !.current = [publicKey |-> e.publicKey, phase |-> e.phase,
                                    named |-> market[e.publicKey].proposal # None]]
    BY <1>5 DEF readOracle
  <2>2. e.publicKey \in HybridMarkets /\ e.phase \in HybridPhases
    BY <1>5 DEF readOracle, KeeperIInv, KeeperOK
  <2>3. [publicKey |-> e.publicKey, phase |-> e.phase, named |-> market[e.publicKey].proposal # None]
          \in [publicKey : HybridMarkets, phase : HybridPhases, named : BOOLEAN]
    BY <2>2
  <2>4. KeeperOK'
    BY <1>5, <2>1, <2>3 DEF KeeperIInv, KeeperOK, readOracle
  <2>5. QED
    BY <1>5, <2>4, ReadsInv DEF readOracle
<1>6. CASE \E m \in HybridMarkets : serveHybrid(m)
  BY <1>6, ServeHybridInv
<1>7. CASE endPass
  <2>1. KeeperOK'
    BY <1>7 DEF KeeperIInv, KeeperOK, endPass, Idle
  <2>2. QED
    BY <1>7, <2>1, ReadsInv DEF endPass
<1>8. QED
  BY <1>1, <1>2, <1>3, <1>4, <1>5, <1>6, <1>7 DEF main

LEMMA KeeperNextInv == KeeperIInv /\ [Next]_vars => KeeperIInv'
<1> SUFFICES ASSUME KeeperIInv, [Next]_vars PROVE KeeperIInv'
  OBVIOUS
<1>1. CASE main
  BY <1>1, MainInv
<1>2. CASE listingFails
  <2>1. KeeperOK'
    BY <1>2 DEF KeeperIInv, KeeperOK, listingFails, Idle
  <2>2. QED
    BY <1>2, <2>1, ReadsInv DEF listingFails
<1>3. CASE fetchFails
  <2>1. KeeperOK'
    BY <1>3 DEF KeeperIInv, KeeperOK, fetchFails
  <2>2. QED
    BY <1>3, <2>1, ReadsInv DEF fetchFails
<1>4. CASE tick
  BY <1>4 DEF KeeperIInv, KeeperOK, tick, MarketsOK, SentOK, MachineResolvers
<1>5. ASSUME NEW p \in sent, land(p) PROVE KeeperIInv'
  BY <1>5, LandInv
<1>6. ASSUME NEW p \in sent, drop(p) PROVE KeeperIInv'
  BY <1>6 DEF KeeperIInv, KeeperOK, drop, MarketsOK, SentOK, MachineResolvers
<1>7. ASSUME NEW m \in Markets, others(m) PROVE KeeperIInv'
  BY <1>7, OthersInv
<1>8. CASE UNCHANGED vars
  BY <1>8 DEF vars, KeeperIInv, KeeperOK, MarketsOK, SentOK, MachineResolvers
<1>9. QED
  BY <1>1, <1>2, <1>3, <1>4, <1>5, <1>6, <1>7, <1>8 DEF Next

-----------------------------------------------------------------------------
(* The keeper: theorems.                                                   *)

LEMMA PlansHold == KeeperIInv => PlansAccepted
<1> SUFFICES ASSUME KeeperIInv, NEW m \in Markets, FreshPlan(m) \notin {"none", "submit-batch"}
             PROVE  Program(FreshPlan(m), market[m], time) # {}
  BY DEF PlansAccepted
<1>1. time \in Nat
  BY DEF KeeperIInv
<1>2. CASE m \in PoolMarkets
  <2>1. market[m] \in PoolRecords /\ FreshPlan(m) = planKeeperAction(market[m].phase, time)
    BY <1>2 DEF KeeperIInv, MarketsOK, PoolRecords, FreshPlan
  <2> DEFINE a == planKeeperAction(market[m].phase, time)
  <2>2. /\ a \in PoolActions \cup {"submit-batch", "none"}
        /\ a = "begin-refund" => \/ market[m].phase = "open" /\ time > BatchDeadlineTs
                                 \/ market[m].phase = "batched" /\ time > ResolutionDeadlineTs
        /\ a = "resolve" => market[m].phase = "batched" /\ time <= ResolutionDeadlineTs
    BY <1>1, PoolPlan
  <2>3. CASE FreshPlan(m) = "begin-refund"
    <3>1. \/ market[m].phase = "open" /\ time > BatchDeadlineTs
          \/ market[m].phase = "batched" /\ time > ResolutionDeadlineTs
      BY <2>1, <2>3, <2>2
    <3>2. begin_refund(market[m], time) # {}
      BY <3>1 DEF begin_refund
    <3>3. QED
      BY <2>3, <3>2 DEF Program
  <2>4. CASE FreshPlan(m) = "resolve"
    <3>1. market[m].phase = "batched" /\ time <= ResolutionDeadlineTs
      BY <2>1, <2>4, <2>2
    <3>2. resolve_market(market[m], time) # {}
      BY <3>1 DEF resolve_market
    <3>3. QED
      BY <2>4, <3>2 DEF Program
  <2>5. QED
    BY <2>1, <2>3, <2>4, <2>2 DEF PoolActions
<1>3. CASE m \notin PoolMarkets
  <2>1. /\ market[m] \in HybridRecords
        /\ FreshPlan(m) = planHybridKeeperAction(market[m].phase, market[m].resolver,
                                                 market[m].proposal, time)
    BY <1>3 DEF KeeperIInv, MarketsOK, Markets, FreshPlan
  <2>2. QED
    BY <1>1, <2>1, HybridPlanAccepted
<1>4. QED
  BY <1>2, <1>3

\* A market's phase, its proposal and the time decide which late transaction
\* can still be executed, and it is the one a fresh plan asks for.
LEMMA LateStep ==
  ASSUME KeeperIInv, NEW p \in sent, land(p), market' # market
  PROVE  p.action \in {FreshPlan(p.market), "lock"}
<1> DEFINE m == p.market
           r == market[m]
<1>1. /\ m \in Markets /\ time \in Nat /\ p.action \in PoolActions \cup HybridActions
      /\ m \in PoolMarkets <=> p.action \in PoolActions
      /\ m \in PoolMarkets => r \in PoolRecords
      /\ m \in HybridMarkets => r \in HybridRecords
      /\ p.action = "resolve-oracle" => r.resolver \in MachineResolvers
  BY DEF KeeperIInv, SentOK, MarketsOK, PoolActions, HybridActions, PoolRecords
<1>2. PICK s \in Program(p.action, r, time) : TRUE
  BY DEF land
<1>3. CASE m \in PoolMarkets
  <2>1. FreshPlan(m) = planKeeperAction(r.phase, time)
    BY <1>3 DEF FreshPlan
  <2>2. CASE p.action = "begin-refund"
    BY <1>1, <1>2, <2>1, <2>2, PoolPlan DEF Program, begin_refund
  <2>3. CASE p.action = "resolve"
    BY <1>1, <1>2, <2>1, <2>3, PoolPlan DEF Program, resolve_market
  <2>4. QED
    BY <1>1, <1>3, <2>2, <2>3 DEF PoolActions
<1>4. CASE m \notin PoolMarkets
  <2>1. FreshPlan(m) = planHybridKeeperAction(r.phase, r.resolver, r.proposal, time)
    BY <1>4 DEF FreshPlan
  <2>2. /\ r \in HybridRecords /\ Agrees(r) /\ r.phase \in HybridPhases
        /\ p.action \in HybridActions /\ None \notin Proposals
    BY <1>1, <1>4, RecordFields, ProposalNotNone DEF Markets
  <2>3. ASSUME NEW timeout \in BOOLEAN, finalize_hybrid_resolution(r, time, timeout) # {}
        PROVE  r.phase \in Unresolved /\ time >= ResolveNotBeforeTs
               /\ (timeout <=> time > ResolutionDeadlineTs)
    BY <2>3 DEF finalize_hybrid_resolution, Unresolved
  <2>4. ASSUME p.action = "resolve-oracle" PROVE FreshPlan(m) = p.action
    <3>1. finalize_hybrid_resolution(r, time, FALSE) # {}
      BY <1>2, <2>4 DEF Program, resolve_hybrid_with_oracle
    <3>2. r.phase \in Unresolved /\ time >= ResolveNotBeforeTs /\ ~(time > ResolutionDeadlineTs)
      BY <2>3, <3>1
    <3>3. r.phase \in {"open", "locked"}
      BY <1>1, <2>2, <2>4, <3>2 DEF Unresolved, Agrees, MachineResolvers
    <3>4. QED
      BY <1>1, <2>1, <2>4, <3>2, <3>3, HybridPlan
  <2>5. ASSUME p.action = "finalize-optimistic" PROVE FreshPlan(m) = p.action
    <3>1. finalize_optimistic_resolution(r, time) # {}
      BY <1>2, <2>5 DEF Program
    <3>2. /\ r.phase = "resolving" /\ r.proposal \in Proposals
          /\ ~r.proposal.finalized /\ ~r.proposal.challenged /\ r.resolver = "optimistic"
      BY <2>2, <3>1 DEF finalize_optimistic_resolution, Agrees
    <3>3. \/ time > ResolutionDeadlineTs
          \/ /\ ~(time > ResolutionDeadlineTs) /\ time > r.proposal.challengeDeadline
             /\ finalize_hybrid_resolution(r, time, FALSE) # {}
      BY <3>1, FinalizedNonempty DEF finalize_optimistic_resolution
    <3>4. \/ time > ResolutionDeadlineTs
          \/ /\ ~(time > ResolutionDeadlineTs) /\ time > r.proposal.challengeDeadline
             /\ time >= ResolveNotBeforeTs
      BY <2>3, <3>3
    <3>5. QED
      BY <1>1, <2>1, <2>2, <2>5, <3>2, <3>4, HybridPlan
  <2>6. ASSUME p.action = "timeout-optimistic-dispute" PROVE FreshPlan(m) = p.action
    <3>1. timeout_optimistic_dispute(r, time) # {}
      BY <1>2, <2>6 DEF Program
    <3>2. /\ r.phase = "disputed" /\ time > ResolutionDeadlineTs /\ r.proposal \in Proposals
          /\ ~r.proposal.finalized /\ r.proposal.challenged /\ r.resolver = "optimistic"
      BY <2>2, <3>1 DEF timeout_optimistic_dispute, Agrees
    <3>3. QED
      BY <1>1, <2>1, <2>2, <2>6, <3>2, HybridPlan
  <2>7. ASSUME p.action = "resolve-timeout" PROVE FreshPlan(m) = p.action
    <3>1. r.proposal = None /\ finalize_hybrid_resolution(r, time, TRUE) # {}
      BY <1>2, <2>7 DEF Program, resolve_hybrid_timeout
    <3>2. r.phase \in Unresolved /\ time > ResolutionDeadlineTs
      BY <2>3, <3>1
    <3>3. QED
      BY <1>1, <2>1, <2>7, <3>1, <3>2, HybridPlan DEF Unresolved
  <2>8. QED
    BY <2>2, <2>4, <2>5, <2>6, <2>7 DEF HybridActions
<1>5. QED
  BY <1>3, <1>4

LEMMA KeeperInvariance == ServicesSpec => []KeeperIInv
<1>1. ServicesInit => KeeperIInv
  BY KeeperInitInv DEF ServicesInit
<1>2. [ServicesNext]_allVars => [Next]_vars
  BY DEF ServicesNext, allVars
<1>3. QED
  BY <1>1, <1>2, KeeperNextInv, PTL DEF ServicesSpec

\* The keeper's planners agree with the program, whoever moves the markets: a
\* plan made from a market as it is now is an instruction the program accepts.
THEOREM KeeperPlansAccepted == ServicesSpec => []PlansAccepted
<1>1. QED
  BY PlansHold, KeeperInvariance, PTL

\* However stale the snapshots a pass was planned from and however late its
\* transactions land, in any number, what the program still executes of them is
\* what a fresh plan would ask for, or a lock.
THEOREM LatePlansHarmless == ServicesSpec => StaleHarmless
<1> DEFINE Harmless == \A p \in sent :
                         land(p) /\ market' # market => p.action \in {FreshPlan(p.market), "lock"}
<1>1. [ServicesNext]_allVars => [Next]_vars
  BY DEF ServicesNext, allVars
<1>2. KeeperIInv /\ [Next]_vars => [Harmless]_vars
  BY LateStep
<1>3. StaleHarmless <=> [][Harmless]_vars
  BY DEF StaleHarmless
<1> HIDE DEF Harmless
<1>4. QED
  BY <1>1, <1>2, <1>3, KeeperInvariance, PTL DEF ServicesSpec

-----------------------------------------------------------------------------
(* The redemption relayer and the prover.                                  *)

LEMMA RedemptionInitInv == R!Init => R!RedemptionIInv
BY DEF R!Init, R!RedemptionIInv, R!RedemptionOK, R!RelayedOwnClaim, R!ClaimedMeansPaid,
   R!WitnessErased, R!PendingExact, R!Stages, R!Nullifiers

LEMMA ProofStepsInv ==
  ASSUME R!RedemptionIInv,
         \/ R!startProof \/ R!finishProof \/ R!failProof
         \/ \E r \in Requests :
              R!redeemInBrowser(r) \/ R!redeemHosted(r) \/ R!proofTimesOut(r)
  PROVE  R!RedemptionIInv'
<1> USE DEF R!RedemptionIInv, R!RedemptionOK, R!RelayedOwnClaim, R!ClaimedMeansPaid,
        R!WitnessErased, R!PendingExact, R!Stages, R!Nullifiers, R!Tell, R!clientVars,
        R!proverVars, R!relayVars
<1>1. CASE R!startProof
  BY <1>1 DEF R!startProof
<1>2. CASE R!finishProof
  BY <1>2 DEF R!finishProof, R!proved
<1>3. CASE R!failProof
  BY <1>3 DEF R!failProof, R!unproved
<1>4. ASSUME NEW r \in Requests, R!redeemInBrowser(r) PROVE R!RedemptionIInv'
  BY <1>4 DEF R!redeemInBrowser
<1>5. ASSUME NEW r \in Requests, R!redeemHosted(r) PROVE R!RedemptionIInv'
  BY <1>5 DEF R!redeemHosted
<1>6. ASSUME NEW r \in Requests, R!proofTimesOut(r) PROVE R!RedemptionIInv'
  BY <1>6 DEF R!proofTimesOut
<1>7. QED
  BY <1>1, <1>2, <1>3, <1>4, <1>5, <1>6

LEMMA RelayStepsInv ==
  ASSUME R!RedemptionIInv,
         \/ R!Relays
         \/ \E r \in Requests :
              R!post(r) \/ R!queueRedemption(r) \/ R!refuseBody(r) \/ R!relayTimesOut(r)
  PROVE  R!RedemptionIInv'
<1> USE DEF R!RedemptionIInv, R!RedemptionOK, R!RelayedOwnClaim, R!ClaimedMeansPaid,
        R!WitnessErased, R!PendingExact, R!Stages, R!Nullifiers, R!Tell, R!clientVars,
        R!proverVars, R!relayVars
<1>1. CASE R!relayReads
  BY <1>1 DEF R!relayReads
<1>2. CASE R!relaySends
  BY <1>2, ServicesAssumption DEF R!relaySends
<1>3. CASE R!relayAnswers
  BY <1>3 DEF R!relayAnswers, R!settled
<1>4. ASSUME NEW r \in Requests, R!post(r) PROVE R!RedemptionIInv'
  BY <1>4 DEF R!post
<1>5. ASSUME NEW r \in Requests, R!queueRedemption(r) PROVE R!RedemptionIInv'
  BY <1>5 DEF R!queueRedemption
<1>6. ASSUME NEW r \in Requests, R!refuseBody(r) PROVE R!RedemptionIInv'
  BY <1>6 DEF R!refuseBody
<1>7. ASSUME NEW r \in Requests, R!relayTimesOut(r) PROVE R!RedemptionIInv'
  BY <1>7 DEF R!relayTimesOut
<1>8. QED
  BY <1>1, <1>2, <1>3, <1>4, <1>5, <1>6, <1>7 DEF R!Relays

LEMMA RedemptionNextInv == R!RedemptionIInv /\ R!Next => R!RedemptionIInv'
BY ProofStepsInv, RelayStepsInv DEF R!Next

LEMMA RedemptionInvariance == ServicesSpec => []R!RedemptionIInv
<1>1. ServicesInit => R!RedemptionIInv
  BY RedemptionInitInv DEF ServicesInit
<1>2. R!RedemptionIInv /\ [ServicesNext]_allVars => R!RedemptionIInv'
  <2>1. R!RedemptionIInv /\ UNCHANGED redemptionVars => R!RedemptionIInv'
    BY DEF redemptionVars, R!RedemptionIInv, R!RedemptionOK, R!RelayedOwnClaim,
       R!ClaimedMeansPaid, R!WitnessErased, R!PendingExact
  <2>2. [ServicesNext]_allVars => R!Next \/ UNCHANGED redemptionVars
    BY DEF ServicesNext, allVars
  <2>3. QED
    BY <2>1, <2>2, RedemptionNextInv
<1>3. QED
  BY <1>1, <1>2, PTL DEF ServicesSpec

\* Whatever tabs race for one position, confirmations are lost or routes time
\* out, the page that is told "ok" named the wallet that was paid.
THEOREM ClaimedAlwaysPaid == ServicesSpec => []ClaimedMeansPaid
<1>1. R!RedemptionIInv => ClaimedMeansPaid
  BY DEF R!RedemptionIInv, ClaimedMeansPaid
<1>2. QED
  BY <1>1, RedemptionInvariance, PTL

\* For any number of queued, failing and abandoned proofs, only the proof being
\* made has its secret on the prover's disk.
THEOREM WitnessAlwaysErased == ServicesSpec => []WitnessErased
<1>1. R!RedemptionIInv => WitnessErased
  BY DEF R!RedemptionIInv, WitnessErased
<1>2. QED
  BY <1>1, RedemptionInvariance, PTL

\* The relayer's bound is tested against the true length of its queue: however
\* relays end, pendingRedemptions neither leaks nor goes below zero.
THEOREM PendingAlwaysExact == ServicesSpec => []R!PendingExact
<1>1. R!RedemptionIInv => R!PendingExact
  BY DEF R!RedemptionIInv
<1>2. QED
  BY <1>1, RedemptionInvariance, PTL

-----------------------------------------------------------------------------
(* The indexer.                                                            *)

\* There is an inode besides the output's for the only running snapshot.
LEMMA InodeFree ==
  ASSUME NEW i \in Runs, NEW used
  PROVE  \E n \in Inodes : n # used
<1>1. SUFFICES ASSUME Inodes \subseteq {used} PROVE FALSE
  OBVIOUS
<1>2. Cardinality(Inodes) <= 1
  <2>1. IsFiniteSet({used}) /\ Cardinality({used}) = 1
    BY FS_Singleton
  <2>2. Inodes \in SUBSET {used}
    BY <1>1
  <2>3. QED
    BY <2>1, <2>2, FS_Subset
<1>3. Cardinality(Runs) # 0 /\ Cardinality(Runs) \in Nat /\ Cardinality(Inodes) \in Nat
  BY ServicesAssumption, FS_EmptySet, FS_CardinalityType
<1>4. QED
  BY <1>2, <1>3, ServicesAssumption

LEMMA IndexerInitInv == I!Init => I!IndexerIInv
<1> SUFFICES ASSUME I!Init PROVE I!IndexerIInv
  OBVIOUS
<1>1. /\ run = [i \in Runs |-> I!Idle] /\ overlapped = FALSE
      /\ file = [tmp |-> I!None, output |-> I!None]
      /\ data = [n \in Inodes |-> I!Partial]
  BY DEF I!Init
<1>2. I!IndexerOK
  BY <1>1 DEF I!IndexerOK, I!RunShape
<1>3. I!AloneFacts
  BY <1>1 DEF I!AloneFacts, I!Idle
<1>4. QED
  BY <1>2, <1>3 DEF I!IndexerIInv

LEMMA StartInv ==
  ASSUME I!IndexerIInv, NEW i \in Runs, I!firstSnapshot(i) \/ I!debounced(i)
  PROVE  I!IndexerIInv'
<1>1. /\ I!startRun(i) /\ UNCHANGED <<file, data>>
  BY DEF I!firstSnapshot, I!debounced, I!fileVars
<1>2. QED
  BY <1>1 DEF I!startRun, I!IndexerIInv, I!IndexerOK, I!AloneFacts, I!RunShape, I!Idle, I!None

LEMMA ReadStepsInv ==
  ASSUME I!IndexerIInv, NEW i \in Runs,
         (\E l \in I!Lists : I!readList(i, l)) \/ I!build(i)
  PROVE  I!IndexerIInv'
<1> USE DEF I!IndexerIInv, I!IndexerOK, I!AloneFacts, I!RunShape, I!Idle, I!None, I!fileVars, I!history
<1>1. ASSUME NEW l \in I!Lists, I!readList(i, l) PROVE I!IndexerIInv'
  BY <1>1 DEF I!readList
<1>2. CASE I!build(i)
  BY <1>2 DEF I!build
<1>3. QED
  BY <1>1, <1>2

LEMMA OpenInv == ASSUME I!IndexerIInv, NEW i \in Runs, I!openTemporary(i) PROVE I!IndexerIInv'
<1> USE DEF I!IndexerIInv, I!IndexerOK, I!AloneFacts, I!RunShape, I!Idle, I!None, I!history
<1> DEFINE n == IF file.tmp # I!None THEN file.tmp ELSE CHOOSE k \in I!Unused : TRUE
<1>1. /\ run[i].pc = "built" /\ overlapped' = overlapped
      /\ run' = [run EXCEPT ![i] = [pc |-> "writing", snapshot |-> run[i].snapshot, fd |-> n]]
      /\ file' = [file EXCEPT !.tmp = n]
      /\ data' = [data EXCEPT ![n] = I!Partial]
  BY DEF I!openTemporary
<1>2. ASSUME ~overlapped
      PROVE  n \in Inodes /\ n # "none" /\ n # file.output
  <2>1. CASE file.tmp # "none"
    BY <1>2, <2>1
  <2>2. CASE file.tmp = "none"
    <3>1. \A k : I!Writers(k) = {}
      BY <1>1, <1>2 DEF I!Writers
    <3>2. I!Unused # {}
      BY <2>2, <3>1, InodeFree, ServicesAssumption DEF I!Unused
    <3>3. n \in I!Unused
      BY <2>2, <3>2
    <3>4. QED
      BY <3>3, ServicesAssumption DEF I!Unused
  <2>3. QED
    BY <2>1, <2>2
<1> HIDE DEF n
<1>3. I!IndexerOK'
  BY <1>1, <1>2
<1>4. ~overlapped' => I!AloneFacts'
  BY <1>1, <1>2
<1>5. QED
  BY <1>3, <1>4

LEMMA WriteStepsInv ==
  ASSUME I!IndexerIInv, NEW i \in Runs,
         I!finishWrite(i) \/ I!renameTemporary(i) \/ I!readFails(i) \/ I!renameFails(i)
  PROVE  I!IndexerIInv'
<1> USE DEF I!IndexerIInv, I!IndexerOK, I!AloneFacts, I!RunShape, I!Idle, I!None, I!fileVars, I!history
<1>1. CASE I!finishWrite(i)
  <2>1. ~overlapped => I!Writers(run[i].fd) = {i}
    BY <1>1 DEF I!finishWrite, I!Writers
  <2>2. PICK content \in {I!Whole(run[i].snapshot)} \cup
            (IF I!Writers(run[i].fd) = {i} THEN {} ELSE {I!Partial}) :
          data' = [data EXCEPT ![run[i].fd] = content]
    BY <1>1 DEF I!finishWrite
  <2>3. ~overlapped => content.whole
    BY <2>1, <2>2 DEF I!Whole
  <2>4. /\ run[i].pc = "writing" /\ run' = [run EXCEPT ![i] = [pc |-> "written"]]
        /\ file' = file /\ overlapped' = overlapped
    BY <1>1 DEF I!finishWrite
  <2>5. I!IndexerOK'
    <3>1. DOMAIN run' = Runs /\ run' = [j \in Runs |-> run'[j]] /\ \A j \in Runs : I!RunShape(run'[j])
      BY <2>4
    <3>2. ~overlapped => DOMAIN data' = Inodes /\ data' = [n \in Inodes |-> data'[n]]
      BY <2>2
    <3>3. QED
      BY <2>4, <3>1, <3>2
  <2>6. ~overlapped' => I!AloneFacts'
    BY <2>2, <2>3, <2>4
  <2>7. QED
    BY <2>5, <2>6
<1>2. CASE I!renameTemporary(i)
  BY <1>2 DEF I!renameTemporary
<1>3. CASE I!readFails(i)
  BY <1>3 DEF I!readFails, I!fails
<1>4. CASE I!renameFails(i)
  BY <1>4 DEF I!renameFails, I!fails
<1>5. QED
  BY <1>1, <1>2, <1>3, <1>4

LEMMA IndexerNextInv == I!IndexerIInv /\ I!Next => I!IndexerIInv'
<1>1. ASSUME I!IndexerIInv, NEW m \in Indexed, I!change(m) PROVE I!IndexerIInv'
  BY <1>1 DEF I!change, I!fileVars, I!IndexerIInv, I!IndexerOK, I!AloneFacts, I!RunShape
<1>2. QED
  BY <1>1, StartInv, ReadStepsInv, OpenInv, WriteStepsInv DEF I!Next, I!writeSnapshot

LEMMA IndexerInvariance == ServicesSpec => []I!IndexerIInv
<1>1. ServicesInit => I!IndexerIInv
  BY IndexerInitInv DEF ServicesInit
<1>2. I!IndexerIInv /\ [ServicesNext]_allVars => I!IndexerIInv'
  <2>1. I!IndexerIInv /\ UNCHANGED indexerVars => I!IndexerIInv'
    BY DEF indexerVars, I!IndexerIInv, I!IndexerOK, I!AloneFacts, I!RunShape
  <2>2. [ServicesNext]_allVars => I!Next \/ UNCHANGED indexerVars
    BY DEF ServicesNext, allVars
  <2>3. QED
    BY <2>1, <2>2, IndexerNextInv
<1>3. QED
  BY <1>1, <1>2, PTL DEF ServicesSpec

\* With any number of public markets and of snapshots that do not overlap,
\* through logs, failed reads and restarts of the timer, whoever opens the index
\* file reads a whole snapshot.
THEOREM FileAlwaysWhole == ServicesSpec => []FileWhole
<1>1. I!IndexerIInv => FileWhole
  BY DEF I!IndexerIInv, I!IndexerOK, I!AloneFacts, FileWhole, I!FileWhole
<1>2. QED
  BY <1>1, IndexerInvariance, PTL
=============================================================================
