------------------------------- MODULE Keeper -------------------------------
(***************************************************************************)
(* The keeper process: passes over the private and the public markets, each *)
(* pass planned from a clock and account snapshots that are read once and   *)
(* grow stale while earlier markets are served. Transactions it has sent    *)
(* may land late, or never; users, the committee and other keepers move the *)
(* same markets meanwhile. The program appears as one operator per          *)
(* instruction: the set of accounts it may leave behind, empty when it      *)
(* refuses. Outcomes and money are the concern of the market modules.       *)
(***************************************************************************)
EXTENDS Integers, FiniteSets

CONSTANTS
  PoolMarkets, HybridMarkets,   \* addresses of the private and public markets
  Resolvers,                    \* oracle.resolver of the public markets
  LockTs, BatchDeadlineTs, ResolveNotBeforeTs, ResolutionDeadlineTs,
  ChallengePeriod,
  MaxTime,                      \* the clock stops here
  Modes,                        \* process configurations
  Skew,                         \* host clock minus chain clock
  MaxSent                       \* bound on transactions in flight

ASSUME KeeperAssumption ==
  /\ PoolMarkets \cap HybridMarkets = {}
  /\ {LockTs, BatchDeadlineTs, ResolveNotBeforeTs, ResolutionDeadlineTs, MaxTime} \subseteq Nat
  /\ ChallengePeriod \in Nat /\ Skew \subseteq Int /\ Resolvers # {}
  /\ LockTs <= ResolveNotBeforeTs /\ ResolveNotBeforeTs < ResolutionDeadlineTs
  /\ LockTs <= BatchDeadlineTs /\ BatchDeadlineTs < ResolutionDeadlineTs
  /\ \A d \in Skew : MaxTime + d > ResolutionDeadlineTs

VARIABLES
  time,     \* the chain's clock
  market,   \* the accounts of every market
  keeper,   \* where the process is in its loop, and what it has read
  sent,     \* transactions that may still land
  mode      \* the configuration the process was started with

vars == <<time, market, keeper, sent, mode>>

Markets == PoolMarkets \cup HybridMarkets
MachineResolvers == {"txline-stat", "pyth-price", "switchboard-quote", "stork-price"}
None == [at |-> "none"]

----------------------------------------------------------------------------
(* The instructions.                                                       *)

submit_batch(r, now) ==
  IF r.phase = "open" /\ LockTs <= now /\ now <= BatchDeadlineTs /\ r.orders
  THEN {[r EXCEPT !.phase = "batched"]} ELSE {}

begin_refund(r, now) ==
  IF \/ r.phase = "open" /\ now > BatchDeadlineTs
     \/ r.phase = "batched" /\ now > ResolutionDeadlineTs
  THEN {[r EXCEPT !.phase = IF r.orders THEN "refunding" ELSE "closed"]} ELSE {}

resolve_market(r, now) ==
  IF r.phase = "batched" /\ now <= ResolutionDeadlineTs
  THEN {[r EXCEPT !.phase = "resolved"]} ELSE {}

lock_hybrid_market(r, now) ==
  IF r.phase = "open" /\ now >= LockTs THEN {[r EXCEPT !.phase = "locked"]} ELSE {}

\* A receipt is written once: the phases below are exactly the unresolved ones.
finalize_hybrid_resolution(r, now, timeout) ==
  IF /\ r.phase \in {"open", "locked", "resolving", "disputed"}
     /\ now >= LockTs /\ now >= ResolveNotBeforeTs
     /\ timeout <=> now > ResolutionDeadlineTs
  THEN {[r EXCEPT !.phase = "resolved"]} ELSE {}

resolve_hybrid_with_oracle(r, now) ==
  finalize_hybrid_resolution(r, now, FALSE)

propose_optimistic_resolution(r, now) ==
  IF /\ r.phase \in {"open", "locked"} /\ r.proposal = None
     /\ now >= ResolveNotBeforeTs /\ now + ChallengePeriod < ResolutionDeadlineTs
  THEN {[r EXCEPT !.phase = "resolving",
           !.proposal = [challengeDeadline |-> now + ChallengePeriod,
                         challenged |-> FALSE, finalized |-> FALSE]]}
  ELSE {}

challenge_optimistic_resolution(r, now) ==
  IF /\ r.phase = "resolving" /\ ~r.proposal.finalized
     /\ now <= r.proposal.challengeDeadline /\ ~r.proposal.challenged
  THEN {[r EXCEPT !.phase = "disputed", !.proposal.challenged = TRUE]} ELSE {}

Finalized(results) == {[r EXCEPT !.proposal.finalized = TRUE] : r \in results}

\* Finalization that does not look at the dispute.
finalize_optimistic_unguarded(r, now) ==
  IF r.phase \in {"resolving", "disputed"} /\ now > r.proposal.challengeDeadline
  THEN Finalized(finalize_hybrid_resolution(r, now, now > ResolutionDeadlineTs))
  ELSE {}

finalize_optimistic_resolution(r, now) ==
  IF r.phase = "resolving" /\ ~r.proposal.finalized /\ ~r.proposal.challenged
  THEN IF now > ResolutionDeadlineTs
       THEN Finalized(finalize_hybrid_resolution(r, now, TRUE))
       ELSE IF now > r.proposal.challengeDeadline
            THEN Finalized(finalize_hybrid_resolution(r, now, FALSE))
            ELSE {}
  ELSE {}

arbitrate_optimistic_resolution(r, now) ==
  IF r.phase = "disputed" /\ ~r.proposal.finalized /\ now <= ResolutionDeadlineTs
  THEN Finalized(resolve_hybrid_with_oracle(r, now)) ELSE {}

timeout_optimistic_dispute(r, now) ==
  IF r.phase = "disputed" /\ ~r.proposal.finalized /\ now > ResolutionDeadlineTs
  THEN Finalized(finalize_hybrid_resolution(r, now, TRUE)) ELSE {}

resolve_hybrid_timeout(r, now) ==
  IF r.proposal = None THEN finalize_hybrid_resolution(r, now, TRUE) ELSE {}

----------------------------------------------------------------------------
(* The planner.                                                            *)

planKeeperAction(phase, now) ==
  CASE phase = "open" /\ now > BatchDeadlineTs -> "begin-refund"
    [] phase = "open" /\ LockTs <= now /\ now <= BatchDeadlineTs -> "submit-batch"
    [] phase = "batched" /\ now > ResolutionDeadlineTs -> "begin-refund"
    [] phase = "batched" /\ now <= ResolutionDeadlineTs -> "resolve"
    [] OTHER -> "none"

\* A planner that finalizes without waiting for the challenge window.
planHybridKeeperAction_eager(phase, resolver, proposal, now) ==
  IF phase \in {"resolved", "closed"} THEN "none"
  ELSE IF proposal # None THEN "finalize-optimistic"
  ELSE IF now > ResolutionDeadlineTs THEN "resolve-timeout" ELSE "none"

\* One that leaves a dispute to the arbitrators after the deadline as before it.
planHybridKeeperAction_no_dispute(phase, resolver, proposal, now) ==
  IF phase \in {"resolved", "closed", "disputed"} \/ now <= ResolutionDeadlineTs THEN "none"
  ELSE IF proposal # None THEN "finalize-optimistic" ELSE "resolve-timeout"

planHybridKeeperAction(phase, resolver, proposal, now) ==
  LET unfinalized == proposal # None /\ ~proposal.finalized
      late == now > ResolutionDeadlineTs
      ready == ~late /\ now >= ResolveNotBeforeTs
  IN  IF phase \in {"resolved", "closed"} THEN "none" ELSE
      CASE late /\ resolver = "optimistic" /\ unfinalized ->
             IF proposal.challenged THEN "timeout-optimistic-dispute"
             ELSE "finalize-optimistic"
        [] late /\ ~(resolver = "optimistic" /\ unfinalized) -> "resolve-timeout"
        [] LockTs <= now /\ now < ResolveNotBeforeTs /\ phase = "open" -> "lock"
        [] ready /\ resolver \in MachineResolvers /\ phase \in {"open", "locked"} ->
             "resolve-oracle"
        [] ready /\ resolver = "optimistic" /\ unfinalized /\ phase = "resolving"
             /\ ~proposal.challenged /\ now > proposal.challengeDeadline ->
             "finalize-optimistic"
        [] OTHER -> "none"

\* What the program does with a planned action.
Program(action, r, now) ==
  CASE action = "begin-refund" -> begin_refund(r, now)
    [] action = "resolve" -> resolve_market(r, now)
    [] action = "lock" -> lock_hybrid_market(r, now)
    [] action = "resolve-oracle" -> resolve_hybrid_with_oracle(r, now)
    [] action = "finalize-optimistic" -> finalize_optimistic_resolution(r, now)
    [] action = "timeout-optimistic-dispute" -> timeout_optimistic_dispute(r, now)
    [] action = "resolve-timeout" -> resolve_hybrid_timeout(r, now)
    [] OTHER -> {}

\* The plan for market m as it stands.
FreshPlan(m) ==
  IF m \in PoolMarkets THEN planKeeperAction(market[m].phase, time)
  ELSE planHybridKeeperAction(market[m].phase, market[m].resolver, market[m].proposal, time)

----------------------------------------------------------------------------
Nobody == [publicKey |-> "nobody"]
Idle == [pc |-> "loop", now |-> 0, queue |-> {}, current |-> Nobody]

Init ==
  /\ time = 0
  /\ \E orders \in [PoolMarkets -> BOOLEAN], resolver \in [HybridMarkets -> Resolvers] :
       market = [m \in Markets |->
                   IF m \in PoolMarkets THEN [phase |-> "open", orders |-> orders[m]]
                   ELSE [phase |-> "open", resolver |-> resolver[m], proposal |-> None]]
  /\ keeper = Idle
  /\ sent = {}
  /\ mode \in Modes

Reads == UNCHANGED <<time, market, sent, mode>>

\* The pass begins with the host's clock, before any account is read.
readClock ==
  /\ keeper.pc = "loop"
  /\ \E d \in Skew :
       /\ time + d >= 0
       /\ keeper' = [keeper EXCEPT !.pc = "listing", !.now = time + d]
  /\ Reads

\* The phases of the accounts a listing returns.
Listed(ms) == {[publicKey |-> m, phase |-> market[m].phase] : m \in ms}

\* program.account.market.all()
listPools ==
  /\ keeper.pc = "listing"
  /\ keeper' = [keeper EXCEPT !.pc = "pools", !.queue = Listed(PoolMarkets)]
  /\ Reads

\* program.account.hybridMarket.all()
listHybrids ==
  /\ keeper.pc = "pools" /\ keeper.queue = {}
  /\ keeper' = [keeper EXCEPT !.pc = "hybrids", !.queue = Listed(HybridMarkets)]
  /\ Reads

\* A listing that fails is caught by nobody: the process ends.
listingFails ==
  /\ \/ keeper.pc = "listing"
     \/ keeper.pc = "pools" /\ keeper.queue = {}
  /\ keeper' = [Idle EXCEPT !.pc = "exited"]
  /\ Reads

\* Nothing to do, a dry run, a batch that is the committee's to submit, and a
\* score the process has no credentials to ask for are only logged.
Submits(m, action) ==
  /\ ~mode.keeperDryRun
  /\ action \notin {"none", "submit-batch"}
  /\ \/ action = "resolve"
     \/ action = "resolve-oracle" /\ market[m].resolver = "txline-stat"
     => mode.txline

submit(m, action) ==
  \/ ~Submits(m, action) /\ UNCHANGED sent
  \/ /\ Submits(m, action) /\ Cardinality(sent) < MaxSent
     /\ sent' = sent \cup {[market |-> m, action |-> action]}

\* One private market of the pass.
servePool ==
  /\ keeper.pc = "pools"
  /\ \E e \in keeper.queue :
       /\ submit(e.publicKey, planKeeperAction(e.phase, keeper.now))
       /\ keeper' = [keeper EXCEPT !.queue = @ \ {e}]
  /\ UNCHANGED <<time, market, mode>>

\* One public market: its oracle account names a proposal or none ...
readOracle ==
  /\ keeper.pc = "hybrids"
  /\ \E e \in keeper.queue :
       keeper' = [keeper EXCEPT !.pc = "oracle", !.queue = @ \ {e},
                    !.current = [publicKey |-> e.publicKey, phase |-> e.phase,
                                 named |-> market[e.publicKey].proposal # None]]
  /\ Reads

\* ... and the proposal it named is fetched before the plan is made.
serveHybrid(m) ==
  /\ keeper.pc = "oracle" /\ keeper.current.publicKey = m
  /\ LET proposal == IF keeper.current.named THEN market[m].proposal ELSE None
     IN  submit(m, planHybridKeeperAction(keeper.current.phase, market[m].resolver, proposal,
                                          keeper.now))
  /\ keeper' = [keeper EXCEPT !.pc = "hybrids", !.current = Nobody]
  /\ UNCHANGED <<time, market, mode>>

\* A fetch fails: the error is logged and the pass goes on.
fetchFails ==
  /\ keeper.pc = "oracle"
  /\ keeper' = [keeper EXCEPT !.pc = "hybrids", !.current = Nobody]
  /\ Reads

endPass ==
  /\ keeper.pc = "hybrids" /\ keeper.queue = {}
  /\ keeper' = [Idle EXCEPT !.pc = IF mode.keeperOnce THEN "exited" ELSE "loop"]
  /\ Reads

main ==
  \/ readClock \/ listPools \/ servePool \/ listHybrids \/ readOracle
  \/ \E m \in HybridMarkets : serveHybrid(m)
  \/ endPass

----------------------------------------------------------------------------
\* A transaction is executed, or refused and reported to a caught error.
land(p) ==
  LET results == Program(p.action, market[p.market], time)
  IN  /\ \/ results = {} /\ UNCHANGED market
         \/ \E r \in results : market' = [market EXCEPT ![p.market] = r]
      /\ sent' = sent \ {p}
      /\ UNCHANGED <<time, keeper, mode>>

\* The oracle had nothing to offer, or the transaction expired.
drop(p) ==
  /\ sent' = sent \ {p}
  /\ UNCHANGED <<time, market, keeper, mode>>

PoolCalls(r) ==
  submit_batch(r, time) \cup begin_refund(r, time) \cup resolve_market(r, time)

HybridCalls(r) ==
  lock_hybrid_market(r, time) \cup resolve_hybrid_timeout(r, time) \cup
  CASE r.resolver = "optimistic" ->
         propose_optimistic_resolution(r, time) \cup challenge_optimistic_resolution(r, time)
         \cup finalize_optimistic_resolution(r, time)
         \cup arbitrate_optimistic_resolution(r, time) \cup timeout_optimistic_dispute(r, time)
    [] r.resolver \in MachineResolvers -> resolve_hybrid_with_oracle(r, time)
    [] OTHER -> {}

\* Users, the committee, other keepers and the web panels.
others(m) ==
  /\ \E r \in IF m \in PoolMarkets THEN PoolCalls(market[m]) ELSE HybridCalls(market[m]) :
       market' = [market EXCEPT ![m] = r]
  /\ UNCHANGED <<time, keeper, sent, mode>>

tick ==
  /\ time < MaxTime
  /\ time' = time + 1
  /\ UNCHANGED <<market, keeper, sent, mode>>

Next ==
  \/ main \/ listingFails \/ fetchFails \/ tick
  \/ \E p \in sent : land(p) \/ drop(p)
  \/ \E m \in Markets : others(m)

\* The loop keeps running and time passes; a read that is repeated pass after
\* pass succeeds at last, and so does a transaction.
Fairness ==
  /\ WF_vars(main) /\ WF_vars(tick)
  /\ \A m \in HybridMarkets : SF_vars(serveHybrid(m))
  /\ \A m \in Markets : SF_vars(\E p \in sent : p.market = m /\ land(p))

Spec == Init /\ [][Next]_vars /\ Fairness

----------------------------------------------------------------------------
\* planKeeperAction and planHybridKeeperAction agree with the program: in every
\* reachable state of a market, what a plan made from that state and that second
\* asks for is something the program accepts.
PlansAccepted ==
  \A m \in Markets :
    FreshPlan(m) \notin {"none", "submit-batch"} => Program(FreshPlan(m), market[m], time) # {}

\* A stale plan does no harm. Whatever clock and snapshots the pass was planned
\* from, and however late its transaction lands, what the program executes is
\* what a fresh plan would have asked for; only a lock may come late.
StaleHarmless ==
  [][\A p \in sent :
       land(p) /\ market' # market => p.action \in {FreshPlan(p.market), "lock"}]_vars

Settled(m) == market[m].phase \in {"resolved", "refunding", "closed"}

\* One running keeper is enough: unless it is a dry run or its process ends,
\* every market is at last resolved, invalidated or opened for refunds, with or
\* without score credentials, a committee batch or an oracle answer.
MarketsSettle ==
  ~mode.keeperDryRun /\ [](keeper.pc # "exited") => <>(\A m \in Markets : Settled(m))
----------------------------------------------------------------------------
(* The inductive invariant.                                                *)

PoolPhases == {"open", "batched", "resolved", "refunding", "closed"}
Unresolved == {"open", "locked", "resolving", "disputed"}
HybridPhases == Unresolved \cup {"resolved", "closed"}
Proposals == [challengeDeadline : Int, challenged : BOOLEAN, finalized : BOOLEAN]

\* A market's phase and its proposal's fields, which different instructions
\* write, never disagree. Only an optimistic market has a proposal.
Agrees(r) ==
  /\ r.phase \in {"open", "locked"} => r.proposal = None
  /\ r.phase \in {"resolving", "disputed"} =>
       /\ r.resolver = "optimistic" /\ r.proposal \in Proposals
       /\ ~r.proposal.finalized
       /\ r.proposal.challengeDeadline < ResolutionDeadlineTs
       /\ r.proposal.challenged <=> r.phase = "disputed"

HybridRecords ==
  {r \in [phase : HybridPhases, resolver : Resolvers, proposal : {None} \cup Proposals] : Agrees(r)}

MarketsOK ==
  /\ market \in [Markets -> [phase : PoolPhases, orders : BOOLEAN] \cup HybridRecords]
  /\ \A m \in PoolMarkets : market[m] \in [phase : PoolPhases, orders : BOOLEAN]
  /\ \A m \in HybridMarkets : market[m] \in HybridRecords

\* The process serves each list with its own planner.
KeeperOK ==
  /\ keeper \in [pc : {"loop", "listing", "pools", "hybrids", "oracle", "exited"}, now : Int,
                 queue : SUBSET [publicKey : Markets, phase : PoolPhases \cup HybridPhases],
                 current : {Nobody} \cup
                   [publicKey : HybridMarkets, phase : HybridPhases, named : BOOLEAN]]
  /\ \A e \in keeper.queue :
       IF keeper.pc \in {"hybrids", "oracle"} THEN e.publicKey \in HybridMarkets /\ e.phase \in HybridPhases
       ELSE e.publicKey \in PoolMarkets

\* What is in flight was planned for the market's kind and resolver, neither of
\* which changes.
SentOK ==
  /\ sent \subseteq [market : Markets,
                     action : {"begin-refund", "resolve", "lock", "resolve-oracle", "finalize-optimistic",
                               "timeout-optimistic-dispute", "resolve-timeout"}]
  /\ \A p \in sent :
       /\ p.market \in PoolMarkets <=> p.action \in {"begin-refund", "resolve"}
       /\ p.action = "resolve-oracle" => market[p.market].resolver \in MachineResolvers

KeeperIInv == time \in Nat /\ MarketsOK /\ KeeperOK /\ SentOK
=============================================================================
