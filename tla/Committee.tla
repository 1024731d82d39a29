----------------------------- MODULE Committee -----------------------------
(* The committee path of one private market: browsers that place orders and *)
(* deliver their shares (web/), the member services that collect them       *)
(* (services/src/committee/server.ts) and the coordinator that turns two    *)
(* members' answers into the batch (coordinator.ts).  A share is its order  *)
(* and the order's index: the on-chain share commitment binds the rest.     *)
(* What a service finds in its state file after a crash is the business of  *)
(* module MemberStore; here it is any part of what it ever held.            *)
EXTENDS Integers, Sequences, FiniteSets

CONSTANTS
  Orders,            \* commitments; each belongs to one browser
  YesOrders,         \* the orders on the YES side
  Members,           \* the member services
  Asked,             \* the two members the coordinator queries
  MinBatchOrders,    \* MIN_PRIVATE_BATCH_ORDERS
  LockTs, BatchDeadline,
  Skew,              \* how far a service's clock may run ahead of the chain's
  MaxTime,           \* bound of the clock
  MaxCrashes,        \* bound of the services that crash, once each
  MaxStrays,         \* bound of the share requests no browser waits for
  MaxLeaves          \* bound of the interruptions of browsers

ASSUME CommitteeAssumption ==
  /\ IsFiniteSet(Orders) /\ YesOrders \subseteq Orders
  /\ Asked \subseteq Members /\ Asked # {}
  /\ MinBatchOrders \in Nat /\ MinBatchOrders > 0
  /\ LockTs \in Nat /\ BatchDeadline \in Nat /\ LockTs < BatchDeadline
  /\ Skew \in Nat /\ MaxTime \in Nat
  /\ MaxCrashes \in Nat /\ MaxStrays \in Nat /\ MaxLeaves \in Nat

VARIABLES
  now, phase,        \* the chain's clock and market.phase
  placed,            \* the orders on chain, by order_index (from 1 here)
  batch,             \* the commitments under market.commitment_root
  record,            \* the position's status in the browser vault
  browser,           \* what the browser is doing
  sent,              \* members this delivery's requests are on the way to
  acks,              \* members that answered 202 to this delivery
  up,                \* the services that are running
  held,              \* CommitteeMember.#shares
  received,          \* history: every share a service ever held
  saving,            \* orders whose request a service has yet to answer
  purging,           \* services with a DELETE request under way
  answers,           \* the orders each queried member has answered for
  coordinator,       \* what the coordinator is doing
  proposal,          \* the batch it is about to submit
  crashed, strays, leaves

chainVars == <<phase, placed, batch>>
browserVars == <<record, browser, sent, acks>>
memberVars == <<up, held, received, saving, purging>>
coordinatorVars == <<answers, coordinator, proposal>>
faultVars == <<crashed, strays, leaves>>
vars == <<now, chainVars, browserVars, memberVars, coordinatorVars, faultVars>>

Indices == 1..Cardinality(Orders)
Shares == [index : Indices, order : Orders]
OnChain(o) == \E i \in DOMAIN placed : placed[i] = o
ShareOf(o) == [index |-> CHOOSE i \in DOMAIN placed : placed[i] = o, order |-> o]

\* What Date.now() may return in a service or a browser.
LocalTimes == now..(now + Skew)

\* What an account read by a service, and used after its await, may show: the
\* market may since have left the Open phase and orders may have been added.
SeenOpen == {TRUE, phase = "Open"}
SeenCounts == 0..Len(placed)

Init ==
  /\ now = 0 /\ phase = "Open" /\ placed = <<>> /\ batch = <<>>
  /\ record = [o \in Orders |-> "none"] /\ browser = [o \in Orders |-> "idle"]
  /\ sent = [o \in Orders |-> {}] /\ acks = [o \in Orders |-> {}]
  /\ up = Members
  /\ held = [m \in Members |-> {}] /\ received = [m \in Members |-> {}]
  /\ saving = [m \in Members |-> {}] /\ purging = {}
  /\ answers = [m \in Members |-> <<>>] /\ coordinator = "idle" /\ proposal = <<>>
  /\ crashed = {} /\ strays = 0 /\ leaves = 0

Tick ==
  /\ now < MaxTime
  /\ now' = now + 1
  /\ UNCHANGED <<chainVars, browserVars, memberVars, coordinatorVars, faultVars>>

\* begin_refund, by anyone, of a market without a batch.
BeginRefund ==
  /\ phase = "Open" /\ now > BatchDeadline
  /\ phase' = IF placed = <<>> THEN "Closed" ELSE "Refunding"
  /\ UNCHANGED <<now, placed, batch, browserVars, memberVars, coordinatorVars, faultVars>>

----------------------------------------------------------------------------
(* The browser.                                                            *)

\* The order panel saves the recovery record before it asks for a signature.
PrepareOrder(o) ==
  /\ record[o] = "none"
  /\ phase = "Open"
  /\ \E t \in LocalTimes : t < LockTs
  /\ record' = [record EXCEPT ![o] = "prepared"]
  /\ browser' = [browser EXCEPT ![o] = "signing"]
  /\ UNCHANGED <<now, chainVars, sent, acks, memberVars, coordinatorVars, faultVars>>

\* place_order.  A signed transaction lands whether or not the browser is
\* still there to see it.
PlaceOrder(o) ==
  /\ record[o] = "prepared" /\ ~OnChain(o)
  /\ phase = "Open" /\ now < LockTs
  /\ placed' = Append(placed, o)
  /\ browser' = [browser EXCEPT ![o] = IF @ = "signing" THEN "placed" ELSE @]
  /\ UNCHANGED <<now, phase, batch, record, sent, acks, memberVars, coordinatorVars, faultVars>>

deliverCommitteeShares(o) ==
  /\ browser' = [browser EXCEPT ![o] = "delivering"]
  /\ sent' = [sent EXCEPT ![o] = Members]
  /\ acks' = [acks EXCEPT ![o] = {}]

\* The confirmed signature is saved, then the shares go out.
ConfirmPlacement(o) ==
  /\ browser[o] = "placed"
  /\ record' = [record EXCEPT ![o] = "delivery-pending"]
  /\ deliverCommitteeShares(o)
  /\ UNCHANGED <<now, chainVars, memberVars, coordinatorVars, faultVars>>

\* The portfolio offers a retry only with the saved signature.
RetryCommitteeDelivery(o) ==
  /\ browser[o] = "idle" /\ record[o] = "delivery-pending"
  /\ deliverCommitteeShares(o)
  /\ UNCHANGED <<now, chainVars, record, memberVars, coordinatorVars, faultVars>>

\* The route answers only when every member answered 202.
delivered(o) == acks[o] = Members

\* The shares leave the vault.
CompleteDelivery(o) ==
  /\ browser[o] = "delivering" /\ delivered(o)
  /\ record' = [record EXCEPT ![o] = "open"]
  /\ browser' = [browser EXCEPT ![o] = "idle"]
  /\ acks' = [acks EXCEPT ![o] = {}]
  /\ UNCHANGED <<now, chainVars, sent, memberVars, coordinatorVars, faultVars>>

\* The tab closes, the wallet or the RPC fails, a member refuses or a request
\* times out.  Answers still to come find nobody.
LeaveBrowser(o) ==
  /\ browser[o] # "idle" /\ leaves < MaxLeaves
  /\ leaves' = leaves + 1
  /\ browser' = [browser EXCEPT ![o] = "idle"]
  /\ sent' = [sent EXCEPT ![o] = {}]
  /\ acks' = [acks EXCEPT ![o] = {}]
  /\ saving' = [m \in Members |-> saving[m] \ {o}]
  /\ UNCHANGED <<now, chainVars, record, up, held, received, purging, coordinatorVars, crashed, strays>>

----------------------------------------------------------------------------
(* A member service.                                                       *)

\* The order account exists and has this index.
verifyOnchainOrder(share) ==
  share.index \in DOMAIN placed /\ placed[share.index] = share.order

\* CommitteeMember.submit: an index holds one share; the same one again is fine.
submittable(m, share) == \A h \in held[m] : h.index = share.index => h = share

\* POST /shares up to the map's update; a refused share changes nothing.
Submit(m, share) ==
  /\ m \in up
  /\ verifyOnchainOrder(share) /\ submittable(m, share)
  /\ held' = [held EXCEPT ![m] = @ \cup {share}]
  /\ received' = [received EXCEPT ![m] = @ \cup {share}]
  /\ UNCHANGED <<now, chainVars, up, purging, coordinatorVars, crashed, leaves>>

ReceiveShare(m, o) ==
  /\ m \in sent[o]
  /\ Submit(m, ShareOf(o))
  /\ sent' = [sent EXCEPT ![o] = @ \ {m}]
  /\ saving' = [saving EXCEPT ![m] = @ \cup {o}]
  /\ UNCHANGED <<record, browser, acks, strays>>

\* A late duplicate, or anything else that encrypts to the member: the route
\* passes on any three envelopes.
ReceiveStray(m, share) ==
  /\ strays < MaxStrays
  /\ strays' = strays + 1
  /\ Submit(m, share)
  /\ UNCHANGED <<browserVars, saving>>

\* persist is done: 202.
AnswerShare(m, o) ==
  /\ o \in saving[m]
  /\ saving' = [saving EXCEPT ![m] = @ \ {o}]
  /\ acks' = [acks EXCEPT ![o] = @ \cup {m}]
  /\ UNCHANGED <<now, chainVars, record, browser, sent, up, held, received, purging,
                 coordinatorVars, faultVars>>

\* Deviation: any market past its lock time may be purged.
purgeable_after_lock(open, t) == ~open \/ t >= LockTs

purgeable(open, t) == ~open \/ t > BatchDeadline

\* DELETE decides with its own clock on the market it has read.
PurgeShares(m) ==
  /\ m \in purging
  /\ \E open \in SeenOpen, t \in LocalTimes :
       held' = [held EXCEPT ![m] = IF purgeable(open, t) THEN {} ELSE @]
  /\ purging' = purging \ {m}
  /\ UNCHANGED <<now, chainVars, browserVars, up, received, saving, coordinatorVars, faultVars>>

\* The process dies with its memory and its requests.
Crash(m) ==
  /\ m \in up \ crashed /\ Cardinality(crashed) < MaxCrashes
  /\ crashed' = crashed \cup {m}
  /\ up' = up \ {m}
  /\ held' = [held EXCEPT ![m] = {}]
  /\ saving' = [saving EXCEPT ![m] = {}]
  /\ purging' = purging \ {m}
  /\ UNCHANGED <<now, chainVars, browserVars, received, coordinatorVars, strays, leaves>>

\* main starts from whatever the state file has.
Restart(m) ==
  /\ m \notin up
  /\ up' = up \cup {m}
  /\ \E shares \in SUBSET received[m] : held' = [held EXCEPT ![m] = shares]
  /\ UNCHANGED <<now, chainVars, browserVars, received, saving, purging, coordinatorVars, faultVars>>

----------------------------------------------------------------------------
(* The coordinator and the two aggregate requests.                         *)

StartBatch ==
  /\ coordinator = "idle"
  /\ coordinator' = "asking"
  /\ UNCHANGED <<now, chainVars, browserVars, memberVars, answers, proposal, faultVars>>

\* CommitteeMember.aggregate: contiguous indices, in their order.
contiguous(m) == {h.index : h \in held[m]} = 1..Cardinality(held[m])
aggregate(m) == [i \in 1..Cardinality(held[m]) |-> (CHOOSE h \in held[m] : h.index = i).order]

\* A member takes a query for a locked market; the one it read was Open.
Batching(m) ==
  /\ coordinator = "asking" /\ m \in Asked \cap up /\ answers[m] = <<>>
  /\ \E t \in LocalTimes : t >= LockTs

\* The member answers with the sums over all orders it has seen on chain.
AnswerAggregate(m) ==
  /\ Batching(m)
  /\ Cardinality(held[m]) >= MinBatchOrders
  /\ contiguous(m) /\ Cardinality(held[m]) \in SeenCounts
  /\ answers' = [answers EXCEPT ![m] = aggregate(m)]
  /\ UNCHANGED <<now, chainVars, browserVars, memberVars, coordinator, proposal, faultVars>>

TwoSided(orders) ==
  /\ \E i \in DOMAIN orders : orders[i] \in YesOrders
  /\ \E i \in DOMAIN orders : orders[i] \notin YesOrders

Proceed(pc, orders) ==
  /\ coordinator' = pc
  /\ proposal' = orders
  /\ answers' = [m \in Members |-> <<>>]
  /\ UNCHANGED <<now, chainVars, browserVars, memberVars, faultVars>>

\* finalizeCommitteeAggregates: the same orders from both, and both sides; a
\* one-sided market is purged instead.
FinalizeAggregates ==
  /\ coordinator = "asking"
  /\ \E orders \in {answers[m] : m \in Asked} :
       /\ orders # <<>>
       /\ \A m \in Asked : answers[m] = orders
       /\ IF TwoSided(orders) THEN Proceed("submit", orders) ELSE Proceed("purge", <<>>)

\* A member with too few shares answers 409: a purge, without waiting for the
\* other member.
AggregateIneligible(m) ==
  /\ Batching(m)
  /\ Cardinality(held[m]) < MinBatchOrders
  /\ Proceed("purge", <<>>)

\* Deviation: the counts need not match the market's.
submit_batch_any_count(orders) ==
  /\ phase = "Open" /\ now >= LockTs /\ now <= BatchDeadline
  /\ Len(placed) >= MinBatchOrders
  /\ TwoSided(orders)

\* The checks of the program.
submit_batch(orders) ==
  /\ phase = "Open" /\ now >= LockTs /\ now <= BatchDeadline
  /\ Len(placed) >= MinBatchOrders
  /\ Len(orders) = Len(placed)
  /\ TwoSided(orders)

\* The transaction lands; the coordinator may not live to see it.
SubmitBatch ==
  /\ coordinator = "submit"
  /\ submit_batch(proposal)
  /\ phase' = "Batched" /\ batch' = proposal
  /\ coordinator' \in {"purge", "idle"}
  /\ proposal' = <<>>
  /\ UNCHANGED <<now, placed, browserVars, memberVars, answers, faultVars>>

\* purgeAll: some of the requests arrive, and no answer makes a difference.
PurgeAll ==
  /\ coordinator = "purge"
  /\ \E reached \in SUBSET up : purging' = purging \cup reached
  /\ coordinator' = "idle"
  /\ UNCHANGED <<now, chainVars, browserVars, up, held, received, saving, answers, proposal, faultVars>>

\* Any other answer, a time-out, a refused transaction or a crash ends the run.
StopBatch == coordinator # "idle" /\ Proceed("idle", <<>>)

----------------------------------------------------------------------------
BrowserStep(o) ==
  \/ PrepareOrder(o) \/ PlaceOrder(o) \/ ConfirmPlacement(o)
  \/ RetryCommitteeDelivery(o) \/ CompleteDelivery(o) \/ LeaveBrowser(o)

MemberStep(m) ==
  \/ PurgeShares(m) \/ Crash(m) \/ Restart(m)
  \/ AnswerAggregate(m) \/ AggregateIneligible(m)
  \/ \E o \in Orders : ReceiveShare(m, o) \/ AnswerShare(m, o)
  \/ \E share \in Shares : ReceiveStray(m, share)

CoordinatorStep ==
  \/ StartBatch \/ FinalizeAggregates \/ SubmitBatch \/ PurgeAll \/ StopBatch

Next ==
  \/ Tick \/ BeginRefund \/ CoordinatorStep
  \/ \E o \in Orders : BrowserStep(o)
  \/ \E m \in Members : MemberStep(m)

Spec == Init /\ [][Next]_vars

----------------------------------------------------------------------------
\* The type of every variable.
TypeOK ==
  /\ now \in 0..MaxTime /\ phase \in {"Open", "Batched", "Refunding", "Closed"}
  /\ placed \in Seq(Orders) /\ Len(placed) <= Cardinality(Orders)
  /\ batch \in Seq(Orders) /\ proposal \in Seq(Orders)
  /\ record \in [Orders -> {"none", "prepared", "delivery-pending", "open"}]
  /\ browser \in [Orders -> {"idle", "signing", "placed", "delivering"}]
  /\ sent \in [Orders -> SUBSET Members] /\ acks \in [Orders -> SUBSET Members]
  /\ up \in SUBSET Members /\ crashed \in SUBSET Members /\ strays \in 0..MaxStrays
  /\ leaves \in 0..MaxLeaves
  /\ held \in [Members -> SUBSET Shares] /\ received \in [Members -> SUBSET Shares]
  /\ saving \in [Members -> SUBSET Orders]
  /\ purging \in SUBSET Members /\ answers \in [Members -> Seq(Orders)]
  /\ coordinator \in {"idle", "asking", "submit", "purge"}

\* README, "Deliver committee shares": every member verifies a share before it
\* accepts it.  No share in memory is of another order or at another index than
\* the chain's, whoever sent it and after any restart.
SharesVerified ==
  \A m \in Members : \A share \in held[m] :
    OnChain(share.order) /\ share = ShareOf(share.order)

\* The program does not see the orders under the root it is given.  Still the
\* batch lists exactly the market's orders in their order, although counts are
\* read before an await, clocks differ and orders arrive until the lock time.
BatchComplete == phase = "Batched" => batch = placed

\* While the batch can still be submitted, a service that has not crashed holds
\* every share whose delivery was completed: no failed batch, late purge or
\* retry removes one.
DeliveredKept ==
  \A o \in Orders, m \in Members \ crashed :
    record[o] = "open" /\ phase = "Open" /\ now + Skew <= BatchDeadline =>
      ShareOf(o) \in held[m]

\* README, "Deliver committee shares": "an interrupted delivery remains
\* recoverable from the encrypted browser vault until all three members accept
\* it", that is, the portfolio can still deliver the shares of a placed order.
DeliveryRecoverable ==
  \A o \in Orders :
    OnChain(o) /\ browser[o] = "idle" => record[o] \in {"delivery-pending", "open"}
=============================================================================
