-------------------------- MODULE CommitteeProofs --------------------------
(* Proofs about the committee path, for any number of orders and members,   *)
(* any clock skew and any number of crashes, strays and interruptions.      *)
EXTENDS Committee, FiniteSetTheorems, TLAPS

\* A commitment is placed once: the order account's address is derived from it.
Distinct == \A i, j \in DOMAIN placed : placed[i] = placed[j] => i = j

\* A service holds, or can find after a crash, only what it once verified.
Known ==
  /\ \A m \in Members : held[m] \subseteq received[m]
  /\ \A m \in Members : \A share \in received[m] : verifyOnchainOrder(share)

\* The orders of an answer are the first ones of the market.
Prefix(orders) ==
  /\ Len(orders) <= Len(placed)
  /\ \A i \in 1..Len(orders) : orders[i] = placed[i]

AnswersTrue == Prefix(proposal) /\ \A m \in Members : Prefix(answers[m])

\* A service that is down has crashed.
DownCrashed == Members \ up \subseteq crashed

\* The share of an order that a running service has yet to answer for, has
\* answered for, or whose delivery is complete.
Promised(o, m) == record[o] = "open" \/ m \in acks[o] \/ o \in saving[m]

\* While the batch can be submitted a service keeps what it has promised.
PromisesKept ==
  phase = "Open" /\ now + Skew <= BatchDeadline =>
    \A o \in Orders, m \in Members \ crashed :
      Promised(o, m) => \E share \in held[m] : share.order = o

\* The inductive invariant.
CommitteeInv ==
  TypeOK /\ Distinct /\ Known /\ AnswersTrue /\ BatchComplete /\ DownCrashed /\ PromisesKept

----------------------------------------------------------------------------
\* There are no more distinct orders in a sequence than there are orders.
LEMMA DistinctBounded ==
  ASSUME NEW s \in Seq(Orders), \A i, j \in DOMAIN s : s[i] = s[j] => i = j
  PROVE  Len(s) <= Cardinality(Orders)
<1>0. Len(s) \in Nat /\ 1 \in Int /\ Len(s) \in Int
  OBVIOUS
<1>1. IsFiniteSet(1..Len(s)) /\ Cardinality(1..Len(s)) = Len(s)
  <2>1. /\ IsFiniteSet(1..Len(s))
        /\ Cardinality(1..Len(s)) = IF 1 > Len(s) THEN 0 ELSE Len(s) - 1 + 1
    BY <1>0, FS_Interval, Zenon
  <2> QED BY <1>0, <2>1
<1>2. IsFiniteSet(Orders) /\ Cardinality(Orders) \in Nat
  BY CommitteeAssumption, FS_CardinalityType
<1>3. s \in [1..Len(s) -> Orders] /\ DOMAIN s = 1..Len(s)
  OBVIOUS
<1>4. ASSUME Cardinality(Orders) < Len(s) PROVE FALSE
  <2>1. \E x, y \in 1..Len(s) : x # y /\ s[x] = s[y]
    BY <1>1, <1>2, <1>3, <1>4, FS_PigeonHole
  <2> QED BY <2>1, <1>3
<1> QED BY <1>2, <1>4

\* What a step does to the orders on chain.
LEMMA PlacedStep ==
  ASSUME TypeOK, [Next]_vars
  PROVE  \/ placed' = placed
         \/ \E o \in Orders : ~OnChain(o) /\ phase = "Open" /\ phase' = "Open" /\ placed' = Append(placed, o)
BY DEF Next, CoordinatorStep, BrowserStep, MemberStep, Tick, BeginRefund, StartBatch, FinalizeAggregates,
   SubmitBatch, PurgeAll, StopBatch, Proceed, PrepareOrder, PlaceOrder, ConfirmPlacement,
   RetryCommitteeDelivery, CompleteDelivery, LeaveBrowser, PurgeShares, Crash, Restart, AnswerAggregate,
   AggregateIneligible, ReceiveShare, AnswerShare, ReceiveStray, Submit, vars, chainVars

\* Orders stay on chain, at their index and once.
LEMMA PlacedGrows ==
  ASSUME TypeOK, Distinct, [Next]_vars
  PROVE  /\ placed' \in Seq(Orders) /\ Len(placed) <= Len(placed')
         /\ \A i \in DOMAIN placed : i \in DOMAIN placed' /\ placed'[i] = placed[i]
         /\ Distinct'
         /\ Len(placed') <= Cardinality(Orders)
<1>1. placed \in Seq(Orders)
  BY DEF TypeOK
<1>2. /\ placed' \in Seq(Orders) /\ Len(placed) <= Len(placed')
      /\ \A i \in DOMAIN placed : i \in DOMAIN placed' /\ placed'[i] = placed[i]
      /\ Distinct'
  <2>1. CASE placed' = placed
    BY <1>1, <2>1 DEF Distinct
  <2>2. ASSUME NEW o \in Orders, ~OnChain(o), placed' = Append(placed, o)
        PROVE  <1>2!:
    <3>1. \A i \in DOMAIN placed : placed[i] # o
      BY <2>2 DEF OnChain
    <3>2. /\ DOMAIN placed = 1..Len(placed) /\ DOMAIN placed' = 1..(Len(placed) + 1)
          /\ placed'[Len(placed) + 1] = o
          /\ \A i \in 1..Len(placed) : placed'[i] = placed[i]
      BY <1>1, <2>2
    <3>3. placed' \in Seq(Orders) /\ Len(placed') = Len(placed) + 1
      BY <1>1, <2>2
    <3>4. Distinct'
      BY <1>1, <3>1, <3>2 DEF Distinct
    <3> QED BY <1>1, <3>2, <3>3, <3>4
  <2> QED BY <2>1, <2>2, PlacedStep
<1> QED BY <1>2, DistinctBounded DEF Distinct

----------------------------------------------------------------------------
\* An aggregate lists, at each index, the order of the share held there.
LEMMA AggregateFacts ==
  ASSUME TypeOK, NEW m \in Members, contiguous(m), Cardinality(held[m]) \in Nat
  PROVE  /\ aggregate(m) \in Seq(Orders)
         /\ Len(aggregate(m)) = Cardinality(held[m])
         /\ \A i \in 1..Len(aggregate(m)) : \E h \in held[m] : h.index = i /\ aggregate(m)[i] = h.order
<1> DEFINE n == Cardinality(held[m])
           at(i) == CHOOSE h \in held[m] : h.index = i
<1>1. \A i \in 1..n : at(i) \in held[m] /\ at(i).index = i
  BY DEF contiguous
<1>2. \A h \in held[m] : h.order \in Orders
  BY DEF TypeOK, Shares
<1>3. aggregate(m) = [i \in 1..n |-> at(i).order]
  BY DEF aggregate
<1> HIDE DEF at, n
<1>4. n \in Nat
  BY DEF n
<1>5. aggregate(m) \in Seq(Orders) /\ Len(aggregate(m)) = n
  BY <1>1, <1>2, <1>3, <1>4
<1>6. \A i \in 1..n : aggregate(m)[i] = at(i).order
  BY <1>3
<1> QED BY <1>1, <1>5, <1>6 DEF n

\* What the coordinator does with two answers.
LEMMA FinalizeFacts ==
  ASSUME FinalizeAggregates
  PROVE  \/ Proceed("purge", <<>>)
         \/ \E m \in Asked : Proceed("submit", answers[m])
<1>1. PICK orders \in {answers[m] : m \in Asked} :
        IF TwoSided(orders) THEN Proceed("submit", orders) ELSE Proceed("purge", <<>>)
  BY DEF FinalizeAggregates
<1>2. PICK m \in Asked : orders = answers[m]
  OBVIOUS
<1> QED BY <1>1, <1>2

\* Every step keeps the types.
LEMMA TypeStep ==
  ASSUME TypeOK, Distinct, [Next]_vars
  PROVE  TypeOK'
<1>1. placed' \in Seq(Orders) /\ Len(placed') <= Cardinality(Orders)
  BY PlacedGrows
<1>2. Cardinality(Orders) \in Nat
  BY CommitteeAssumption, FS_CardinalityType
<1>3. \A share : verifyOnchainOrder(share) => share.index \in Indices
  BY <1>2 DEF verifyOnchainOrder, Indices, TypeOK
<1> USE CommitteeAssumption DEF TypeOK, chainVars, browserVars, memberVars, coordinatorVars, faultVars
<1>4. CASE Tick
  BY <1>4 DEF Tick
<1>5. CASE BeginRefund
  BY <1>5 DEF BeginRefund
<1>6. ASSUME NEW o \in Orders, PrepareOrder(o) PROVE TypeOK'
  BY <1>6 DEF PrepareOrder
<1>7. ASSUME NEW o \in Orders, PlaceOrder(o) PROVE TypeOK'
  BY <1>1, <1>7 DEF PlaceOrder
<1>8. ASSUME NEW o \in Orders, ConfirmPlacement(o) PROVE TypeOK'
  BY <1>8 DEF ConfirmPlacement, deliverCommitteeShares
<1>9. ASSUME NEW o \in Orders, RetryCommitteeDelivery(o) PROVE TypeOK'
  BY <1>9 DEF RetryCommitteeDelivery, deliverCommitteeShares
<1>10. ASSUME NEW o \in Orders, CompleteDelivery(o) PROVE TypeOK'
  BY <1>10 DEF CompleteDelivery
<1>11. ASSUME NEW o \in Orders, LeaveBrowser(o) PROVE TypeOK'
  BY <1>11 DEF LeaveBrowser
<1>12. ASSUME NEW m \in Members, NEW o \in Orders, ReceiveShare(m, o) PROVE TypeOK'
  <2>1. ShareOf(o) \in Shares
    BY <1>3, <1>12 DEF ReceiveShare, Submit, ShareOf, Shares
  <2> QED BY <1>12, <2>1 DEF ReceiveShare, Submit
<1>13. ASSUME NEW m \in Members, NEW share \in Shares, ReceiveStray(m, share) PROVE TypeOK'
  BY <1>13 DEF ReceiveStray, Submit
<1>14. ASSUME NEW m \in Members, NEW o \in Orders, AnswerShare(m, o) PROVE TypeOK'
  BY <1>14 DEF AnswerShare
<1>15. ASSUME NEW m \in Members, PurgeShares(m) PROVE TypeOK'
  BY <1>15 DEF PurgeShares
<1>16. ASSUME NEW m \in Members, Crash(m) PROVE TypeOK'
  BY <1>16 DEF Crash
<1>17. ASSUME NEW m \in Members, Restart(m) PROVE TypeOK'
  BY <1>17 DEF Restart
<1>18. CASE StartBatch
  BY <1>18 DEF StartBatch
<1>19. ASSUME NEW m \in Members, AnswerAggregate(m) PROVE TypeOK'
  <2>1. aggregate(m) \in Seq(Orders)
    BY <1>19, AggregateFacts DEF AnswerAggregate, SeenCounts
  <2> QED BY <1>19, <2>1 DEF AnswerAggregate
<1>20. ASSUME NEW m \in Members, AggregateIneligible(m) PROVE TypeOK'
  BY <1>20 DEF AggregateIneligible, Proceed
<1>21. CASE FinalizeAggregates
  <2>1. CASE Proceed("purge", <<>>)
    BY <2>1 DEF Proceed
  <2>2. ASSUME NEW m \in Asked, Proceed("submit", answers[m]) PROVE TypeOK'
    BY <2>2 DEF Proceed
  <2> QED BY <1>21, <2>1, <2>2, FinalizeFacts
<1>22. CASE SubmitBatch
  BY <1>22 DEF SubmitBatch
<1>23. CASE PurgeAll
  BY <1>23 DEF PurgeAll
<1>24. CASE StopBatch
  BY <1>24 DEF StopBatch, Proceed
<1>25. CASE UNCHANGED vars
  BY <1>25 DEF vars
<1> HIDE DEF TypeOK
<1> QED BY <1>4, <1>5, <1>6, <1>7, <1>8, <1>9, <1>10, <1>11, <1>12, <1>13, <1>14, <1>15, <1>16, <1>17,
           <1>18, <1>19, <1>20, <1>21, <1>22, <1>23, <1>24, <1>25
        DEF Next, CoordinatorStep, BrowserStep, MemberStep

----------------------------------------------------------------------------
\* What is verified stays verified: orders are never removed.
LEMMA VerifiedStays ==
  ASSUME TypeOK, Distinct, [Next]_vars, NEW share, verifyOnchainOrder(share)
  PROVE  verifyOnchainOrder(share)'
BY PlacedGrows DEF verifyOnchainOrder

\* A service learns a share only through the check of POST /shares.
LEMMA KnownStep ==
  ASSUME TypeOK, Distinct, Known, [Next]_vars
  PROVE  Known'
<1>1. \A m \in Members : \A share \in received'[m] : share \in received[m] \/ verifyOnchainOrder(share)
  <2>1. ASSUME NEW m \in Members, NEW share, Submit(m, share)
        PROVE  \A z \in Members : \A s \in received'[z] : s \in received[z] \/ verifyOnchainOrder(s)
    BY <2>1 DEF Submit, TypeOK
  <2>2. CASE received' = received
    BY <2>2
  <2> QED BY <2>1, <2>2 DEF Next, CoordinatorStep, BrowserStep, MemberStep, Tick, BeginRefund, StartBatch,
       FinalizeAggregates, SubmitBatch, PurgeAll, StopBatch, Proceed, PrepareOrder, PlaceOrder,
       ConfirmPlacement, RetryCommitteeDelivery, CompleteDelivery, LeaveBrowser, PurgeShares, Crash, Restart,
       AnswerAggregate, AggregateIneligible, ReceiveShare, AnswerShare, ReceiveStray, vars, memberVars
<1>2. \A m \in Members : held'[m] \subseteq received'[m]
  <2>1. ASSUME NEW m \in Members, NEW share, Submit(m, share)
        PROVE  \A z \in Members : held'[z] \subseteq received'[z]
    BY <2>1 DEF Submit, Known, TypeOK
  <2>2. ASSUME NEW m \in Members, PurgeShares(m) \/ Crash(m) \/ Restart(m)
        PROVE  \A z \in Members : held'[z] \subseteq received'[z]
    BY <2>2 DEF PurgeShares, Crash, Restart, Known, TypeOK
  <2>3. CASE UNCHANGED <<held, received>>
    BY <2>3 DEF Known
  <2> QED BY <2>1, <2>2, <2>3 DEF Next, CoordinatorStep, BrowserStep, MemberStep, Tick, BeginRefund,
       StartBatch, FinalizeAggregates, SubmitBatch, PurgeAll, StopBatch, Proceed, PrepareOrder, PlaceOrder,
       ConfirmPlacement, RetryCommitteeDelivery, CompleteDelivery, LeaveBrowser, AnswerAggregate,
       AggregateIneligible, ReceiveShare, AnswerShare, ReceiveStray, vars, memberVars
<1> QED BY <1>1, <1>2, VerifiedStays DEF Known

\* A prefix of the market's orders stays one.
LEMMA PrefixStays ==
  ASSUME TypeOK, Distinct, [Next]_vars, NEW orders \in Seq(Orders), Prefix(orders)
  PROVE  Len(orders) <= Len(placed') /\ \A i \in 1..Len(orders) : orders[i] = placed'[i]
<1>1. placed \in Seq(Orders) /\ placed' \in Seq(Orders)
  BY PlacedGrows DEF TypeOK
<1>2. Len(placed) <= Len(placed') /\ \A i \in 1..Len(placed) : placed'[i] = placed[i]
  BY <1>1, PlacedGrows
<1> QED BY <1>1, <1>2 DEF Prefix

\* A member answers with a prefix of the market's orders, and the coordinator
\* submits what it was answered.
LEMMA AnswersStep ==
  ASSUME TypeOK, Distinct, Known, AnswersTrue, [Next]_vars
  PROVE  AnswersTrue'
<1> DEFINE Now(orders) == Len(orders) <= Len(placed') /\ \A i \in 1..Len(orders) : orders[i] = placed'[i]
<1>1. /\ \A m \in Members : answers[m] \in Seq(Orders) /\ Prefix(answers[m])
      /\ proposal \in Seq(Orders) /\ Prefix(proposal)
  BY DEF TypeOK, AnswersTrue
<1>2. Now(proposal) /\ \A m \in Members : Now(answers[m])
  BY <1>1, PrefixStays
<1>3. Now(<<>>)
  BY PlacedGrows
<1> HIDE DEF Now
<1> SUFFICES Now(proposal') /\ \A m \in Members : Now(answers'[m])
  BY DEF AnswersTrue, Prefix, Now
<1>4. ASSUME NEW m \in Members, AnswerAggregate(m) PROVE Now(proposal') /\ \A z \in Members : Now(answers'[z])
  <2>1. placed' = placed /\ proposal' = proposal /\ \A z \in Members \ {m} : answers'[z] = answers[z]
    BY <1>4 DEF AnswerAggregate, TypeOK, chainVars
  <2>2. answers'[m] = aggregate(m)
    BY <1>4 DEF AnswerAggregate, TypeOK
  <2>3. contiguous(m) /\ Cardinality(held[m]) \in Nat /\ Cardinality(held[m]) <= Len(placed)
    BY <1>4 DEF AnswerAggregate, SeenCounts, TypeOK
  <2>4. \A h \in held[m] : placed[h.index] = h.order
    BY DEF Known, verifyOnchainOrder
  <2>5. Now(aggregate(m))
    BY <2>1, <2>3, <2>4, AggregateFacts DEF Now
  <2> QED BY <1>2, <2>1, <2>2, <2>5
<1>5. ASSUME NEW pc, NEW orders, Proceed(pc, orders), Now(orders)
      PROVE  Now(proposal') /\ \A z \in Members : Now(answers'[z])
  BY <1>3, <1>5 DEF Proceed
<1>6. CASE FinalizeAggregates
  BY <1>2, <1>3, <1>5, <1>6, FinalizeFacts, CommitteeAssumption
<1>7. CASE SubmitBatch
  BY <1>2, <1>3, <1>7 DEF SubmitBatch
<1>8. CASE UNCHANGED <<answers, proposal>>
  BY <1>2, <1>8
<1>9. CASE StopBatch \/ \E m \in Members : AggregateIneligible(m)
  BY <1>3, <1>5, <1>9 DEF StopBatch, AggregateIneligible
<1> QED BY <1>4, <1>6, <1>7, <1>8, <1>9
      DEF Next, CoordinatorStep, BrowserStep, MemberStep, Tick, BeginRefund, StartBatch, PurgeAll,
          PrepareOrder, PlaceOrder, ConfirmPlacement, RetryCommitteeDelivery, CompleteDelivery, LeaveBrowser,
          PurgeShares, Crash, Restart, ReceiveShare, AnswerShare, ReceiveStray, Submit, vars, coordinatorVars

\* The program's count check makes a prefix the whole.
LEMMA BatchStep ==
  ASSUME TypeOK, AnswersTrue, BatchComplete, [Next]_vars
  PROVE  BatchComplete'
<1>1. CASE SubmitBatch
  <2>1. proposal \in Seq(Orders) /\ placed \in Seq(Orders) /\ Len(proposal) = Len(placed)
    BY <1>1 DEF SubmitBatch, submit_batch, TypeOK
  <2>2. \A i \in 1..Len(placed) : proposal[i] = placed[i]
    BY <2>1 DEF AnswersTrue, Prefix
  <2>3. proposal = placed
    BY <2>1, <2>2
  <2> QED BY <1>1, <2>3 DEF SubmitBatch, BatchComplete
<1>2. CASE BeginRefund
  BY <1>2 DEF BeginRefund, BatchComplete
<1>3. ASSUME NEW o \in Orders, PlaceOrder(o) PROVE BatchComplete'
  BY <1>3 DEF PlaceOrder, BatchComplete
<1>4. CASE UNCHANGED chainVars
  BY <1>4 DEF BatchComplete, chainVars
<1> QED BY <1>1, <1>2, <1>3, <1>4
      DEF Next, CoordinatorStep, BrowserStep, MemberStep, Tick, StartBatch, FinalizeAggregates, PurgeAll,
          StopBatch, Proceed, PrepareOrder, ConfirmPlacement, RetryCommitteeDelivery, CompleteDelivery,
          LeaveBrowser, PurgeShares, Crash, Restart, AnswerAggregate, AggregateIneligible, ReceiveShare,
          AnswerShare, ReceiveStray, Submit, vars

\* A service goes down only by crashing.
LEMMA DownStep ==
  ASSUME DownCrashed, [Next]_vars
  PROVE  DownCrashed'
BY DEF DownCrashed, Next, CoordinatorStep, BrowserStep, MemberStep, Tick, BeginRefund, StartBatch,
   FinalizeAggregates, SubmitBatch, PurgeAll, StopBatch, Proceed, PrepareOrder, PlaceOrder, ConfirmPlacement,
   RetryCommitteeDelivery, CompleteDelivery, LeaveBrowser, PurgeShares, Crash, Restart, AnswerAggregate,
   AggregateIneligible, ReceiveShare, AnswerShare, ReceiveStray, Submit, vars, memberVars, faultVars

\* A market does not reopen and time does not go back.
LEMMA WindowStep ==
  ASSUME TypeOK, [Next]_vars, phase' = "Open", now' + Skew <= BatchDeadline
  PROVE  phase = "Open" /\ now + Skew <= BatchDeadline
<1>1. phase = "Open"
  BY DEF Next, CoordinatorStep, BrowserStep, MemberStep, Tick, BeginRefund, StartBatch,
   FinalizeAggregates, SubmitBatch, PurgeAll, StopBatch, Proceed, PrepareOrder, PlaceOrder, ConfirmPlacement,
   RetryCommitteeDelivery, CompleteDelivery, LeaveBrowser, PurgeShares, Crash, Restart, AnswerAggregate,
   AggregateIneligible, ReceiveShare, AnswerShare, ReceiveStray, Submit, vars, chainVars
<1>2. now' = now \/ now' = now + 1
  BY DEF Next, CoordinatorStep, BrowserStep, MemberStep, Tick, BeginRefund, StartBatch,
   FinalizeAggregates, SubmitBatch, PurgeAll, StopBatch, Proceed, PrepareOrder, PlaceOrder, ConfirmPlacement,
   RetryCommitteeDelivery, CompleteDelivery, LeaveBrowser, PurgeShares, Crash, Restart, AnswerAggregate,
   AggregateIneligible, ReceiveShare, AnswerShare, ReceiveStray, Submit, vars
<1> QED BY <1>1, <1>2, CommitteeAssumption DEF TypeOK

\* No step takes away a promised share while the batch can be submitted.
LEMMA PromisesStep ==
  ASSUME TypeOK, DownCrashed, PromisesKept, [Next]_vars
  PROVE  PromisesKept'
<1> SUFFICES ASSUME phase' = "Open", now' + Skew <= BatchDeadline,
                    NEW o \in Orders, NEW m \in Members \ crashed', Promised(o, m)'
             PROVE  \E share \in held'[m] : share.order = o
  BY DEF PromisesKept
<1>1. phase = "Open" /\ now + Skew <= BatchDeadline
  BY WindowStep
<1>2. m \notin crashed => (Promised(o, m) => \E share \in held[m] : share.order = o)
  BY <1>1 DEF PromisesKept
<1> DEFINE Goal == \E share \in held'[m] : share.order = o
<1>3. ASSUME Promised(o, m), m \notin crashed, held[m] \subseteq held'[m] PROVE Goal
  BY <1>2, <1>3
<1>4. ASSUME NEW z \in Orders, PrepareOrder(z) \/ ConfirmPlacement(z) \/ RetryCommitteeDelivery(z)
                               \/ CompleteDelivery(z) \/ LeaveBrowser(z)
      PROVE  Goal
  <2>1. Promised(o, m)
    BY <1>4 DEF PrepareOrder, ConfirmPlacement, RetryCommitteeDelivery, deliverCommitteeShares, CompleteDelivery,
                delivered, LeaveBrowser, Promised, TypeOK, memberVars
  <2> QED BY <1>3, <1>4, <2>1
      DEF PrepareOrder, ConfirmPlacement, RetryCommitteeDelivery, CompleteDelivery, LeaveBrowser, memberVars,
          faultVars
<1>5. ASSUME NEW y \in Members, NEW z \in Orders, ReceiveShare(y, z) PROVE Goal
  <2>1. m \notin crashed /\ held[m] \subseteq held'[m]
    BY <1>5 DEF ReceiveShare, Submit, TypeOK
  <2>2. CASE y = m /\ z = o
    <3>1. ShareOf(o) \in held'[m] /\ ShareOf(o).order = o
      BY <1>5, <2>2 DEF ReceiveShare, Submit, ShareOf, TypeOK
    <3> QED BY <3>1
  <2>3. CASE ~(y = m /\ z = o)
    <3>1. Promised(o, m)
      BY <1>5, <2>3 DEF ReceiveShare, Promised, TypeOK
    <3> QED BY <1>3, <2>1, <3>1
  <2> QED BY <2>2, <2>3
<1>6. ASSUME NEW y \in Members, NEW share \in Shares, ReceiveStray(y, share) PROVE Goal
  <2>1. m \notin crashed /\ held[m] \subseteq held'[m] /\ Promised(o, m)
    BY <1>6 DEF ReceiveStray, Submit, Promised, browserVars, TypeOK
  <2> QED BY <1>3, <2>1
<1>7. ASSUME NEW y \in Members, NEW z \in Orders, AnswerShare(y, z) PROVE Goal
  <2>1. m \notin crashed /\ held'[m] = held[m] /\ Promised(o, m)
    BY <1>7 DEF AnswerShare, Promised, faultVars, TypeOK
  <2> QED BY <1>3, <2>1
<1>8. ASSUME NEW y \in Members, PurgeShares(y) PROVE Goal
  <2>1. \A open \in SeenOpen, t \in LocalTimes : ~purgeable(open, t)
    <3> SUFFICES ASSUME NEW open \in SeenOpen, NEW t \in LocalTimes PROVE ~purgeable(open, t)
      OBVIOUS
    <3>1. open = TRUE
      <4>1. (phase = "Open") = TRUE
        BY <1>1
      <4> QED BY <4>1, Zenon DEF SeenOpen
    <3>2. ~(t > BatchDeadline)
      BY <1>1, CommitteeAssumption DEF LocalTimes, TypeOK
    <3> QED BY <3>1, <3>2, Zenon DEF purgeable
  <2>2. held' = held
    BY <1>8, <2>1 DEF PurgeShares, TypeOK
  <2>3. m \notin crashed /\ Promised(o, m)
    BY <1>8 DEF PurgeShares, Promised, browserVars, faultVars
  <2> QED BY <1>3, <2>2, <2>3
<1>9. ASSUME NEW y \in Members, Crash(y) PROVE Goal
  <2>1. m \notin crashed /\ m # y /\ held'[m] = held[m] /\ Promised(o, m)
    BY <1>9 DEF Crash, Promised, browserVars, TypeOK
  <2> QED BY <1>3, <2>1
<1>10. ASSUME NEW y \in Members, Restart(y) PROVE Goal
  <2>1. m \notin crashed /\ m # y /\ held'[m] = held[m] /\ Promised(o, m)
    BY <1>10 DEF Restart, Promised, browserVars, faultVars, TypeOK, DownCrashed
  <2> QED BY <1>3, <2>1
<1>11. CASE UNCHANGED <<record, acks, held, saving, crashed>>
  BY <1>3, <1>11 DEF Promised
<1> QED BY <1>4, <1>5, <1>6, <1>7, <1>8, <1>9, <1>10, <1>11
      DEF Next, CoordinatorStep, BrowserStep, MemberStep, Tick, BeginRefund, StartBatch, FinalizeAggregates,
          SubmitBatch, PurgeAll, StopBatch, Proceed, PlaceOrder, AnswerAggregate, AggregateIneligible, vars,
          browserVars, memberVars, faultVars

----------------------------------------------------------------------------
\* The inductive invariant holds in every state.
LEMMA InvariantAlways == Spec => []CommitteeInv
<1>1. Init => CommitteeInv
  <2> SUFFICES ASSUME Init PROVE CommitteeInv
    OBVIOUS
  <2>1. TypeOK
    <3>1. Cardinality(Orders) \in Nat
      BY CommitteeAssumption, FS_CardinalityType
    <3> QED BY <3>1, CommitteeAssumption DEF Init, TypeOK
  <2>2. AnswersTrue
    BY DEF Init, AnswersTrue, Prefix
  <2>3. PromisesKept
    BY DEF Init, PromisesKept, Promised
  <2> QED BY <2>1, <2>2, <2>3
      DEF Init, CommitteeInv, Distinct, Known, BatchComplete, DownCrashed
<1>2. CommitteeInv /\ [Next]_vars => CommitteeInv'
  BY TypeStep, PlacedGrows, KnownStep, AnswersStep, BatchStep, DownStep, PromisesStep DEF CommitteeInv
<1> QED BY <1>1, <1>2, PTL DEF Spec

\* The type invariant of the committee path.
THEOREM TypeCorrect == Spec => []TypeOK
<1>1. CommitteeInv => TypeOK
  BY DEF CommitteeInv
<1> QED BY <1>1, InvariantAlways, PTL

\* The share of a verified index and order is the one the chain describes.
LEMMA VerifiedUnique ==
  ASSUME TypeOK, Distinct, NEW share \in Shares, verifyOnchainOrder(share)
  PROVE  OnChain(share.order) /\ share = ShareOf(share.order)
<1>1. share.index \in DOMAIN placed /\ placed[share.index] = share.order
  BY DEF verifyOnchainOrder
<1>2. (CHOOSE i \in DOMAIN placed : placed[i] = share.order) = share.index
  BY <1>1 DEF Distinct
<1> QED BY <1>1, <1>2 DEF OnChain, ShareOf, Shares

\* No member service holds a share the chain does not confirm, whoever sends
\* requests and whatever a restart finds.
THEOREM SharesAlwaysVerified == Spec => []SharesVerified
<1>1. CommitteeInv => SharesVerified
  <2> SUFFICES ASSUME CommitteeInv, NEW m \in Members, NEW share \in held[m]
               PROVE  OnChain(share.order) /\ share = ShareOf(share.order)
    BY DEF SharesVerified
  <2>1. share \in Shares /\ verifyOnchainOrder(share)
    BY DEF CommitteeInv, TypeOK, Known
  <2> QED BY <2>1, VerifiedUnique DEF CommitteeInv
<1> QED BY <1>1, InvariantAlways, PTL

\* A batched market's root covers exactly its orders, in their order.
THEOREM BatchAlwaysComplete == Spec => []BatchComplete
<1>1. CommitteeInv => BatchComplete
  BY DEF CommitteeInv
<1> QED BY <1>1, InvariantAlways, PTL

\* Until the batch is in or its deadline is near, a service that has not
\* crashed keeps the share of every completed delivery.
THEOREM DeliveredAlwaysKept == Spec => []DeliveredKept
<1>1. CommitteeInv => DeliveredKept
  <2> SUFFICES ASSUME CommitteeInv, NEW o \in Orders, NEW m \in Members \ crashed,
                      record[o] = "open", phase = "Open", now + Skew <= BatchDeadline
               PROVE  ShareOf(o) \in held[m]
    BY DEF DeliveredKept
  <2>1. PICK share \in held[m] : share.order = o
    BY DEF CommitteeInv, PromisesKept, Promised
  <2>2. share \in Shares /\ verifyOnchainOrder(share)
    BY DEF CommitteeInv, TypeOK, Known
  <2> QED BY <2>1, <2>2, VerifiedUnique DEF CommitteeInv
<1> QED BY <1>1, InvariantAlways, PTL
=============================================================================
