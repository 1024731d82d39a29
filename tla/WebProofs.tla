----------------------------- MODULE WebProofs ------------------------------
(***************************************************************************)
(* Theorems about the clients, for every value of the constants: the data   *)
(* layer of the pages, the browser's vault of positions, the form that       *)
(* creates markets, the accounts of every call of the program and the layouts *)
(* by which its accounts are read.                                          *)
(***************************************************************************)
EXTENDS MCWeb, SequenceTheorems, TLAPS

-----------------------------------------------------------------------------
(* The data layer.                                                         *)

LEMMA TtlFacts == Ttl \in Nat /\ Ttl > 0 /\ MaxDelay \in Nat /\ HttpLife \in Nat
BY WebAssumption

LEMMA LifeFacts == \A kind : D!Life(kind) \in Int
BY TtlFacts DEF D!Life

LEMMA NoViewOK == D!NoView \in D!Views /\ D!NoView.phase = "none" /\ D!NoView.question = "none"
BY DEF D!NoView, D!Views

LEMMA IdleOK == ASSUME NEW t \in Nat PROVE D!RequestOK(D!Idle)
BY NoViewOK DEF D!Idle, D!RequestOK, D!Final

LEMMA DataInitInv == D!Init => D!DataIInv
<1> SUFFICES ASSUME D!Init PROVE D!DataIInv
  OBVIOUS
<1>1. now = 0 /\ req = [r \in Requests |-> D!Idle] /\ answer.status = 0 /\ front = D!NoCopy
  BY DEF D!Init, D!NoAnswer
<1>2. D!ChainOK
  BY DEF D!Init, D!ChainOK, D!Final
<1>3. D!CachesOK
  BY DEF D!Init, D!CachesOK, D!Kept, D!Nothing
<1>4. \A r \in Requests : D!RequestOK(req[r])
  BY <1>1, IdleOK
<1>5. routes \subseteq {"page", "listing", "activity", "feeds"}
  BY DEF D!Init
<1>6. QED
  BY <1>1, <1>2, <1>3, <1>4, <1>5 DEF D!DataIInv, D!FrontOK, D!ShownAgrees, D!AnswersFresh

\* The program moves the market's accounts: what was final stays so.
LEMMA ChainStepInv ==
  ASSUME D!DataIInv, D!create \/ D!publish \/ D!resolve \/ D!close
  PROVE  D!DataIInv'
<1>1. D!ChainOK' /\ (dataChain.receipt = "yes" => dataChain'.receipt = "yes")
  BY DEF D!DataIInv, D!ChainOK, D!Final, D!Chain, D!create, D!publish, D!resolve, D!close
<1>2. UNCHANGED <<routes, req, activityCache, catalogCache, feedCache, front, now>> /\ answer'.status = 0
  BY DEF D!Chain, D!create, D!publish, D!resolve, D!close, D!caches, D!NoAnswer
<1>3. ASSUME NEW r \in Requests PROVE D!RequestOK(req[r])'
  BY <1>1, <1>2 DEF D!DataIInv, D!RequestOK
<1>4. QED
  BY <1>1, <1>2, <1>3 DEF D!DataIInv, D!CachesOK, D!Kept, D!Nothing, D!FrontOK, D!ShownAgrees, D!AnswersFresh

LEMMA DataTickInv == D!DataIInv /\ D!tick => D!DataIInv'
<1> SUFFICES ASSUME D!DataIInv, D!tick PROVE D!DataIInv'
  OBVIOUS
<1>1. /\ now' = now + 1 /\ now \in Nat
      /\ UNCHANGED <<routes, dataChain, req, activityCache, catalogCache, feedCache, front>>
      /\ answer'.status = 0
  BY DEF D!tick, D!caches, D!DataIInv, D!NoAnswer
<1>2. ASSUME NEW r \in Requests PROVE D!RequestOK(req[r])'
  BY <1>1, TtlFacts DEF D!DataIInv, D!RequestOK, D!tick
<1>3. QED
  BY <1>1, <1>2 DEF D!DataIInv, D!ChainOK, D!CachesOK, D!Kept, D!Nothing, D!FrontOK, D!ShownAgrees,
                    D!AnswersFresh

\* What makes an answer a true one.
Vouched(status, kind, at, stale, view) ==
  status = 200 =>
    /\ at \in Int /\ view \in D!Views /\ view.question # "other"
    /\ view.phase \in D!Final => view.receipt = "yes" /\ view.outcome = "yes"
    /\ ~stale => now - at < D!Life(kind)

\* What makes a copy of it a true one.
Keepable(status, kind, at, stale, view) ==
  /\ Vouched(status, kind, at, stale, view)
  /\ status \in {200, 503} /\ kind \in {"listing", "activity", "feeds"}
  /\ at \in Int /\ stale \in BOOLEAN /\ view \in D!Views

\* The answer of the last step.
LEMMA AnswerTrue ==
  ASSUME now \in Nat, NEW status, NEW kind, NEW at, NEW stale, NEW view,
         answer' = D!Body(status, kind, at, stale, view), Vouched(status, kind, at, stale, view)
  PROVE  D!ShownAgrees' /\ D!AnswersFresh'
<1>1. CASE status # 200
  BY <1>1 DEF D!Body, D!ShownAgrees, D!AnswersFresh
<1>2. CASE status = 200
  <2>1. /\ answer'.view = view /\ answer'.kind = kind /\ answer'.stale = stale
        /\ answer'.lag = now - at /\ answer'.age = now - at
    BY DEF D!Body
  <2>2. D!ShownAgrees'
    BY <1>2, <2>1 DEF D!ShownAgrees, D!Final, Vouched
  <2>3. D!Life(kind) \in Int /\ HttpLife \in Nat
    BY LifeFacts, TtlFacts
  <2>4. D!AnswersFresh'
    <3>1. ~stale => now - at \in Int /\ now - at < D!Life(kind) /\ now - at < D!Life(kind) + HttpLife
      BY <1>2, <2>3 DEF Vouched
    <3>2. QED
      BY <2>1, <3>1 DEF D!AnswersFresh
  <2>5. QED
    BY <2>2, <2>4
<1>3. QED
  BY <1>1, <1>2

\* A copy of it in front of the routes.
LEMMA CopyTrue ==
  ASSUME now \in Nat, UNCHANGED now, NEW status, NEW kind, NEW at, NEW stale, NEW view,
         front' = [body |-> D!Body(status, kind, at, stale, view), at |-> at, until |-> now + HttpLife],
         Keepable(status, kind, at, stale, view)
  PROVE  D!FrontOK'
<1>1. now - at \in Int /\ HttpLife \in Nat /\ now + HttpLife = at + (now - at) + HttpLife
  BY TtlFacts DEF Keepable
<1> DEFINE body == D!Body(status, kind, at, stale, view)
<1>2. /\ body \in [status : {200, 503}, kind : {"listing", "activity", "feeds"}, lag : Int,
                   age : Int, stale : BOOLEAN, view : D!Views]
      /\ body.lag = now - at /\ body.status = status /\ body.kind = kind /\ body.stale = stale
      /\ body.view = view
  BY <1>1 DEF D!Body, Keepable
<1> HIDE DEF body
<1>3. /\ front'.body = body /\ front'.at = at /\ front'.until = now + HttpLife
      /\ front' \in [body : [status : {200, 503}, kind : {"listing", "activity", "feeds"}, lag : Int,
                            age : Int, stale : BOOLEAN, view : D!Views], at : Int, until : Int]
  <2>1. front' = [body |-> body, at |-> at, until |-> now + HttpLife]
    BY DEF body
  <2>2. at \in Int /\ now + HttpLife \in Int
    BY <1>1 DEF Keepable
  <2>3. QED
    BY <1>2, <2>1, <2>2
<1>4. QED
  BY <1>1, <1>2, <1>3 DEF D!FrontOK, Keepable, Vouched

\* One request moves on and gives no answer, or answers and is done.
LEMMA RequestStepInv ==
  ASSUME D!DataIInv, NEW r \in Requests, UNCHANGED <<routes, dataChain, now>>, D!CachesOK',
         \/ \E q : D!RequestOK(q) /\ D!Go(r, q)
         \/ \E status, kind, at, stale, view :
              \/ /\ D!Answer(r, status, kind, at, stale, view)
                 /\ Vouched(status, kind, at, stale, view)
              \/ /\ D!Cacheable(r, status, kind, at, stale, view)
                 /\ Keepable(status, kind, at, stale, view)
  PROVE  D!DataIInv'
<1>1. now \in Nat /\ D!ChainOK /\ D!FrontOK
  BY DEF D!DataIInv
<1>2. ASSUME NEW q, D!RequestOK(q), req' = [req EXCEPT ![r] = q]
      PROVE  /\ req' = [s \in Requests |-> req'[s]]
             /\ \A s \in Requests : D!RequestOK(req[s])'
  BY <1>2 DEF D!DataIInv, D!RequestOK
<1>3. CASE \E q : D!RequestOK(q) /\ D!Go(r, q)
  BY <1>2, <1>3 DEF D!Go, D!NoAnswer, D!DataIInv, D!ChainOK, D!FrontOK, D!ShownAgrees, D!AnswersFresh
<1>4. ASSUME NEW status, NEW kind, NEW at, NEW stale, NEW view,
             \/ D!Answer(r, status, kind, at, stale, view) /\ Vouched(status, kind, at, stale, view)
             \/ D!Cacheable(r, status, kind, at, stale, view) /\ Keepable(status, kind, at, stale, view)
      PROVE  D!DataIInv'
  <2>1. req' = [s \in Requests |-> req'[s]] /\ \A s \in Requests : D!RequestOK(req[s])'
    BY <1>1, <1>2, <1>4, IdleOK DEF D!Answer, D!Cacheable
  <2>2. answer' = D!Body(status, kind, at, stale, view) /\ Vouched(status, kind, at, stale, view)
    BY <1>4 DEF D!Answer, D!Cacheable, Keepable
  <2>3. D!ShownAgrees' /\ D!AnswersFresh'
    BY <1>1, <2>2, AnswerTrue
  <2>4. CASE UNCHANGED front
    <3>1. D!FrontOK'
      BY <1>1, <2>4 DEF D!FrontOK
    <3>2. QED
      BY <1>1, <2>1, <2>3, <3>1 DEF D!DataIInv, D!ChainOK
  <2>5. CASE front' # front
    <3>1. /\ Keepable(status, kind, at, stale, view)
          /\ front' = [body |-> D!Body(status, kind, at, stale, view), at |-> at, until |-> now + HttpLife]
      BY <1>4, <2>2, <2>5 DEF D!Answer, D!Cacheable
    <3>2. D!FrontOK'
      BY <1>1, <3>1, CopyTrue
    <3>3. QED
      BY <1>1, <2>1, <2>3, <3>2 DEF D!DataIInv, D!ChainOK
  <2>6. QED
    BY <2>4, <2>5
<1>5. QED
  BY <1>3, <1>4

\* The same, one kind of step at a time.
LEMMA GoInv ==
  ASSUME D!DataIInv, NEW r \in Requests, UNCHANGED <<routes, dataChain, now>>, D!CachesOK',
         NEW q, D!RequestOK(q), D!Go(r, q)
  PROVE  D!DataIInv'
BY RequestStepInv

LEMMA GivenInv ==
  ASSUME D!DataIInv, NEW r \in Requests, UNCHANGED <<routes, dataChain, now>>, D!CachesOK',
         NEW status, NEW kind, NEW at, NEW stale, NEW view,
         D!Answer(r, status, kind, at, stale, view), Vouched(status, kind, at, stale, view)
  PROVE  D!DataIInv'
BY RequestStepInv

LEMMA CacheableInv ==
  ASSUME D!DataIInv, NEW r \in Requests, UNCHANGED <<routes, dataChain, now>>, D!CachesOK',
         NEW status, NEW kind, NEW at, NEW stale, NEW view,
         D!Cacheable(r, status, kind, at, stale, view), Keepable(status, kind, at, stale, view)
  PROVE  D!DataIInv'
BY RequestStepInv

\* The records a request keeps, as RequestOK has them.
RequestRecords ==
  [kind : {"page", "listing", "fallback", "activity", "feeds"},
   pc : {"idle", "market", "support", "activity", "store", "hermes"},
   began : Nat, view : D!Views, at : Int, read : Int]

\* A copy in front is as true as when it was made; while its life lasts it is
\* HttpLife older at most.
LEMMA FrontStepInv == D!DataIInv /\ D!serveFront => D!DataIInv'
<1> SUFFICES ASSUME D!DataIInv, D!serveFront PROVE D!DataIInv'
  OBVIOUS
<1>1. now \in Nat /\ D!FrontOK /\ front # D!NoCopy
  BY DEF D!DataIInv, D!serveFront
<1>2. UNCHANGED <<routes, dataChain, req, activityCache, catalogCache, feedCache, front, now>>
  BY DEF D!serveFront, D!caches
<1> DEFINE body == front.body
<1>3. /\ body \in [status : {200, 503}, kind : {"listing", "activity", "feeds"}, lag : Int,
                   age : Int, stale : BOOLEAN, view : D!Views]
      /\ front.at \in Int /\ front.until = front.at + body.lag + HttpLife
  BY <1>1 DEF D!FrontOK
<1>4. body.status = 200 =>
        /\ body.view.phase \in D!Final => body.view.receipt = "yes" /\ body.view.outcome = "yes"
        /\ body.view.question # "other"
        /\ ~body.stale => body.lag < D!Life(body.kind)
  BY <1>1 DEF D!FrontOK
<1>5. /\ answer' = [body EXCEPT !.age = now - front.at]
      /\ body.kind = "listing" \/ now < front.until
  BY DEF D!serveFront
<1> HIDE DEF body
<1>6. /\ answer'.status = body.status /\ answer'.kind = body.kind /\ answer'.lag = body.lag
      /\ answer'.stale = body.stale /\ answer'.view = body.view /\ answer'.age = now - front.at
  BY <1>3, <1>5
<1>7. D!ShownAgrees'
  BY <1>4, <1>6 DEF D!ShownAgrees, D!Final
<1>8. D!AnswersFresh'
  <2>1. D!Life(body.kind) \in Int /\ HttpLife \in Nat
    BY LifeFacts, TtlFacts
  <2>2. now < front.until /\ body.lag < D!Life(body.kind)
          => now - front.at < D!Life(body.kind) + HttpLife
    BY <1>1, <1>3, <2>1
  <2>3. QED
    BY <1>3, <1>4, <1>5, <1>6, <2>2 DEF D!AnswersFresh
<1>9. ASSUME NEW r \in Requests PROVE D!RequestOK(req[r])'
  BY <1>2 DEF D!DataIInv, D!RequestOK
<1>10. D!ChainOK' /\ D!CachesOK' /\ D!FrontOK'
  BY <1>2 DEF D!DataIInv, D!ChainOK, D!CachesOK, D!Kept, D!Nothing, D!FrontOK
<1>11. QED
  BY <1>2, <1>7, <1>8, <1>9, <1>10 DEF D!DataIInv

\* An answer from a cache, while the entry has not expired.
LEMMA EntryFresh ==
  ASSUME NEW entry, NEW life \in Nat, D!Kept(entry, life), now \in Nat, D!Unexpired(entry)
  PROVE  entry.at \in Int /\ now - entry.at < life /\ entry.expires <= entry.at + life
BY DEF D!Kept, D!Unexpired, D!Nothing

\* A page or a listing is made by one request.
LEMMA ListingFresh ==
  ASSUME NEW q, D!RequestOK(q), q.pc # "idle", now \in Nat
  PROVE  q.began \in Int /\ now - q.began < D!Life("listing") /\ now - q.began < D!Life("page")
BY TtlFacts DEF D!RequestOK, D!Life

\* What one read of a page or of the activity route does.
LEMMA PageStepInv ==
  ASSUME D!DataIInv, NEW r \in Requests,
         \/ \E kind \in routes \ {"feeds"} : D!start(r, kind)
         \/ D!readMarket(r) \/ D!supportFails(r) \/ D!getOnchainMarkets(r)
         \/ D!listingFails(r) \/ D!listDeployed(r)
         \/ \E candidate \in {"own", "other"} : D!readSupport(r, candidate)
  PROVE  D!DataIInv'
<1> DEFINE q == req[r]
<1>1. /\ now \in Nat /\ D!ChainOK /\ D!RequestOK(q) /\ D!CachesOK
      /\ routes \subseteq {"page", "listing", "activity", "feeds"}
  BY DEF D!DataIInv
<1>2. /\ UNCHANGED <<routes, dataChain, now>>
      /\ UNCHANGED <<activityCache, catalogCache, feedCache>>
  BY DEF D!start, D!readMarket, D!supportFails, D!getOnchainMarkets, D!listingFails, D!listDeployed,
         D!readSupport, D!caches
<1>3. D!CachesOK'
  BY <1>1, <1>2 DEF D!CachesOK, D!Kept, D!Nothing
<1>4. ASSUME NEW kind \in routes \ {"feeds"}, D!start(r, kind) PROVE D!DataIInv'
  <2>1. CASE kind = "activity" /\ D!Unexpired(activityCache)
    <3>1. D!Answer(r, 200, kind, activityCache.at, FALSE, D!NoView)
      BY <1>4, <2>1 DEF D!start
    <3>2. activityCache.at \in Int /\ now - activityCache.at < Ttl + MaxDelay
      BY <1>1, <2>1, EntryFresh, TtlFacts DEF D!CachesOK
    <3>3. Vouched(200, kind, activityCache.at, FALSE, D!NoView)
      BY <2>1, <3>2, NoViewOK DEF Vouched, D!Final, D!Life
    <3>4. QED
      BY <1>2, <1>3, <3>1, <3>3, GoInv, GivenInv, CacheableInv
  <2>2. CASE ~(kind = "activity" /\ D!Unexpired(activityCache))
    <3> DEFINE at == IF kind = "activity" THEN activityCache.at ELSE -1
               p == [D!Idle EXCEPT !.kind = kind, !.pc = "market", !.began = now, !.at = at]
    <3>1. D!Go(r, p)
      BY <1>4, <2>2 DEF D!start
    <3>2. at \in Int
      BY <1>1 DEF D!CachesOK, D!Kept
    <3> HIDE DEF at
    <3> DEFINE idle == D!Idle
    <3>3. D!RequestOK(idle) /\ idle.view = D!NoView
      BY IdleOK, <1>1 DEF D!Idle
    <3> HIDE DEF idle
    <3>4. D!RequestOK([idle EXCEPT !.kind = kind, !.pc = "market", !.began = now, !.at = at])
      <4>1. kind \in {"page", "listing", "fallback", "activity", "feeds"} /\ now \in Nat
        BY <1>1
      <4> DEFINE p1 == [idle EXCEPT !.kind = kind, !.pc = "market"]
                 p2 == [p1 EXCEPT !.began = now, !.at = at]
      <4>2. /\ p1 \in [kind : {"page", "listing", "fallback", "activity", "feeds"},
                      pc : {"idle", "market", "support", "activity", "store", "hermes"},
                      began : Nat, view : D!Views, at : Int, read : Int]
            /\ p1.pc = "market" /\ p1.view = D!NoView /\ p1.kind = kind
        BY <3>3, <4>1 DEF D!RequestOK
      <4>3. [idle EXCEPT !.kind = kind, !.pc = "market", !.began = now, !.at = at] = p2
        BY <3>3 DEF D!RequestOK
      <4> HIDE DEF p1
      <4>4. /\ p2 \in [kind : {"page", "listing", "fallback", "activity", "feeds"},
                      pc : {"idle", "market", "support", "activity", "store", "hermes"},
                      began : Nat, view : D!Views, at : Int, read : Int]
            /\ p2.pc = "market" /\ p2.view = D!NoView /\ p2.began = now /\ p2.kind # "feeds"
        BY <3>2, <4>1, <4>2
      <4> HIDE DEF p2
      <4>5. D!RequestOK(p2)
        BY <4>1, <4>4, NoViewOK, TtlFacts DEF D!RequestOK, D!Final
      <4>6. QED
        BY <4>3, <4>5
    <3> USE DEF idle
    <3>5. QED
      BY <1>2, <1>3, <3>1, <3>4, GoInv, GivenInv, CacheableInv
  <2>3. QED
    BY <2>1, <2>2
<1>5. CASE D!readMarket(r)
  <2>1. CASE dataChain.phase = "none"
    <3>1. D!Answer(r, 404, q.kind, now, FALSE, D!NoView)
      BY <1>5, <2>1 DEF D!readMarket, D!Fails
    <3>2. Vouched(404, q.kind, now, FALSE, D!NoView)
      BY DEF Vouched
    <3>3. QED
      BY <1>2, <1>3, <3>1, <3>2, GivenInv
  <2>2. CASE dataChain.phase # "none"
    <3> DEFINE view == [D!NoView EXCEPT !.phase = dataChain.phase, !.outcome = dataChain.outcome]
               p == [q EXCEPT !.pc = "support", !.view = view]
    <3>1. /\ D!Go(r, p)
          /\ q.pc = "market" /\ q.kind # "listing"
      BY <1>5, <2>2 DEF D!readMarket
    <3>2. /\ view \in D!Views
          /\ view.phase \in D!Final => view.outcome = "yes" /\ dataChain.receipt = "yes"
      BY <1>1 DEF D!NoView, D!Views, D!ChainOK, D!Final
    <3> HIDE DEF view
    <3>3. q \in RequestRecords
      BY <1>1 DEF D!RequestOK, RequestRecords
    <3> HIDE DEF q
    <3>4. /\ p \in RequestRecords /\ p.pc = "support" /\ p.view = view
          /\ p.kind = q.kind /\ p.began = q.began
      BY <3>2, <3>3 DEF RequestRecords
    <3> HIDE DEF p
    <3>5. D!RequestOK(p)
      BY <1>1, <3>1, <3>2, <3>4 DEF D!RequestOK, RequestRecords
    <3>6. QED
      BY <1>2, <1>3, <3>1, <3>5, GoInv
  <2>3. QED
    BY <2>1, <2>2
<1>6. CASE D!supportFails(r)
  <2>1. D!Answer(r, 404, q.kind, now, FALSE, D!NoView)
    BY <1>6 DEF D!supportFails, D!Fails
  <2>2. Vouched(404, q.kind, now, FALSE, D!NoView)
    BY DEF Vouched
  <2>3. QED
    BY <1>2, <1>3, <2>1, <2>2, GoInv, GivenInv, CacheableInv
<1>7. CASE D!getOnchainMarkets(r)
  <2> DEFINE view == IF dataChain.phase = "none" THEN D!NoView
                     ELSE [D!NoView EXCEPT !.phase = dataChain.phase, !.outcome = dataChain.outcome,
                                           !.receipt = dataChain.receipt,
                                           !.question = D!question(dataChain.metadata, "generic")]
  <2>1. D!Cacheable(r, 200, "listing", q.began, FALSE, view) /\ q.pc = "market"
    BY <1>7 DEF D!getOnchainMarkets
  <2>2. /\ view \in D!Views /\ view.question # "other"
        /\ view.phase \in D!Final => view.receipt = "yes" /\ view.outcome = "yes"
    BY <1>1 DEF D!NoView, D!Views, D!ChainOK, D!Final, D!question
  <2> HIDE DEF view
  <2>3. Keepable(200, "listing", q.began, FALSE, view)
    BY <1>1, <2>1, <2>2, ListingFresh DEF Keepable, Vouched, D!RequestOK
  <2>4. QED
    BY <1>2, <1>3, <2>1, <2>3, GoInv, GivenInv, CacheableInv
<1>8. ASSUME NEW candidate \in {"own", "other"}, D!readSupport(r, candidate) PROVE D!DataIInv'
  <2> DEFINE view == IF q.kind = "page" THEN D!support(r, candidate) ELSE D!NoView
             p == [q EXCEPT !.pc = "activity", !.view = view]
  <2>1. D!Go(r, p) /\ q.pc = "support" /\ q.kind # "fallback"
    BY <1>8 DEF D!readSupport
  <2>2. /\ view \in D!Views
        /\ view.phase \in D!Final => q.view.phase \in D!Final /\ q.kind = "page"
        /\ view.phase \in D!Final => view.outcome = q.view.outcome /\ view.receipt = dataChain.receipt
    BY <1>1, NoViewOK DEF D!support, D!question, D!RequestOK, D!Views, D!ChainOK, D!Final
  <2> HIDE DEF view
  <2>3. q \in RequestRecords
    BY <1>1 DEF D!RequestOK, RequestRecords
  <2> HIDE DEF q
  <2>4. /\ p \in RequestRecords /\ p.pc = "activity" /\ p.view = view
        /\ p.kind = q.kind /\ p.began = q.began
    BY <2>2, <2>3 DEF RequestRecords
  <2> HIDE DEF p
  <2>5. p.kind \in {"page", "activity"}
    BY <1>1, <2>1, <2>3, <2>4 DEF D!RequestOK, RequestRecords
  <2>6. D!RequestOK(p)
    BY <1>1, <2>1, <2>2, <2>4, <2>5 DEF D!RequestOK, RequestRecords, D!ChainOK, D!Final
  <2>7. QED
    BY <1>2, <1>3, <2>1, <2>6, GoInv
<1>9. CASE D!listingFails(r)
  <2> DEFINE p == [q EXCEPT !.kind = "fallback"]
  <2>1. q.pc = "market" /\ (D!Cacheable(r, 503, "listing", now, FALSE, D!NoView) \/ D!Go(r, p))
    BY <1>9 DEF D!listingFails
  <2>2. Keepable(503, "listing", now, FALSE, D!NoView)
    BY <1>1, NoViewOK DEF Keepable, Vouched
  <2>3. q \in RequestRecords
    BY <1>1 DEF D!RequestOK, RequestRecords
  <2> HIDE DEF q
  <2>4. /\ p \in RequestRecords /\ p.pc = "market" /\ p.kind = "fallback"
        /\ p.began = q.began /\ p.view = q.view
    BY <2>1, <2>3 DEF RequestRecords
  <2> HIDE DEF p
  <2>5. D!RequestOK(p)
    BY <1>1, <2>1, <2>4 DEF D!RequestOK, RequestRecords
  <2>6. QED
    BY <1>2, <1>3, <2>1, <2>2, <2>5, GoInv, CacheableInv
<1>10. CASE D!listDeployed(r)
  <2> DEFINE view == D!support(r, "generic")
  <2>1. /\ q.kind = "fallback" /\ q.pc \in {"market", "support"}
        /\ \/ D!Cacheable(r, 200, "listing", q.began, FALSE, view)
           \/ D!Cacheable(r, 200, "listing", q.began, FALSE, D!NoView)
    BY <1>10 DEF D!listDeployed
  <2>2. /\ view \in D!Views /\ view.question # "other"
        /\ view.phase \in D!Final => view.receipt = "yes" /\ view.outcome = "yes"
    BY <1>1 DEF D!support, D!question, D!RequestOK, D!Views, D!ChainOK, D!Final
  <2> HIDE DEF view
  <2>3. Keepable(200, "listing", q.began, FALSE, view) /\ Keepable(200, "listing", q.began, FALSE, D!NoView)
    <3>1. q.began \in Int /\ now - q.began < D!Life("listing")
      BY <1>1, <2>1, ListingFresh DEF D!RequestOK
    <3>2. QED
      BY <2>2, <3>1, NoViewOK DEF Keepable, Vouched, D!Final
  <2>4. QED
    BY <1>2, <1>3, <2>1, <2>3, GoInv, GivenInv, CacheableInv
<1>11. QED
  BY <1>4, <1>5, <1>6, <1>7, <1>8, <1>9, <1>10

\* The rest of the activity route. An entry is kept for one life from now on,
\* and what is in it was read during this request.
LEMMA ActivityStepInv ==
  ASSUME D!DataIInv, NEW r \in Requests,
         D!readActivity(r) \/ D!storeActivity(r) \/ D!activityFails(r) \/ D!pageFails(r)
  PROVE  D!DataIInv'
<1> DEFINE q == req[r]
<1>1. now \in Nat /\ D!ChainOK /\ D!RequestOK(q) /\ D!CachesOK
  BY DEF D!DataIInv
<1>2. UNCHANGED <<routes, dataChain, now>>
  BY DEF D!readActivity, D!storeActivity, D!activityFails, D!pageFails
<1>3. CASE D!readActivity(r)
  <2>1. D!CachesOK'
    BY <1>1, <1>3 DEF D!readActivity, D!caches, D!CachesOK, D!Kept, D!Nothing
  <2>2. CASE q.kind = "page"
    <3>1. D!Answer(r, 200, "page", q.began, FALSE, q.view) /\ q.pc = "activity"
      BY <1>3, <2>2 DEF D!readActivity
    <3>2. Vouched(200, "page", q.began, FALSE, q.view)
      BY <1>1, <2>2, <3>1, ListingFresh DEF Vouched, D!RequestOK, D!Views
    <3>3. QED
      BY <1>2, <2>1, <3>1, <3>2, GoInv, GivenInv, CacheableInv
  <2>3. CASE q.kind # "page"
    <3> DEFINE p == [q EXCEPT !.pc = "store", !.read = now]
    <3>1. D!Go(r, p) /\ q.pc = "activity"
      BY <1>3, <2>3 DEF D!readActivity
    <3>2. q.kind = "activity" /\ q.began <= now
      BY <1>1, <2>3, <3>1 DEF D!RequestOK
    <3>3. /\ p \in [kind : {"page", "listing", "fallback", "activity", "feeds"},
                   pc : {"idle", "market", "support", "activity", "store", "hermes"},
                   began : Nat, view : D!Views, at : Int, read : Int]
          /\ p.pc = "store" /\ p.read = now /\ p.kind = q.kind /\ p.began = q.began /\ p.view = q.view
      <4>1. q \in [kind : {"page", "listing", "fallback", "activity", "feeds"},
                   pc : {"idle", "market", "support", "activity", "store", "hermes"},
                   began : Nat, view : D!Views, at : Int, read : Int] /\ now \in Int
        BY <1>1 DEF D!RequestOK
      <4> HIDE DEF q
      <4>2. QED
        BY <4>1
    <3> HIDE DEF p
    <3>4. D!RequestOK(p)
      BY <1>1, <3>1, <3>2, <3>3 DEF D!RequestOK
    <3>5. QED
      BY <1>2, <2>1, <3>1, <3>4, GoInv, GivenInv, CacheableInv DEF p
  <2>4. QED
    BY <2>2, <2>3
<1>4. CASE D!storeActivity(r)
  <2>1. /\ D!Cacheable(r, 200, "activity", q.read, FALSE, D!NoView) /\ q.pc = "store"
        /\ activityCache' = [at |-> q.read, expires |-> now + Ttl]
        /\ UNCHANGED <<catalogCache, feedCache>>
    BY <1>4 DEF D!storeActivity, D!Entry
  <2>2. q.read \in Int /\ now - q.read <= MaxDelay
    BY <1>1, <2>1, TtlFacts DEF D!RequestOK
  <2>3. D!CachesOK'
    BY <1>1, <2>1, <2>2, TtlFacts DEF D!CachesOK, D!Kept, D!Nothing
  <2>4. Keepable(200, "activity", q.read, FALSE, D!NoView)
    BY <1>1, <2>2, NoViewOK, TtlFacts DEF Keepable, Vouched, D!Final, D!Life
  <2>5. QED
    BY <1>2, <2>1, <2>3, <2>4, GoInv, GivenInv, CacheableInv
<1>5. CASE D!activityFails(r)
  <2>1. D!CachesOK'
    BY <1>1, <1>5 DEF D!activityFails, D!caches, D!CachesOK, D!Kept, D!Nothing
  <2>2. \/ D!Answer(r, 503, q.kind, now, FALSE, D!NoView)
        \/ D!Cacheable(r, 200, "activity", q.at, TRUE, D!NoView)
    BY <1>5 DEF D!activityFails, D!Fails
  <2>3. Vouched(503, q.kind, now, FALSE, D!NoView)
    BY DEF Vouched
  <2>4. Keepable(200, "activity", q.at, TRUE, D!NoView)
    <3>1. q.at \in Int
      BY <1>1 DEF D!RequestOK
    <3>2. Vouched(200, "activity", q.at, TRUE, D!NoView)
      BY <3>1, NoViewOK DEF Vouched, D!Final
    <3>3. QED
      BY <3>1, <3>2, NoViewOK DEF Keepable
  <2>5. CASE D!Answer(r, 503, q.kind, now, FALSE, D!NoView)
    BY <1>2, <2>1, <2>3, <2>5, GoInv, GivenInv, CacheableInv
  <2>6. CASE D!Cacheable(r, 200, "activity", q.at, TRUE, D!NoView)
    BY <1>2, <2>1, <2>4, <2>6, GoInv, GivenInv, CacheableInv
  <2>7. QED
    BY <2>2, <2>5, <2>6
<1>6. CASE D!pageFails(r)
  <2>1. D!CachesOK'
    BY <1>1, <1>6 DEF D!pageFails, D!caches, D!CachesOK, D!Kept, D!Nothing
  <2>2. D!Answer(r, 503, q.kind, now, FALSE, D!NoView)
    BY <1>6 DEF D!pageFails, D!Fails
  <2>3. Vouched(503, q.kind, now, FALSE, D!NoView)
    BY DEF Vouched
  <2>4. QED
    BY <1>2, <2>1, <2>2, <2>3, GoInv, GivenInv, CacheableInv
<1>7. QED
  BY <1>3, <1>4, <1>5, <1>6

\* The feed route. An entry filled from the catalogue outlives it by one life.
LEMMA FeedsStepInv ==
  ASSUME D!DataIInv, NEW r \in Requests,
         D!startFeeds(r) \/ D!hermesAnswers(r) \/ D!hermesFails(r)
  PROVE  D!DataIInv'
<1> DEFINE q == req[r]
<1>1. now \in Nat /\ D!ChainOK /\ D!RequestOK(q) /\ D!CachesOK
  BY DEF D!DataIInv
<1>2. UNCHANGED <<routes, dataChain, now>>
  BY DEF D!startFeeds, D!hermesAnswers, D!hermesFails
<1>3. CASE D!startFeeds(r)
  <2>0. UNCHANGED <<activityCache, catalogCache>>
    BY <1>3 DEF D!startFeeds
  <2>1. CASE D!Unexpired(feedCache)
    <3>1. D!Answer(r, 200, "feeds", feedCache.at, FALSE, D!NoView) /\ UNCHANGED feedCache
      BY <1>3, <2>1 DEF D!startFeeds
    <3>2. feedCache.at \in Int /\ now - feedCache.at < 2 * Ttl + MaxDelay
      BY <1>1, <2>1, EntryFresh, TtlFacts DEF D!CachesOK
    <3>3. Vouched(200, "feeds", feedCache.at, FALSE, D!NoView)
      BY <3>2, NoViewOK DEF Vouched, D!Final, D!Life
    <3>4. D!CachesOK'
      BY <1>1, <2>0, <3>1 DEF D!CachesOK, D!Kept, D!Nothing
    <3>5. QED
      BY <1>2, <3>1, <3>3, <3>4, GoInv, GivenInv, CacheableInv
  <2>2. CASE ~D!Unexpired(feedCache) /\ D!Unexpired(catalogCache)
    <3> DEFINE at == catalogCache.at
    <3>1. /\ D!Cacheable(r, 200, "feeds", at, FALSE, D!NoView)
          /\ feedCache' = [at |-> at, expires |-> now + Ttl]
      BY <1>3, <2>2 DEF D!startFeeds, D!Entry
    <3>2. at \in Int /\ now - at < Ttl + MaxDelay
      BY <1>1, <2>2, EntryFresh, TtlFacts DEF D!CachesOK
    <3>3. Keepable(200, "feeds", at, FALSE, D!NoView)
      BY <1>1, <3>2, NoViewOK, TtlFacts DEF Keepable, Vouched, D!Final, D!Life
    <3>4. D!CachesOK'
      BY <1>1, <2>0, <3>1, <3>2, TtlFacts DEF D!CachesOK, D!Kept, D!Nothing
    <3>5. QED
      BY <1>2, <3>1, <3>3, <3>4, GoInv, GivenInv, CacheableInv
  <2>3. CASE ~D!Unexpired(feedCache) /\ ~D!Unexpired(catalogCache)
    <3> DEFINE p == [D!Idle EXCEPT !.kind = "feeds", !.pc = "hermes", !.began = now]
    <3>1. D!Go(r, p) /\ UNCHANGED feedCache
      BY <1>3, <2>3 DEF D!startFeeds
    <3> DEFINE idle == D!Idle
    <3>2. D!RequestOK(idle) /\ idle.view = D!NoView
      BY IdleOK, <1>1 DEF D!Idle
    <3> HIDE DEF idle
    <3>3. D!RequestOK([idle EXCEPT !.kind = "feeds", !.pc = "hermes", !.began = now])
      <4> DEFINE new == [idle EXCEPT !.kind = "feeds", !.pc = "hermes", !.began = now]
      <4>1. /\ new \in [kind : {"page", "listing", "fallback", "activity", "feeds"},
                       pc : {"idle", "market", "support", "activity", "store", "hermes"},
                       began : Nat, view : D!Views, at : Int, read : Int]
            /\ new.pc = "hermes" /\ new.view = D!NoView /\ new.began = now
        BY <1>1, <3>2 DEF D!RequestOK
      <4> HIDE DEF new
      <4>2. D!RequestOK(new)
        BY <1>1, <4>1, NoViewOK, TtlFacts DEF D!RequestOK, D!Final
      <4>3. QED
        BY <4>2 DEF new
    <3> USE DEF idle
    <3>4. D!CachesOK'
      BY <1>1, <2>0, <3>1 DEF D!CachesOK, D!Kept, D!Nothing
    <3>5. QED
      BY <1>2, <3>1, <3>3, <3>4, GoInv, GivenInv, CacheableInv
  <2>4. QED
    BY <2>1, <2>2, <2>3
<1>4. CASE D!hermesAnswers(r)
  <2>1. PICK at \in q.began .. now :
             /\ catalogCache' = [at |-> at, expires |-> now + Ttl]
             /\ \/ /\ feedCache' = [at |-> at, expires |-> now + Ttl]
                   /\ D!Cacheable(r, 200, "feeds", at, FALSE, D!NoView)
                \/ UNCHANGED feedCache /\ D!Answer(r, 200, "feeds", at, FALSE, D!NoView)
    BY <1>4 DEF D!hermesAnswers, D!Entry
  <2>2. at \in Int /\ now - at <= MaxDelay
    BY <1>1, <1>4, TtlFacts DEF D!RequestOK, D!hermesAnswers
  <2>3. D!CachesOK'
    <3>1. D!Kept(catalogCache, Ttl + MaxDelay)'
      BY <1>1, <2>1, <2>2, TtlFacts DEF D!Kept, D!Nothing
    <3>2. D!Kept(feedCache, 2 * Ttl + MaxDelay)'
      <4>1. CASE UNCHANGED feedCache
        BY <1>1, <4>1 DEF D!CachesOK, D!Kept, D!Nothing
      <4>2. CASE feedCache' = [at |-> at, expires |-> now + Ttl]
        <5>1. now + Ttl <= at + (2 * Ttl + MaxDelay) /\ now + Ttl \in Int
          BY <1>1, <2>2, TtlFacts
        <5>2. QED
          BY <2>2, <4>2, <5>1 DEF D!Kept
      <4>3. QED
        BY <2>1, <4>1, <4>2
    <3>3. D!Kept(activityCache, Ttl + MaxDelay)'
      BY <1>1, <1>4 DEF D!CachesOK, D!Kept, D!Nothing, D!hermesAnswers
    <3>4. QED
      BY <3>1, <3>2, <3>3 DEF D!CachesOK
  <2>4. /\ Vouched(200, "feeds", at, FALSE, D!NoView)
        /\ Keepable(200, "feeds", at, FALSE, D!NoView)
    BY <1>1, <2>2, NoViewOK, TtlFacts DEF Keepable, Vouched, D!Final, D!Life
  <2>5. QED
    BY <1>2, <2>1, <2>3, <2>4, GoInv, GivenInv, CacheableInv
<1>5. CASE D!hermesFails(r)
  <2>1. D!CachesOK'
    BY <1>1, <1>5 DEF D!hermesFails, D!caches, D!CachesOK, D!Kept, D!Nothing
  <2>2. D!Answer(r, 200, "feeds", 0, TRUE, D!NoView)
    BY <1>5 DEF D!hermesFails
  <2>3. Vouched(200, "feeds", 0, TRUE, D!NoView)
    BY NoViewOK DEF Vouched, D!Final
  <2>4. QED
    BY <1>2, <2>1, <2>2, <2>3, GoInv, GivenInv, CacheableInv
<1>6. QED
  BY <1>3, <1>4, <1>5

LEMMA DataNextInv == D!DataIInv /\ [D!Next]_dataVars => D!DataIInv'
<1> SUFFICES ASSUME D!DataIInv, [D!Next]_dataVars PROVE D!DataIInv'
  OBVIOUS
<1>1. CASE UNCHANGED dataVars
  <2>1. ASSUME NEW r \in Requests PROVE D!RequestOK(req[r])'
    BY <1>1 DEF D!DataIInv, D!RequestOK, dataVars
  <2>2. QED
    BY <1>1, <2>1 DEF D!DataIInv, D!ChainOK, D!CachesOK, D!Kept, D!Nothing, D!FrontOK, D!ShownAgrees,
                      D!AnswersFresh, dataVars
<1>2. CASE D!create \/ D!publish \/ D!resolve \/ D!close
  BY <1>2, ChainStepInv
<1>3. CASE D!tick \/ D!serveFront
  BY <1>3, DataTickInv, FrontStepInv
<1>4. ASSUME NEW r \in Requests,
             \/ \E kind \in routes \ {"feeds"} : D!start(r, kind)
             \/ \E candidate \in {"own", "other"} : D!readSupport(r, candidate)
             \/ D!readMarket(r) \/ D!supportFails(r) \/ D!getOnchainMarkets(r)
             \/ D!listingFails(r) \/ D!listDeployed(r)
             \/ D!readActivity(r) \/ D!storeActivity(r) \/ D!activityFails(r) \/ D!pageFails(r)
             \/ D!startFeeds(r) \/ D!hermesAnswers(r) \/ D!hermesFails(r)
      PROVE  D!DataIInv'
  BY <1>4, PageStepInv, ActivityStepInv, FeedsStepInv
<1>5. QED
  BY <1>1, <1>2, <1>3, <1>4 DEF D!Next

LEMMA DataInvariance == WebSpec => []D!DataIInv
<1>1. WebInit => D!DataIInv
  BY DataInitInv DEF WebInit
<1>2. D!DataIInv /\ [WebNext]_allVars => D!DataIInv'
  BY DataNextInv DEF WebNext, allVars
<1>3. QED
  BY <1>1, <1>2, PTL DEF WebSpec

\* A market shown as final comes with its resolution receipt and the receipt's
\* outcome, and with its own question or a mere name for it, however many
\* requests read its accounts while the program changes them (getOnchainMarket
\* reads the market before its receipt, and the receipt never goes away).
THEOREM ShownAlwaysAgrees == WebSpec => []ShownAgrees
<1>1. D!DataIInv => ShownAgrees
  BY DEF D!DataIInv, ShownAgrees
<1>2. QED
  BY <1>1, DataInvariance, PTL

\* An answer the routes do not mark as stale is at most one cache life and one
\* request old when it is made, a list of feeds two lives and one request, a page
\* or a listing one request; and what browsers and proxies keep of it is given for
\* at most max-age and stale-while-revalidate more, for every life of a cache,
\* every longest request and every header.
THEOREM AnswersAlwaysFresh == WebSpec => []AnswersFresh
<1>1. D!DataIInv => AnswersFresh
  BY DEF D!DataIInv, AnswersFresh
<1>2. QED
  BY <1>1, DataInvariance, PTL
-----------------------------------------------------------------------------
(* The browser's vault of positions.                                       *)

LEMMA FreshOrders == Fresh \subseteq Orders
BY WebAssumption

\* The writers, each known by a name of its own.
LEMMA WriterNames ==
  ASSUME NEW o, NEW p
  PROVE  /\ <<"panel", o>> # <<"unlock">> /\ <<"page", o>> # <<"unlock">> /\ <<"effect", o>> # <<"unlock">>
         /\ <<"import">> # <<"unlock">> /\ <<"export">> # <<"unlock">>
         /\ <<"panel", o>> # <<"import">> /\ <<"page", o>> # <<"import">>
         /\ <<"panel", o>> # <<"export">> /\ <<"page", o>> # <<"export">>
         /\ <<"panel", o>> # <<"effect", p>> /\ <<"page", o>> # <<"effect", p>>
         /\ <<"panel", o>> # <<"page", p>>
         /\ <<"panel", o>> = <<"panel", p>> => o = p
         /\ <<"page", o>> = <<"page", p>> => o = p
OBVIOUS

LEMMA dedupeType ==
  ASSUME NEW first, NEW rest
  PROVE  /\ DOMAIN V!dedupe(first, rest) = DOMAIN first \cup DOMAIN rest
         /\ \A o \in DOMAIN first : V!dedupe(first, rest)[o] = first[o]
         /\ \A o \in DOMAIN rest \ DOMAIN first : V!dedupe(first, rest)[o] = rest[o]
BY DEF V!dedupe

LEMMA OneType ==
  ASSUME NEW o, NEW record
  PROVE  DOMAIN V!One(o, record) = {o} /\ V!One(o, record)[o] = record
BY DEF V!One

LEMMA EmptyType == DOMAIN V!Empty = {}
BY DEF V!Empty

LEMMA VaultInitInv == V!Init => V!VaultIInv
<1> SUFFICES ASSUME V!Init PROVE V!VaultIInv
  OBVIOUS
<1> DEFINE records == [o \in V!Old |-> V!Pending]
<1>1. PICK migrated \in BOOLEAN :
        /\ vault = IF migrated THEN records ELSE V!Empty
        /\ legacy = IF migrated THEN V!Empty ELSE records
  BY DEF V!Init
<1>2. /\ writes = {} /\ panel = [o \in Fresh |-> "idle"] /\ loaded = V!Empty /\ shown = V!Empty
      /\ placed = V!Old /\ delivered = {} /\ settled = {} /\ causes = {}
  BY DEF V!Init
<1>3. DOMAIN records = V!Old /\ \A o \in V!Old : records[o] = V!Pending
  OBVIOUS
<1> HIDE DEF records
<1>4. V!Stored = V!Old /\ \A o \in V!Old : V!dedupe(vault, legacy)[o] = V!Pending
  <2>1. /\ \A o \in DOMAIN vault : V!dedupe(vault, legacy)[o] = vault[o]
        /\ \A o \in DOMAIN legacy \ DOMAIN vault : V!dedupe(vault, legacy)[o] = legacy[o]
    BY dedupeType
  <2>2. CASE migrated
    BY <1>1, <1>3, <2>1, <2>2, EmptyType DEF V!Stored
  <2>3. CASE ~migrated
    BY <1>1, <1>3, <2>1, <2>3, EmptyType DEF V!Stored
  <2>4. QED
    BY <2>2, <2>3
<1>5. V!VaultOK
  BY <1>1, <1>2, <1>3, EmptyType DEF V!VaultOK, V!Old
<1>6. V!Migrated /\ V!PreparedStored
  BY <1>2 DEF V!Migrated, V!PreparedStored
<1>7. V!PlacedRecoverable
  BY <1>2, <1>4 DEF V!PlacedRecoverable, V!Stored
<1>8. V!SignedKept
  <2>1. ASSUME NEW o \in Orders, V!Signed(o) PROVE o \in V!Old
    BY <1>2, <2>1 DEF V!Signed, V!Old
  <2>2. QED
    BY <1>4, <2>1 DEF V!SignedKept
<1>9. QED
  BY <1>2, <1>5, <1>6, <1>7, <1>8 DEF V!VaultIInv

\* A write that was read earlier replaces the vault.
LEMMA StoreInv ==
  ASSUME V!VaultIInv, NEW w \in writes, V!Store(w),
         UNCHANGED <<panel, placed, delivered, settled, phase>>,
         legacy' = IF w.by = <<"unlock">> THEN V!Empty ELSE legacy
  PROVE  V!VaultIInv'
<1>1. /\ vault' = w.content /\ writes' = writes \ {w}
      /\ V!WriteOK(w) /\ \A u \in writes : V!WriteOK(u)
  BY DEF V!Store, V!VaultIInv
<1>2. legacy' = V!Empty /\ (w.by # <<"unlock">> => legacy = V!Empty)
  BY DEF V!VaultIInv, V!Migrated
<1>3. V!Lost => V!Lost'
  BY DEF V!Store, V!Lost
<1>4. V!Stored \subseteq V!Stored' \/ V!Lost'
  <2>1. V!Stored' = DOMAIN w.content
    BY <1>1, <1>2, EmptyType DEF V!Stored
  <2>2. V!Dropped(w) = {} \/ V!Lost'
    BY DEF V!Store, V!Lost
  <2>3. DOMAIN legacy \subseteq DOMAIN w.content
    BY <1>1, <1>2, EmptyType DEF V!WriteOK
  <2>4. QED
    BY <1>1, <2>1, <2>2, <2>3 DEF V!Stored, V!Dropped, V!WriteOK
<1>5. V!VaultOK'
  BY <1>2, EmptyType DEF V!VaultOK, V!VaultIInv
<1>6. ASSUME NEW u \in writes' PROVE V!WriteOK(u)'
  <2>1. V!WriteOK(u)
    BY <1>1
  <2>2. QED
    BY <1>2, <2>1, EmptyType DEF V!WriteOK
<1>7. V!Migrated'
  BY <1>2 DEF V!Migrated
<1>8. V!PreparedStored'
  <2>1. ASSUME NEW o \in Fresh, panel'[o] # "idle" PROVE o \in V!Stored' \/ V!Writing(<<"panel", o>>)' \/ V!Lost'
    <3>1. CASE w.by = <<"panel", o>>
      <4>1. o \in DOMAIN vault'
        BY <1>1, <3>1, FreshOrders DEF V!WriteOK
      <4>2. QED
        BY <4>1 DEF V!Stored
    <3>2. CASE w.by # <<"panel", o>>
      BY <1>1, <1>3, <1>4, <2>1, <3>2 DEF V!VaultIInv, V!PreparedStored, V!Writing
    <3>3. QED
      BY <3>1, <3>2
  <2>2. QED
    BY <2>1 DEF V!PreparedStored
<1>9. V!PlacedRecoverable'
  BY <1>3, <1>4 DEF V!VaultIInv, V!PlacedRecoverable, V!Stored, V!Lost
<1>10. V!SignedKept'
  <2> SUFFICES ASSUME causes' = {}, phase' = "open", NEW o \in Orders \ delivered', V!Signed(o)'
               PROVE  o \in V!Stored' /\ V!dedupe(vault, legacy)'[o] = V!Pending
    BY DEF V!SignedKept
  <2>1. /\ causes = {} /\ phase = "open" /\ o \notin delivered
        /\ V!Dropped(w) = {} /\ V!Regressed(w) = {}
        /\ w.by = <<"import">> => V!Overridden(w) = {}
        /\ ~V!Lost
    BY DEF V!Store, V!Lost
  <2>2. o \in DOMAIN vault' /\ vault'[o] = V!Pending
    <3>1. CASE w.by = <<"panel", o>>
      <4>1. o \in Fresh /\ o \in w.own /\ o \notin V!Old
        BY <1>1, <3>1 DEF V!WriteOK, V!Old
      <4>2. panel[o] \in {"pending", "undelivered"}
        BY <4>1 DEF V!Signed
      <4>3. QED
        BY <1>1, <3>1, <4>1, <4>2 DEF V!WriteOK
    <3>2. CASE w.by # <<"panel", o>>
      <4>1. V!Signed(o)
        BY <1>1, <3>2 DEF V!Signed, V!Writing
      <4>2. o \in V!Stored /\ V!dedupe(vault, legacy)[o] = V!Pending
        BY <2>1, <4>1 DEF V!VaultIInv, V!SignedKept
      <4>3. CASE o \in DOMAIN vault
        <5>1. vault[o] = V!Pending
          BY <4>2, <4>3, dedupeType
        <5>2. o \in DOMAIN w.content
          BY <1>1, <2>1, <4>3 DEF V!WriteOK, V!Dropped
        <5>3. CASE o \notin w.own
          <6>1. o \in DOMAIN w.seen /\ w.seen[o] = vault[o]
            BY <2>1, <4>3, <5>3 DEF V!Dropped, V!Regressed
          <6>2. w.content[o] = w.seen[o]
            BY <1>1, <5>3, <6>1 DEF V!WriteOK
          <6>3. QED
            BY <1>1, <5>1, <5>2, <6>1, <6>2
        <5>4. CASE o \in w.own
          <6>1. w.by = <<"import">>
            BY <1>1, <2>1, <3>2, <5>4 DEF V!WriteOK
          <6>2. w.content[o] = vault[o]
            BY <2>1, <4>3, <5>4, <6>1 DEF V!Overridden
          <6>3. QED
            BY <1>1, <5>1, <5>2, <6>2
        <5>5. QED
          BY <5>3, <5>4
      <4>4. CASE o \notin DOMAIN vault
        <5>1. o \in DOMAIN legacy /\ legacy[o] = V!Pending
          BY <4>2, <4>4 DEF V!Stored, V!dedupe
        <5>2. w.by = <<"unlock">>
          BY <1>2, <5>1, EmptyType
        <5>3. QED
          BY <1>1, <2>1, <4>4, <5>1, <5>2 DEF V!WriteOK
      <4>5. QED
        BY <4>3, <4>4
    <3>3. QED
      BY <3>1, <3>2
  <2>3. V!dedupe(vault, legacy)'[o] = vault'[o]
    BY <2>2 DEF V!dedupe
  <2>4. QED
    BY <2>2, <2>3 DEF V!Stored
<1>11. QED
  BY <1>5, <1>6, <1>7, <1>8, <1>9, <1>10 DEF V!VaultIInv

\* Everything else leaves what is stored alone, and adds writes.
LEMMA QuietInv ==
  ASSUME V!VaultIInv, UNCHANGED <<vault, legacy, causes>>,
         writes \subseteq writes',
         \A w \in writes' \ writes : V!WriteOK(w)',
         \/ legacy = V!Empty
         \/ /\ UNCHANGED <<panel, loaded, shown>>
            /\ \A w \in writes' \ writes : w.by = <<"unlock">>,
         panel' = [o \in Fresh |-> panel'[o]],
         \A o \in Fresh :
           /\ panel'[o] # "idle" => panel[o] # "idle" \/ V!Writing(<<"panel", o>>)'
           /\ panel'[o] \in {"pending", "undelivered"} =>
                \/ panel[o] \in {"pending", "undelivered"}
                \/ V!Writing(<<"panel", o>>)' /\ ~V!Writing(<<"panel", o>>),
         placed' \subseteq Orders,
         placed' \ settled' \subseteq (placed \ settled) \cup V!Stored \/ V!Lost,
         delivered \subseteq delivered', phase' = "open" => phase = "open"
  PROVE  V!VaultIInv'
<1>1. /\ V!Stored' = V!Stored /\ (V!Lost <=> V!Lost')
      /\ V!dedupe(vault, legacy)' = V!dedupe(vault, legacy)
  BY DEF V!Stored, V!Lost, V!dedupe
<1>2. \A o : V!Writing(<<"panel", o>>) => V!Writing(<<"panel", o>>)'
  BY DEF V!Writing
<1>3. V!VaultOK'
  BY DEF V!VaultIInv, V!VaultOK
<1>4. ASSUME NEW w \in writes PROVE V!WriteOK(w)'
  <2>1. V!WriteOK(w)
    BY DEF V!VaultIInv
  <2>2. ASSUME NEW o \in Orders
        PROVE  /\ w.by = <<"panel", o>> /\ panel'[o] \in {"pending", "undelivered"} => w.content[o] = V!Pending
               /\ w.by = <<"page", o>> => o \in delivered' \/ phase' # "open"
    BY <2>1 DEF V!WriteOK, V!Writing
  <2>3. QED
    BY <1>1, <2>1, <2>2 DEF V!WriteOK
<1>5. V!Migrated'
  BY DEF V!VaultIInv, V!Migrated
<1>6. V!PreparedStored'
  BY <1>1, <1>2 DEF V!VaultIInv, V!PreparedStored
<1>7. V!PlacedRecoverable'
  BY <1>1 DEF V!VaultIInv, V!PlacedRecoverable, V!Stored, V!Lost
<1>8. V!SignedKept'
  <2>1. ASSUME NEW o \in Orders, V!Signed(o)' PROVE V!Signed(o)
    BY <1>2, <2>1 DEF V!Signed, V!Old
  <2>2. QED
    BY <1>1, <2>1 DEF V!VaultIInv, V!SignedKept
<1>9. QED
  BY <1>3, <1>4, <1>5, <1>6, <1>7, <1>8 DEF V!VaultIInv

\* What savePrivatePosition writes.
LEMMA SaveOK ==
  ASSUME V!VaultIInv, NEW by, NEW o, NEW record, V!savePrivatePosition(by, o, record)
  PROVE  /\ writes \subseteq writes' /\ V!Writing(by)' /\ ~V!Writing(by)
         /\ \A w \in writes' \ writes :
              /\ w.by = by /\ w.own = {o} /\ w.seen = vault
              /\ DOMAIN w.content = {o} \cup DOMAIN vault
              /\ w.content[o] = record /\ \A p \in DOMAIN vault \ {o} : w.content[p] = vault[p]
<1> DEFINE new == V!dedupe(V!One(o, record), vault)
<1>1. /\ DOMAIN new = {o} \cup DOMAIN vault
      /\ new[o] = record /\ \A p \in DOMAIN vault \ {o} : new[p] = vault[p]
  BY DEF V!dedupe, V!One
<1> DEFINE write == [by |-> by, own |-> {o}, seen |-> vault, content |-> new]
<1>2. (\A w \in writes : w.by # by) /\ writes' = writes \cup {write}
  BY DEF V!savePrivatePosition, V!Write
<1> HIDE DEF new
<1>3. write.by = by /\ write.own = {o} /\ write.seen = vault /\ write.content = new
  OBVIOUS
<1> HIDE DEF write
<1>4. V!Writing(by)' /\ ~V!Writing(by)
  BY <1>2, <1>3 DEF V!Writing
<1>5. QED
  BY <1>1, <1>2, <1>3, <1>4

\* The panel's step for one order that writes nothing.
LEMMA PanelQuietInv ==
  ASSUME V!VaultIInv, NEW o \in Fresh, V!placeOrderFails(o) \/ V!deliver(o)
         \/ \E answered \in BOOLEAN : V!placeOrder(o, answered)
  PROVE  V!VaultIInv'
<1>1. /\ panel = [p \in Fresh |-> panel[p]] /\ placed \subseteq Orders
      /\ UNCHANGED <<vault, legacy, causes, writes, loaded, shown, phase, settled>>
  BY DEF V!VaultIInv, V!VaultOK, V!placeOrderFails, V!deliver, V!placeOrder, V!storage, V!chainVars
<1>2. /\ panel' = [p \in Fresh |-> panel'[p]]
      /\ \A p \in Fresh \ {o} : panel'[p] = panel[p]
      /\ panel[o] # "idle"
      /\ panel'[o] \in {"pending", "undelivered"} => panel[o] \in {"pending", "undelivered"}
  BY <1>1 DEF V!placeOrderFails, V!deliver, V!placeOrder, V!Step
<1>3. legacy = V!Empty
  BY <1>2 DEF V!VaultIInv, V!Migrated
<1>4. delivered \subseteq delivered'
  BY DEF V!placeOrderFails, V!deliver, V!placeOrder, V!chainVars
<1>5. placed' \subseteq placed \cup {o} /\ (V!placeOrderFails(o) \/ V!deliver(o) => placed' = placed)
  BY DEF V!placeOrderFails, V!deliver, V!placeOrder, V!chainVars
<1>6. placed' \ settled' \subseteq (placed \ settled) \cup V!Stored \/ V!Lost
  <2>1. CASE V!placeOrderFails(o) \/ V!deliver(o)
    BY <1>1, <1>5, <2>1
  <2>2. CASE \E answered \in BOOLEAN : V!placeOrder(o, answered)
    <3>1. ~V!Writing(<<"panel", o>>)
      BY <2>2 DEF V!placeOrder
    <3>2. o \in V!Stored \/ V!Lost
      BY <1>2, <3>1 DEF V!VaultIInv, V!PreparedStored
    <3>3. QED
      BY <1>1, <1>5, <3>2
  <2>3. QED
    BY <2>1, <2>2
<1>7. QED
  BY <1>1, <1>2, <1>3, <1>4, <1>5, <1>6, QuietInv, FreshOrders

\* The panel's three saves of one order.
LEMMA PanelSaveInv ==
  ASSUME V!VaultIInv, NEW o \in Fresh, V!prepare(o) \/ V!savePending(o) \/ V!saveDelivered(o)
  PROVE  V!VaultIInv'
<1>1. /\ panel = [p \in Fresh |-> panel[p]] /\ placed \subseteq Orders
      /\ UNCHANGED <<vault, legacy, causes, loaded, shown, placed, delivered, settled, phase>>
  BY DEF V!VaultIInv, V!VaultOK, V!prepare, V!savePending, V!saveDelivered, V!storage, V!chainVars
<1>2. /\ panel' = [p \in Fresh |-> panel'[p]]
      /\ \A p \in Fresh \ {o} : panel'[p] = panel[p]
      /\ panel'[o] \in {"prepared", "pending", "stopped"}
  BY <1>1 DEF V!prepare, V!savePending, V!saveDelivered, V!Step
<1>3. PICK record : /\ V!savePrivatePosition(<<"panel", o>>, o, record)
                    /\ panel'[o] = "pending" => record = V!Pending
  BY <1>1 DEF V!prepare, V!savePending, V!saveDelivered, V!Step
<1>4. /\ writes \subseteq writes' /\ V!Writing(<<"panel", o>>)' /\ ~V!Writing(<<"panel", o>>)
      /\ \A w \in writes' \ writes :
           /\ w.by = <<"panel", o>> /\ w.own = {o} /\ w.seen = vault
           /\ DOMAIN w.content = {o} \cup DOMAIN vault
           /\ w.content[o] = record /\ \A p \in DOMAIN vault \ {o} : w.content[p] = vault[p]
  BY <1>3, SaveOK
<1>5. legacy = V!Empty
  BY DEF V!VaultIInv, V!Migrated, V!prepare, V!Unlocked, V!savePending, V!saveDelivered, V!Step
<1>6. ASSUME NEW w \in writes' \ writes PROVE V!WriteOK(w)'
  <2>1. w.by # <<"unlock">> /\ \A p : (w.by = <<"panel", p>> => p = o) /\ w.by # <<"page", p>>
    BY <1>4, WriterNames
  <2>2. panel'[o] \in {"pending", "undelivered"} => w.content[o] = V!Pending
    BY <1>2, <1>3, <1>4
  <2>3. QED
    BY <1>4, <2>1, <2>2, FreshOrders DEF V!WriteOK
<1>7. QED
  BY <1>1, <1>2, <1>4, <1>5, <1>6, QuietInv

\* Unlocking reads the vault and the plaintext entry.
LEMMA UnlockInv == V!VaultIInv /\ V!unlock => V!VaultIInv'
<1> SUFFICES ASSUME V!VaultIInv, V!unlock PROVE V!VaultIInv'
  OBVIOUS
<1> DEFINE new == V!dedupe(vault, legacy)
           write == [by |-> <<"unlock">>, own |-> {}, seen |-> vault, content |-> new]
<1>1. /\ UNCHANGED <<vault, legacy, causes, panel, loaded, shown, placed, delivered, settled, phase>>
      /\ writes' = writes \cup {write}
      /\ panel = [p \in Fresh |-> panel[p]] /\ placed \subseteq Orders
  BY DEF V!unlock, V!Write, V!storage, V!chainVars, V!VaultIInv, V!VaultOK
<1>2. /\ DOMAIN new = DOMAIN vault \cup DOMAIN legacy
      /\ \A o \in DOMAIN vault : new[o] = vault[o]
      /\ \A o \in DOMAIN legacy \ DOMAIN vault : new[o] = legacy[o]
  BY DEF V!dedupe
<1> HIDE DEF new
<1>3. write.by = <<"unlock">> /\ write.own = {} /\ write.seen = vault /\ write.content = new
  OBVIOUS
<1> HIDE DEF write
<1>4. ASSUME NEW w \in writes' \ writes PROVE V!WriteOK(w)' /\ w.by = <<"unlock">>
  <2>1. w.by = <<"unlock">> /\ w.own = {} /\ w.seen = vault /\ w.content = new
    BY <1>1, <1>3
  <2>2. \A p : w.by # <<"panel", p>> /\ w.by # <<"page", p>>
    BY <2>1, WriterNames
  <2>3. QED
    BY <1>1, <1>2, <2>1, <2>2 DEF V!WriteOK
<1>5. QED
  BY <1>1, <1>4, QuietInv

\* Another wallet's unlocking loses the plaintext records, and says so.
LEMMA OtherUnlockInv == V!VaultIInv /\ V!otherWalletUnlocks => V!VaultIInv'
<1> SUFFICES ASSUME V!VaultIInv, V!otherWalletUnlocks PROVE V!VaultIInv'
  OBVIOUS
<1>1. /\ legacy' = V!Empty /\ "other wallet" \in causes'
      /\ UNCHANGED <<vault, writes, panel, loaded, shown, placed, delivered, settled, phase>>
  BY DEF V!otherWalletUnlocks, V!chainVars
<1>2. V!Lost' /\ causes' # {}
  BY <1>1 DEF V!Lost
<1>3. ASSUME NEW w \in writes PROVE V!WriteOK(w)'
  <2>1. V!WriteOK(w)
    BY DEF V!VaultIInv
  <2>2. QED
    BY <1>1, <2>1, EmptyType DEF V!WriteOK
<1>4. V!VaultOK' /\ V!Migrated'
  BY <1>1, EmptyType DEF V!VaultIInv, V!VaultOK, V!Migrated
<1>5. V!PreparedStored' /\ V!PlacedRecoverable' /\ V!SignedKept'
  BY <1>1, <1>2 DEF V!PreparedStored, V!PlacedRecoverable, V!SignedKept, V!Lost
<1>6. QED
  BY <1>1, <1>3, <1>4, <1>5 DEF V!VaultIInv

\* The page's effect, its export and the market: nothing new is meant.
LEMMA PageQuietInv ==
  ASSUME V!VaultIInv,
         V!loadPrivatePositions \/ V!saveRefreshed \/ V!exportVault \/ V!market
  PROVE  V!VaultIInv'
<1>1. /\ UNCHANGED <<vault, legacy, causes, panel, placed, delivered, settled>>
      /\ phase' = "open" => phase = "open"
      /\ panel = [p \in Fresh |-> panel[p]] /\ placed \subseteq Orders
  BY DEF V!loadPrivatePositions, V!saveRefreshed, V!exportVault, V!market, V!storage, V!chainVars,
         V!VaultIInv, V!VaultOK, V!Write
<1>2. legacy = V!Empty \/ UNCHANGED <<panel, loaded, shown, writes>>
  BY DEF V!loadPrivatePositions, V!saveRefreshed, V!exportVault, V!market, V!storage,
         V!Unlocked, V!VaultIInv, V!Migrated
<1>3. /\ writes \subseteq writes'
      /\ \A w \in writes' \ writes :
           /\ w.own = {} /\ w.content = w.seen
           /\ w.by = <<"export">> \/ \E o : w.by = <<"effect", o>>
  <2>1. CASE V!loadPrivatePositions \/ V!market
    BY <2>1 DEF V!loadPrivatePositions, V!market
  <2>2. CASE V!exportVault
    BY <2>2 DEF V!exportVault, V!Write
  <2>3. CASE V!saveRefreshed
    <3> DEFINE save(o) == [by |-> <<"effect", o>>, own |-> {}, seen |-> V!dedupe(V!One(o, loaded[o]), vault),
                           content |-> V!dedupe(V!One(o, loaded[o]), vault)]
    <3>1. writes' = writes \cup {save(o) : o \in DOMAIN loaded}
      BY <2>3 DEF V!saveRefreshed
    <3>2. \A o : save(o).own = {} /\ save(o).content = save(o).seen /\ save(o).by = <<"effect", o>>
      OBVIOUS
    <3> HIDE DEF save
    <3>3. QED
      BY <3>1, <3>2
  <2>4. QED
    BY <2>1, <2>2, <2>3
<1>4. ASSUME NEW w \in writes' \ writes PROVE V!WriteOK(w)'
  <2>1. w.by # <<"unlock">> /\ \A o : w.by # <<"panel", o>> /\ w.by # <<"page", o>>
    BY <1>3, WriterNames
  <2>2. w.own = {} /\ w.content = w.seen
    BY <1>3
  <2>3. QED
    BY <2>1, <2>2 DEF V!WriteOK
<1>5. QED
  BY <1>1, <1>2, <1>3, <1>4, QuietInv

\* The records of the file win, and each one was the user's to choose.
LEMMA ImportInv == V!VaultIInv /\ V!importVault => V!VaultIInv'
<1> SUFFICES ASSUME V!VaultIInv, V!importVault PROVE V!VaultIInv'
  OBVIOUS
<1>1. /\ UNCHANGED <<vault, legacy, causes, panel, loaded, shown, placed, delivered, settled, phase>>
      /\ legacy = V!Empty
      /\ panel = [p \in Fresh |-> panel[p]] /\ placed \subseteq Orders
  BY DEF V!importVault, V!Unlocked, V!storage, V!chainVars, V!VaultIInv, V!VaultOK
<1>2. PICK backup \in V!Backups : V!Write(<<"import">>, DOMAIN backup, vault, V!dedupe(backup, vault))
  BY DEF V!importVault
<1> DEFINE new == V!dedupe(backup, vault)
           write == [by |-> <<"import">>, own |-> DOMAIN backup, seen |-> vault, content |-> new]
<1>3. writes' = writes \cup {write}
  BY <1>2 DEF V!Write
<1>4. /\ DOMAIN new = DOMAIN backup \cup DOMAIN vault
      /\ \A o \in DOMAIN vault \ DOMAIN backup : new[o] = vault[o]
  BY DEF V!dedupe
<1> HIDE DEF new
<1>5. write.by = <<"import">> /\ write.own = DOMAIN backup /\ write.seen = vault /\ write.content = new
  OBVIOUS
<1> HIDE DEF write
<1>6. ASSUME NEW w \in writes' \ writes PROVE V!WriteOK(w)'
  <2>1. w.by = <<"import">> /\ w.own = DOMAIN backup /\ w.seen = vault /\ w.content = new
    BY <1>3, <1>5
  <2>2. w.by # <<"unlock">> /\ \A p : w.by # <<"panel", p>> /\ w.by # <<"page", p>>
    BY <2>1, WriterNames
  <2>3. QED
    BY <1>1, <1>4, <2>1, <2>2 DEF V!WriteOK
<1>7. QED
  BY <1>1, <1>3, <1>6, QuietInv

\* The page writes of an order only what the chain or the committee has.
LEMMA PageSaveInv ==
  ASSUME V!VaultIInv, NEW o \in Orders, V!retryCommitteeDelivery(o) \/ V!settle(o)
  PROVE  V!VaultIInv'
<1>1. /\ UNCHANGED <<vault, legacy, causes, panel, loaded, placed, phase>>
      /\ panel = [p \in Fresh |-> panel[p]] /\ placed \subseteq Orders
      /\ delivered \subseteq delivered' /\ settled \subseteq settled'
      /\ o \in delivered' \/ phase' # "open"
  BY DEF V!retryCommitteeDelivery, V!settle, V!storage, V!VaultIInv, V!VaultOK
<1>2. legacy = V!Empty
  BY EmptyType DEF V!retryCommitteeDelivery, V!settle, V!VaultIInv, V!Migrated
<1>3. CASE writes' = writes
  BY <1>1, <1>2, <1>3, QuietInv
<1>4. ASSUME NEW record, V!savePrivatePosition(<<"page", o>>, o, record) PROVE V!VaultIInv'
  <2>1. /\ writes \subseteq writes'
        /\ \A w \in writes' \ writes :
             /\ w.by = <<"page", o>> /\ w.own = {o} /\ w.seen = vault
             /\ DOMAIN w.content = {o} \cup DOMAIN vault
             /\ w.content[o] = record /\ \A p \in DOMAIN vault \ {o} : w.content[p] = vault[p]
    BY <1>4, SaveOK
  <2>2. ASSUME NEW w \in writes' \ writes PROVE V!WriteOK(w)'
    <3>1. w.by # <<"unlock">> /\ \A p : (w.by = <<"page", p>> => p = o) /\ w.by # <<"panel", p>>
      BY <2>1, WriterNames
    <3>2. QED
      BY <1>1, <2>1, <3>1 DEF V!WriteOK
  <2>3. QED
    BY <1>1, <1>2, <2>1, <2>2, QuietInv
<1>5. QED
  BY <1>3, <1>4 DEF V!retryCommitteeDelivery, V!settle

LEMMA VaultNextInv == V!VaultIInv /\ [V!Next]_vaultVars => V!VaultIInv'
<1> SUFFICES ASSUME V!VaultIInv, [V!Next]_vaultVars PROVE V!VaultIInv'
  OBVIOUS
<1>1. CASE UNCHANGED vaultVars
  BY <1>1, QuietInv DEF vaultVars, V!VaultIInv, V!VaultOK
<1>2. ASSUME NEW w \in writes, V!encryptVault(w) \/ V!unlocked(w) \/ V!imported(w) PROVE V!VaultIInv'
  <2>1. V!Store(w) /\ UNCHANGED <<panel, placed, delivered, settled, phase>>
    BY <1>2 DEF V!encryptVault, V!unlocked, V!imported, V!chainVars
  <2>2. legacy' = IF w.by = <<"unlock">> THEN V!Empty ELSE legacy
    <3>1. <<"unlock">>[1] = "unlock" /\ <<"import">> # <<"unlock">>
      OBVIOUS
    <3>2. QED
      BY <1>2, <3>1 DEF V!encryptVault, V!unlocked, V!imported
  <2>3. QED
    BY <2>1, <2>2, StoreInv
<1>3. CASE V!unlock \/ V!otherWalletUnlocks
  BY <1>3, UnlockInv, OtherUnlockInv
<1>4. ASSUME NEW o \in Fresh,
             \/ V!prepare(o) \/ V!placeOrderFails(o) \/ V!savePending(o) \/ V!deliver(o) \/ V!saveDelivered(o)
             \/ \E answered \in BOOLEAN : V!placeOrder(o, answered)
      PROVE  V!VaultIInv'
  BY <1>4, PanelQuietInv, PanelSaveInv
<1>5. CASE V!loadPrivatePositions \/ V!saveRefreshed \/ V!exportVault \/ V!importVault \/ V!market
  BY <1>5, PageQuietInv, ImportInv
<1>6. ASSUME NEW o \in Orders, V!retryCommitteeDelivery(o) \/ V!settle(o) PROVE V!VaultIInv'
  BY <1>6, PageSaveInv
<1>7. QED
  BY <1>1, <1>2, <1>3, <1>4, <1>5, <1>6 DEF V!Next

LEMMA VaultInvariance == WebSpec => []V!VaultIInv
<1>1. WebInit => V!VaultIInv
  BY VaultInitInv DEF WebInit
<1>2. V!VaultIInv /\ [WebNext]_allVars => V!VaultIInv'
  BY VaultNextInv DEF WebNext, allVars
<1>3. QED
  BY <1>1, <1>2, PTL DEF WebSpec

\* Whatever the tabs do and wherever a placement is interrupted, the record of
\* every staked order is stored, unless a write read before another one's
\* (encryptVault replaces the whole entry) or another wallet's unlocking has
\* lost one: for any number of orders and of writes in flight.
THEOREM PlacedAlwaysRecoverable == WebSpec => []PlacedRecoverable
<1>1. V!VaultIInv => PlacedRecoverable
  BY DEF V!VaultIInv, PlacedRecoverable
<1>2. QED
  BY <1>1, VaultInvariance, PTL

\* While the market takes shares and nothing has undone a record, the vault
\* keeps the signature and the shares of every signed order the committee does
\* not have yet, so retryCommitteeDelivery has what it needs.
THEOREM DeliveryAlwaysRetryable == WebSpec => []DeliveryRetryable
<1>1. V!VaultIInv => DeliveryRetryable
  <2> SUFFICES ASSUME V!VaultIInv, causes = {}, phase = "open", NEW o \in placed \ delivered, V!Signed(o)
               PROVE  LET record == V!dedupe(vault, legacy)[o] IN record.signed /\ record.shares
    BY DEF DeliveryRetryable, V!DeliveryRetryable
  <2>1. V!dedupe(vault, legacy)[o] = V!Pending
    BY DEF V!VaultIInv, V!VaultOK, V!SignedKept
  <2>2. QED
    BY <2>1 DEF V!Pending
<1>2. QED
  BY <1>1, VaultInvariance, PTL

-----------------------------------------------------------------------------
(* The form that creates markets.                                          *)

LEMMA SameDescription ==
  ASSUME NEW f, NEW g, F!SameTerms(f, g)
  PROVE  /\ F!description(f) = F!description(g) /\ F!oracleArgs(f) = F!oracleArgs(g)
         /\ F!marketArgs(f) = F!marketArgs(g)
<1>1. F!description(f) = F!description(g) /\ F!oracleArgs(f) = F!oracleArgs(g)
      /\ F!Source(f) = F!Source(g)
  BY DEF F!SameTerms, F!description, F!oracleArgs, F!Source
<1>2. QED
  BY <1>1 DEF F!SameTerms, F!marketArgs

\* The parameters preset for a resolver are those the program asks for.
LEMMA OracleArgsAccepted ==
  ASSUME NEW f \in F!Forms, f.resolver \in F!resolverChoices(f.category), f.resolver # "txline-replay"
  PROVE  F!validate_oracle_config(f.category, f.resolver, F!oracleArgs(f))
<1>1. f.category \in {"crypto", "economics", "sports", "other"}
  BY DEF F!Forms, F!Categories
<1> DEFINE o == F!oracleArgs(f)
<1>2. CASE f.resolver = "pyth"
  <2>1. f.category \in {"crypto", "economics"}
    BY <1>1, <1>2 DEF F!resolverChoices
  <2> DEFINE window == IF f.feed = "sponsored" THEN 90 ELSE 60
  <2>2. o = [F!Numeric EXCEPT
               !.program = IF f.feed = "sponsored" THEN "pythPush" ELSE "pythReceiver",
               !.exponent = -8, !.window = window, !.secs = window, !.confidence = 100]
    BY <1>2 DEF F!oracleArgs
  <2> HIDE DEF o
  <2>3. /\ o.program \in {"pythReceiver", "pythPush"} /\ o.queue = F!None
        /\ o.exponent = -8 /\ o.window > 0 /\ o.secs > 0 /\ o.slots = 0
        /\ o.confidence = 100 /\ o.bond = 0
    BY <2>2 DEF F!Numeric
  <2>4. F!validate_oracle_config(f.category, f.resolver, o)
    BY <1>2, <2>1, <2>3 DEF F!validate_oracle_config
  <2>5. QED
    BY <2>4 DEF o
<1>3. CASE f.resolver = "switchboard"
  <2>1. f.category \in {"economics", "other"}
    BY <1>1, <1>3 DEF F!resolverChoices
  <2>2. o = [F!Numeric EXCEPT
               !.program = "switchboardQuote", !.queue = "devnetQueue", !.exponent = -18,
               !.window = 300, !.slots = 150, !.samples = 3]
    BY <1>3 DEF F!oracleArgs
  <2> HIDE DEF o
  <2>3. /\ o.program = "switchboardQuote" /\ o.queue = "devnetQueue"
        /\ o.exponent = -18 /\ o.window = 300 /\ o.secs = 0 /\ o.slots = 150
        /\ o.confidence = 0 /\ o.samples = 3 /\ o.bond = 0
    BY <2>2 DEF F!Numeric
  <2>4. F!validate_oracle_config(f.category, f.resolver, o)
    BY <1>3, <2>1, <2>3 DEF F!validate_oracle_config
  <2>5. QED
    BY <2>4 DEF o
<1>4. CASE f.resolver = "stork"
  <2>1. f.category \in {"crypto", "economics"}
    BY <1>1, <1>4 DEF F!resolverChoices
  <2>2. o = [F!Numeric EXCEPT !.program = "stork", !.exponent = -18, !.window = 30, !.secs = 15]
    BY <1>4 DEF F!oracleArgs
  <2> HIDE DEF o
  <2>3. /\ o.program = "stork" /\ o.queue = F!None
        /\ o.exponent = -18 /\ o.window = 30 /\ o.secs = 15 /\ o.slots = 0
        /\ o.confidence = 0 /\ o.samples = 0 /\ o.challenge = 0 /\ o.bond = 0
    BY <2>2 DEF F!Numeric
  <2>4. F!validate_oracle_config(f.category, f.resolver, o)
    BY <1>4, <2>1, <2>3 DEF F!validate_oracle_config
  <2>5. QED
    BY <2>4 DEF o
<1>5. CASE f.resolver = "optimistic"
  <2>1. f.category \in {"economics", "other"}
    BY <1>1, <1>5 DEF F!resolverChoices
  <2>2. o = [F!Numeric EXCEPT !.program = "nortia", !.threshold = FALSE, !.window = 86400,
                              !.challenge = 21600, !.bond = F!OPTIMISTIC_BOND]
    BY <1>5 DEF F!oracleArgs
  <2> HIDE DEF o
  <2>3. /\ o.program = "nortia" /\ o.queue = F!None /\ ~o.threshold
        /\ o.exponent = 0 /\ o.window = 86400 /\ o.secs = 0 /\ o.slots = 0
        /\ o.confidence = 0 /\ o.samples = 0 /\ o.challenge = 21600 /\ o.bond = F!OPTIMISTIC_BOND
    BY <2>2 DEF F!Numeric
  <2>4. F!validate_oracle_config(f.category, f.resolver, o)
    BY <1>5, <2>1, <2>3 DEF F!validate_oracle_config, F!OPTIMISTIC_BOND, F!INITIAL_SUBSIDY
  <2>5. QED
    BY <2>4 DEF o
<1>6. QED
  BY <1>1, <1>2, <1>3, <1>4, <1>5 DEF F!resolverChoices

LEMMA FormInitInv == F!Init => F!FormIInv
<1> SUFFICES ASSUME F!Init PROVE F!FormIInv
  OBVIOUS
<1> DEFINE text == CHOOSE t \in Texts : t \notin Wide
<1>1. text \in Texts
  BY WebAssumption
<1> HIDE DEF text
<1>2. /\ form = [category |-> "crypto", resolver |-> "pyth", feed |-> "sponsored", hash |-> F!None,
                 validated |-> FALSE, assetId |-> F!None, asset |-> F!None, text |-> text, when |-> 12]
      /\ checking = F!None /\ asking = F!None /\ stage = "idle" /\ formChain = [kind \in {} |-> F!None]
      /\ flying = {} /\ formNow = 0 /\ attempts = 0 /\ verified = {"sponsored"}
      /\ edited = FALSE /\ raced = FALSE
  BY DEF F!Init, text
<1>3. form \in F!Forms
  BY <1>1, <1>2 DEF F!Forms, F!Categories, F!Resolvers, F!PythFeeds, F!Hashes, F!Assets, F!None
<1>4. F!FormOK
  BY <1>2, <1>3 DEF F!FormOK, F!resolverChoices
<1>5. F!SubmissionOK
  BY <1>2 DEF F!SubmissionOK, F!Stages
<1>6. F!FlyingOK /\ F!AttemptsAgree
  BY <1>2 DEF F!FlyingOK, F!AttemptsAgree
<1>7. F!SourceVerified
  BY <1>2 DEF F!SourceVerified, F!Exists
<1>8. QED
  BY <1>4, <1>5, <1>6, <1>7 DEF F!FormIInv

\* Editing, and the answers of the oracle services, leave a submission alone.
LEMMA EditInv ==
  ASSUME F!FormIInv, UNCHANGED <<stage, attempt, attempts, formChain, flying, formNow>>,
         verified \subseteq verified', raced => raced', F!FormOK',
         ~edited' /\ attempts > 0 => ~edited /\ F!SameTerms(form, form')
  PROVE  F!FormIInv'
<1>1. attempts > 0 => F!Ready(attempt)'
  BY DEF F!FormIInv, F!SubmissionOK, F!Ready
<1>2. F!SubmissionOK'
  BY <1>1 DEF F!FormIInv, F!SubmissionOK, F!Exists
<1>3. F!FlyingOK'
  BY DEF F!FormIInv, F!FlyingOK
<1>4. F!AttemptsAgree'
  <2> SUFFICES ASSUME ~edited', attempts > 0 PROVE F!AttemptsAgree'
    BY DEF F!AttemptsAgree
  <2>1. /\ F!SameTerms(attempt, form) /\ F!SameTerms(form, form')
        /\ \A tx \in flying : F!Describes(tx.kind, tx.args)
        /\ \A kind \in DOMAIN formChain : F!Describes(kind, formChain[kind])
    BY DEF F!FormIInv, F!AttemptsAgree
  <2>2. F!SameTerms(attempt, form)'
    BY <2>1 DEF F!SameTerms
  <2>3. QED
    BY <2>1, <2>2 DEF F!AttemptsAgree, F!Describes
<1>5. F!SourceVerified'
  BY DEF F!FormIInv, F!SourceVerified, F!Exists
<1>6. QED
  BY <1>2, <1>3, <1>4, <1>5 DEF F!FormIInv

\* What the user changes keeps a resolver of the category, and a source that
\* its service has confirmed.
LEMMA UserEditInv ==
  ASSUME F!FormIInv,
         \/ \E category \in F!Categories : F!selectCategory(category)
         \/ \E resolver \in F!resolverChoices(form.category) : F!setResolver(resolver)
         \/ \E text \in Texts : F!setText(text)
         \/ \E when \in {F!LeadTime, 12} : F!setResolutionAt(when)
         \/ \E hash \in F!Hashes : F!setFeedHash(hash)
         \/ \E asset \in F!Assets \cup {F!None} : F!setStorkAsset(asset)
  PROVE  F!FormIInv'
<1> USE DEF F!None
<1>1. /\ F!FormOK /\ attempts \in Nat /\ edited \in BOOLEAN /\ raced \in BOOLEAN
      /\ form \in F!Forms
  BY DEF F!FormIInv, F!SubmissionOK, F!FormOK
<1>2. /\ UNCHANGED <<stage, attempt, attempts, formChain, flying, formNow, verified>>
      /\ raced => raced'
      /\ edited' = (edited \/ attempts > 0)
  BY <1>1 DEF F!selectCategory, F!setResolver, F!setText, F!setResolutionAt, F!setFeedHash,
              F!setStorkAsset, F!Edit, F!submitVars
<1>3. F!FormOK'
  <2>1. ASSUME NEW category \in F!Categories, F!selectCategory(category) PROVE F!FormOK'
    <3> DEFINE resolver == IF form.resolver \in F!resolverChoices(category) THEN form.resolver
                           ELSE F!first(category)
               feed == CASE category = "crypto" -> "sponsored" [] category = "economics" -> "none"
                         [] OTHER -> form.feed
    <3>1. /\ form' = [form EXCEPT !.category = category, !.resolver = resolver, !.feed = feed]
          /\ asking' \in {asking, "none"} /\ UNCHANGED <<checking, verified, raced>>
      BY <2>1 DEF F!selectCategory, F!Edit
    <3>2. resolver \in F!resolverChoices(category) /\ resolver \in F!Resolvers
      BY DEF F!Categories, F!resolverChoices, F!first, F!Resolvers
    <3>3. feed \in F!PythFeeds \cup {"none"} /\ feed \in verified \cup {"none"}
      BY <1>1 DEF F!FormOK, F!Forms, F!PythFeeds
    <3> HIDE DEF resolver, feed
    <3>4. form' \in F!Forms
      BY <1>1, <3>1, <3>2, <3>3 DEF F!Forms
    <3>5. /\ form'.category = category /\ form'.resolver = resolver /\ form'.feed = feed
          /\ form'.hash = form.hash /\ form'.validated = form.validated /\ form'.asset = form.asset
      BY <1>1, <3>1 DEF F!Forms
    <3>6. QED
      BY <1>1, <1>2, <3>1, <3>2, <3>3, <3>4, <3>5 DEF F!FormOK, F!Edit
  <2>2. ASSUME NEW resolver \in F!resolverChoices(form.category), F!setResolver(resolver) PROVE F!FormOK'
    <3> DEFINE asset == IF resolver = "stork" /\ form.assetId # "none" THEN "none" ELSE form.asset
    <3>1. /\ form' = [form EXCEPT !.resolver = resolver, !.asset = asset]
          /\ asking' \in {form.assetId, "none"} /\ UNCHANGED <<checking, verified, raced>>
      BY <2>2 DEF F!setResolver, F!Edit
    <3>2. asset \in F!Assets \cup {"none"} /\ asset \in verified \cup {"none"}
          /\ form.assetId \in F!Assets \cup {"none"}
      BY <1>1 DEF F!FormOK, F!Forms
    <3>3. resolver \in F!Resolvers
      BY DEF F!resolverChoices, F!Resolvers
    <3> HIDE DEF asset
    <3>4. form' \in F!Forms
      BY <1>1, <3>1, <3>2, <3>3 DEF F!Forms
    <3>5. /\ form'.category = form.category /\ form'.resolver = resolver /\ form'.feed = form.feed
          /\ form'.hash = form.hash /\ form'.validated = form.validated /\ form'.asset = asset
      BY <1>1, <3>1 DEF F!Forms
    <3>6. QED
      BY <1>1, <1>2, <3>1, <3>2, <3>4, <3>5 DEF F!FormOK
  <2>3. ASSUME NEW text \in Texts, F!setText(text) PROVE F!FormOK'
    <3>1. form' = [form EXCEPT !.text = text] /\ UNCHANGED <<checking, asking, verified, raced>>
      BY <2>3 DEF F!setText, F!Edit
    <3>2. form' \in F!Forms
      BY <1>1, <3>1 DEF F!Forms
    <3>3. QED
      BY <1>1, <1>2, <3>1, <3>2 DEF F!FormOK, F!Forms
  <2>4. ASSUME NEW when \in {F!LeadTime, 12}, F!setResolutionAt(when) PROVE F!FormOK'
    <3>1. form' = [form EXCEPT !.when = when] /\ UNCHANGED <<checking, asking, verified, raced>>
      BY <2>4 DEF F!setResolutionAt, F!Edit
    <3>2. form' \in F!Forms
      BY <1>1, <3>1 DEF F!Forms, F!LeadTime
    <3>3. QED
      BY <1>1, <1>2, <3>1, <3>2 DEF F!FormOK, F!Forms
  <2>5. ASSUME NEW hash \in F!Hashes, F!setFeedHash(hash) PROVE F!FormOK'
    <3>1. /\ form' = [form EXCEPT !.hash = hash, !.validated = FALSE]
          /\ UNCHANGED <<checking, asking, verified>> /\ raced' = (raced \/ checking # "none")
      BY <2>5 DEF F!setFeedHash, F!Edit
    <3>2. form' \in F!Forms
      BY <1>1, <3>1 DEF F!Forms
    <3>3. /\ form'.category = form.category /\ form'.resolver = form.resolver /\ form'.feed = form.feed
          /\ ~form'.validated /\ form'.asset = form.asset
      BY <1>1, <3>1 DEF F!Forms
    <3>4. QED
      BY <1>1, <1>2, <3>1, <3>2, <3>3 DEF F!FormOK
  <2>6. ASSUME NEW asset \in F!Assets \cup {F!None}, F!setStorkAsset(asset) PROVE F!FormOK'
    <3> DEFINE kept == IF asset = "none" THEN form.asset ELSE "none"
    <3>1. /\ form' = [form EXCEPT !.assetId = asset, !.asset = kept]
          /\ asking' = asset /\ UNCHANGED <<checking, verified, raced>>
      BY <2>6 DEF F!setStorkAsset, F!Edit
    <3>2. kept \in F!Assets \cup {"none"} /\ kept \in verified \cup {"none"}
      BY <1>1 DEF F!FormOK, F!Forms
    <3> HIDE DEF kept
    <3>3. form' \in F!Forms
      BY <1>1, <3>1, <3>2 DEF F!Forms
    <3>4. /\ form'.category = form.category /\ form'.resolver = form.resolver /\ form'.feed = form.feed
          /\ form'.hash = form.hash /\ form'.validated = form.validated /\ form'.asset = kept
      BY <1>1, <3>1 DEF F!Forms
    <3>5. QED
      BY <1>1, <1>2, <3>1, <3>2, <3>3, <3>4 DEF F!FormOK
  <2>7. QED
    BY <2>1, <2>2, <2>3, <2>4, <2>5, <2>6
<1>4. QED
  BY <1>1, <1>2, <1>3, EditInv

\* What the oracle services answer, whatever the form holds by then.
LEMMA AnswerInv ==
  ASSUME F!FormIInv,
         \/ F!feedsArrive \/ F!validateSwitchboard
         \/ \E available \in BOOLEAN : F!switchboardAnswers(available) \/ F!storkAnswers(available)
  PROVE  F!FormIInv'
<1> USE DEF F!None
<1>1. /\ F!FormOK /\ attempts \in Nat /\ edited \in BOOLEAN /\ raced \in BOOLEAN
      /\ form \in F!Forms
  BY DEF F!FormIInv, F!SubmissionOK, F!FormOK
<1>2. UNCHANGED <<stage, attempt, attempts, formChain, flying, formNow, raced>>
  BY DEF F!feedsArrive, F!validateSwitchboard, F!switchboardAnswers, F!storkAnswers, F!submitVars
<1>3. CASE F!feedsArrive
  <2>1. PICK feeds \in {{f \in F!PythFeeds : F!feedCategory(f) = form.category},
                        {f \in {"sponsored"} : F!feedCategory(f) = form.category}} :
          /\ form' = [form EXCEPT !.feed = IF feeds = {} THEN "none" ELSE CHOOSE f \in feeds : TRUE]
          /\ verified' = verified \cup feeds
    BY <1>3 DEF F!feedsArrive
  <2> DEFINE feed == IF feeds = {} THEN "none" ELSE CHOOSE f \in feeds : TRUE
  <2>2. feed \in feeds \cup {"none"} /\ feed \in F!PythFeeds \cup {"none"}
    BY DEF F!PythFeeds
  <2> HIDE DEF feed
  <2>3. form' = [form EXCEPT !.feed = feed] /\ UNCHANGED <<checking, asking>>
        /\ edited' = (edited \/ attempts > 0)
    BY <1>3, <2>1 DEF F!feedsArrive, feed
  <2>4. form' \in F!Forms
    BY <1>1, <2>2, <2>3 DEF F!Forms
  <2>5. /\ form'.category = form.category /\ form'.resolver = form.resolver /\ form'.feed = feed
        /\ form'.hash = form.hash /\ form'.validated = form.validated /\ form'.asset = form.asset
    BY <1>1, <2>3 DEF F!Forms
  <2>6. F!FormOK'
    BY <1>1, <1>2, <2>1, <2>2, <2>3, <2>4, <2>5 DEF F!FormOK
  <2>7. QED
    BY <1>1, <1>2, <2>1, <2>3, <2>6, EditInv
<1>4. CASE F!validateSwitchboard
  <2>1. /\ form' = [form EXCEPT !.validated = FALSE] /\ checking' = form.hash
        /\ UNCHANGED <<asking, verified, edited>>
    BY <1>4 DEF F!validateSwitchboard
  <2>2. form' \in F!Forms
    BY <1>1, <2>1 DEF F!Forms
  <2>3. /\ F!SameTerms(form, form') /\ ~form'.validated
    BY <1>1, <2>1 DEF F!Forms, F!SameTerms
  <2>4. F!FormOK'
    BY <1>1, <1>2, <2>1, <2>2, <2>3 DEF F!FormOK, F!SameTerms
  <2>5. QED
    BY <1>2, <2>1, <2>3, <2>4, EditInv
<1>5. ASSUME NEW available \in BOOLEAN, F!switchboardAnswers(available) PROVE F!FormIInv'
  <2>1. /\ form' = [form EXCEPT !.validated = available] /\ checking' = "none" /\ checking # "none"
        /\ verified \subseteq verified' /\ (available => checking \in verified')
        /\ UNCHANGED <<asking, edited>>
    BY <1>5 DEF F!switchboardAnswers
  <2>2. form' \in F!Forms
    BY <1>1, <2>1 DEF F!Forms
  <2>3. F!SameTerms(form, form') /\ form'.validated = available
    BY <1>1, <2>1 DEF F!Forms, F!SameTerms
  <2>4. F!FormOK'
    BY <1>1, <1>2, <2>1, <2>2, <2>3 DEF F!FormOK, F!SameTerms
  <2>5. QED
    BY <1>2, <2>1, <2>3, <2>4, EditInv
<1>6. ASSUME NEW available \in BOOLEAN, F!storkAnswers(available) PROVE F!FormIInv'
  <2> DEFINE asset == IF available THEN asking ELSE "none"
  <2>1. /\ form' = [form EXCEPT !.asset = asset] /\ asking' = "none"
        /\ verified \subseteq verified' /\ (available => asking \in verified')
        /\ UNCHANGED checking /\ edited' = (edited \/ attempts > 0)
    BY <1>6 DEF F!storkAnswers
  <2>2. asset \in F!Assets \cup {"none"} /\ asset \in verified' \cup {"none"}
    BY <1>1, <2>1 DEF F!FormOK
  <2> HIDE DEF asset
  <2>3. form' \in F!Forms
    BY <1>1, <2>1, <2>2 DEF F!Forms
  <2>4. /\ form'.category = form.category /\ form'.resolver = form.resolver /\ form'.feed = form.feed
        /\ form'.hash = form.hash /\ form'.validated = form.validated /\ form'.asset = asset
    BY <1>1, <2>1 DEF F!Forms
  <2>5. F!FormOK'
    BY <1>1, <1>2, <2>1, <2>2, <2>3, <2>4 DEF F!FormOK
  <2>6. QED
    BY <1>1, <1>2, <2>1, <2>5, EditInv
<1>7. QED
  BY <1>3, <1>4, <1>5, <1>6

\* A submission starts with a form that is ready, and the form does not change
\* while the submission moves on.
LEMMA SubmitInv == F!FormIInv /\ F!submit => F!FormIInv'
<1> SUFFICES ASSUME F!FormIInv, F!submit PROVE F!FormIInv'
  OBVIOUS
<1>1. /\ stage' = "validating" /\ attempt' = form /\ attempts' = attempts + 1 /\ F!resolverReady(form)
      /\ UNCHANGED <<form, checking, asking, verified, edited, raced, formChain, flying, formNow>>
  BY DEF F!submit, F!fieldVars
<1>2. F!FormOK /\ attempts \in Nat /\ formNow \in Int
  BY DEF F!FormIInv, F!SubmissionOK
<1>3. F!Ready(form)
  <2>1. F!Source(form) \in verified \cup {F!None} \/ raced
    BY <1>1, <1>2 DEF F!FormOK, F!Source, F!resolverReady, F!None
  <2>2. QED
    BY <1>1, <1>2, <2>1 DEF F!FormOK, F!Ready
<1>4. F!FormOK' /\ F!SourceVerified'
  BY <1>1 DEF F!FormIInv, F!FormOK, F!SourceVerified, F!Exists
<1>5. F!Ready(attempt)'
  BY <1>1, <1>3 DEF F!Ready
<1>6. F!SubmissionOK'
  BY <1>1, <1>2, <1>5 DEF F!SubmissionOK, F!Stages
<1>7. F!FlyingOK'
  BY <1>1 DEF F!FormIInv, F!FlyingOK
<1>8. F!AttemptsAgree'
  <2>1. CASE attempts = 0
    BY <1>1, <2>1 DEF F!FormIInv, F!SubmissionOK, F!AttemptsAgree, F!SameTerms
  <2>2. CASE attempts > 0 /\ ~edited
    <3>1. F!SameTerms(attempt, form)
      BY <2>2 DEF F!FormIInv, F!AttemptsAgree
    <3>2. F!description(attempt) = F!description(form) /\ F!marketArgs(attempt) = F!marketArgs(form)
      BY <3>1, SameDescription
    <3>3. /\ \A tx \in flying : F!Describes(tx.kind, tx.args)
          /\ \A kind \in DOMAIN formChain : F!Describes(kind, formChain[kind])
      BY <2>2 DEF F!FormIInv, F!AttemptsAgree
    <3>4. /\ F!description(attempt)' = F!description(attempt)
          /\ F!marketArgs(attempt)' = F!marketArgs(attempt)
      BY <1>1, <3>2 DEF F!description, F!marketArgs, F!oracleArgs, F!Source
    <3>5. \A kind, args : F!Describes(kind, args)' <=> F!Describes(kind, args)
      BY <3>4 DEF F!Describes
    <3>6. QED
      BY <1>1, <3>3, <3>5 DEF F!AttemptsAgree, F!SameTerms
  <2>3. CASE edited
    BY <1>1, <2>3 DEF F!AttemptsAgree
  <2>4. QED
    BY <1>2, <2>1, <2>2, <2>3
<1>9. QED
  BY <1>4, <1>6, <1>7, <1>8 DEF F!FormIInv

\* A submission's step that starts no other attempt: what the program must
\* accept, what is described and what has been reached are to be shown.
LEMMA ProgressInv ==
  ASSUME F!FormIInv, UNCHANGED <<form, checking, asking, verified, edited, raced, attempt, attempts>>,
         F!SubmissionOK', F!FlyingOK', F!SourceVerified',
         /\ \A tx \in flying' \ flying : F!Describes(tx.kind, tx.args)
         /\ \A kind \in DOMAIN formChain' :
              \/ kind \in DOMAIN formChain /\ formChain'[kind] = formChain[kind]
              \/ \E tx \in flying : tx.kind = kind /\ tx.args = formChain'[kind]
  PROVE  F!FormIInv'
<1>1. F!FormOK'
  BY DEF F!FormIInv, F!FormOK
<1>2. F!AttemptsAgree'
  <2> SUFFICES ASSUME ~edited', attempts' > 0 PROVE F!AttemptsAgree'
    BY DEF F!AttemptsAgree
  <2>1. /\ F!SameTerms(attempt, form)
        /\ \A tx \in flying : F!Describes(tx.kind, tx.args)
        /\ \A kind \in DOMAIN formChain : F!Describes(kind, formChain[kind])
    BY DEF F!FormIInv, F!AttemptsAgree
  <2>2. \A kind, args : F!Describes(kind, args)' <=> F!Describes(kind, args)
    BY DEF F!Describes, F!marketArgs, F!description, F!oracleArgs, F!Source
  <2>3. \A tx \in flying' : F!Describes(tx.kind, tx.args)
    BY <2>1
  <2>4. \A kind \in DOMAIN formChain' : F!Describes(kind, formChain'[kind])
    BY <2>1
  <2>5. QED
    BY <2>1, <2>2, <2>3, <2>4 DEF F!AttemptsAgree, F!SameTerms
<1>3. QED
  BY <1>1, <1>2 DEF F!FormIInv

\* The three sends. The market's lock time is checked to be twenty minutes
\* ahead, and the replay market's is computed from the time.
LEMMA SendInv ==
  ASSUME F!FormIInv, F!createReplayMarket \/ F!createHybridMarket \/ F!publishMetadata
  PROVE  F!FormIInv'
<1>1. /\ UNCHANGED <<form, checking, asking, verified, edited, raced, attempt, attempts, formChain, formNow>>
      /\ F!SubmissionOK /\ formNow \in Int /\ attempts > 0 /\ F!Ready(attempt)
  BY DEF F!createReplayMarket, F!createHybridMarket, F!publishMetadata, F!fieldVars, F!FormIInv, F!SubmissionOK
<1>2. F!Ready(attempt)' /\ F!SourceVerified'
  BY <1>1 DEF F!Ready, F!FormIInv, F!SourceVerified, F!Exists
<1>3. CASE F!createReplayMarket
  <2> DEFINE args == F!poolArgs(attempt)
  <2>1. /\ attempt.resolver = "txline-replay" /\ stage' = "pool-confirming"
        /\ flying' = flying \cup {[kind |-> "pool", args |-> args, at |-> formNow, of |-> attempts]}
    BY <1>3 DEF F!createReplayMarket, F!Send
  <2>2. /\ args.hashes = F!description(attempt) /\ args.lock = formNow + 3 /\ args.batch = formNow + 6
        /\ args.deadline = formNow + 27
    BY DEF F!poolArgs
  <2> HIDE DEF args
  <2>3. F!SubmissionOK'
    BY <1>1, <1>2, <2>1 DEF F!SubmissionOK, F!Stages, F!Exists
  <2>4. F!FlyingOK'
    BY <1>1, <2>1, <2>2 DEF F!FormIInv, F!FlyingOK
  <2>5. \A tx \in flying' \ flying : F!Describes(tx.kind, tx.args)
    BY <2>1, <2>2 DEF F!Describes
  <2>6. QED
    BY <1>1, <1>2, <2>3, <2>4, <2>5, ProgressInv
<1>4. CASE F!createHybridMarket /\ F!Exists("market")
  <2>1. attempt.resolver # "txline-replay" /\ stage' = "market-confirmed" /\ flying' = flying
    BY <1>4 DEF F!createHybridMarket
  <2>2. F!SubmissionOK'
    BY <1>1, <1>2, <1>4, <2>1 DEF F!SubmissionOK, F!Stages, F!Exists
  <2>3. F!FlyingOK'
    BY <1>1, <2>1 DEF F!FormIInv, F!FlyingOK
  <2>4. QED
    BY <1>1, <1>2, <2>1, <2>2, <2>3, ProgressInv
<1>5. CASE F!createHybridMarket /\ ~F!Exists("market")
  <2> DEFINE args == F!marketArgs(attempt)
  <2>1. /\ attempt.resolver # "txline-replay" /\ stage' = "market-confirming"
        /\ attempt.when >= formNow + F!LeadTime
        /\ flying' = flying \cup {[kind |-> "market", args |-> args, at |-> formNow, of |-> attempts]}
    BY <1>5 DEF F!createHybridMarket, F!Send
  <2>2. attempt \in F!Forms /\ attempt.when \in Int /\ F!evidenceTime(attempt.resolver) > 0
    BY <1>1 DEF F!Ready, F!Forms, F!evidenceTime
  <2>3. F!validate_oracle_config(attempt.category, attempt.resolver, F!oracleArgs(attempt))
    BY <1>1, <2>1, <2>2, OracleArgsAccepted DEF F!Ready
  <2>4. F!evidenceTime(attempt.resolver) \in Int
    BY DEF F!evidenceTime
  <2>5. /\ args.lock = attempt.when - 1 /\ args.observation = attempt.when
        /\ args.deadline = attempt.when + F!evidenceTime(attempt.resolver)
        /\ args.category = attempt.category /\ args.resolver = attempt.resolver
        /\ args.oracle = F!oracleArgs(attempt) /\ args.source = F!Source(attempt)
    BY DEF F!marketArgs
  <2>6. /\ args.lock > formNow + 1 /\ args.lock <= args.observation
        /\ args.observation < args.deadline /\ args.lock \in Int
    <3> DEFINE span == F!evidenceTime(attempt.resolver)
    <3>1. span \in Int /\ span > 0 /\ args.deadline = attempt.when + span
      BY <2>2, <2>4, <2>5
    <3> HIDE DEF span, args
    <3>2. QED
      BY <1>1, <2>1, <2>2, <2>5, <3>1 DEF F!LeadTime
  <2>7. args.source \in verified \cup {F!None} \/ raced
    BY <1>1, <2>5 DEF F!Ready
  <2>8. F!validate_oracle_config(args.category, args.resolver, args.oracle)
    BY <2>3, <2>5
  <2>9. \A tx \in flying' \ flying : F!Describes(tx.kind, tx.args)
    BY <2>1 DEF F!Describes
  <2> HIDE DEF args
  <2>10. F!SubmissionOK'
    BY <1>1, <1>2, <2>1 DEF F!SubmissionOK, F!Stages, F!Exists
  <2>11. F!FlyingOK'
    <3>1. ASSUME NEW tx \in flying'
          PROVE  tx \in flying \/ (tx.kind = "market" /\ tx.args = args /\ tx.at = formNow)
      BY <2>1
    <3>2. QED
      BY <1>1, <2>6, <2>7, <2>8, <3>1 DEF F!FormIInv, F!FlyingOK
  <2>12. QED
    BY <1>1, <1>2, <2>9, <2>10, <2>11, ProgressInv
<1>6. CASE F!publishMetadata /\ F!Exists("metadata")
  <2>1. stage = "market-confirmed" /\ stage' = "confirmed" /\ flying' = flying
    BY <1>6 DEF F!publishMetadata
  <2>2. F!SubmissionOK'
    BY <1>1, <1>2, <1>6, <2>1 DEF F!SubmissionOK, F!Stages, F!Exists
  <2>3. F!FlyingOK'
    BY <1>1, <2>1 DEF F!FormIInv, F!FlyingOK
  <2>4. QED
    BY <1>1, <1>2, <2>1, <2>2, <2>3, ProgressInv
<1>7. CASE F!publishMetadata /\ ~F!Exists("metadata")
  <2> DEFINE args == [hashes |-> F!description(attempt)]
  <2>1. /\ stage = "market-confirmed" /\ stage' = "metadata-confirming"
        /\ flying' = flying \cup {[kind |-> "metadata", args |-> args, at |-> formNow, of |-> attempts]}
    BY <1>7 DEF F!publishMetadata, F!Send
  <2>2. args.hashes = F!description(attempt)
    OBVIOUS
  <2> HIDE DEF args
  <2>3. F!SubmissionOK'
    BY <1>1, <1>2, <2>1 DEF F!SubmissionOK, F!Stages, F!Exists
  <2>4. F!FlyingOK'
    BY <1>1, <2>1 DEF F!FormIInv, F!FlyingOK
  <2>5. \A tx \in flying' \ flying : F!Describes(tx.kind, tx.args)
    BY <2>1, <2>2 DEF F!Describes
  <2>6. QED
    BY <1>1, <1>2, <2>3, <2>4, <2>5, ProgressInv
<1>8. QED
  BY <1>3, <1>4, <1>5, <1>6, <1>7

\* Transactions land, are refused or expire; requests fail; time passes.
LEMMA SettleInv ==
  ASSUME F!FormIInv, (\E tx \in flying : F!land(tx) \/ F!reject(tx)) \/ F!fail \/ F!tick
  PROVE  F!FormIInv'
<1>1. /\ UNCHANGED <<form, checking, asking, verified, edited, raced, attempt, attempts>>
      /\ F!SubmissionOK /\ F!FlyingOK
  BY DEF F!land, F!reject, F!fail, F!tick, F!fieldVars, F!submitVars, F!FormIInv
<1>2. attempts > 0 => F!Ready(attempt)'
  BY <1>1 DEF F!SubmissionOK, F!Ready
<1>3. ASSUME NEW tx \in flying, F!land(tx) PROVE F!FormIInv'
  <2>1. /\ formChain' = [kind \in DOMAIN formChain \cup {tx.kind} |->
                          IF kind = tx.kind THEN tx.args ELSE formChain[kind]]
        /\ flying' = flying \ {tx} /\ ~F!Exists(tx.kind)
        /\ stage' = IF F!Waits(tx) THEN F!Next_(tx.kind) ELSE stage
        /\ formNow' = formNow
    BY <1>3 DEF F!land, F!Accepted
  <2>2. /\ DOMAIN formChain' = DOMAIN formChain \cup {tx.kind}
        /\ formChain'[tx.kind] = tx.args
        /\ \A kind \in DOMAIN formChain : formChain'[kind] = formChain[kind]
    BY <2>1 DEF F!Exists
  <2>3. attempts > 0 /\ tx.kind \in {"pool", "market", "metadata"}
    BY <1>1 DEF F!SubmissionOK, F!FlyingOK
  <2>4. stage' # stage =>
          \/ tx.kind = "pool" /\ stage = "pool-confirming" /\ stage' = "confirmed"
          \/ tx.kind = "market" /\ stage = "market-confirming" /\ stage' = "market-confirmed"
          \/ tx.kind = "metadata" /\ stage = "metadata-confirming" /\ stage' = "confirmed"
    BY <2>1, <2>3 DEF F!Waits, F!Next_, F!Confirming
  <2>5. F!SubmissionOK'
    BY <1>1, <1>2, <2>1, <2>2, <2>3, <2>4 DEF F!SubmissionOK, F!Stages, F!Exists
  <2>6. F!FlyingOK'
    BY <1>1, <2>1 DEF F!FlyingOK
  <2>7. F!SourceVerified'
    <3>1. CASE tx.kind = "market"
      BY <1>1, <2>2, <3>1 DEF F!SourceVerified, F!FlyingOK
    <3>2. CASE tx.kind # "market"
      <4>1. F!SourceVerified
        BY DEF F!FormIInv
      <4>2. QED
        BY <1>1, <2>2, <3>2, <4>1 DEF F!SourceVerified, F!Exists
    <3>3. QED
      BY <3>1, <3>2
  <2>8. QED
    BY <1>1, <2>1, <2>2, <2>5, <2>6, <2>7, ProgressInv
<1>4. ASSUME NEW tx \in flying, F!reject(tx) PROVE F!FormIInv'
  <2>1. flying' = flying \ {tx} /\ stage' \in {stage, "idle"} /\ UNCHANGED <<formChain, formNow>>
    BY <1>4 DEF F!reject
  <2>2. F!SubmissionOK'
    BY <1>1, <1>2, <2>1 DEF F!SubmissionOK, F!Stages, F!Exists
  <2>3. F!FlyingOK' /\ F!SourceVerified'
    BY <1>1, <2>1 DEF F!FlyingOK, F!FormIInv, F!SourceVerified, F!Exists
  <2>4. QED
    BY <1>1, <2>1, <2>2, <2>3, ProgressInv
<1>5. CASE F!fail \/ F!tick
  <2>1. /\ UNCHANGED <<flying, formChain>> /\ stage' \in {stage, "idle"} /\ formNow' \in Int
    BY <1>1, <1>5 DEF F!fail, F!tick, F!submitVars, F!SubmissionOK
  <2>2. F!SubmissionOK'
    BY <1>1, <1>2, <2>1 DEF F!SubmissionOK, F!Stages, F!Exists
  <2>3. F!FlyingOK' /\ F!SourceVerified'
    BY <1>1, <2>1 DEF F!FlyingOK, F!FormIInv, F!SourceVerified, F!Exists
  <2>4. QED
    BY <1>1, <2>1, <2>2, <2>3, ProgressInv
<1>6. QED
  BY <1>3, <1>4, <1>5

LEMMA FormNextInv == F!FormIInv /\ [F!Next]_formVars => F!FormIInv'
<1> SUFFICES ASSUME F!FormIInv, [F!Next]_formVars PROVE F!FormIInv'
  OBVIOUS
<1>1. CASE UNCHANGED formVars
  <2>1. attempts > 0 => F!Ready(attempt)'
    BY <1>1 DEF formVars, F!FormIInv, F!SubmissionOK, F!Ready
  <2>2. F!SubmissionOK' /\ F!FlyingOK' /\ F!SourceVerified'
    BY <1>1, <2>1 DEF formVars, F!FormIInv, F!SubmissionOK, F!FlyingOK, F!SourceVerified, F!Exists
  <2>3. QED
    BY <1>1, <2>2, ProgressInv DEF formVars
<1>2. CASE \/ \E category \in F!Categories : F!selectCategory(category)
           \/ \E resolver \in F!resolverChoices(form.category) : F!setResolver(resolver)
           \/ \E text \in Texts : F!setText(text)
           \/ \E when \in {F!LeadTime, 12} : F!setResolutionAt(when)
           \/ \E hash \in F!Hashes : F!setFeedHash(hash)
           \/ \E asset \in F!Assets \cup {F!None} : F!setStorkAsset(asset)
  BY <1>2, UserEditInv
<1>3. CASE \/ F!feedsArrive \/ F!validateSwitchboard
           \/ \E available \in BOOLEAN : F!switchboardAnswers(available) \/ F!storkAnswers(available)
  BY <1>3, AnswerInv
<1>4. CASE F!submit \/ F!createReplayMarket \/ F!createHybridMarket \/ F!publishMetadata
  BY <1>4, SubmitInv, SendInv
<1>5. CASE (\E tx \in flying : F!land(tx) \/ F!reject(tx)) \/ F!fail \/ F!tick
  BY <1>5, SettleInv
<1>6. QED
  BY <1>1, <1>2, <1>3, <1>4, <1>5 DEF F!Next

LEMMA FormInvariance == WebSpec => []F!FormIInv
<1>1. WebInit => F!FormIInv
  BY FormInitInv DEF WebInit
<1>2. F!FormIInv /\ [WebNext]_allVars => F!FormIInv'
  BY FormNextInv DEF WebNext, allVars
<1>3. QED
  BY <1>1, <1>2, PTL DEF WebSpec

\* Whatever the user has chosen and in whatever order, validate_oracle_config
\* and the time checks of initialize_hybrid_market and initialize_market accept
\* what createHybridMarket and createReplayMarket send, while it can land.
THEOREM CreationAlwaysAccepted == WebSpec => []CreationAccepted
<1>1. F!FormIInv => CreationAccepted
  <2> SUFFICES ASSUME F!FormIInv, NEW tx \in flying, formNow <= tx.at + 1
               PROVE  /\ tx.kind = "market" => F!initialize_hybrid_market(tx.args)
                      /\ tx.kind = "pool" => F!initialize_market(tx.args)
    BY DEF CreationAccepted, F!CreationAccepted
  <2>1. F!FlyingOK /\ formNow \in Int /\ tx.at \in Int
    BY DEF F!FormIInv, F!SubmissionOK, F!FlyingOK
  <2>2. QED
    BY <2>1 DEF F!FlyingOK, F!initialize_hybrid_market, F!initialize_market
<1>2. QED
  BY <1>1, FormInvariance, PTL

\* A submission shown as confirmed has created the market its form described
\* and published that question, however many attempts it took and whichever
\* answers were lost, unless the form was edited after the first attempt.
THEOREM ConfirmedAlwaysAsDescribed == WebSpec => []ConfirmedAsDescribed
<1>1. F!FormIInv => ConfirmedAsDescribed
  <2> SUFFICES ASSUME F!FormIInv, stage = "confirmed", ~edited
               PROVE  IF attempt.resolver = "txline-replay"
                        THEN F!Exists("pool") /\ formChain.pool.hashes = F!description(attempt)
                        ELSE /\ F!Exists("market") /\ formChain.market = F!marketArgs(attempt)
                             /\ F!Exists("metadata") /\ formChain.metadata.hashes = F!description(attempt)
    BY DEF ConfirmedAsDescribed, F!ConfirmedAsDescribed
  <2>1. /\ attempts > 0
        /\ IF attempt.resolver = "txline-replay" THEN F!Exists("pool")
           ELSE F!Exists("market") /\ F!Exists("metadata")
    BY DEF F!FormIInv, F!SubmissionOK
  <2>2. \A kind \in DOMAIN formChain : F!Describes(kind, formChain[kind])
    BY <2>1 DEF F!FormIInv, F!AttemptsAgree
  <2>3. QED
    BY <2>1, <2>2 DEF F!Exists, F!Describes
<1>2. QED
  BY <1>1, FormInvariance, PTL

\* The feed, hash or asset a market resolves from is one that Hermes,
\* Switchboard or Stork has confirmed to this page, unless the user changed the
\* hash while validateSwitchboard waited for its answer.
THEOREM SourceAlwaysVerified == WebSpec => []SourceVerified
<1>1. F!FormIInv => SourceVerified
  BY DEF F!FormIInv, SourceVerified
<1>2. QED
  BY <1>1, FormInvariance, PTL

-----------------------------------------------------------------------------
(* The boundary with the program: the call sites of Interface. A derived    *)
(* address is told from a key, and from an address of another kind, by its *)
(* label; the proofs expand the addresses no further than that.            *)

\* The addresses the invariant speaks of are of ten kinds.
MarketLabels ==
  {"market", "vault", "hybrid-market", "hybrid-vault", "oracle-config", "optimistic-proposal",
   "optimistic-bond-vault", "resolution-receipt", "order", "position"}

\* A set of new accounts that leaves nothing half created.
Closed(S) ==
  /\ PM \in S <=> vaultPda(PM) \in S
  /\ HM \in S <=> hybridVaultPda(HM) \in S
  /\ HM \in S <=> oracleConfigPda(HM) \in S
  /\ HybridProposal \in S <=> optimisticBondVaultPda(HM) \in S
  /\ HybridProposal \in S => HM \in chain
  /\ HybridReceipt \in S => HM \in chain
  /\ \A w \in Wallets : Order(w) \in S => PM \in chain
  /\ \A w \in Wallets : positionPda(HM, w) \in S => HM \in chain

Sound(c) == Accepted(c) /\ Closed(Added(c))

LEMMA Kinds ==
  /\ Given.kind = "given" /\ Signer.kind = "signer"
  /\ \A x : At(x).kind = "fixed" /\ At(x).at = x
  /\ \A l : Stored(l).kind = "stored" /\ Stored(l).label = l
  /\ \A l, s : Pda(l, s).kind = "pda"
BY DEF Given, Signer, At, Stored, Pda

LEMMA Specs ==
  /\ Given.kind = "given" /\ Signer.kind = "signer"
  /\ At(TOKEN).kind = "fixed" /\ At(TOKEN).at = TOKEN
  /\ At(SYSTEM).kind = "fixed" /\ At(SYSTEM).at = SYSTEM
  /\ Protocol.kind = "pda" /\ Engine.kind = "pda" /\ PoolVault.kind = "pda" /\ Vault.kind = "pda"
  /\ OracleConfig.kind = "pda" /\ Proposal.kind = "pda" /\ BondVault.kind = "pda"
  /\ Receipt.kind = "pda" /\ Position.kind = "pda"
  /\ PoolMarket.kind = "stored" /\ findProgramAddress(PoolMarket.label, <<Creator, Id>>) = PM
  /\ Market.kind = "stored" /\ findProgramAddress(Market.label, <<Creator, Id>>) = HM
BY Kinds DEF Protocol, Engine, PoolVault, Vault, OracleConfig, Proposal, BondVault, Receipt,
             Position, PoolMarket, Market, PM, HM

LEMMA DerivedFrom ==
  /\ \A c, l : Derived(c, Pda(l, <<>>)) = findProgramAddress(l, <<>>)
  /\ \A c, l, m : Derived(c, Pda(l, <<m>>)) = findProgramAddress(l, <<c.supplied[m]>>)
  /\ \A c, l, m, n :
       Derived(c, Pda(l, <<m, n>>)) = findProgramAddress(l, <<c.supplied[m], c.supplied[n]>>)
<1>1. ASSUME NEW c, NEW l PROVE Derived(c, Pda(l, <<>>)) = findProgramAddress(l, <<>>)
  BY DEF Derived, Pda, findProgramAddress
<1>2. ASSUME NEW c, NEW l, NEW m
      PROVE  Derived(c, Pda(l, <<m>>)) = findProgramAddress(l, <<c.supplied[m]>>)
  BY DEF Derived, Pda, findProgramAddress
<1>3. ASSUME NEW c, NEW l, NEW m, NEW n
      PROVE  Derived(c, Pda(l, <<m, n>>)) = findProgramAddress(l, <<c.supplied[m], c.supplied[n]>>)
  BY DEF Derived, Pda, findProgramAddress
<1>4. QED
  BY <1>1, <1>2, <1>3

LEMMA Labels ==
  /\ PM.label = "market" /\ vaultPda(PM).label = "vault"
  /\ HM.label = "hybrid-market" /\ hybridVaultPda(HM).label = "hybrid-vault"
  /\ oracleConfigPda(HM).label = "oracle-config"
  /\ HybridProposal.label = "optimistic-proposal"
  /\ optimisticBondVaultPda(HM).label = "optimistic-bond-vault"
  /\ HybridReceipt.label = "resolution-receipt"
  /\ \A w : /\ Order(w).label = "order" /\ positionPda(HM, w).label = "position"
            /\ Ata(w).label = "ata"
BY DEF findProgramAddress, PM, vaultPda, HM, hybridVaultPda, oracleConfigPda, HybridProposal,
       optimisticBondVaultPda, HybridReceipt, Order, positionPda, Ata

\* Every client derives the addresses of the two markets from the same seeds.
LEMMA SameAddresses ==
  /\ marketPda(Creator, Id) = PM /\ hybridMarketPda(Creator, Id) = HM
  /\ resolutionReceiptPda(HM) = HybridReceipt /\ optimisticProposalPda(HM) = HybridProposal
  /\ StoredOracle = oracleConfigPda(HM)
  /\ findProgramAddress("vault", <<PM>>) = vaultPda(PM)
  /\ findProgramAddress("protocol", <<>>) = protocolPda
  /\ findProgramAddress("engine", <<>>) = enginePda
BY DEF marketPda, PM, hybridMarketPda, HM, resolutionReceiptPda, HybridReceipt,
       optimisticProposalPda, HybridProposal, StoredOracle, oracleConfigPda, vaultPda,
       protocolPda, enginePda

\* They are the addresses the program derives.
LEMMA VerifiedAddresses ==
  /\ findProgramAddress("protocol", <<>>) = protocolPda
  /\ findProgramAddress("engine", <<>>) = enginePda
  /\ findProgramAddress("market", <<Creator, Id>>) = PM
  /\ findProgramAddress("vault", <<PM>>) = vaultPda(PM)
  /\ findProgramAddress("claim", <<PM, Key("nullifier")>>) = ClaimAccount
  /\ findProgramAddress("hybrid-market", <<Creator, Id>>) = HM
  /\ findProgramAddress("hybrid-vault", <<HM>>) = hybridVaultPda(HM)
  /\ findProgramAddress("oracle-config", <<HM>>) = oracleConfigPda(HM)
  /\ findProgramAddress("hybrid-metadata", <<HM>>) = hybridMetadataPda(HM)
  /\ findProgramAddress("resolution-receipt", <<HM>>) = HybridReceipt
  /\ findProgramAddress("optimistic-proposal", <<HM>>) = HybridProposal
  /\ findProgramAddress("optimistic-bond-vault", <<HM>>) = optimisticBondVaultPda(HM)
BY DEF protocolPda, enginePda, PM, vaultPda, ClaimAccount, HM, hybridVaultPda,
       oracleConfigPda, hybridMetadataPda, HybridReceipt, HybridProposal,
       optimisticBondVaultPda

\* Two wallets have two orders.
LEMMA OrderInjective == ASSUME NEW v, NEW w, Order(v) = Order(w) PROVE v = w
<1>1. Commitment(v) = Commitment(w)
  BY DEF Order, findProgramAddress
<1>2. QED
  BY <1>1 DEF Commitment, findProgramAddress

\* An account of any other kind disturbs nothing.
LEMMA OthersClosed ==
  ASSUME NEW S, \A x \in S : x.label \notin MarketLabels
  PROVE  Closed(S)
BY Labels DEF Closed, MarketLabels

LEMMA GenesisFacts ==
  ASSUME InterfaceIInv
  PROVE  /\ \A w \in Wallets : w \in chain
         /\ USDC \in chain /\ TOKEN \in chain /\ SYSTEM \in chain
         /\ PROTOCOL_AUTHORITY \in chain /\ TXLINE_PROGRAM \in chain
         /\ FreshWallet \in chain /\ PlacementVerifier \in chain /\ RedeemVerifier \in chain
         /\ dailyScoresRoot \in chain /\ pythPushFeedAccount \in chain
         /\ Key("posted update") \in chain /\ storkFeedAccount \in chain
         /\ switchboardQuoteAccount \in chain
BY DEF InterfaceIInv, GenesisKept, Genesis

LEMMA InvariantFacts ==
  ASSUME InterfaceIInv
  PROVE  /\ PM \in chain <=> vaultPda(PM) \in chain
         /\ HM \in chain <=> hybridVaultPda(HM) \in chain
         /\ HM \in chain <=> oracleConfigPda(HM) \in chain
         /\ HybridProposal \in chain <=> optimisticBondVaultPda(HM) \in chain
         /\ HybridProposal \in chain => HM \in chain
         /\ HybridReceipt \in chain => HM \in chain
         /\ \A w \in Wallets : Order(w) \in chain => PM \in chain
         /\ \A w \in Wallets : positionPda(HM, w) \in chain => HM \in chain
BY DEF InterfaceIInv, CreatedTogether, CreatedAfter


LEMMA BeginRefundSound ==
  ASSUME InterfaceIInv, NEW w \in Wallets, runner_beginRefund(w) \in Offered
  PROVE  Sound(runner_beginRefund(w))
<1> DEFINE c == runner_beginRefund(w)
<1>1. /\ c.wallet = w /\ c.instruction = beginRefund
      /\ c.setup = {}
      /\ c.seen = {PM} /\ c.absent = {}
      /\ c.supplied =
           [market |-> PM]
  BY DEF runner_beginRefund, After, Call
<1>2. PM \in chain
  BY <1>1 DEF Offered
<1>3. Complete(c) /\ \A a \in Names(c) : accepts(c, a)
  BY <1>1, Specs DEF Complete, Names, accepts, token_owner, beginRefund
<1>4. \A a \in Names(c) : ready(c, a)
  BY <1>1, <1>2 DEF Names, ready, beginRefund
<1>5. Added(c) = {}
  BY <1>1 DEF Added, beginRefund
<1>6. Closed(Added(c))
  BY <1>5, OthersClosed, Labels DEF MarketLabels
<1>7. QED
  BY <1>3, <1>4, <1>6 DEF Sound, Accepted

\* The keeper creates its own token account and the treasury's first.
LEMMA ResolveMarketSound ==
  ASSUME InterfaceIInv, NEW w \in Wallets, runner_resolveMarket(w) \in Offered
  PROVE  Sound(runner_resolveMarket(w))
<1> DEFINE c == runner_resolveMarket(w)
<1>1. /\ c.wallet = w /\ c.instruction = resolveMarket
      /\ c.setup = {Ata(w), Ata(Treasury)}
      /\ c.seen = {PM} /\ c.absent = {}
      /\ c.supplied =
           [keeper |-> w, market |-> PM, collateralMint |-> USDC, vault |-> vaultPda(PM),
            treasuryToken |-> Ata(Treasury), keeperToken |-> Ata(w),
            dailyScoresMerkleRoots |-> dailyScoresRoot, txlineProgram |-> TXLINE_PROGRAM,
            tokenProgram |-> TOKEN]
  BY SameAddresses DEF runner_resolveMarket, After, Creating, Call
<1>2. /\ PM \in chain /\ vaultPda(PM) \in chain /\ w \in chain /\ USDC \in chain
      /\ dailyScoresRoot \in chain /\ TXLINE_PROGRAM \in chain /\ TOKEN \in chain
  BY <1>1, GenesisFacts, InvariantFacts DEF Offered
<1>3. /\ Derived(c, PoolVault) = vaultPda(PM)
  BY <1>1, DerivedFrom, VerifiedAddresses DEF PoolVault
<1>4. Complete(c) /\ \A a \in Names(c) : accepts(c, a)
  BY <1>1, <1>3, Specs DEF Complete, Names, accepts, token_owner, resolveMarket
<1>5. \A a \in Names(c) : ready(c, a)
  BY <1>1, <1>2 DEF Names, ready, resolveMarket
<1>6. Added(c) = {Ata(w), Ata(Treasury)}
  BY <1>1 DEF Added, resolveMarket
<1>7. Closed(Added(c))
  BY <1>6, OthersClosed, Labels DEF MarketLabels
<1>8. QED
  BY <1>4, <1>5, <1>7 DEF Sound, Accepted

LEMMA SubmitBatchSound ==
  ASSUME InterfaceIInv, NEW w \in Wallets, coordinator_submitBatch(w) \in Offered
  PROVE  Sound(coordinator_submitBatch(w))
<1> DEFINE c == coordinator_submitBatch(w)
<1>1. /\ c.wallet = w /\ c.instruction = submitBatch
      /\ c.setup = {}
      /\ c.seen = {PM} /\ c.absent = {}
      /\ c.supplied =
           [market |-> PM]
  BY DEF coordinator_submitBatch, After, Call
<1>2. PM \in chain
  BY <1>1 DEF Offered
<1>3. Complete(c) /\ \A a \in Names(c) : accepts(c, a)
  BY <1>1, Specs DEF Complete, Names, accepts, token_owner, submitBatch
<1>4. \A a \in Names(c) : ready(c, a)
  BY <1>1, <1>2 DEF Names, ready, submitBatch
<1>5. Added(c) = {}
  BY <1>1 DEF Added, submitBatch
<1>6. Closed(Added(c))
  BY <1>5, OthersClosed, Labels DEF MarketLabels
<1>7. QED
  BY <1>3, <1>4, <1>6 DEF Sound, Accepted

\* The relayer creates the token account of the fresh wallet that is paid.
LEMMA RedeemSound ==
  ASSUME InterfaceIInv, NEW w \in Wallets, relay_redeem(w) \in Offered
  PROVE  Sound(relay_redeem(w))
<1> DEFINE c == relay_redeem(w)
<1>1. /\ c.wallet = w /\ c.instruction = redeem
      /\ c.setup = {Ata(FreshWallet)}
      /\ c.seen = {PM} /\ c.absent = {ClaimAccount}
      /\ c.supplied =
           [relayer |-> w, market |-> PM, collateralMint |-> USDC,
            nullifierHash |-> Key("nullifier"), claim |-> ClaimAccount,
            vault |-> vaultPda(PM), recipientOwner |-> FreshWallet,
            recipientToken |-> Ata(FreshWallet), redeemVerifier |-> RedeemVerifier,
            tokenProgram |-> TOKEN, systemProgram |-> SYSTEM]
  BY SameAddresses DEF relay_redeem, Unless, After, Creating, Call
<1>2. /\ PM \in chain /\ vaultPda(PM) \in chain /\ w \in chain /\ USDC \in chain
      /\ ClaimAccount \notin chain /\ FreshWallet \in chain /\ RedeemVerifier \in chain
      /\ TOKEN \in chain /\ SYSTEM \in chain
  BY <1>1, GenesisFacts, InvariantFacts DEF Offered
<1>3. /\ Derived(c, PoolVault) = vaultPda(PM)
      /\ Derived(c, Pda("claim", <<"market", "nullifierHash">>)) = ClaimAccount
  BY <1>1, DerivedFrom, VerifiedAddresses DEF PoolVault
<1>4. Complete(c) /\ \A a \in Names(c) : accepts(c, a)
  BY <1>1, <1>3, Kinds, Specs DEF Complete, Names, accepts, token_owner, redeem
<1>5. \A a \in Names(c) : ready(c, a)
  BY <1>1, <1>2 DEF Names, ready, redeem
<1>6. Added(c) = {Ata(FreshWallet), ClaimAccount}
  BY <1>1 DEF Added, redeem
<1>7. Closed(Added(c))
  BY <1>6, OthersClosed, Labels DEF MarketLabels, ClaimAccount, findProgramAddress
<1>8. QED
  BY <1>4, <1>5, <1>7 DEF Sound, Accepted

LEMMA PlaceOrderSound ==
  ASSUME InterfaceIInv, NEW w \in Wallets, orderPanel_placeOrder(w) \in Offered
  PROVE  Sound(orderPanel_placeOrder(w))
<1> DEFINE c == orderPanel_placeOrder(w)
<1>1. /\ c.wallet = w /\ c.instruction = placeOrder
      /\ c.setup = {}
      /\ c.seen = {PM, Ata(w)} /\ c.absent = {Order(w)}
      /\ c.supplied =
           [payer |-> w, market |-> PM, collateralMint |-> USDC, payerToken |-> Ata(w),
            commitment |-> Commitment(w), order |-> Order(w), vault |-> vaultPda(PM),
            placementVerifier |-> PlacementVerifier, tokenProgram |-> TOKEN,
            systemProgram |-> SYSTEM]
  BY DEF orderPanel_placeOrder, Unless, After, Call
<1>2. /\ PM \in chain /\ vaultPda(PM) \in chain /\ Ata(w) \in chain /\ w \in chain
      /\ USDC \in chain /\ Order(w) \notin chain /\ PlacementVerifier \in chain
      /\ TOKEN \in chain /\ SYSTEM \in chain
  BY <1>1, GenesisFacts, InvariantFacts DEF Offered
<1>3. /\ Derived(c, PoolVault) = vaultPda(PM)
      /\ Derived(c, Pda("order", <<"market", "commitment">>)) = Order(w)
  BY <1>1, DerivedFrom, VerifiedAddresses DEF PoolVault, Order
<1>4. Complete(c) /\ \A a \in Names(c) : accepts(c, a)
  BY <1>1, <1>3, Kinds, Specs DEF Complete, Names, accepts, token_owner, placeOrder
<1>5. \A a \in Names(c) : ready(c, a)
  BY <1>1, <1>2 DEF Names, ready, placeOrder
<1>6. Added(c) = {Order(w)}
  BY <1>1 DEF Added, placeOrder
<1>7. Closed(Added(c))
  BY <1>2, <1>6, Labels, OrderInjective DEF Closed
<1>8. QED
  BY <1>4, <1>5, <1>7 DEF Sound, Accepted

\* A refund names the right accounts, and is accepted when they are there.
LEMMA RefundOrderSound ==
  ASSUME InterfaceIInv, NEW w \in Wallets, portfolio_refundOrder(w) \in Offered
  PROVE  LET c == portfolio_refundOrder(w)
         IN  /\ Complete(c) /\ \A a \in Names(c) : accepts(c, a)
             /\ (\A a \in Names(c) : ready(c, a)) <=> Order(w) \in chain /\ Ata(w) \in chain
             /\ Closed(Added(c))
<1> DEFINE c == portfolio_refundOrder(w)
<1>1. /\ c.wallet = w /\ c.instruction = refundOrder
      /\ c.setup = {}
      /\ c.seen = {PM} /\ c.absent = {}
      /\ c.supplied =
           [payer |-> w, market |-> PM, collateralMint |-> USDC, order |-> Order(w),
            vault |-> vaultPda(PM), payerToken |-> Ata(w), tokenProgram |-> TOKEN]
  BY DEF portfolio_refundOrder, After, Call
<1>2. /\ PM \in chain /\ vaultPda(PM) \in chain
      /\ w \in chain /\ USDC \in chain /\ TOKEN \in chain
  BY <1>1, GenesisFacts, InvariantFacts DEF Offered
<1>3. /\ Derived(c, PoolVault) = vaultPda(PM)
  BY <1>1, DerivedFrom, VerifiedAddresses DEF PoolVault
<1>4. Complete(c) /\ \A a \in Names(c) : accepts(c, a)
  BY <1>1, <1>3, Specs DEF Complete, Names, accepts, token_owner, refundOrder
<1>5. (\A a \in Names(c) : ready(c, a)) <=> Order(w) \in chain /\ Ata(w) \in chain
  BY <1>1, <1>2 DEF Names, ready, refundOrder
<1>6. Added(c) = {}
  BY <1>1 DEF Added, refundOrder
<1>7. Closed(Added(c))
  BY <1>6, OthersClosed, Labels DEF MarketLabels
<1>8. QED
  BY <1>4, <1>5, <1>7

\* The replay form's transaction is accepted as long as the market is not there.
LEMMA FormMarketSound ==
  ASSUME InterfaceIInv, createForm_initializeMarket(Creator) \in Offered
  PROVE  LET c == createForm_initializeMarket(Creator)
         IN  /\ Complete(c) /\ \A a \in Names(c) : accepts(c, a)
             /\ (\A a \in Names(c) : ready(c, a)) <=> PM \notin chain
             /\ Closed(Added(c))
<1> DEFINE c == createForm_initializeMarket(Creator)
<1>1. /\ c.wallet = Creator /\ c.instruction = initializeMarket
      /\ c.setup = {}
      /\ c.seen = {protocolPda} /\ c.absent = {}
      /\ c.supplied =
           [creator |-> Creator, marketId |-> Id, protocol |-> protocolPda, collateralMint |-> USDC,
            market |-> PM, vault |-> vaultPda(PM), tokenProgram |-> TOKEN, systemProgram |-> SYSTEM]
  BY SameAddresses DEF createForm_initializeMarket, After, Call
<1>2. /\ protocolPda \in chain /\ (vaultPda(PM) \in chain <=> PM \in chain)
      /\ Creator \in chain /\ USDC \in chain /\ TOKEN \in chain /\ SYSTEM \in chain
  BY <1>1, GenesisFacts, InvariantFacts, WalletsAssumption DEF Offered
<1>3. /\ Derived(c, PoolVault) = vaultPda(PM)
      /\ Derived(c, Protocol) = protocolPda
      /\ Derived(c, Pda("market", <<"creator", "marketId">>)) = PM
  BY <1>1, DerivedFrom, VerifiedAddresses DEF PoolVault, Protocol
<1>4. Complete(c) /\ \A a \in Names(c) : accepts(c, a)
  BY <1>1, <1>3, Kinds, Specs DEF Complete, Names, accepts, token_owner, initializeMarket
<1>5. (\A a \in Names(c) : ready(c, a)) <=> PM \notin chain
  BY <1>1, <1>2 DEF Names, ready, initializeMarket
<1>6. Added(c) = {PM, vaultPda(PM)}
  BY <1>1 DEF Added, initializeMarket
<1>7. Closed(Added(c))
  BY <1>6, Labels DEF Closed
<1>8. QED
  BY <1>4, <1>5, <1>7

LEMMA DeployMarketSound ==
  ASSUME InterfaceIInv, deploy_initializeMarket(Creator) \in Offered
  PROVE  Sound(deploy_initializeMarket(Creator))
<1> DEFINE c == deploy_initializeMarket(Creator)
<1>1. /\ c.wallet = Creator /\ c.instruction = initializeMarket
      /\ c.setup = {}
      /\ c.seen = {protocolPda} /\ c.absent = {PM}
      /\ c.supplied =
           [creator |-> Creator, marketId |-> Id, protocol |-> protocolPda, collateralMint |-> USDC,
            market |-> PM, vault |-> vaultPda(PM), tokenProgram |-> TOKEN, systemProgram |-> SYSTEM]
  BY SameAddresses DEF deploy_initializeMarket, Unless, After, Call
<1>2. /\ protocolPda \in chain /\ PM \notin chain /\ vaultPda(PM) \notin chain
      /\ Creator \in chain /\ USDC \in chain /\ TOKEN \in chain /\ SYSTEM \in chain
  BY <1>1, GenesisFacts, InvariantFacts, WalletsAssumption DEF Offered
<1>3. /\ Derived(c, PoolVault) = vaultPda(PM)
      /\ Derived(c, Protocol) = protocolPda
      /\ Derived(c, Pda("market", <<"creator", "marketId">>)) = PM
  BY <1>1, DerivedFrom, VerifiedAddresses DEF PoolVault, Protocol
<1>4. Complete(c) /\ \A a \in Names(c) : accepts(c, a)
  BY <1>1, <1>3, Kinds, Specs DEF Complete, Names, accepts, token_owner, initializeMarket
<1>5. \A a \in Names(c) : ready(c, a)
  BY <1>1, <1>2 DEF Names, ready, initializeMarket
<1>6. Added(c) = {PM, vaultPda(PM)}
  BY <1>1 DEF Added, initializeMarket
<1>7. Closed(Added(c))
  BY <1>6, Labels DEF Closed
<1>8. QED
  BY <1>4, <1>5, <1>7 DEF Sound, Accepted

LEMMA InitializeProtocolSound ==
  ASSUME InterfaceIInv, deploy_initializeProtocol(PROTOCOL_AUTHORITY) \in Offered
  PROVE  Sound(deploy_initializeProtocol(PROTOCOL_AUTHORITY))
<1> DEFINE c == deploy_initializeProtocol(PROTOCOL_AUTHORITY)
<1>1. /\ c.wallet = PROTOCOL_AUTHORITY /\ c.instruction = initializeProtocol
      /\ c.setup = {}
      /\ c.seen = {} /\ c.absent = {protocolPda}
      /\ c.supplied =
           [authority |-> PROTOCOL_AUTHORITY, protocol |-> protocolPda, collateralMint |-> USDC,
            tokenProgram |-> TOKEN, systemProgram |-> SYSTEM]
  BY SameAddresses DEF deploy_initializeProtocol, Unless, Call
<1>2. /\ protocolPda \notin chain /\ PROTOCOL_AUTHORITY \in chain /\ USDC \in chain
      /\ TOKEN \in chain /\ SYSTEM \in chain
  BY <1>1, GenesisFacts, InvariantFacts DEF Offered
<1>3. /\ Derived(c, Protocol) = protocolPda
  BY <1>1, DerivedFrom, VerifiedAddresses DEF Protocol
<1>4. Complete(c) /\ \A a \in Names(c) : accepts(c, a)
  BY <1>1, <1>3, Kinds, Specs DEF Complete, Names, accepts, token_owner, initializeProtocol
<1>5. \A a \in Names(c) : ready(c, a)
  BY <1>1, <1>2 DEF Names, ready, initializeProtocol
<1>6. Added(c) = {protocolPda}
  BY <1>1 DEF Added, initializeProtocol
<1>7. Closed(Added(c))
  BY <1>6, OthersClosed, Labels DEF MarketLabels, protocolPda, findProgramAddress
<1>8. QED
  BY <1>4, <1>5, <1>7 DEF Sound, Accepted

LEMMA InitializeEngineSound ==
  ASSUME InterfaceIInv, deploy_initializeEngine(PROTOCOL_AUTHORITY) \in Offered
  PROVE  Sound(deploy_initializeEngine(PROTOCOL_AUTHORITY))
<1> DEFINE c == deploy_initializeEngine(PROTOCOL_AUTHORITY)
<1>1. /\ c.wallet = PROTOCOL_AUTHORITY /\ c.instruction = initializeEngine
      /\ c.setup = {}
      /\ c.seen = {protocolPda} /\ c.absent = {enginePda}
      /\ c.supplied =
           [authority |-> PROTOCOL_AUTHORITY, protocol |-> protocolPda, engine |-> enginePda,
            systemProgram |-> SYSTEM]
  BY SameAddresses DEF deploy_initializeEngine, Unless, After, Call
<1>2. /\ protocolPda \in chain /\ enginePda \notin chain /\ PROTOCOL_AUTHORITY \in chain
      /\ SYSTEM \in chain
  BY <1>1, GenesisFacts, InvariantFacts DEF Offered
<1>3. /\ Derived(c, Protocol) = protocolPda
      /\ Derived(c, Engine) = enginePda
  BY <1>1, DerivedFrom, VerifiedAddresses DEF Protocol, Engine
<1>4. Complete(c) /\ \A a \in Names(c) : accepts(c, a)
  BY <1>1, <1>3, Specs DEF Complete, Names, accepts, token_owner, initializeEngine
<1>5. \A a \in Names(c) : ready(c, a)
  BY <1>1, <1>2 DEF Names, ready, initializeEngine
<1>6. Added(c) = {enginePda}
  BY <1>1 DEF Added, initializeEngine
<1>7. Closed(Added(c))
  BY <1>6, OthersClosed, Labels DEF MarketLabels, enginePda, findProgramAddress
<1>8. QED
  BY <1>4, <1>5, <1>7 DEF Sound, Accepted

LEMMA RotateVerifiersSound ==
  ASSUME InterfaceIInv, deploy_rotateVerifiers(PROTOCOL_AUTHORITY) \in Offered
  PROVE  Sound(deploy_rotateVerifiers(PROTOCOL_AUTHORITY))
<1> DEFINE c == deploy_rotateVerifiers(PROTOCOL_AUTHORITY)
<1>1. /\ c.wallet = PROTOCOL_AUTHORITY /\ c.instruction = rotateVerifiers
      /\ c.setup = {}
      /\ c.seen = {protocolPda} /\ c.absent = {}
      /\ c.supplied =
           [authority |-> PROTOCOL_AUTHORITY, protocol |-> protocolPda,
            placementVerifier |-> PlacementVerifier, redeemVerifier |-> RedeemVerifier]
  BY SameAddresses DEF deploy_rotateVerifiers, After, Call
<1>2. /\ protocolPda \in chain /\ PROTOCOL_AUTHORITY \in chain /\ PlacementVerifier \in chain
      /\ RedeemVerifier \in chain
  BY <1>1, GenesisFacts, InvariantFacts DEF Offered
<1>3. /\ Derived(c, Protocol) = protocolPda
  BY <1>1, DerivedFrom, VerifiedAddresses DEF Protocol
<1>4. Complete(c) /\ \A a \in Names(c) : accepts(c, a)
  BY <1>1, <1>3, Specs DEF Complete, Names, accepts, token_owner, rotateVerifiers
<1>5. \A a \in Names(c) : ready(c, a)
  BY <1>1, <1>2 DEF Names, ready, rotateVerifiers
<1>6. Added(c) = {}
  BY <1>1 DEF Added, rotateVerifiers
<1>7. Closed(Added(c))
  BY <1>6, OthersClosed, Labels DEF MarketLabels
<1>8. QED
  BY <1>4, <1>5, <1>7 DEF Sound, Accepted

LEMMA SyncVerifiersSound ==
  ASSUME InterfaceIInv, deploy_syncMarketVerifiers(PROTOCOL_AUTHORITY) \in Offered
  PROVE  Sound(deploy_syncMarketVerifiers(PROTOCOL_AUTHORITY))
<1> DEFINE c == deploy_syncMarketVerifiers(PROTOCOL_AUTHORITY)
<1>1. /\ c.wallet = PROTOCOL_AUTHORITY /\ c.instruction = syncMarketVerifiers
      /\ c.setup = {}
      /\ c.seen = {protocolPda, PM} /\ c.absent = {}
      /\ c.supplied =
           [authority |-> PROTOCOL_AUTHORITY, protocol |-> protocolPda, market |-> PM,
            vault |-> vaultPda(PM)]
  BY SameAddresses DEF deploy_syncMarketVerifiers, After, Call
<1>2. /\ protocolPda \in chain /\ PROTOCOL_AUTHORITY \in chain /\ PM \in chain
      /\ vaultPda(PM) \in chain
  BY <1>1, GenesisFacts, InvariantFacts DEF Offered
<1>3. /\ Derived(c, Protocol) = protocolPda
      /\ Derived(c, PoolVault) = vaultPda(PM)
  BY <1>1, DerivedFrom, VerifiedAddresses DEF Protocol, PoolVault
<1>4. Complete(c) /\ \A a \in Names(c) : accepts(c, a)
  BY <1>1, <1>3, Specs DEF Complete, Names, accepts, token_owner, syncMarketVerifiers
<1>5. \A a \in Names(c) : ready(c, a)
  BY <1>1, <1>2 DEF Names, ready, syncMarketVerifiers
<1>6. Added(c) = {}
  BY <1>1 DEF Added, syncMarketVerifiers
<1>7. Closed(Added(c))
  BY <1>6, OthersClosed, Labels DEF MarketLabels
<1>8. QED
  BY <1>4, <1>5, <1>7 DEF Sound, Accepted

LEMMA FormHybridMarketSound ==
  ASSUME InterfaceIInv, createForm_initializeHybridMarket(Creator) \in Offered
  PROVE  Sound(createForm_initializeHybridMarket(Creator))
<1> DEFINE c == createForm_initializeHybridMarket(Creator)
<1>1. /\ c.wallet = Creator /\ c.instruction = initializeHybridMarket
      /\ c.setup = {}
      /\ c.seen = {enginePda, Ata(Creator)} /\ c.absent = {HM}
      /\ c.supplied =
           [creator |-> Creator, marketId |-> Id, engine |-> enginePda, collateralMint |-> USDC,
            creatorToken |-> Ata(Creator), market |-> HM, oracleConfig |-> oracleConfigPda(HM),
            vault |-> hybridVaultPda(HM), tokenProgram |-> TOKEN, systemProgram |-> SYSTEM]
  BY SameAddresses DEF createForm_initializeHybridMarket, Unless, After, Call,
     HybridMarketAccounts
<1>2. /\ enginePda \in chain /\ Ata(Creator) \in chain /\ Creator \in chain /\ USDC \in chain
      /\ HM \notin chain /\ hybridVaultPda(HM) \notin chain
      /\ oracleConfigPda(HM) \notin chain /\ TOKEN \in chain /\ SYSTEM \in chain
  BY <1>1, GenesisFacts, InvariantFacts, WalletsAssumption DEF Offered
<1>3. /\ Derived(c, Engine) = enginePda
      /\ Derived(c, OracleConfig) = oracleConfigPda(HM)
      /\ Derived(c, Vault) = hybridVaultPda(HM)
      /\ Derived(c, Pda("hybrid-market", <<"creator", "marketId">>)) = HM
  BY <1>1, DerivedFrom, VerifiedAddresses DEF Engine, OracleConfig, Vault
<1>4. Complete(c) /\ \A a \in Names(c) : accepts(c, a)
  BY <1>1, <1>3, Kinds, Specs DEF Complete, Names, accepts, token_owner, initializeHybridMarket
<1>5. \A a \in Names(c) : ready(c, a)
  BY <1>1, <1>2 DEF Names, ready, initializeHybridMarket
<1>6. Added(c) = {HM, oracleConfigPda(HM), hybridVaultPda(HM)}
  BY <1>1 DEF Added, initializeHybridMarket
<1>7. Closed(Added(c))
  BY <1>6, Labels DEF Closed
<1>8. QED
  BY <1>4, <1>5, <1>7 DEF Sound, Accepted

LEMMA DeployHybridMarketSound ==
  ASSUME InterfaceIInv, deploy_initializeHybridMarket(Creator) \in Offered
  PROVE  Sound(deploy_initializeHybridMarket(Creator))
<1> DEFINE c == deploy_initializeHybridMarket(Creator)
<1>1. /\ c.wallet = Creator /\ c.instruction = initializeHybridMarket
      /\ c.setup = {Ata(Creator)}
      /\ c.seen = {enginePda, Ata(Creator)} /\ c.absent = {HM}
      /\ c.supplied =
           [creator |-> Creator, marketId |-> Id, engine |-> enginePda, collateralMint |-> USDC,
            creatorToken |-> Ata(Creator), market |-> HM, oracleConfig |-> oracleConfigPda(HM),
            vault |-> hybridVaultPda(HM), tokenProgram |-> TOKEN, systemProgram |-> SYSTEM]
  BY SameAddresses DEF deploy_initializeHybridMarket, Unless, After, Creating, Call,
     HybridMarketAccounts
<1>2. /\ enginePda \in chain /\ Ata(Creator) \in chain /\ Creator \in chain /\ USDC \in chain
      /\ HM \notin chain /\ hybridVaultPda(HM) \notin chain
      /\ oracleConfigPda(HM) \notin chain /\ TOKEN \in chain /\ SYSTEM \in chain
  BY <1>1, GenesisFacts, InvariantFacts, WalletsAssumption DEF Offered
<1>3. /\ Derived(c, Engine) = enginePda
      /\ Derived(c, OracleConfig) = oracleConfigPda(HM)
      /\ Derived(c, Vault) = hybridVaultPda(HM)
      /\ Derived(c, Pda("hybrid-market", <<"creator", "marketId">>)) = HM
  BY <1>1, DerivedFrom, VerifiedAddresses DEF Engine, OracleConfig, Vault
<1>4. Complete(c) /\ \A a \in Names(c) : accepts(c, a)
  BY <1>1, <1>3, Kinds, Specs DEF Complete, Names, accepts, token_owner, initializeHybridMarket
<1>5. \A a \in Names(c) : ready(c, a)
  BY <1>1, <1>2 DEF Names, ready, initializeHybridMarket
<1>6. Added(c) = {Ata(Creator), HM, oracleConfigPda(HM), hybridVaultPda(HM)}
  BY <1>1 DEF Added, initializeHybridMarket
<1>7. Closed(Added(c))
  BY <1>6, Labels DEF Closed
<1>8. QED
  BY <1>4, <1>5, <1>7 DEF Sound, Accepted

LEMMA FormMetadataSound ==
  ASSUME InterfaceIInv, createForm_publishHybridMetadata(Creator) \in Offered
  PROVE  Sound(createForm_publishHybridMetadata(Creator))
<1> DEFINE c == createForm_publishHybridMetadata(Creator)
<1>1. /\ c.wallet = Creator /\ c.instruction = publishHybridMetadata
      /\ c.setup = {}
      /\ c.seen = {HM} /\ c.absent = {hybridMetadataPda(HM)}
      /\ c.supplied =
           [creator |-> Creator, market |-> HM, metadata |-> hybridMetadataPda(HM),
            systemProgram |-> SYSTEM]
  BY SameAddresses DEF createForm_publishHybridMetadata, Unless, After, Call
<1>2. /\ HM \in chain /\ hybridMetadataPda(HM) \notin chain /\ Creator \in chain
      /\ SYSTEM \in chain
  BY <1>1, GenesisFacts, InvariantFacts, WalletsAssumption DEF Offered
<1>3. /\ Derived(c, Pda("hybrid-metadata", <<"market">>)) = hybridMetadataPda(HM)
  BY <1>1, DerivedFrom, VerifiedAddresses
<1>4. Complete(c) /\ \A a \in Names(c) : accepts(c, a)
  BY <1>1, <1>3, Kinds, Specs DEF Complete, Names, accepts, token_owner, publishHybridMetadata
<1>5. \A a \in Names(c) : ready(c, a)
  BY <1>1, <1>2 DEF Names, ready, publishHybridMetadata
<1>6. Added(c) = {hybridMetadataPda(HM)}
  BY <1>1 DEF Added, publishHybridMetadata
<1>7. Closed(Added(c))
  BY <1>6, OthersClosed, Labels DEF MarketLabels, hybridMetadataPda, findProgramAddress
<1>8. QED
  BY <1>4, <1>5, <1>7 DEF Sound, Accepted

LEMMA DeployMetadataSound ==
  ASSUME InterfaceIInv, deploy_publishHybridMetadata(Creator) \in Offered
  PROVE  Sound(deploy_publishHybridMetadata(Creator))
<1> DEFINE c == deploy_publishHybridMetadata(Creator)
<1>1. /\ c.wallet = Creator /\ c.instruction = publishHybridMetadata
      /\ c.setup = {}
      /\ c.seen = {HM} /\ c.absent = {hybridMetadataPda(HM)}
      /\ c.supplied =
           [creator |-> Creator, market |-> HM, metadata |-> hybridMetadataPda(HM),
            systemProgram |-> SYSTEM]
  BY SameAddresses DEF deploy_publishHybridMetadata, Unless, After, Call
<1>2. /\ HM \in chain /\ hybridMetadataPda(HM) \notin chain /\ Creator \in chain
      /\ SYSTEM \in chain
  BY <1>1, GenesisFacts, InvariantFacts, WalletsAssumption DEF Offered
<1>3. /\ Derived(c, Pda("hybrid-metadata", <<"market">>)) = hybridMetadataPda(HM)
  BY <1>1, DerivedFrom, VerifiedAddresses
<1>4. Complete(c) /\ \A a \in Names(c) : accepts(c, a)
  BY <1>1, <1>3, Kinds, Specs DEF Complete, Names, accepts, token_owner, publishHybridMetadata
<1>5. \A a \in Names(c) : ready(c, a)
  BY <1>1, <1>2 DEF Names, ready, publishHybridMetadata
<1>6. Added(c) = {hybridMetadataPda(HM)}
  BY <1>1 DEF Added, publishHybridMetadata
<1>7. Closed(Added(c))
  BY <1>6, OthersClosed, Labels DEF MarketLabels, hybridMetadataPda, findProgramAddress
<1>8. QED
  BY <1>4, <1>5, <1>7 DEF Sound, Accepted

LEMMA PositionSound ==
  ASSUME InterfaceIInv, NEW w \in Wallets, PositionCall(w) \in Offered
  PROVE  Sound(PositionCall(w))
<1> DEFINE c == PositionCall(w)
<1>1. /\ c.wallet = w /\ c.instruction = initializePosition
      /\ c.setup = {}
      /\ c.seen = {HM} /\ c.absent = {positionPda(HM, w)}
      /\ c.supplied =
           [owner |-> w, market |-> HM, position |-> positionPda(HM, w), systemProgram |-> SYSTEM]
  BY DEF PositionCall, Unless, After, Call
<1>2. HM \in chain /\ positionPda(HM, w) \notin chain /\ w \in chain /\ SYSTEM \in chain
  BY <1>1, GenesisFacts, InvariantFacts DEF Offered
<1>3. /\ Derived(c, Position) = positionPda(HM, w)
  BY <1>1, DerivedFrom, VerifiedAddresses DEF Position, positionPda
<1>4. Complete(c) /\ \A a \in Names(c) : accepts(c, a)
  BY <1>1, <1>3, Specs DEF Complete, Names, accepts, token_owner, initializePosition
<1>5. \A a \in Names(c) : ready(c, a)
  BY <1>1, <1>2 DEF Names, ready, initializePosition
<1>6. Added(c) = {positionPda(HM, w)}
  BY <1>1 DEF Added, initializePosition
<1>7. Closed(Added(c))
  BY <1>2, <1>6, Labels DEF Closed
<1>8. QED
  BY <1>4, <1>5, <1>7 DEF Sound, Accepted

\* The first trade creates the position it needs.
LEMMA BuySound ==
  ASSUME InterfaceIInv, NEW w \in Wallets, TradeCall(w, buyHybridShares) \in Offered
  PROVE  Sound(TradeCall(w, buyHybridShares))
<1> DEFINE c == TradeCall(w, buyHybridShares)
<1>1. /\ c.wallet = w /\ c.instruction = buyHybridShares
      /\ c.setup = {Ata(w), Ata(Treasury), Ata(Creator)} \cup
                      IF positionPda(HM, w) \in chain THEN {} ELSE {positionPda(HM, w)}
      /\ c.seen = {HM} /\ c.absent = {}
      /\ c.supplied =
           [owner |-> w, market |-> HM, position |-> positionPda(HM, w), collateralMint |-> USDC,
            ownerToken |-> Ata(w), vault |-> hybridVaultPda(HM), treasuryToken |-> Ata(Treasury),
            liquidityToken |-> Ata(Creator), tokenProgram |-> TOKEN]
  BY DEF TradeCall, After, Creating, Call, TradeAccounts
<1>2. /\ HM \in chain /\ hybridVaultPda(HM) \in chain /\ w \in chain /\ USDC \in chain
      /\ TOKEN \in chain
  BY <1>1, GenesisFacts, InvariantFacts DEF Offered
<1>3. /\ Derived(c, Position) = positionPda(HM, w)
      /\ Derived(c, Vault) = hybridVaultPda(HM)
  BY <1>1, DerivedFrom, VerifiedAddresses DEF Position, Vault, positionPda
<1>4. Complete(c) /\ \A a \in Names(c) : accepts(c, a)
  <2>1. Names(c) =
          {"owner", "market", "position", "collateralMint", "ownerToken", "vault",
           "treasuryToken", "liquidityToken", "tokenProgram"}
    BY <1>1 DEF Names, buyHybridShares
  <2>2. Complete(c)
    BY <1>1, <2>1 DEF Complete
  <2>3. /\ accepts(c, "owner")
        /\ accepts(c, "market")
        /\ accepts(c, "tokenProgram")
    BY <1>1, Specs DEF accepts, token_owner, buyHybridShares
  <2>4. /\ accepts(c, "position")
        /\ accepts(c, "vault")
    BY <1>1, <1>3, Specs DEF accepts, token_owner, buyHybridShares
  <2>5. /\ accepts(c, "collateralMint")
        /\ accepts(c, "ownerToken")
    BY <1>1, Specs DEF accepts, token_owner, buyHybridShares
  <2>6. /\ accepts(c, "treasuryToken")
        /\ accepts(c, "liquidityToken")
    BY <1>1, Specs DEF accepts, token_owner, buyHybridShares
  <2>7. QED
    BY <2>1, <2>2, <2>3, <2>4, <2>5, <2>6
<1>5. \A a \in Names(c) : ready(c, a)
  BY <1>1, <1>2 DEF Names, ready, buyHybridShares
<1>6. Added(c) = c.setup
  BY <1>1 DEF Added, buyHybridShares
<1>7. Closed(Added(c))
  BY <1>1, <1>2, <1>6, Labels DEF Closed
<1>8. QED
  BY <1>4, <1>5, <1>7 DEF Sound, Accepted

LEMMA SellSound ==
  ASSUME InterfaceIInv, NEW w \in Wallets, TradeCall(w, sellHybridShares) \in Offered
  PROVE  Sound(TradeCall(w, sellHybridShares))
<1> DEFINE c == TradeCall(w, sellHybridShares)
<1>1. /\ c.wallet = w /\ c.instruction = sellHybridShares
      /\ c.setup = {Ata(w), Ata(Treasury), Ata(Creator)} \cup
                      IF positionPda(HM, w) \in chain THEN {} ELSE {positionPda(HM, w)}
      /\ c.seen = {HM} /\ c.absent = {}
      /\ c.supplied =
           [owner |-> w, market |-> HM, position |-> positionPda(HM, w), collateralMint |-> USDC,
            ownerToken |-> Ata(w), vault |-> hybridVaultPda(HM), treasuryToken |-> Ata(Treasury),
            liquidityToken |-> Ata(Creator), tokenProgram |-> TOKEN]
  BY DEF TradeCall, After, Creating, Call, TradeAccounts
<1>2. /\ HM \in chain /\ hybridVaultPda(HM) \in chain /\ w \in chain /\ USDC \in chain
      /\ TOKEN \in chain
  BY <1>1, GenesisFacts, InvariantFacts DEF Offered
<1>3. /\ Derived(c, Position) = positionPda(HM, w)
      /\ Derived(c, Vault) = hybridVaultPda(HM)
  BY <1>1, DerivedFrom, VerifiedAddresses DEF Position, Vault, positionPda
<1>4. Complete(c) /\ \A a \in Names(c) : accepts(c, a)
  <2>1. Names(c) =
          {"owner", "market", "position", "collateralMint", "ownerToken", "vault",
           "treasuryToken", "liquidityToken", "tokenProgram"}
    BY <1>1 DEF Names, sellHybridShares
  <2>2. Complete(c)
    BY <1>1, <2>1 DEF Complete
  <2>3. /\ accepts(c, "owner")
        /\ accepts(c, "market")
        /\ accepts(c, "tokenProgram")
    BY <1>1, Specs DEF accepts, token_owner, sellHybridShares
  <2>4. /\ accepts(c, "position")
        /\ accepts(c, "vault")
    BY <1>1, <1>3, Specs DEF accepts, token_owner, sellHybridShares
  <2>5. /\ accepts(c, "collateralMint")
        /\ accepts(c, "ownerToken")
    BY <1>1, Specs DEF accepts, token_owner, sellHybridShares
  <2>6. /\ accepts(c, "treasuryToken")
        /\ accepts(c, "liquidityToken")
    BY <1>1, Specs DEF accepts, token_owner, sellHybridShares
  <2>7. QED
    BY <2>1, <2>2, <2>3, <2>4, <2>5, <2>6
<1>5. \A a \in Names(c) : ready(c, a)
  BY <1>1, <1>2 DEF Names, ready, sellHybridShares
<1>6. Added(c) = c.setup
  BY <1>1 DEF Added, sellHybridShares
<1>7. Closed(Added(c))
  BY <1>1, <1>2, <1>6, Labels DEF Closed
<1>8. QED
  BY <1>4, <1>5, <1>7 DEF Sound, Accepted

\* The portfolio settles the positions its scan has found.
LEMMA SettleSound ==
  ASSUME InterfaceIInv, NEW w \in Wallets, positionPda(HM, w) \in chain,
         SettleCall(w, positionPda(HM, w)) \in Offered
  PROVE  Sound(SettleCall(w, positionPda(HM, w)))
<1> DEFINE c == SettleCall(w, positionPda(HM, w))
<1>1. /\ c.wallet = w /\ c.instruction = settleHybridPosition
      /\ c.setup = {Ata(w)}
      /\ c.seen = {HybridReceipt} /\ c.absent = {}
      /\ c.supplied =
           [owner |-> w, market |-> HM, position |-> positionPda(HM, w), collateralMint |-> USDC,
            vault |-> hybridVaultPda(HM), ownerToken |-> Ata(w), tokenProgram |-> TOKEN]
  BY DEF SettleCall, After, Creating, Call
<1>2. /\ HM \in chain /\ hybridVaultPda(HM) \in chain /\ positionPda(HM, w) \in chain
      /\ w \in chain /\ USDC \in chain /\ TOKEN \in chain
  BY <1>1, GenesisFacts, InvariantFacts DEF Offered
<1>3. /\ Derived(c, Position) = positionPda(HM, w)
      /\ Derived(c, Vault) = hybridVaultPda(HM)
  BY <1>1, DerivedFrom, VerifiedAddresses DEF Position, Vault, positionPda
<1>4. Complete(c) /\ \A a \in Names(c) : accepts(c, a)
  BY <1>1, <1>3, Specs DEF Complete, Names, accepts, token_owner, settleHybridPosition
<1>5. \A a \in Names(c) : ready(c, a)
  BY <1>1, <1>2 DEF Names, ready, settleHybridPosition
<1>6. Added(c) = {Ata(w)}
  BY <1>1 DEF Added, settleHybridPosition
<1>7. Closed(Added(c))
  BY <1>6, OthersClosed, Labels DEF MarketLabels
<1>8. QED
  BY <1>4, <1>5, <1>7 DEF Sound, Accepted

\* The script looks for the position first.
LEMMA DeploySettleSound ==
  ASSUME InterfaceIInv, NEW w \in Wallets, deploy_settle(w) \in Offered
  PROVE  Sound(deploy_settle(w))
<1> DEFINE c == deploy_settle(w)
<1>1. /\ c.wallet = w /\ c.instruction = settleHybridPosition
      /\ c.setup = {Ata(w)}
      /\ c.seen = {HybridReceipt, positionPda(HM, w)} /\ c.absent = {}
      /\ c.supplied =
           [owner |-> w, market |-> HM, position |-> positionPda(HM, w), collateralMint |-> USDC,
            vault |-> hybridVaultPda(HM), ownerToken |-> Ata(w), tokenProgram |-> TOKEN]
  BY DEF deploy_settle, SettleCall, After, Creating, Call
<1>2. /\ HM \in chain /\ hybridVaultPda(HM) \in chain /\ positionPda(HM, w) \in chain
      /\ w \in chain /\ USDC \in chain /\ TOKEN \in chain
  BY <1>1, GenesisFacts, InvariantFacts DEF Offered
<1>3. /\ Derived(c, Position) = positionPda(HM, w)
      /\ Derived(c, Vault) = hybridVaultPda(HM)
  BY <1>1, DerivedFrom, VerifiedAddresses DEF Position, Vault, positionPda
<1>4. Complete(c) /\ \A a \in Names(c) : accepts(c, a)
  BY <1>1, <1>3, Specs DEF Complete, Names, accepts, token_owner, settleHybridPosition
<1>5. \A a \in Names(c) : ready(c, a)
  BY <1>1, <1>2 DEF Names, ready, settleHybridPosition
<1>6. Added(c) = {Ata(w)}
  BY <1>1 DEF Added, settleHybridPosition
<1>7. Closed(Added(c))
  BY <1>6, OthersClosed, Labels DEF MarketLabels
<1>8. QED
  BY <1>4, <1>5, <1>7 DEF Sound, Accepted

LEMMA WithdrawSound ==
  ASSUME InterfaceIInv, WithdrawCall(Creator) \in Offered
  PROVE  Sound(WithdrawCall(Creator))
<1> DEFINE c == WithdrawCall(Creator)
<1>1. /\ c.wallet = Creator /\ c.instruction = withdrawHybridLiquidity
      /\ c.setup = {Ata(Creator)}
      /\ c.seen = {HybridReceipt} /\ c.absent = {}
      /\ c.supplied =
           [liquidityOwner |-> Creator, market |-> HM, collateralMint |-> USDC,
            vault |-> hybridVaultPda(HM), liquidityToken |-> Ata(Creator), tokenProgram |-> TOKEN]
  BY DEF WithdrawCall, After, Creating, Call
<1>2. /\ HM \in chain /\ hybridVaultPda(HM) \in chain /\ Creator \in chain /\ USDC \in chain
      /\ TOKEN \in chain
  BY <1>1, GenesisFacts, InvariantFacts, WalletsAssumption DEF Offered
<1>3. /\ Derived(c, Vault) = hybridVaultPda(HM)
  BY <1>1, DerivedFrom, VerifiedAddresses DEF Vault
<1>4. Complete(c) /\ \A a \in Names(c) : accepts(c, a)
  BY <1>1, <1>3, Specs DEF Complete, Names, accepts, token_owner, withdrawHybridLiquidity
<1>5. \A a \in Names(c) : ready(c, a)
  BY <1>1, <1>2 DEF Names, ready, withdrawHybridLiquidity
<1>6. Added(c) = {Ata(Creator)}
  BY <1>1 DEF Added, withdrawHybridLiquidity
<1>7. Closed(Added(c))
  BY <1>6, OthersClosed, Labels DEF MarketLabels
<1>8. QED
  BY <1>4, <1>5, <1>7 DEF Sound, Accepted

LEMMA LockSound ==
  ASSUME InterfaceIInv, NEW w \in Wallets, keeper_lock(w) \in Offered
  PROVE  Sound(keeper_lock(w))
<1> DEFINE c == keeper_lock(w)
<1>1. /\ c.wallet = w /\ c.instruction = lockHybridMarket
      /\ c.setup = {}
      /\ c.seen = {HM} /\ c.absent = {}
      /\ c.supplied =
           [market |-> HM]
  BY DEF keeper_lock, After, Call
<1>2. HM \in chain
  BY <1>1 DEF Offered
<1>3. Complete(c) /\ \A a \in Names(c) : accepts(c, a)
  BY <1>1, Specs DEF Complete, Names, accepts, token_owner, lockHybridMarket
<1>4. \A a \in Names(c) : ready(c, a)
  BY <1>1, <1>2 DEF Names, ready, lockHybridMarket
<1>5. Added(c) = {}
  BY <1>1 DEF Added, lockHybridMarket
<1>6. Closed(Added(c))
  BY <1>5, OthersClosed, Labels DEF MarketLabels
<1>7. QED
  BY <1>3, <1>4, <1>6 DEF Sound, Accepted

LEMMA TimeoutSound ==
  ASSUME InterfaceIInv, NEW w \in Wallets, keeper_timeout(w) \in Offered
  PROVE  Sound(keeper_timeout(w))
<1> DEFINE c == keeper_timeout(w)
<1>1. /\ c.wallet = w /\ c.instruction = resolveHybridTimeout
      /\ c.setup = {}
      /\ c.seen = {HM} /\ c.absent = {HybridReceipt}
      /\ c.supplied =
           [keeper |-> w, market |-> HM, oracleConfig |-> oracleConfigPda(HM),
            receipt |-> HybridReceipt, vault |-> hybridVaultPda(HM), systemProgram |-> SYSTEM]
  BY SameAddresses DEF keeper_timeout, Resolving, Unless, After, Call, Resolution
<1>2. /\ HM \in chain /\ hybridVaultPda(HM) \in chain /\ oracleConfigPda(HM) \in chain
      /\ HybridReceipt \notin chain /\ w \in chain /\ SYSTEM \in chain
  BY <1>1, GenesisFacts, InvariantFacts DEF Offered
<1>3. /\ Derived(c, OracleConfig) = oracleConfigPda(HM)
      /\ Derived(c, Receipt) = HybridReceipt
      /\ Derived(c, Vault) = hybridVaultPda(HM)
  BY <1>1, DerivedFrom, VerifiedAddresses DEF OracleConfig, Receipt, Vault
<1>4. Complete(c) /\ \A a \in Names(c) : accepts(c, a)
  BY <1>1, <1>3, Specs DEF Complete, Names, accepts, token_owner, resolveHybridTimeout
<1>5. \A a \in Names(c) : ready(c, a)
  BY <1>1, <1>2 DEF Names, ready, resolveHybridTimeout
<1>6. Added(c) = {HybridReceipt}
  BY <1>1 DEF Added, resolveHybridTimeout
<1>7. Closed(Added(c))
  BY <1>2, <1>6, Labels DEF Closed
<1>8. QED
  BY <1>4, <1>5, <1>7 DEF Sound, Accepted

LEMMA TxlineSound ==
  ASSUME InterfaceIInv, NEW w \in Wallets, resolveTxline(w) \in Offered
  PROVE  Sound(resolveTxline(w))
<1> DEFINE c == resolveTxline(w)
<1>1. /\ c.wallet = w /\ c.instruction = resolveHybridWithTxline
      /\ c.setup = {}
      /\ c.seen = {HM} /\ c.absent = {HybridReceipt}
      /\ c.supplied =
           [keeper |-> w, market |-> HM, oracleConfig |-> oracleConfigPda(HM),
            receipt |-> HybridReceipt, vault |-> hybridVaultPda(HM), systemProgram |-> SYSTEM,
            dailyScoresMerkleRoots |-> dailyScoresRoot,
            txlineProgram |-> TXLINE_PROGRAM]
  BY SameAddresses DEF resolveTxline, Resolving, Unless, After, Call, With, Resolution
<1>2. /\ HM \in chain /\ hybridVaultPda(HM) \in chain /\ oracleConfigPda(HM) \in chain
      /\ HybridReceipt \notin chain /\ w \in chain /\ SYSTEM \in chain
      /\ dailyScoresRoot \in chain /\ TXLINE_PROGRAM \in chain
  BY <1>1, GenesisFacts, InvariantFacts DEF Offered
<1>3. /\ Derived(c, OracleConfig) = oracleConfigPda(HM)
      /\ Derived(c, Receipt) = HybridReceipt
      /\ Derived(c, Vault) = hybridVaultPda(HM)
  BY <1>1, DerivedFrom, VerifiedAddresses DEF OracleConfig, Receipt, Vault
<1>4. Complete(c) /\ \A a \in Names(c) : accepts(c, a)
  BY <1>1, <1>3, Specs DEF Complete, Names, accepts, token_owner, resolveHybridWithTxline
<1>5. \A a \in Names(c) : ready(c, a)
  BY <1>1, <1>2 DEF Names, ready, resolveHybridWithTxline
<1>6. Added(c) = {HybridReceipt}
  BY <1>1 DEF Added, resolveHybridWithTxline
<1>7. Closed(Added(c))
  BY <1>2, <1>6, Labels DEF Closed
<1>8. QED
  BY <1>4, <1>5, <1>7 DEF Sound, Accepted

\* From the pushed feed or from an update posted for the resolution.
LEMMA PythSound ==
  ASSUME InterfaceIInv, NEW w \in Wallets, NEW update, update \in chain,
         Resolving(w, resolveHybridWithPyth, With(Resolution(w), "priceUpdate", update)) \in Offered
  PROVE  Sound(Resolving(w, resolveHybridWithPyth, With(Resolution(w), "priceUpdate", update)))
<1> DEFINE c == Resolving(w, resolveHybridWithPyth, With(Resolution(w), "priceUpdate", update))
<1>1. /\ c.wallet = w /\ c.instruction = resolveHybridWithPyth
      /\ c.setup = {}
      /\ c.seen = {HM} /\ c.absent = {HybridReceipt}
      /\ c.supplied =
           [keeper |-> w, market |-> HM, oracleConfig |-> oracleConfigPda(HM),
            receipt |-> HybridReceipt, vault |-> hybridVaultPda(HM), systemProgram |-> SYSTEM,
            priceUpdate |-> update]
  BY SameAddresses DEF Resolving, Unless, After, Call, With, Resolution
<1>2. /\ HM \in chain /\ hybridVaultPda(HM) \in chain /\ oracleConfigPda(HM) \in chain
      /\ HybridReceipt \notin chain /\ w \in chain /\ SYSTEM \in chain /\ update \in chain
  BY <1>1, GenesisFacts, InvariantFacts DEF Offered
<1>3. /\ Derived(c, OracleConfig) = oracleConfigPda(HM)
      /\ Derived(c, Receipt) = HybridReceipt
      /\ Derived(c, Vault) = hybridVaultPda(HM)
  BY <1>1, DerivedFrom, VerifiedAddresses DEF OracleConfig, Receipt, Vault
<1>4. Complete(c) /\ \A a \in Names(c) : accepts(c, a)
  <2>1. Names(c) =
          {"keeper", "market", "oracleConfig", "receipt", "vault", "systemProgram", "priceUpdate"}
    BY <1>1 DEF Names, resolveHybridWithPyth
  <2>2. Complete(c)
    BY <1>1, <2>1 DEF Complete
  <2>3. /\ accepts(c, "keeper")
        /\ accepts(c, "market")
        /\ accepts(c, "systemProgram")
        /\ accepts(c, "priceUpdate")
    BY <1>1, Specs DEF accepts, token_owner, resolveHybridWithPyth
  <2>4. /\ accepts(c, "oracleConfig")
        /\ accepts(c, "receipt")
        /\ accepts(c, "vault")
    BY <1>1, <1>3, Specs DEF accepts, token_owner, resolveHybridWithPyth
  <2>5. QED
    BY <2>1, <2>2, <2>3, <2>4
<1>5. \A a \in Names(c) : ready(c, a)
  BY <1>1, <1>2 DEF Names, ready, resolveHybridWithPyth
<1>6. Added(c) = {HybridReceipt}
  BY <1>1 DEF Added, resolveHybridWithPyth
<1>7. Closed(Added(c))
  BY <1>2, <1>6, Labels DEF Closed
<1>8. QED
  BY <1>4, <1>5, <1>7 DEF Sound, Accepted

LEMMA StorkSound ==
  ASSUME InterfaceIInv, NEW w \in Wallets, resolveStorkHybridMarket(w) \in Offered
  PROVE  Sound(resolveStorkHybridMarket(w))
<1> DEFINE c == resolveStorkHybridMarket(w)
<1>1. /\ c.wallet = w /\ c.instruction = resolveHybridWithStork
      /\ c.setup = {}
      /\ c.seen = {HM} /\ c.absent = {HybridReceipt}
      /\ c.supplied =
           [keeper |-> w, market |-> HM, oracleConfig |-> oracleConfigPda(HM),
            receipt |-> HybridReceipt, vault |-> hybridVaultPda(HM), systemProgram |-> SYSTEM,
            feedAccount |-> storkFeedAccount]
  BY SameAddresses DEF resolveStorkHybridMarket, Resolving, Unless, After, Call, With, Resolution
<1>2. /\ HM \in chain /\ hybridVaultPda(HM) \in chain /\ oracleConfigPda(HM) \in chain
      /\ HybridReceipt \notin chain /\ w \in chain /\ SYSTEM \in chain
      /\ storkFeedAccount \in chain
  BY <1>1, GenesisFacts, InvariantFacts DEF Offered
<1>3. /\ Derived(c, OracleConfig) = oracleConfigPda(HM)
      /\ Derived(c, Receipt) = HybridReceipt
      /\ Derived(c, Vault) = hybridVaultPda(HM)
  BY <1>1, DerivedFrom, VerifiedAddresses DEF OracleConfig, Receipt, Vault
<1>4. Complete(c) /\ \A a \in Names(c) : accepts(c, a)
  BY <1>1, <1>3, Specs DEF Complete, Names, accepts, token_owner, resolveHybridWithStork
<1>5. \A a \in Names(c) : ready(c, a)
  BY <1>1, <1>2 DEF Names, ready, resolveHybridWithStork
<1>6. Added(c) = {HybridReceipt}
  BY <1>1 DEF Added, resolveHybridWithStork
<1>7. Closed(Added(c))
  BY <1>2, <1>6, Labels DEF Closed
<1>8. QED
  BY <1>4, <1>5, <1>7 DEF Sound, Accepted

LEMMA SwitchboardSound ==
  ASSUME InterfaceIInv, NEW w \in Wallets, resolveSwitchboardHybridMarket(w) \in Offered
  PROVE  Sound(resolveSwitchboardHybridMarket(w))
<1> DEFINE c == resolveSwitchboardHybridMarket(w)
<1>1. /\ c.wallet = w /\ c.instruction = resolveHybridWithSwitchboard
      /\ c.setup = {}
      /\ c.seen = {HM} /\ c.absent = {HybridReceipt}
      /\ c.supplied =
           [keeper |-> w, market |-> HM, oracleConfig |-> oracleConfigPda(HM),
            receipt |-> HybridReceipt, vault |-> hybridVaultPda(HM), systemProgram |-> SYSTEM,
            quoteAccount |-> switchboardQuoteAccount]
  BY SameAddresses DEF resolveSwitchboardHybridMarket, Resolving, Unless, After, Call, With,
     Resolution
<1>2. /\ HM \in chain /\ hybridVaultPda(HM) \in chain /\ oracleConfigPda(HM) \in chain
      /\ HybridReceipt \notin chain /\ w \in chain /\ SYSTEM \in chain
      /\ switchboardQuoteAccount \in chain
  BY <1>1, GenesisFacts, InvariantFacts DEF Offered
<1>3. /\ Derived(c, OracleConfig) = oracleConfigPda(HM)
      /\ Derived(c, Receipt) = HybridReceipt
      /\ Derived(c, Vault) = hybridVaultPda(HM)
  BY <1>1, DerivedFrom, VerifiedAddresses DEF OracleConfig, Receipt, Vault
<1>4. Complete(c) /\ \A a \in Names(c) : accepts(c, a)
  BY <1>1, <1>3, Specs DEF Complete, Names, accepts, token_owner, resolveHybridWithSwitchboard
<1>5. \A a \in Names(c) : ready(c, a)
  BY <1>1, <1>2 DEF Names, ready, resolveHybridWithSwitchboard
<1>6. Added(c) = {HybridReceipt}
  BY <1>1 DEF Added, resolveHybridWithSwitchboard
<1>7. Closed(Added(c))
  BY <1>2, <1>6, Labels DEF Closed
<1>8. QED
  BY <1>4, <1>5, <1>7 DEF Sound, Accepted

LEMMA FinalizeSound ==
  ASSUME InterfaceIInv, NEW w \in Wallets,
         Disputing(w, finalizeOptimisticResolution) \in Offered
  PROVE  Sound(Disputing(w, finalizeOptimisticResolution))
<1> DEFINE c == Disputing(w, finalizeOptimisticResolution)
<1>1. /\ c.wallet = w /\ c.instruction = finalizeOptimisticResolution
      /\ c.setup = {}
      /\ c.seen = {HM, HybridProposal} /\ c.absent = {HybridReceipt}
      /\ c.supplied =
           [keeper |-> w, market |-> HM, oracleConfig |-> oracleConfigPda(HM),
            receipt |-> HybridReceipt, vault |-> hybridVaultPda(HM), systemProgram |-> SYSTEM,
            proposal |-> HybridProposal]
  BY SameAddresses DEF Disputing, Unless, After, Call, With, Resolution
<1>2. /\ HM \in chain /\ hybridVaultPda(HM) \in chain /\ oracleConfigPda(HM) \in chain
      /\ HybridReceipt \notin chain /\ w \in chain /\ SYSTEM \in chain
      /\ HybridProposal \in chain
  BY <1>1, GenesisFacts, InvariantFacts DEF Offered
<1>3. /\ Derived(c, OracleConfig) = oracleConfigPda(HM)
      /\ Derived(c, Receipt) = HybridReceipt
      /\ Derived(c, Vault) = hybridVaultPda(HM)
      /\ Derived(c, Proposal) = HybridProposal
  BY <1>1, DerivedFrom, VerifiedAddresses DEF OracleConfig, Receipt, Vault, Proposal
<1>4. Complete(c) /\ \A a \in Names(c) : accepts(c, a)
  <2>1. Names(c) =
          {"keeper", "market", "oracleConfig", "proposal", "receipt", "vault",
           "systemProgram"}
    BY <1>1 DEF Names, finalizeOptimisticResolution
  <2>2. Complete(c)
    BY <1>1, <2>1 DEF Complete
  <2>3. /\ accepts(c, "keeper")
        /\ accepts(c, "market")
        /\ accepts(c, "systemProgram")
    BY <1>1, Specs DEF accepts, token_owner, finalizeOptimisticResolution
  <2>4. /\ accepts(c, "oracleConfig")
        /\ accepts(c, "proposal")
        /\ accepts(c, "receipt")
        /\ accepts(c, "vault")
    BY <1>1, <1>3, Specs DEF accepts, token_owner, finalizeOptimisticResolution
  <2>5. QED
    BY <2>1, <2>2, <2>3, <2>4
<1>5. \A a \in Names(c) : ready(c, a)
  BY <1>1, <1>2 DEF Names, ready, finalizeOptimisticResolution
<1>6. Added(c) = {HybridReceipt}
  BY <1>1 DEF Added, finalizeOptimisticResolution
<1>7. Closed(Added(c))
  BY <1>2, <1>6, Labels DEF Closed
<1>8. QED
  BY <1>4, <1>5, <1>7 DEF Sound, Accepted

LEMMA TimeoutDisputeSound ==
  ASSUME InterfaceIInv, NEW w \in Wallets, Disputing(w, timeoutOptimisticDispute) \in Offered
  PROVE  Sound(Disputing(w, timeoutOptimisticDispute))
<1> DEFINE c == Disputing(w, timeoutOptimisticDispute)
<1>1. /\ c.wallet = w /\ c.instruction = timeoutOptimisticDispute
      /\ c.setup = {}
      /\ c.seen = {HM, HybridProposal} /\ c.absent = {HybridReceipt}
      /\ c.supplied =
           [keeper |-> w, market |-> HM, oracleConfig |-> oracleConfigPda(HM),
            receipt |-> HybridReceipt, vault |-> hybridVaultPda(HM), systemProgram |-> SYSTEM,
            proposal |-> HybridProposal]
  BY SameAddresses DEF Disputing, Unless, After, Call, With, Resolution
<1>2. /\ HM \in chain /\ hybridVaultPda(HM) \in chain /\ oracleConfigPda(HM) \in chain
      /\ HybridReceipt \notin chain /\ w \in chain /\ SYSTEM \in chain
      /\ HybridProposal \in chain
  BY <1>1, GenesisFacts, InvariantFacts DEF Offered
<1>3. /\ Derived(c, OracleConfig) = oracleConfigPda(HM)
      /\ Derived(c, Receipt) = HybridReceipt
      /\ Derived(c, Vault) = hybridVaultPda(HM)
      /\ Derived(c, Proposal) = HybridProposal
  BY <1>1, DerivedFrom, VerifiedAddresses DEF OracleConfig, Receipt, Vault, Proposal
<1>4. Complete(c) /\ \A a \in Names(c) : accepts(c, a)
  <2>1. Names(c) =
          {"keeper", "market", "oracleConfig", "proposal", "receipt", "vault",
           "systemProgram"}
    BY <1>1 DEF Names, timeoutOptimisticDispute
  <2>2. Complete(c)
    BY <1>1, <2>1 DEF Complete
  <2>3. /\ accepts(c, "keeper")
        /\ accepts(c, "market")
        /\ accepts(c, "systemProgram")
    BY <1>1, Specs DEF accepts, token_owner, timeoutOptimisticDispute
  <2>4. /\ accepts(c, "oracleConfig")
        /\ accepts(c, "proposal")
        /\ accepts(c, "receipt")
        /\ accepts(c, "vault")
    BY <1>1, <1>3, Specs DEF accepts, token_owner, timeoutOptimisticDispute
  <2>5. QED
    BY <2>1, <2>2, <2>3, <2>4
<1>5. \A a \in Names(c) : ready(c, a)
  BY <1>1, <1>2 DEF Names, ready, timeoutOptimisticDispute
<1>6. Added(c) = {HybridReceipt}
  BY <1>1 DEF Added, timeoutOptimisticDispute
<1>7. Closed(Added(c))
  BY <1>2, <1>6, Labels DEF Closed
<1>8. QED
  BY <1>4, <1>5, <1>7 DEF Sound, Accepted

LEMMA ProposeSound ==
  ASSUME InterfaceIInv, NEW w \in Wallets, panel_propose(w) \in Offered
  PROVE  Sound(panel_propose(w))
<1> DEFINE c == panel_propose(w)
<1>1. /\ c.wallet = w /\ c.instruction = proposeOptimisticResolution
      /\ c.setup = {Ata(w)}
      /\ c.seen = {HM} /\ c.absent = {HybridProposal, HybridReceipt}
      /\ c.supplied =
           [proposer |-> w, market |-> HM, oracleConfig |-> oracleConfigPda(HM),
            proposal |-> HybridProposal, bondVault |-> optimisticBondVaultPda(HM),
            collateralMint |-> USDC, proposerToken |-> Ata(w), tokenProgram |-> TOKEN,
            systemProgram |-> SYSTEM]
  BY SameAddresses DEF panel_propose, Unless, After, Creating, Call
<1>2. /\ HM \in chain /\ oracleConfigPda(HM) \in chain /\ HybridProposal \notin chain
      /\ optimisticBondVaultPda(HM) \notin chain /\ w \in chain /\ USDC \in chain
      /\ TOKEN \in chain /\ SYSTEM \in chain
  BY <1>1, GenesisFacts, InvariantFacts DEF Offered
<1>3. /\ Derived(c, OracleConfig) = oracleConfigPda(HM)
      /\ Derived(c, Proposal) = HybridProposal
      /\ Derived(c, BondVault) = optimisticBondVaultPda(HM)
  BY <1>1, DerivedFrom, VerifiedAddresses DEF OracleConfig, Proposal, BondVault
<1>4. Complete(c) /\ \A a \in Names(c) : accepts(c, a)
  BY <1>1, <1>3, Specs DEF Complete, Names, accepts, token_owner, proposeOptimisticResolution
<1>5. \A a \in Names(c) : ready(c, a)
  BY <1>1, <1>2 DEF Names, ready, proposeOptimisticResolution
<1>6. Added(c) = {Ata(w), HybridProposal, optimisticBondVaultPda(HM)}
  BY <1>1 DEF Added, proposeOptimisticResolution
<1>7. Closed(Added(c))
  BY <1>2, <1>6, Labels DEF Closed
<1>8. QED
  BY <1>4, <1>5, <1>7 DEF Sound, Accepted

LEMMA ChallengeSound ==
  ASSUME InterfaceIInv, NEW w \in Wallets, panel_challenge(w) \in Offered
  PROVE  Sound(panel_challenge(w))
<1> DEFINE c == panel_challenge(w)
<1>1. /\ c.wallet = w /\ c.instruction = challengeOptimisticResolution
      /\ c.setup = {Ata(w)}
      /\ c.seen = {HybridProposal} /\ c.absent = {HybridReceipt}
      /\ c.supplied =
           [challenger |-> w, market |-> HM, oracleConfig |-> oracleConfigPda(HM),
            proposal |-> HybridProposal, bondVault |-> optimisticBondVaultPda(HM),
            collateralMint |-> USDC, challengerToken |-> Ata(w), tokenProgram |-> TOKEN]
  BY SameAddresses DEF panel_challenge, Unless, After, Creating, Call
<1>2. /\ HM \in chain /\ oracleConfigPda(HM) \in chain /\ HybridProposal \in chain
      /\ optimisticBondVaultPda(HM) \in chain /\ w \in chain /\ USDC \in chain
      /\ TOKEN \in chain
  BY <1>1, GenesisFacts, InvariantFacts DEF Offered
<1>3. /\ Derived(c, OracleConfig) = oracleConfigPda(HM)
      /\ Derived(c, Proposal) = HybridProposal
      /\ Derived(c, BondVault) = optimisticBondVaultPda(HM)
  BY <1>1, DerivedFrom, VerifiedAddresses DEF OracleConfig, Proposal, BondVault
<1>4. Complete(c) /\ \A a \in Names(c) : accepts(c, a)
  BY <1>1, <1>3, Specs DEF Complete, Names, accepts, token_owner, challengeOptimisticResolution
<1>5. \A a \in Names(c) : ready(c, a)
  BY <1>1, <1>2 DEF Names, ready, challengeOptimisticResolution
<1>6. Added(c) = {Ata(w)}
  BY <1>1 DEF Added, challengeOptimisticResolution
<1>7. Closed(Added(c))
  BY <1>6, OthersClosed, Labels DEF MarketLabels
<1>8. QED
  BY <1>4, <1>5, <1>7 DEF Sound, Accepted

LEMMA ClaimSound ==
  ASSUME InterfaceIInv, NEW w \in Wallets, panel_claim(w) \in Offered
  PROVE  Sound(panel_claim(w))
<1> DEFINE c == panel_claim(w)
<1>1. /\ c.wallet = w /\ c.instruction = claimOptimisticBond
      /\ c.setup = {Ata(w)}
      /\ c.seen = {HybridProposal, HybridReceipt} /\ c.absent = {}
      /\ c.supplied =
           [claimant |-> w, market |-> HM, proposal |-> HybridProposal,
            bondVault |-> optimisticBondVaultPda(HM), collateralMint |-> USDC,
            destination |-> Ata(w), tokenProgram |-> TOKEN]
  BY SameAddresses DEF panel_claim, After, Creating, Call
<1>2. /\ HM \in chain /\ HybridProposal \in chain /\ optimisticBondVaultPda(HM) \in chain
      /\ w \in chain /\ USDC \in chain /\ TOKEN \in chain
  BY <1>1, GenesisFacts, InvariantFacts DEF Offered
<1>3. /\ Derived(c, Proposal) = HybridProposal
      /\ Derived(c, BondVault) = optimisticBondVaultPda(HM)
  BY <1>1, DerivedFrom, VerifiedAddresses DEF Proposal, BondVault
<1>4. Complete(c) /\ \A a \in Names(c) : accepts(c, a)
  BY <1>1, <1>3, Specs DEF Complete, Names, accepts, token_owner, claimOptimisticBond
<1>5. \A a \in Names(c) : ready(c, a)
  BY <1>1, <1>2 DEF Names, ready, claimOptimisticBond
<1>6. Added(c) = {Ata(w)}
  BY <1>1 DEF Added, claimOptimisticBond
<1>7. Closed(Added(c))
  BY <1>6, OthersClosed, Labels DEF MarketLabels
<1>8. QED
  BY <1>4, <1>5, <1>7 DEF Sound, Accepted

-----------------------------------------------------------------------------
(* The scans: the offset a client filters by is that of the field it means. *)

LEMMA PositionOffsets ==
  FieldOffset(position_layout, 3) = 10 /\ FieldOffset(position_layout, 4) = 42
<1> DEFINE width == [i \in 1..4 |-> position_layout[i].width]
<1> DEFINE sums(f) == f = [n \in 0..4 |-> IF n = 0 THEN 8 ELSE f[n - 1] + width[n]]
<1> DEFINE before == CHOOSE f : sums(f)
<1>1. Len(position_layout) = 4 /\ width[1] = 1 /\ width[2] = 1 /\ width[3] = 32 /\ width[4] = 32
  BY DEF position_layout
<1>2. \A i \in 1..4 : FieldOffset(position_layout, i) = before[i - 1]
  BY <1>1 DEF FieldOffset
<1> HIDE DEF width
<1>3. sums([n \in 0..4 |-> <<8, 9, 10, 42, 74>>[n + 1]])
  BY <1>1
<1>4. sums(before)
  BY <1>3
<1> HIDE DEF before
<1>5. before[0] = 8 /\ before[1] = before[0] + 1 /\ before[2] = before[1] + 1
      /\ before[3] = before[2] + 32
  BY <1>1, <1>4
<1>6. QED
  BY <1>2, <1>5

LEMMA LiquidityOwnerOffset == FieldOffset(hybridMarket_layout, 6) = 51
<1> DEFINE width == [i \in 1..6 |-> hybridMarket_layout[i].width]
<1> DEFINE sums(f) == f = [n \in 0..6 |-> IF n = 0 THEN 8 ELSE f[n - 1] + width[n]]
<1> DEFINE before == CHOOSE f : sums(f)
<1>1. /\ Len(hybridMarket_layout) = 6 /\ width[1] = 1 /\ width[2] = 1 /\ width[3] = 1
      /\ width[4] = 8 /\ width[5] = 32 /\ width[6] = 32
  BY DEF hybridMarket_layout
<1>2. \A i \in 1..6 : FieldOffset(hybridMarket_layout, i) = before[i - 1]
  BY <1>1 DEF FieldOffset
<1> HIDE DEF width
<1>3. sums([n \in 0..6 |-> <<8, 9, 10, 11, 19, 51, 83>>[n + 1]])
  BY <1>1
<1>4. sums(before)
  BY <1>3
<1> HIDE DEF before
<1>5. before[0] = 8 /\ before[1] = before[0] + 1 /\ before[2] = before[1] + 1
      /\ before[3] = before[2] + 1 /\ before[4] = before[3] + 8 /\ before[5] = before[4] + 32
  BY <1>1, <1>4
<1>6. QED
  BY <1>2, <1>5

LEMMA PositionFields ==
  /\ Len(position_layout) = 4
  /\ position_layout[3].field = "market" /\ position_layout[4].field = "owner"
BY DEF position_layout

\* The portfolio's scan for the owner of a position finds all of the wallet's.
LEMMA PositionScan ==
  ASSUME NEW w \in Wallets
  PROVE  portfolio_positions(w) = {p \in Positions : p.owner = w}
<1>1. ASSUME NEW p \in Positions, p.owner = w
      PROVE  memcmp(position_layout, p, POSITION_OWNER_OFFSET, w)
  <2>1. "owner" \in DOMAIN p /\ p["owner"] = w
    BY <1>1 DEF Positions
  <2>2. 4 \in 1..Len(position_layout)
    BY PositionFields
  <2>3. QED
    BY <2>1, <2>2, PositionFields, PositionOffsets DEF memcmp, POSITION_OWNER_OFFSET
<1>2. QED
  BY <1>1 DEF portfolio_positions

\* The market page's scan for the market of a position finds every trader.
LEMMA TraderScan == hybridTraderCount = Positions
<1>1. ASSUME NEW p \in Positions
      PROVE  memcmp(position_layout, p, POSITION_MARKET_OFFSET, HM)
  <2>1. "market" \in DOMAIN p /\ p["market"] = HM
    BY <1>1 DEF Positions
  <2>2. 3 \in 1..Len(position_layout)
    BY PositionFields
  <2>3. QED
    BY <2>1, <2>2, PositionFields, PositionOffsets DEF memcmp, POSITION_MARKET_OFFSET
<1>2. QED
  BY <1>1 DEF hybridTraderCount

\* The scan for the liquidity owner finds the market for its creator only.
LEMMA LiquidityScan ==
  ASSUME NEW w \in Wallets
  PROVE  (portfolio_liquidity(w) # {}) <=> (HM \in chain /\ w = Creator)
<1> DEFINE m == [creator |-> Creator, liquidityOwner |-> Creator]
<1>1. memcmp(hybridMarket_layout, m, HYBRID_LIQUIDITY_OWNER_OFFSET, w) => w = Creator
  <2>1. SUFFICES ASSUME NEW i \in 1..Len(hybridMarket_layout),
                        hybridMarket_layout[i].field \in DOMAIN m,
                        m[hybridMarket_layout[i].field] = w
                 PROVE  w = Creator
    BY DEF memcmp
  <2>2. DOMAIN m = {"creator", "liquidityOwner"} /\ m["creator"] = Creator /\ m["liquidityOwner"] = Creator
    OBVIOUS
  <2> HIDE DEF m
  <2>3. QED
    BY <2>1, <2>2
<1>2. memcmp(hybridMarket_layout, m, HYBRID_LIQUIDITY_OWNER_OFFSET, Creator)
  <2>1. 6 \in 1..Len(hybridMarket_layout) /\ hybridMarket_layout[6].field = "liquidityOwner"
    BY DEF hybridMarket_layout
  <2>2. "liquidityOwner" \in DOMAIN m /\ m["liquidityOwner"] = Creator
    OBVIOUS
  <2> HIDE DEF m
  <2>3. QED
    BY <2>1, <2>2, LiquidityOwnerOffset DEF memcmp, HYBRID_LIQUIDITY_OWNER_OFFSET
<1> HIDE DEF m
<1>3. portfolio_liquidity(w) =
        {x \in {m} : HM \in chain /\ memcmp(hybridMarket_layout, x, HYBRID_LIQUIDITY_OWNER_OFFSET, w)}
  BY DEF portfolio_liquidity, m
<1>4. QED
  BY <1>1, <1>2, <1>3

-----------------------------------------------------------------------------
(* Every call that is offered is one of them.                              *)

LEMMA WalletCallSound ==
  ASSUME InterfaceIInv, NEW w \in Wallets, NEW c \in WalletCalls(w), c \in Offered
  PROVE  Sound(c) \/ c = portfolio_refundOrder(w)
<1>1. CASE c \in {runner_beginRefund(w), runner_resolveMarket(w), coordinator_submitBatch(w),
                  relay_redeem(w), orderPanel_placeOrder(w), portfolio_refundOrder(w)}
  BY <1>1, BeginRefundSound, ResolveMarketSound, SubmitBatchSound, RedeemSound, PlaceOrderSound
<1>2. CASE c = deploy_settle(w)
  BY <1>2, DeploySettleSound
<1>3. CASE c \in {keeper_lock(w), keeper_timeout(w), keeper_finalize(w), keeper_timeoutDispute(w),
                  panel_finalize(w), panel_timeoutDispute(w)}
  BY <1>3, LockSound, TimeoutSound, FinalizeSound, TimeoutDisputeSound
     DEF keeper_finalize, keeper_timeoutDispute, panel_finalize, panel_timeoutDispute
<1>4. CASE c \in {resolveTxline(w), resolveStorkHybridMarket(w), resolveSwitchboardHybridMarket(w)}
  BY <1>4, TxlineSound, StorkSound, SwitchboardSound
<1>5. CASE c \in {panel_propose(w), panel_challenge(w), panel_claim(w)}
  BY <1>5, ProposeSound, ChallengeSound, ClaimSound
<1>6. CASE c \in tradePanel(w) \cup deploy_trade(w)
  BY <1>6, PositionSound, BuySound, SellSound DEF tradePanel, deploy_trade
<1>7. CASE c \in resolvePythHybridMarket(w)
  <2>1. PICK update \in {pythPushFeedAccount, Key("posted update")} :
          c = Resolving(w, resolveHybridWithPyth, With(Resolution(w), "priceUpdate", update))
    BY <1>7 DEF resolvePythHybridMarket
  <2>2. update \in chain
    BY <2>1, GenesisFacts
  <2>3. QED
    BY <2>1, <2>2, PythSound
<1>8. CASE c \in portfolio_settle(w)
  <2>1. PICK p \in portfolio_positions(w) :
          c = SettleCall(w, findProgramAddress("position", <<p.market, p.owner>>))
    BY <1>8 DEF portfolio_settle
  <2>2. p.market = HM /\ p.owner = w /\ positionPda(HM, w) \in chain
    BY <2>1 DEF portfolio_positions, Positions
  <2>3. c = SettleCall(w, positionPda(HM, w))
    BY <2>1, <2>2 DEF positionPda
  <2>4. QED
    BY <2>2, <2>3, SettleSound
<1>9. CASE c \in portfolio_withdraw(w) \cup deploy_withdraw(w)
  <2>1. c = WithdrawCall(w) /\ w = Creator
    BY <1>9, LiquidityScan DEF portfolio_withdraw, deploy_withdraw
  <2>2. QED
    BY <2>1, WithdrawSound
<1>10. QED
  BY <1>1, <1>2, <1>3, <1>4, <1>5, <1>6, <1>7, <1>8, <1>9 DEF WalletCalls

LEMMA OfferedSound ==
  ASSUME InterfaceIInv, NEW c \in Offered
  PROVE  \/ Sound(c)
         \/ c = createForm_initializeMarket(Creator)
         \/ \E w \in Wallets : c = portfolio_refundOrder(w)
<1>1. c \in Calls
  BY DEF Offered
<1>2. CASE \E w \in Wallets : c \in WalletCalls(w)
  BY <1>2, WalletCallSound
<1>3. CASE c \in CreatorCalls
  BY <1>3, DeployMarketSound, FormHybridMarketSound, DeployHybridMarketSound,
     FormMetadataSound, DeployMetadataSound DEF CreatorCalls
<1>4. CASE c \in AuthorityCalls
  BY <1>4, InitializeProtocolSound, InitializeEngineSound, RotateVerifiersSound,
     SyncVerifiersSound DEF AuthorityCalls
<1>5. (\E w \in Wallets : c \in WalletCalls(w)) \/ c \in CreatorCalls \/ c \in AuthorityCalls
  BY <1>1 DEF Calls
<1>6. QED
  BY <1>2, <1>3, <1>4, <1>5

\* Every call names the accounts the program verifies; what it would create
\* leaves nothing half created; and it finds its accounts unless it is sent blind.
LEMMA OfferedFacts ==
  ASSUME InterfaceIInv, NEW c \in Offered
  PROVE  /\ Complete(c) /\ \A a \in Names(c) : accepts(c, a)
         /\ (\A a \in Names(c) : ready(c, a)) <=> c \notin SentBlind
         /\ Closed(Added(c))
<1> DEFINE AllReady == \A a \in Names(c) : ready(c, a)
<1>1. CASE c = createForm_initializeMarket(Creator)
  <2>1. /\ Complete(c) /\ \A a \in Names(c) : accepts(c, a)
        /\ AllReady <=> PM \notin chain
        /\ Closed(Added(c))
    BY <1>1, FormMarketSound
  <2>2. PM \in chain => c \in SentBlind
    BY <1>1 DEF SentBlind
  <2>3. ASSUME NEW w \in Wallets, c = portfolio_refundOrder(w) PROVE FALSE
    <3>1. c.instruction = initializeMarket
      BY <1>1 DEF createForm_initializeMarket, After, Call
    <3>2. c.instruction = refundOrder
      BY <2>3 DEF portfolio_refundOrder, After, Call
    <3>3. initializeMarket.creates = {"market", "vault"} /\ refundOrder.creates = {}
      BY DEF initializeMarket, refundOrder
    <3>4. QED
      BY <3>1, <3>2, <3>3
  <2>4. PM \notin chain => c \notin SentBlind
    BY <2>3 DEF SentBlind
  <2>5. QED
    BY <2>1, <2>2, <2>4
<1>2. ASSUME NEW w \in Wallets, c = portfolio_refundOrder(w)
      PROVE  /\ Complete(c) /\ \A a \in Names(c) : accepts(c, a)
             /\ AllReady <=> c \notin SentBlind
             /\ Closed(Added(c))
  <2>1. /\ Complete(c) /\ \A a \in Names(c) : accepts(c, a)
        /\ AllReady <=> Order(w) \in chain /\ Ata(w) \in chain
        /\ Closed(Added(c))
    BY <1>2, RefundOrderSound
  <2>2. ~(Order(w) \in chain /\ Ata(w) \in chain) => c \in SentBlind
    BY <1>2 DEF SentBlind
  <2>3. ASSUME NEW v \in Wallets, c = portfolio_refundOrder(v) PROVE v = w
    BY <1>2, <2>3 DEF portfolio_refundOrder, After, Call
  <2>4. CASE c = createForm_initializeMarket(Creator)
    BY <1>1, <2>4
  <2>5. CASE c # createForm_initializeMarket(Creator)
    <3>1. c \in SentBlind => ~(Order(w) \in chain /\ Ata(w) \in chain)
      BY <2>3, <2>5 DEF SentBlind
    <3>2. QED
      BY <2>1, <2>2, <3>1
  <2>6. QED
    BY <2>4, <2>5
<1>3. CASE /\ Sound(c) /\ c # createForm_initializeMarket(Creator)
           /\ \A w \in Wallets : c # portfolio_refundOrder(w)
  <2>1. c \notin SentBlind
    BY <1>3 DEF SentBlind
  <2>2. QED
    BY <1>3, <2>1 DEF Sound, Accepted
<1>4. QED
  BY <1>1, <1>2, <1>3, OfferedSound

-----------------------------------------------------------------------------
(* The invariant.                                                          *)

\* No account of the beginning is of the kinds the program and the wallets create.
LEMMA GenesisLabels == \A x \in Genesis : x.label \notin MarketLabels /\ x.label # "ata"
<1>1. \A x \in Wallets : x.label = "key"
  BY WalletsAssumption
<1>2. \A name : Key(name).label = "key"
  BY DEF Key
<1>3. \A label, seeds : findProgramAddress(label, seeds).label = label
  BY DEF findProgramAddress
<1>4. /\ PROTOCOL_AUTHORITY.label = "key" /\ USDC.label = "key" /\ TOKEN.label = "key"
      /\ SYSTEM.label = "key" /\ TXLINE_PROGRAM.label = "key" /\ FreshWallet.label = "key"
      /\ PlacementVerifier.label = "key" /\ RedeemVerifier.label = "key"
  BY <1>2 DEF PROTOCOL_AUTHORITY, USDC, TOKEN, SYSTEM, TXLINE_PROGRAM, FreshWallet,
              PlacementVerifier, RedeemVerifier
<1>5. /\ dailyScoresRoot.label = "daily_scores_roots" /\ pythPushFeedAccount.label = "pyth feed"
      /\ storkFeedAccount.label = "stork_feed" /\ switchboardQuoteAccount.label = "quote"
  BY <1>3 DEF dailyScoresRoot, pythPushFeedAccount, storkFeedAccount, switchboardQuoteAccount
<1>6. QED
  BY <1>1, <1>2, <1>4, <1>5 DEF Genesis, MarketLabels

LEMMA InterfaceInitInv ==
  ASSUME Init
  PROVE  InterfaceIInv
<1>1. \A x \in chain : x.label \notin MarketLabels
  BY GenesisLabels DEF Init
<1>2. GenesisKept
  BY DEF Init, GenesisKept
<1>3. QED
  BY <1>1, <1>2, Labels DEF InterfaceIInv, CreatedTogether, CreatedAfter, MarketLabels

LEMMA ClosedPreserves ==
  ASSUME InterfaceIInv, NEW S, Closed(S), chain' = chain \cup S
  PROVE  InterfaceIInv'
BY DEF InterfaceIInv, GenesisKept, CreatedTogether, CreatedAfter, Closed

LEMMA InterfaceStepInv ==
  ASSUME InterfaceIInv, [Next]_chain
  PROVE  InterfaceIInv'
<1>1. CASE UNCHANGED chain
  BY <1>1 DEF InterfaceIInv, GenesisKept, CreatedTogether, CreatedAfter
<1>2. ASSUME NEW w \in Wallets, fund(w) PROVE InterfaceIInv'
  <2>1. chain' = chain \cup {Ata(w)}
    BY <1>2 DEF fund
  <2>2. Closed({Ata(w)})
    BY Labels, OthersClosed DEF MarketLabels
  <2>3. QED
    BY <2>1, <2>2, ClosedPreserves
<1>3. ASSUME NEW w \in Wallets, closeAccount(w) PROVE InterfaceIInv'
  <2>1. chain' = chain \ {Ata(w)}
    BY <1>3 DEF closeAccount
  <2>2. Ata(w).label = "ata"
    BY DEF Ata, findProgramAddress
  <2>3. \A x \in Genesis : x.label # "ata"
    BY GenesisLabels
  <2>4. Genesis \subseteq chain'
    BY <2>1, <2>2, <2>3 DEF InterfaceIInv, GenesisKept
  <2>5. \A x : x.label \in MarketLabels => (x \in chain' <=> x \in chain)
    BY <2>1, <2>2 DEF MarketLabels
  <2>6. QED
    BY <2>4, <2>5, Labels DEF InterfaceIInv, GenesisKept, CreatedTogether, CreatedAfter, MarketLabels
<1>4. ASSUME NEW c \in Calls, submit(c) PROVE InterfaceIInv'
  <2>1. c \in Offered /\ (chain' = chain \/ chain' = chain \cup Added(c))
    BY <1>4 DEF submit
  <2>2. CASE chain' = chain
    BY <2>2 DEF InterfaceIInv, GenesisKept, CreatedTogether, CreatedAfter
  <2>3. CASE chain' = chain \cup Added(c)
    BY <2>1, <2>3, OfferedFacts, ClosedPreserves
  <2>4. QED
    BY <2>1, <2>2, <2>3
<1>5. QED
  BY <1>1, <1>2, <1>3, <1>4 DEF Next

LEMMA InterfaceHolds ==
  ASSUME InterfaceIInv
  PROVE  AddressesVerified /\ AccountsReady
<1>1. \A c \in Offered : Complete(c) /\ \A a \in Names(c) : accepts(c, a)
  BY OfferedFacts
<1>2. AccountsReady
  BY OfferedFacts DEF AccountsReady
<1>3. QED
  BY <1>1, <1>2, PositionScan, LiquidityScan, TraderScan DEF AddressesVerified

LEMMA InterfaceInvariance == WebSpec => []InterfaceIInv
<1>1. WebInit => InterfaceIInv
  BY InterfaceInitInv DEF WebInit
<1>2. InterfaceIInv /\ [WebNext]_allVars => InterfaceIInv'
  <2> SUFFICES ASSUME InterfaceIInv, [WebNext]_allVars PROVE InterfaceIInv'
    OBVIOUS
  <2>1. [Next]_chain
    BY DEF WebNext, allVars
  <2>2. QED
    BY <2>1, InterfaceStepInv
<1>3. QED
  BY <1>1, <1>2, PTL DEF WebSpec

\* However many wallets there are and in whatever order they open and close their
\* token accounts, trade, order, settle and resolve, every call of accountsPartial
\* that its own reads allow names each account its instruction checks, at the
\* address the program derives, and finds it there, or absent where the program
\* creates it, but for the calls sent blind, which are refused; and the account
\* scans return what they are meant to.
THEOREM CallsAlwaysAccepted == WebSpec => []CallsAccepted
<1>1. InterfaceIInv => CallsAccepted
  BY InterfaceHolds DEF CallsAccepted
<1>2. QED
  BY <1>1, InterfaceInvariance, PTL

-----------------------------------------------------------------------------
(* The account layouts.                                                    *)

LEMMA SameLayouts == A!idl_accounts = A!program_accounts
BY DEF A!idl_accounts, A!program_accounts, A!idl_market, A!idl_order, A!idl_hybridMarket,
       A!idl_oracleConfig, A!idl_resolutionReceipt, A!idl_hybridMarketMetadata, A!idl_position,
       A!idl_optimisticProposal

LEMMA SameVariants == A!idl_enums = A!program_enums
BY DEF A!idl_enums, A!program_enums, A!idl_marketPhase, A!idl_hybridPhase, A!idl_marketCategory,
       A!idl_resolverKind, A!idl_marketMode, A!idl_hybridTradingMode, A!idl_hybridPricingModel,
       A!idl_oracleResolver, A!idl_valueComparator

LEMMA LayoutLengths ==
  ASSUME NEW type \in DOMAIN A!program_accounts
  PROVE  /\ Len(A!program_accounts[type]) \in Nat
         /\ DOMAIN A!program_accounts[type] = 1 .. Len(A!program_accounts[type])
<1> DEFINE P(layout) == Len(layout) \in Nat /\ DOMAIN layout = 1 .. Len(layout)
<1>1. P(A!program_accounts.market)
  BY DEF A!program_accounts
<1>2. P(A!program_accounts.order)
  BY DEF A!program_accounts
<1>3. P(A!program_accounts.hybridMarket)
  BY DEF A!program_accounts
<1>4. P(A!program_accounts.oracleConfig)
  BY DEF A!program_accounts
<1>5. P(A!program_accounts.resolutionReceipt)
  BY DEF A!program_accounts
<1>6. P(A!program_accounts.hybridMarketMetadata)
  BY DEF A!program_accounts
<1>7. P(A!program_accounts.position)
  BY DEF A!program_accounts
<1>8. P(A!program_accounts.optimisticProposal)
  BY DEF A!program_accounts
<1>9. DOMAIN A!program_accounts =
        {"market", "order", "hybridMarket", "oracleConfig", "resolutionReceipt",
         "hybridMarketMetadata", "position", "optimisticProposal"}
  BY DEF A!program_accounts
<1> HIDE DEF P
<1>10. P(A!program_accounts[type])
  BY <1>1, <1>2, <1>3, <1>4, <1>5, <1>6, <1>7, <1>8, <1>9
<1>11. QED
  BY <1>10 DEF P

LEMMA LayoutFields ==
  ASSUME NEW type \in DOMAIN A!program_accounts, NEW i \in DOMAIN A!program_accounts[type]
  PROVE  /\ A!program_accounts[type][i][1] \in A!Names
         /\ A!program_accounts[type][i][2] \in A!Types
<1>1. A!program_accounts[type][i] \in A!Fields(A!program_accounts[type])
  BY DEF A!Fields
<1>2. A!program_accounts[type] \in A!Fields(A!program_accounts)
  BY DEF A!Fields
<1>3. QED
  BY <1>1, <1>2 DEF A!Names, A!Types

LEMMA EnumLengths ==
  \A type \in DOMAIN A!program_enums : Len(A!program_enums[type]) \in Nat
BY DEF A!program_enums

\* Every field takes at least a byte.
LEMMA Sizes ==
  ASSUME NEW type, NEW value \in Nat
  PROVE  A!Size(type, value) \in Nat /\ A!Size(type, value) > 0
<1>1. A!Width(type) \in Nat /\ A!Width(type) > 0
  BY DEF A!Width
<1>2. QED
  BY <1>1 DEF A!Size

LEMMA ValueTypes ==
  ASSUME NEW name, NEW type, NEW value \in A!Values(name, type)
  PROVE  /\ value \in Nat
         /\ type \in DOMAIN A!program_enums => value < Len(A!program_enums[type])
<1>1. "string" \notin DOMAIN A!program_enums
  BY DEF A!program_enums
<1>2. A!TextLengths(name) \subseteq Nat
  BY DEF A!TextLengths, A!MAX_OPTIMISTIC_EVIDENCE_URI_BYTES
<1>3. QED
  BY <1>1, <1>2, EnumLengths DEF A!Values

LEMMA AccountInitInv == A!Init => A!AccountIInv
<1> SUFFICES ASSUME A!Init PROVE A!AccountIInv
  OBVIOUS
<1>1. Len(A!program_accounts[account]) \in Nat
  BY LayoutLengths DEF A!Init
<1>2. QED
  BY <1>1 DEF A!Init, A!AccountIInv, A!BytesOK, A!DecodedOK, A!Begin, A!discriminator

LEMMA Constants ==
  A!program_accounts' = A!program_accounts /\ A!program_enums' = A!program_enums
BY DEF A!program_accounts, A!program_enums

\* What the invariant says of one field written.
FieldOK(i) ==
  /\ bytes[i].name = A!program_accounts[account][i][1]
  /\ bytes[i].type = A!program_accounts[account][i][2]
  /\ bytes[i].type \in DOMAIN A!program_enums => bytes[i].value < Len(A!program_enums[bytes[i].type])
  /\ bytes[i].at = A!Begin(i) /\ bytes[i].at < written
  /\ \A j \in DOMAIN bytes : i < j => bytes[i].at < bytes[j].at

LEMMA FieldFacts ==
  ASSUME A!AccountIInv, NEW i \in DOMAIN bytes
  PROVE  /\ FieldOK(i) /\ i \in Nat /\ 1 <= i /\ i <= Len(bytes)
         /\ bytes[i] \in A!WrittenField /\ bytes[i].at \in Nat /\ bytes[i].value \in Nat
         /\ bytes[i].name \in A!Names /\ bytes[i].type \in A!Types
<1>1. bytes \in Seq(A!WrittenField) /\ DOMAIN bytes = 1 .. Len(bytes) /\ Len(bytes) \in Nat
  BY LenProperties DEF A!AccountIInv, A!BytesOK
<1>2. bytes[i] \in A!WrittenField
  BY <1>1, ElementOfSeq
<1>3. FieldOK(i)
  BY DEF A!AccountIInv, A!BytesOK, FieldOK
<1>4. QED
  BY <1>1, <1>2, <1>3 DEF A!WrittenField

\* The field written begins where the last one ended, after all others.
LEMMA SerializeInv == A!AccountIInv /\ A!serialize => A!AccountIInv'
<1> SUFFICES ASSUME A!AccountIInv, A!serialize PROVE A!AccountIInv'
  OBVIOUS
<1>1. PICK layout, n : layout = A!program_accounts[account] /\ n = Len(bytes) + 1
  OBVIOUS
<1>2. /\ bytes \in Seq(A!WrittenField) /\ DOMAIN bytes = 1 .. Len(bytes) /\ Len(bytes) \in Nat
      /\ written \in Nat /\ written = A!Begin(n) /\ account \in DOMAIN A!program_accounts
  BY <1>1, LenProperties DEF A!AccountIInv, A!BytesOK
<1>3. n \in DOMAIN layout /\ n \in Nat /\ 1 <= n /\ Len(bytes) < Len(layout) /\ Len(layout) \in Nat
  BY <1>1, <1>2, LayoutLengths DEF A!serialize
<1>4. PICK value \in A!Values(layout[n][1], layout[n][2]) :
        /\ bytes' = Append(bytes, [at |-> written, name |-> layout[n][1],
                                   type |-> layout[n][2], value |-> value])
        /\ written' = written + A!Size(layout[n][2], value)
        /\ UNCHANGED <<account, cursor, decoded>>
  BY <1>1 DEF A!serialize
<1>5. /\ value \in Nat
      /\ layout[n][2] \in DOMAIN A!program_enums => value < Len(A!program_enums[layout[n][2]])
  BY ValueTypes
<1>6. PICK field : field = [at |-> written, name |-> layout[n][1], type |-> layout[n][2], value |-> value]
  OBVIOUS
<1>7. layout[n][1] \in A!Names /\ layout[n][2] \in A!Types
  BY <1>1, <1>2, <1>3, LayoutFields
<1>8. field \in A!WrittenField
  BY <1>2, <1>5, <1>6, <1>7 DEF A!WrittenField
<1>9. /\ bytes' \in Seq(A!WrittenField) /\ Len(bytes') = n /\ bytes'[n] = field
      /\ DOMAIN bytes' = 1 .. n
      /\ \A i \in DOMAIN bytes : bytes'[i] = bytes[i]
  <2>1. bytes' = Append(bytes, field)
    BY <1>4, <1>6
  <2>2. QED
    BY <1>1, <1>2, <1>8, <2>1, AppendProperties, LenProperties
<1>10. written' \in Nat /\ written' > written /\ written' = A!Begin(n + 1)'
  <2>1. A!Size(layout[n][2], value) \in Nat /\ A!Size(layout[n][2], value) > 0
    BY <1>5, Sizes
  <2>2. (n + 1) - 1 = n /\ n + 1 # 1
    BY <1>3
  <2>3. A!Begin(n + 1)' = bytes'[n].at + A!Size(bytes'[n].type, bytes'[n].value)
    BY <2>2 DEF A!Begin, A!Size, A!Width
  <2>4. bytes'[n].at = written /\ bytes'[n].type = layout[n][2] /\ bytes'[n].value = value
    BY <1>6, <1>9
  <2>5. A!Begin(n + 1)' = written + A!Size(layout[n][2], value)
    BY <2>3, <2>4
  <2>6. QED
    BY <1>2, <1>4, <2>1, <2>5
<1>11. ASSUME NEW i \in 1 .. n PROVE A!Begin(i)' = A!Begin(i)
  <2>1. CASE i = 1
    BY <2>1 DEF A!Begin
  <2>2. CASE i # 1
    <3>1. i - 1 \in DOMAIN bytes
      BY <1>1, <1>2, <2>2
    <3>2. bytes'[i - 1] = bytes[i - 1]
      BY <1>9, <3>1
    <3>3. QED
      BY <2>2, <3>2 DEF A!Begin, A!Size, A!Width
  <2>3. QED
    BY <2>1, <2>2
<1>12. ASSUME NEW i \in DOMAIN bytes' PROVE FieldOK(i)'
  <2>1. CASE i = n
    <3>1. \A j \in DOMAIN bytes' : ~(i < j)
      BY <1>3, <1>9, <2>1
    <3>2. A!Begin(n)' = written
      BY <1>2, <1>3, <1>11
    <3>3. /\ bytes'[n].at = written /\ bytes'[n].name = layout[n][1]
          /\ bytes'[n].type = layout[n][2] /\ bytes'[n].value = value
      BY <1>6, <1>9
    <3>4. QED
      BY <1>1, <1>2, <1>4, <1>5, <1>10, <2>1, <3>1, <3>2, <3>3, Constants DEF FieldOK
  <2>2. CASE i # n
    <3>1. i \in DOMAIN bytes /\ i \in 1 .. n
      BY <1>1, <1>2, <1>9, <2>2
    <3>2. FieldOK(i) /\ bytes[i].at \in Nat
      BY <3>1, FieldFacts
    <3>3. bytes'[i] = bytes[i] /\ A!Begin(i)' = A!Begin(i)
      BY <1>9, <1>11, <3>1
    <3>4. bytes'[i].at < written'
      BY <1>2, <1>10, <3>2, <3>3 DEF FieldOK
    <3>5. ASSUME NEW j \in DOMAIN bytes', i < j PROVE bytes'[i].at < bytes'[j].at
      <4>1. CASE j = n
        BY <1>6, <1>9, <3>2, <3>3, <4>1 DEF FieldOK
      <4>2. CASE j # n
        <5>1. j \in DOMAIN bytes /\ bytes'[j] = bytes[j]
          BY <1>1, <1>2, <1>9, <4>2
        <5>2. QED
          BY <3>2, <3>3, <3>5, <5>1 DEF FieldOK
      <4>3. QED
        BY <4>1, <4>2
    <3>6. QED
      BY <1>4, <3>2, <3>3, <3>4, <3>5, Constants DEF FieldOK
  <2>3. QED
    BY <2>1, <2>2
<1>13. A!BytesOK'
  <2>1. n <= Len(layout)
    BY <1>1, <1>2, <1>3
  <2>2. written' = A!Begin(Len(bytes) + 1)'
    BY <1>9, <1>10 DEF A!Begin, A!Size, A!Width
  <2>3. QED
    BY <1>1, <1>4, <1>9, <1>12, <2>1, <2>2, Constants DEF A!BytesOK, FieldOK
<1>14. A!DecodedOK'
  <2>1. decoded = <<>>
    BY <1>1, <1>3 DEF A!AccountIInv, A!DecodedOK
  <2>2. cursor = A!Begin(1)
    BY <2>1 DEF A!AccountIInv, A!DecodedOK
  <2>3. A!Begin(1)' = A!Begin(1)
    BY DEF A!Begin
  <2>4. A!Begin(Len(decoded) + 1)' = A!Begin(1)'
    BY <1>4, <2>1 DEF A!Begin, A!Size, A!Width
  <2>5. Len(decoded') <= Len(bytes')
    BY <1>4, <1>3, <1>9, <2>1
  <2>6. decoded' \in Seq(A!DecodedField) /\ decoded' = <<>> /\ cursor' = cursor
    BY <1>4, <2>1
  <2>7. QED
    BY <2>2, <2>3, <2>4, <2>5, <2>6 DEF A!DecodedOK
<1>15. QED
  BY <1>2, <1>4, <1>10, <1>13, <1>14, Constants DEF A!AccountIInv

\* Exactly one field begins where the decoder stands, and of the type it reads.
LEMMA TakenIs ==
  ASSUME A!AccountIInv, NEW n \in DOMAIN bytes, cursor = bytes[n].at
  PROVE  A!Taken(cursor, bytes[n].type) = [name |-> bytes[n].name, value |-> bytes[n].value]
<1> DEFINE begins == {k \in DOMAIN bytes : bytes[k].at = cursor /\ bytes[k].type = bytes[n].type}
<1>1. ASSUME NEW k \in begins PROVE k = n
  <2>1. bytes[k].at = bytes[n].at /\ k \in DOMAIN bytes
    BY DEF begins
  <2>2. /\ k \in Nat /\ n \in Nat /\ bytes[n].at \in Nat
        /\ k < n => bytes[k].at < bytes[n].at
        /\ n < k => bytes[n].at < bytes[k].at
    BY <2>1, FieldFacts DEF FieldOK
  <2>3. QED
    BY <2>1, <2>2
<1>2. begins = {n}
  BY <1>1
<1>3. QED
  BY <1>2 DEF A!Taken

LEMMA DecodeInv == A!AccountIInv /\ A!decode => A!AccountIInv'
<1> SUFFICES ASSUME A!AccountIInv, A!decode PROVE A!AccountIInv'
  OBVIOUS
<1>1. PICK layout, n : layout = A!program_accounts[account] /\ n = Len(decoded) + 1
  OBVIOUS
<1>2. /\ bytes \in Seq(A!WrittenField) /\ DOMAIN bytes = 1 .. Len(bytes) /\ Len(bytes) \in Nat
      /\ decoded \in Seq(A!DecodedField) /\ DOMAIN decoded = 1 .. Len(decoded)
      /\ Len(decoded) \in Nat /\ cursor \in Nat
  BY LenProperties DEF A!AccountIInv, A!BytesOK, A!DecodedOK
<1>3. PICK taken : taken = A!Taken(cursor, layout[n][2])
  OBVIOUS
<1>4. /\ Len(bytes) = Len(layout) /\ Len(decoded) < Len(layout)
      /\ decoded' = Append(decoded, [name |-> layout[n][1], type |-> layout[n][2],
                                     from |-> taken.name, value |-> taken.value])
      /\ cursor' = cursor + A!Size(layout[n][2], taken.value)
      /\ UNCHANGED <<account, bytes, written>>
  BY <1>1, <1>3, SameLayouts DEF A!decode
<1>5. n \in DOMAIN bytes /\ n \in Nat /\ n # 0
  BY <1>1, <1>2, <1>4
<1>6. /\ bytes[n].name = layout[n][1] /\ bytes[n].type = layout[n][2]
      /\ bytes[n].at = A!Begin(n) /\ cursor = A!Begin(n)
      /\ bytes[n].value \in Nat /\ bytes[n].name \in A!Names /\ bytes[n].type \in A!Types
  BY <1>1, <1>5, FieldFacts DEF FieldOK, A!AccountIInv, A!DecodedOK
<1>7. taken = [name |-> bytes[n].name, value |-> bytes[n].value]
  BY <1>3, <1>5, <1>6, TakenIs
<1>8. PICK field : field = [name |-> bytes[n].name, type |-> bytes[n].type,
                            from |-> bytes[n].name, value |-> bytes[n].value]
  OBVIOUS
<1>9. decoded' = Append(decoded, field) /\ cursor' = cursor + A!Size(bytes[n].type, bytes[n].value)
  BY <1>4, <1>6, <1>7, <1>8
<1>10. field \in A!DecodedField
  BY <1>6, <1>8 DEF A!DecodedField
<1>11. /\ decoded' \in Seq(A!DecodedField) /\ Len(decoded') = n /\ decoded'[n] = field
       /\ DOMAIN decoded' = 1 .. n
       /\ \A i \in DOMAIN decoded : decoded'[i] = decoded[i]
  BY <1>1, <1>2, <1>9, <1>10, AppendProperties, LenProperties
<1>12. cursor' = A!Begin(n + 1)' /\ cursor' \in Nat
  <2>1. (n + 1) - 1 = n /\ n + 1 # 1
    BY <1>5
  <2>2. A!Begin(n + 1) = bytes[n].at + A!Size(bytes[n].type, bytes[n].value)
    BY <2>1 DEF A!Begin
  <2>3. A!Begin(n + 1)' = A!Begin(n + 1)
    BY <1>4 DEF A!Begin, A!Size, A!Width
  <2>4. A!Size(bytes[n].type, bytes[n].value) \in Nat
    BY <1>6, Sizes
  <2>5. QED
    BY <1>2, <1>6, <1>9, <2>2, <2>3, <2>4
<1>13. A!BytesOK' /\ written' \in Nat /\ account' \in DOMAIN A!program_accounts
  BY <1>4, Constants DEF A!AccountIInv, A!BytesOK, A!Begin, A!Size, A!Width
<1>14. A!DecodedOK'
  <2>1. ASSUME NEW i \in DOMAIN decoded'
        PROVE  decoded'[i] = [name |-> bytes'[i].name, type |-> bytes'[i].type,
                              from |-> bytes'[i].name, value |-> bytes'[i].value]
    <3>1. CASE i = n
      BY <1>4, <1>8, <1>11, <3>1
    <3>2. CASE i # n
      <4>1. i \in DOMAIN decoded
        BY <1>1, <1>2, <1>11, <3>2
      <4>2. decoded[i] = [name |-> bytes[i].name, type |-> bytes[i].type,
                          from |-> bytes[i].name, value |-> bytes[i].value]
        BY <4>1 DEF A!AccountIInv, A!DecodedOK
      <4>3. QED
        BY <1>4, <1>11, <4>1, <4>2
    <3>3. QED
      BY <3>1, <3>2
  <2>2. Len(decoded') <= Len(bytes') /\ Len(bytes') = Len(layout)
    BY <1>2, <1>4, <1>5, <1>11
  <2>3. A!program_accounts[account]' = layout
    BY <1>1, <1>4, Constants
  <2>4. cursor' = A!Begin(Len(decoded) + 1)'
    BY <1>11, <1>12 DEF A!Begin, A!Size, A!Width
  <2>5. QED
    BY <1>11, <2>1, <2>2, <2>3, <2>4 DEF A!DecodedOK
<1>15. QED
  BY <1>12, <1>13, <1>14 DEF A!AccountIInv

LEMMA AccountInvariance == WebSpec => []A!AccountIInv
<1>1. WebInit => A!AccountIInv
  BY AccountInitInv DEF WebInit
<1>2. A!AccountIInv /\ [WebNext]_allVars => A!AccountIInv'
  <2> SUFFICES ASSUME A!AccountIInv, [WebNext]_allVars PROVE A!AccountIInv'
    OBVIOUS
  <2>1. A!Next \/ UNCHANGED accountVars
    BY DEF WebNext, allVars
  <2>2. CASE UNCHANGED accountVars
    BY <2>2, Constants DEF accountVars, A!AccountIInv, A!BytesOK, A!DecodedOK, A!Begin, A!Size, A!Width
  <2>3. QED
    BY <2>1, <2>2, SerializeInv, DecodeInv DEF A!Next
<1>3. QED
  BY <1>1, <1>2, PTL DEF WebSpec

-----------------------------------------------------------------------------
(* The readers.                                                            *)

Has(layout, name, kind) ==
  \E i \in DOMAIN layout : layout[i][1] = name /\ layout[i][2] = kind

\* A field of this name, of a type such a value is made of.
Made(layout, ts, name) ==
  \E i \in DOMAIN layout : layout[i][1] = name /\ layout[i][2] \in A!MadeOf(ts)

\* What a reader asks for is there, and spelled the way its decoder does.
Answered(c, type) ==
  /\ c.type = type /\ c.spelling = A!Spelling(c.decoder)
  /\ \A ts \in DOMAIN c.fields : \A name \in c.fields[ts] : Made(A!idl_accounts[type], ts, name)

LEMMA HasMade ==
  ASSUME NEW layout, NEW ts, NEW name, NEW kind \in A!MadeOf(ts), Has(layout, name, kind)
  PROVE  Made(layout, ts, name)
BY DEF Has, Made

LEMMA MadeOfFacts ==
  /\ "pubkey" \in A!MadeOf("PublicKey") /\ "bytes32" \in A!MadeOf("numbers")
  /\ "hashes" \in A!MadeOf("rows") /\ "bool" \in A!MadeOf("boolean")
  /\ "string" \in A!MadeOf("string") /\ {"u64", "i64", "i128"} \subseteq A!MadeOf("BN")
  /\ {"u8", "u16", "u32", "i32"} \subseteq A!MadeOf("number")
  /\ {"u64", "i64", "i128"} \subseteq A!MadeOf("IntegerLike")
BY DEF A!MadeOf

LEMMA EnumsMade ==
  /\ "marketPhase" \in A!MadeOf("EnumLike") /\ "hybridPhase" \in A!MadeOf("EnumLike")
  /\ "marketCategory" \in A!MadeOf("EnumLike") /\ "marketMode" \in A!MadeOf("EnumLike")
  /\ "hybridTradingMode" \in A!MadeOf("EnumLike")
  /\ "hybridPricingModel" \in A!MadeOf("EnumLike")
  /\ "oracleResolver" \in A!MadeOf("EnumLike") /\ "valueComparator" \in A!MadeOf("EnumLike")
<1>1. A!MadeOf("EnumLike") = DOMAIN A!idl_enums
  BY DEF A!MadeOf
<1>2. QED
  BY <1>1 DEF A!idl_enums

LEMMA marketFields ==
  /\ Has(A!idl_market, "marketId", "u64")
  /\ Has(A!idl_market, "authority", "pubkey")
  /\ Has(A!idl_market, "fixtureId", "i64")
  /\ Has(A!idl_market, "marketMode", "marketMode")
  /\ Has(A!idl_market, "fixtureStartTs", "i64")
  /\ Has(A!idl_market, "totalGoalsThreshold", "i32")
  /\ Has(A!idl_market, "stakeAmount", "u64")
  /\ Has(A!idl_market, "lockTs", "i64")
  /\ Has(A!idl_market, "batchDeadlineTs", "i64")
  /\ Has(A!idl_market, "phase", "marketPhase")
  /\ Has(A!idl_market, "orderCount", "u32")
  /\ Has(A!idl_market, "outcome", "u8")
  /\ Has(A!idl_market, "grossPool", "u64")
  /\ Has(A!idl_market, "netPool", "u64")
  /\ Has(A!idl_market, "scoreA", "i32")
  /\ Has(A!idl_market, "scoreB", "i32")
  /\ Has(A!idl_market, "yesAmount", "u64")
  /\ Has(A!idl_market, "noAmount", "u64")
<1>1. DOMAIN A!idl_market = 1 .. 51
  BY DEF A!idl_market
<1>2. /\ A!idl_market[3] = <<"marketId", "u64">> /\ A!idl_market[4] = <<"authority", "pubkey">>
      /\ A!idl_market[9] = <<"fixtureId", "i64">> /\ A!idl_market[10] = <<"marketMode", "marketMode">>
      /\ A!idl_market[11] = <<"fixtureStartTs", "i64">> /\ A!idl_market[14] = <<"totalGoalsThreshold", "i32">>
      /\ A!idl_market[17] = <<"stakeAmount", "u64">> /\ A!idl_market[22] = <<"lockTs", "i64">>
      /\ A!idl_market[23] = <<"batchDeadlineTs", "i64">> /\ A!idl_market[25] = <<"phase", "marketPhase">>
      /\ A!idl_market[26] = <<"orderCount", "u32">> /\ A!idl_market[30] = <<"outcome", "u8">>
      /\ A!idl_market[34] = <<"grossPool", "u64">> /\ A!idl_market[38] = <<"netPool", "u64">>
      /\ A!idl_market[48] = <<"scoreA", "i32">> /\ A!idl_market[49] = <<"scoreB", "i32">>
      /\ A!idl_market[50] = <<"yesAmount", "u64">> /\ A!idl_market[51] = <<"noAmount", "u64">>
  BY DEF A!idl_market
<1>3. /\ Has(A!idl_market, "marketId", "u64")
      /\ Has(A!idl_market, "authority", "pubkey")
      /\ Has(A!idl_market, "fixtureId", "i64")
      /\ Has(A!idl_market, "marketMode", "marketMode")
      /\ Has(A!idl_market, "fixtureStartTs", "i64")
      /\ Has(A!idl_market, "totalGoalsThreshold", "i32")
      /\ Has(A!idl_market, "stakeAmount", "u64")
      /\ Has(A!idl_market, "lockTs", "i64")
  BY <1>1, <1>2 DEF Has
<1>4. /\ Has(A!idl_market, "batchDeadlineTs", "i64")
      /\ Has(A!idl_market, "phase", "marketPhase")
      /\ Has(A!idl_market, "orderCount", "u32")
      /\ Has(A!idl_market, "outcome", "u8")
      /\ Has(A!idl_market, "grossPool", "u64")
      /\ Has(A!idl_market, "netPool", "u64")
      /\ Has(A!idl_market, "scoreA", "i32")
      /\ Has(A!idl_market, "scoreB", "i32")
  BY <1>1, <1>2 DEF Has
<1>5. /\ Has(A!idl_market, "yesAmount", "u64")
      /\ Has(A!idl_market, "noAmount", "u64")
  BY <1>1, <1>2 DEF Has
<1>6. QED
  BY <1>3, <1>4, <1>5

LEMMA orderFields ==
  /\ Has(A!idl_order, "market", "pubkey")
  /\ Has(A!idl_order, "orderIndex", "u32")
  /\ Has(A!idl_order, "commitment", "bytes32")
  /\ Has(A!idl_order, "shareCommitments", "hashes")
<1>1. DOMAIN A!idl_order = 1 .. 7
  BY DEF A!idl_order
<1>2. /\ A!idl_order[2] = <<"market", "pubkey">> /\ A!idl_order[4] = <<"orderIndex", "u32">>
      /\ A!idl_order[5] = <<"commitment", "bytes32">> /\ A!idl_order[6] = <<"shareCommitments", "hashes">>
  BY DEF A!idl_order
<1>3. QED
  BY <1>1, <1>2 DEF Has

LEMMA hybridMarketFields ==
  /\ Has(A!idl_hybridMarket, "version", "u8")
  /\ Has(A!idl_hybridMarket, "marketId", "u64")
  /\ Has(A!idl_hybridMarket, "creator", "pubkey")
  /\ Has(A!idl_hybridMarket, "liquidityOwner", "pubkey")
  /\ Has(A!idl_hybridMarket, "category", "marketCategory")
  /\ Has(A!idl_hybridMarket, "tradingMode", "hybridTradingMode")
  /\ Has(A!idl_hybridMarket, "pricingModel", "hybridPricingModel")
  /\ Has(A!idl_hybridMarket, "questionHash", "bytes32")
  /\ Has(A!idl_hybridMarket, "rulesHash", "bytes32")
  /\ Has(A!idl_hybridMarket, "outcomeLabelsHash", "bytes32")
  /\ Has(A!idl_hybridMarket, "collateralMint", "pubkey")
  /\ Has(A!idl_hybridMarket, "tokenProgram", "pubkey")
  /\ Has(A!idl_hybridMarket, "treasuryOwner", "pubkey")
  /\ Has(A!idl_hybridMarket, "oracleConfig", "pubkey")
  /\ Has(A!idl_hybridMarket, "liquidityParameter", "u64")
  /\ Has(A!idl_hybridMarket, "initialSubsidy", "u64")
  /\ Has(A!idl_hybridMarket, "roundingReserve", "u64")
  /\ Has(A!idl_hybridMarket, "maxTradeShares", "u64")
  /\ Has(A!idl_hybridMarket, "resolverSecurityCap", "u64")
  /\ Has(A!idl_hybridMarket, "yesQuantity", "u64")
  /\ Has(A!idl_hybridMarket, "noQuantity", "u64")
  /\ Has(A!idl_hybridMarket, "tradeFeeBps", "u16")
  /\ Has(A!idl_hybridMarket, "treasuryFeeShareBps", "u16")
  /\ Has(A!idl_hybridMarket, "openTs", "i64")
  /\ Has(A!idl_hybridMarket, "lockTs", "i64")
  /\ Has(A!idl_hybridMarket, "resolveNotBeforeTs", "i64")
  /\ Has(A!idl_hybridMarket, "resolutionDeadlineTs", "i64")
  /\ Has(A!idl_hybridMarket, "phase", "hybridPhase")
  /\ Has(A!idl_hybridMarket, "outcome", "u8")
  /\ Has(A!idl_hybridMarket, "tradeCount", "u64")
  /\ Has(A!idl_hybridMarket, "volume", "u64")
  /\ Has(A!idl_hybridMarket, "treasuryFees", "u64")
  /\ Has(A!idl_hybridMarket, "liquidityFees", "u64")
  /\ Has(A!idl_hybridMarket, "outstandingLiability", "u64")
  /\ Has(A!idl_hybridMarket, "redeemedLiability", "u64")
  /\ Has(A!idl_hybridMarket, "settledAt", "i64")
  /\ Has(A!idl_hybridMarket, "settlementEvidenceHash", "bytes32")
<1>1. DOMAIN A!idl_hybridMarket = 1 .. 39
  BY DEF A!idl_hybridMarket
<1>2. /\ A!idl_hybridMarket[3] = <<"version", "u8">> /\ A!idl_hybridMarket[4] = <<"marketId", "u64">>
      /\ A!idl_hybridMarket[5] = <<"creator", "pubkey">> /\ A!idl_hybridMarket[6] = <<"liquidityOwner", "pubkey">>
      /\ A!idl_hybridMarket[7] = <<"category", "marketCategory">> /\ A!idl_hybridMarket[8] = <<"tradingMode", "hybridTradingMode">>
      /\ A!idl_hybridMarket[9] = <<"pricingModel", "hybridPricingModel">> /\ A!idl_hybridMarket[10] = <<"questionHash", "bytes32">>
      /\ A!idl_hybridMarket[11] = <<"rulesHash", "bytes32">> /\ A!idl_hybridMarket[12] = <<"outcomeLabelsHash", "bytes32">>
      /\ A!idl_hybridMarket[13] = <<"collateralMint", "pubkey">> /\ A!idl_hybridMarket[14] = <<"tokenProgram", "pubkey">>
      /\ A!idl_hybridMarket[15] = <<"treasuryOwner", "pubkey">> /\ A!idl_hybridMarket[16] = <<"oracleConfig", "pubkey">>
      /\ A!idl_hybridMarket[17] = <<"liquidityParameter", "u64">> /\ A!idl_hybridMarket[18] = <<"initialSubsidy", "u64">>
      /\ A!idl_hybridMarket[19] = <<"roundingReserve", "u64">> /\ A!idl_hybridMarket[20] = <<"maxTradeShares", "u64">>
      /\ A!idl_hybridMarket[21] = <<"resolverSecurityCap", "u64">> /\ A!idl_hybridMarket[22] = <<"yesQuantity", "u64">>
      /\ A!idl_hybridMarket[23] = <<"noQuantity", "u64">> /\ A!idl_hybridMarket[24] = <<"tradeFeeBps", "u16">>
      /\ A!idl_hybridMarket[25] = <<"treasuryFeeShareBps", "u16">> /\ A!idl_hybridMarket[26] = <<"openTs", "i64">>
      /\ A!idl_hybridMarket[27] = <<"lockTs", "i64">> /\ A!idl_hybridMarket[28] = <<"resolveNotBeforeTs", "i64">>
      /\ A!idl_hybridMarket[29] = <<"resolutionDeadlineTs", "i64">> /\ A!idl_hybridMarket[30] = <<"phase", "hybridPhase">>
      /\ A!idl_hybridMarket[31] = <<"outcome", "u8">> /\ A!idl_hybridMarket[32] = <<"tradeCount", "u64">>
      /\ A!idl_hybridMarket[33] = <<"volume", "u64">> /\ A!idl_hybridMarket[34] = <<"treasuryFees", "u64">>
      /\ A!idl_hybridMarket[35] = <<"liquidityFees", "u64">> /\ A!idl_hybridMarket[36] = <<"outstandingLiability", "u64">>
      /\ A!idl_hybridMarket[37] = <<"redeemedLiability", "u64">> /\ A!idl_hybridMarket[38] = <<"settledAt", "i64">>
      /\ A!idl_hybridMarket[39] = <<"settlementEvidenceHash", "bytes32">>
  BY DEF A!idl_hybridMarket
<1>3. /\ Has(A!idl_hybridMarket, "version", "u8")
      /\ Has(A!idl_hybridMarket, "marketId", "u64")
      /\ Has(A!idl_hybridMarket, "creator", "pubkey")
      /\ Has(A!idl_hybridMarket, "liquidityOwner", "pubkey")
      /\ Has(A!idl_hybridMarket, "category", "marketCategory")
      /\ Has(A!idl_hybridMarket, "tradingMode", "hybridTradingMode")
      /\ Has(A!idl_hybridMarket, "pricingModel", "hybridPricingModel")
      /\ Has(A!idl_hybridMarket, "questionHash", "bytes32")
  BY <1>1, <1>2 DEF Has
<1>4. /\ Has(A!idl_hybridMarket, "rulesHash", "bytes32")
      /\ Has(A!idl_hybridMarket, "outcomeLabelsHash", "bytes32")
      /\ Has(A!idl_hybridMarket, "collateralMint", "pubkey")
      /\ Has(A!idl_hybridMarket, "tokenProgram", "pubkey")
      /\ Has(A!idl_hybridMarket, "treasuryOwner", "pubkey")
      /\ Has(A!idl_hybridMarket, "oracleConfig", "pubkey")
      /\ Has(A!idl_hybridMarket, "liquidityParameter", "u64")
      /\ Has(A!idl_hybridMarket, "initialSubsidy", "u64")
  BY <1>1, <1>2 DEF Has
<1>5. /\ Has(A!idl_hybridMarket, "roundingReserve", "u64")
      /\ Has(A!idl_hybridMarket, "maxTradeShares", "u64")
      /\ Has(A!idl_hybridMarket, "resolverSecurityCap", "u64")
      /\ Has(A!idl_hybridMarket, "yesQuantity", "u64")
      /\ Has(A!idl_hybridMarket, "noQuantity", "u64")
      /\ Has(A!idl_hybridMarket, "tradeFeeBps", "u16")
      /\ Has(A!idl_hybridMarket, "treasuryFeeShareBps", "u16")
      /\ Has(A!idl_hybridMarket, "openTs", "i64")
  BY <1>1, <1>2 DEF Has
<1>6. /\ Has(A!idl_hybridMarket, "lockTs", "i64")
      /\ Has(A!idl_hybridMarket, "resolveNotBeforeTs", "i64")
      /\ Has(A!idl_hybridMarket, "resolutionDeadlineTs", "i64")
      /\ Has(A!idl_hybridMarket, "phase", "hybridPhase")
      /\ Has(A!idl_hybridMarket, "outcome", "u8")
      /\ Has(A!idl_hybridMarket, "tradeCount", "u64")
      /\ Has(A!idl_hybridMarket, "volume", "u64")
      /\ Has(A!idl_hybridMarket, "treasuryFees", "u64")
  BY <1>1, <1>2 DEF Has
<1>7. /\ Has(A!idl_hybridMarket, "liquidityFees", "u64")
      /\ Has(A!idl_hybridMarket, "outstandingLiability", "u64")
      /\ Has(A!idl_hybridMarket, "redeemedLiability", "u64")
      /\ Has(A!idl_hybridMarket, "settledAt", "i64")
      /\ Has(A!idl_hybridMarket, "settlementEvidenceHash", "bytes32")
  BY <1>1, <1>2 DEF Has
<1>8. QED
  BY <1>3, <1>4, <1>5, <1>6, <1>7

LEMMA oracleConfigFields ==
  /\ Has(A!idl_oracleConfig, "version", "u8")
  /\ Has(A!idl_oracleConfig, "market", "pubkey")
  /\ Has(A!idl_oracleConfig, "resolver", "oracleResolver")
  /\ Has(A!idl_oracleConfig, "sourceProgram", "pubkey")
  /\ Has(A!idl_oracleConfig, "sourceQueue", "pubkey")
  /\ Has(A!idl_oracleConfig, "sourceId", "bytes32")
  /\ Has(A!idl_oracleConfig, "comparator", "valueComparator")
  /\ Has(A!idl_oracleConfig, "threshold", "i128")
  /\ Has(A!idl_oracleConfig, "thresholdExponent", "i32")
  /\ Has(A!idl_oracleConfig, "observationTs", "i64")
  /\ Has(A!idl_oracleConfig, "observationWindowSecs", "u32")
  /\ Has(A!idl_oracleConfig, "maxStalenessSecs", "u32")
  /\ Has(A!idl_oracleConfig, "maxStalenessSlots", "u64")
  /\ Has(A!idl_oracleConfig, "maxConfidenceBps", "u16")
  /\ Has(A!idl_oracleConfig, "minSamples", "u8")
  /\ Has(A!idl_oracleConfig, "challengePeriodSecs", "u32")
  /\ Has(A!idl_oracleConfig, "bondAmount", "u64")
  /\ Has(A!idl_oracleConfig, "configHash", "bytes32")
  /\ Has(A!idl_oracleConfig, "optimisticProposal", "pubkey")
  /\ Has(A!idl_oracleConfig, "consumed", "bool")
<1>1. DOMAIN A!idl_oracleConfig = 1 .. 21
  BY DEF A!idl_oracleConfig
<1>2. /\ A!idl_oracleConfig[2] = <<"version", "u8">> /\ A!idl_oracleConfig[3] = <<"market", "pubkey">>
      /\ A!idl_oracleConfig[4] = <<"resolver", "oracleResolver">> /\ A!idl_oracleConfig[5] = <<"sourceProgram", "pubkey">>
      /\ A!idl_oracleConfig[6] = <<"sourceQueue", "pubkey">> /\ A!idl_oracleConfig[7] = <<"sourceId", "bytes32">>
      /\ A!idl_oracleConfig[8] = <<"comparator", "valueComparator">> /\ A!idl_oracleConfig[9] = <<"threshold", "i128">>
      /\ A!idl_oracleConfig[10] = <<"thresholdExponent", "i32">> /\ A!idl_oracleConfig[11] = <<"observationTs", "i64">>
      /\ A!idl_oracleConfig[12] = <<"observationWindowSecs", "u32">> /\ A!idl_oracleConfig[13] = <<"maxStalenessSecs", "u32">>
      /\ A!idl_oracleConfig[14] = <<"maxStalenessSlots", "u64">> /\ A!idl_oracleConfig[15] = <<"maxConfidenceBps", "u16">>
      /\ A!idl_oracleConfig[16] = <<"minSamples", "u8">> /\ A!idl_oracleConfig[17] = <<"challengePeriodSecs", "u32">>
      /\ A!idl_oracleConfig[18] = <<"bondAmount", "u64">> /\ A!idl_oracleConfig[19] = <<"configHash", "bytes32">>
      /\ A!idl_oracleConfig[20] = <<"optimisticProposal", "pubkey">> /\ A!idl_oracleConfig[21] = <<"consumed", "bool">>
  BY DEF A!idl_oracleConfig
<1>3. /\ Has(A!idl_oracleConfig, "version", "u8")
      /\ Has(A!idl_oracleConfig, "market", "pubkey")
      /\ Has(A!idl_oracleConfig, "resolver", "oracleResolver")
      /\ Has(A!idl_oracleConfig, "sourceProgram", "pubkey")
      /\ Has(A!idl_oracleConfig, "sourceQueue", "pubkey")
      /\ Has(A!idl_oracleConfig, "sourceId", "bytes32")
      /\ Has(A!idl_oracleConfig, "comparator", "valueComparator")
      /\ Has(A!idl_oracleConfig, "threshold", "i128")
  BY <1>1, <1>2 DEF Has
<1>4. /\ Has(A!idl_oracleConfig, "thresholdExponent", "i32")
      /\ Has(A!idl_oracleConfig, "observationTs", "i64")
      /\ Has(A!idl_oracleConfig, "observationWindowSecs", "u32")
      /\ Has(A!idl_oracleConfig, "maxStalenessSecs", "u32")
      /\ Has(A!idl_oracleConfig, "maxStalenessSlots", "u64")
      /\ Has(A!idl_oracleConfig, "maxConfidenceBps", "u16")
      /\ Has(A!idl_oracleConfig, "minSamples", "u8")
      /\ Has(A!idl_oracleConfig, "challengePeriodSecs", "u32")
  BY <1>1, <1>2 DEF Has
<1>5. /\ Has(A!idl_oracleConfig, "bondAmount", "u64")
      /\ Has(A!idl_oracleConfig, "configHash", "bytes32")
      /\ Has(A!idl_oracleConfig, "optimisticProposal", "pubkey")
      /\ Has(A!idl_oracleConfig, "consumed", "bool")
  BY <1>1, <1>2 DEF Has
<1>6. QED
  BY <1>3, <1>4, <1>5

LEMMA resolutionReceiptFields ==
  /\ Has(A!idl_resolutionReceipt, "version", "u8")
  /\ Has(A!idl_resolutionReceipt, "market", "pubkey")
  /\ Has(A!idl_resolutionReceipt, "resolver", "oracleResolver")
  /\ Has(A!idl_resolutionReceipt, "outcome", "u8")
  /\ Has(A!idl_resolutionReceipt, "observationValue", "i128")
  /\ Has(A!idl_resolutionReceipt, "observationExponent", "i32")
  /\ Has(A!idl_resolutionReceipt, "observationTs", "i64")
  /\ Has(A!idl_resolutionReceipt, "observationSlot", "u64")
  /\ Has(A!idl_resolutionReceipt, "confidence", "u64")
  /\ Has(A!idl_resolutionReceipt, "sampleCount", "u8")
  /\ Has(A!idl_resolutionReceipt, "sourceQueue", "pubkey")
  /\ Has(A!idl_resolutionReceipt, "sourceId", "bytes32")
  /\ Has(A!idl_resolutionReceipt, "sourceAccount", "pubkey")
  /\ Has(A!idl_resolutionReceipt, "evidenceHash", "bytes32")
  /\ Has(A!idl_resolutionReceipt, "finalizedAt", "i64")
<1>1. DOMAIN A!idl_resolutionReceipt = 1 .. 16
  BY DEF A!idl_resolutionReceipt
<1>2. /\ A!idl_resolutionReceipt[2] = <<"version", "u8">> /\ A!idl_resolutionReceipt[3] = <<"market", "pubkey">>
      /\ A!idl_resolutionReceipt[4] = <<"resolver", "oracleResolver">> /\ A!idl_resolutionReceipt[5] = <<"outcome", "u8">>
      /\ A!idl_resolutionReceipt[6] = <<"observationValue", "i128">> /\ A!idl_resolutionReceipt[7] = <<"observationExponent", "i32">>
      /\ A!idl_resolutionReceipt[8] = <<"observationTs", "i64">> /\ A!idl_resolutionReceipt[9] = <<"observationSlot", "u64">>
      /\ A!idl_resolutionReceipt[10] = <<"confidence", "u64">> /\ A!idl_resolutionReceipt[11] = <<"sampleCount", "u8">>
      /\ A!idl_resolutionReceipt[12] = <<"sourceQueue", "pubkey">> /\ A!idl_resolutionReceipt[13] = <<"sourceId", "bytes32">>
      /\ A!idl_resolutionReceipt[14] = <<"sourceAccount", "pubkey">> /\ A!idl_resolutionReceipt[15] = <<"evidenceHash", "bytes32">>
      /\ A!idl_resolutionReceipt[16] = <<"finalizedAt", "i64">>
  BY DEF A!idl_resolutionReceipt
<1>3. /\ Has(A!idl_resolutionReceipt, "version", "u8")
      /\ Has(A!idl_resolutionReceipt, "market", "pubkey")
      /\ Has(A!idl_resolutionReceipt, "resolver", "oracleResolver")
      /\ Has(A!idl_resolutionReceipt, "outcome", "u8")
      /\ Has(A!idl_resolutionReceipt, "observationValue", "i128")
      /\ Has(A!idl_resolutionReceipt, "observationExponent", "i32")
      /\ Has(A!idl_resolutionReceipt, "observationTs", "i64")
      /\ Has(A!idl_resolutionReceipt, "observationSlot", "u64")
  BY <1>1, <1>2 DEF Has
<1>4. /\ Has(A!idl_resolutionReceipt, "confidence", "u64")
      /\ Has(A!idl_resolutionReceipt, "sampleCount", "u8")
      /\ Has(A!idl_resolutionReceipt, "sourceQueue", "pubkey")
      /\ Has(A!idl_resolutionReceipt, "sourceId", "bytes32")
      /\ Has(A!idl_resolutionReceipt, "sourceAccount", "pubkey")
      /\ Has(A!idl_resolutionReceipt, "evidenceHash", "bytes32")
      /\ Has(A!idl_resolutionReceipt, "finalizedAt", "i64")
  BY <1>1, <1>2 DEF Has
<1>5. QED
  BY <1>3, <1>4

LEMMA hybridMarketMetadataFields ==
  /\ Has(A!idl_hybridMarketMetadata, "version", "u8")
  /\ Has(A!idl_hybridMarketMetadata, "market", "pubkey")
  /\ Has(A!idl_hybridMarketMetadata, "creator", "pubkey")
  /\ Has(A!idl_hybridMarketMetadata, "question", "string")
  /\ Has(A!idl_hybridMarketMetadata, "rules", "string")
  /\ Has(A!idl_hybridMarketMetadata, "yesLabel", "string")
  /\ Has(A!idl_hybridMarketMetadata, "noLabel", "string")
  /\ Has(A!idl_hybridMarketMetadata, "referenceUrl", "string")
  /\ Has(A!idl_hybridMarketMetadata, "publishedAt", "i64")
<1>1. DOMAIN A!idl_hybridMarketMetadata = 1 .. 10
  BY DEF A!idl_hybridMarketMetadata
<1>2. /\ A!idl_hybridMarketMetadata[2] = <<"version", "u8">> /\ A!idl_hybridMarketMetadata[3] = <<"market", "pubkey">>
      /\ A!idl_hybridMarketMetadata[4] = <<"creator", "pubkey">> /\ A!idl_hybridMarketMetadata[5] = <<"question", "string">>
      /\ A!idl_hybridMarketMetadata[6] = <<"rules", "string">> /\ A!idl_hybridMarketMetadata[7] = <<"yesLabel", "string">>
      /\ A!idl_hybridMarketMetadata[8] = <<"noLabel", "string">> /\ A!idl_hybridMarketMetadata[9] = <<"referenceUrl", "string">>
      /\ A!idl_hybridMarketMetadata[10] = <<"publishedAt", "i64">>
  BY DEF A!idl_hybridMarketMetadata
<1>3. QED
  BY <1>1, <1>2 DEF Has

LEMMA positionFields ==
  /\ Has(A!idl_position, "market", "pubkey")
  /\ Has(A!idl_position, "owner", "pubkey")
  /\ Has(A!idl_position, "yesShares", "u64")
  /\ Has(A!idl_position, "noShares", "u64")
  /\ Has(A!idl_position, "totalSpent", "u64")
  /\ Has(A!idl_position, "totalProceeds", "u64")
  /\ Has(A!idl_position, "settledAmount", "u64")
  /\ Has(A!idl_position, "settled", "bool")
<1>1. DOMAIN A!idl_position = 1 .. 10
  BY DEF A!idl_position
<1>2. /\ A!idl_position[3] = <<"market", "pubkey">> /\ A!idl_position[4] = <<"owner", "pubkey">>
      /\ A!idl_position[5] = <<"yesShares", "u64">> /\ A!idl_position[6] = <<"noShares", "u64">>
      /\ A!idl_position[7] = <<"totalSpent", "u64">> /\ A!idl_position[8] = <<"totalProceeds", "u64">>
      /\ A!idl_position[9] = <<"settledAmount", "u64">> /\ A!idl_position[10] = <<"settled", "bool">>
  BY DEF A!idl_position
<1>3. QED
  BY <1>1, <1>2 DEF Has

LEMMA optimisticProposalFields ==
  /\ Has(A!idl_optimisticProposal, "proposer", "pubkey")
  /\ Has(A!idl_optimisticProposal, "proposedOutcome", "u8")
  /\ Has(A!idl_optimisticProposal, "assertionHash", "bytes32")
  /\ Has(A!idl_optimisticProposal, "assertionEvidenceUri", "string")
  /\ Has(A!idl_optimisticProposal, "proposedAt", "i64")
  /\ Has(A!idl_optimisticProposal, "challengeDeadline", "i64")
  /\ Has(A!idl_optimisticProposal, "challenger", "pubkey")
  /\ Has(A!idl_optimisticProposal, "challengedOutcome", "u8")
  /\ Has(A!idl_optimisticProposal, "challengeHash", "bytes32")
  /\ Has(A!idl_optimisticProposal, "challengeEvidenceUri", "string")
  /\ Has(A!idl_optimisticProposal, "bondAmount", "u64")
  /\ Has(A!idl_optimisticProposal, "proposerPayout", "u64")
  /\ Has(A!idl_optimisticProposal, "challengerPayout", "u64")
  /\ Has(A!idl_optimisticProposal, "treasuryPayout", "u64")
  /\ Has(A!idl_optimisticProposal, "proposerClaimed", "bool")
  /\ Has(A!idl_optimisticProposal, "challengerClaimed", "bool")
  /\ Has(A!idl_optimisticProposal, "treasuryClaimed", "bool")
  /\ Has(A!idl_optimisticProposal, "finalized", "bool")
  /\ Has(A!idl_optimisticProposal, "winner", "pubkey")
<1>1. DOMAIN A!idl_optimisticProposal = 1 .. 27
  BY DEF A!idl_optimisticProposal
<1>2. /\ A!idl_optimisticProposal[5] = <<"proposer", "pubkey">> /\ A!idl_optimisticProposal[7] = <<"proposedOutcome", "u8">>
      /\ A!idl_optimisticProposal[8] = <<"assertionHash", "bytes32">> /\ A!idl_optimisticProposal[9] = <<"assertionEvidenceUri", "string">>
      /\ A!idl_optimisticProposal[10] = <<"proposedAt", "i64">> /\ A!idl_optimisticProposal[11] = <<"challengeDeadline", "i64">>
      /\ A!idl_optimisticProposal[12] = <<"challenger", "pubkey">> /\ A!idl_optimisticProposal[14] = <<"challengedOutcome", "u8">>
      /\ A!idl_optimisticProposal[15] = <<"challengeHash", "bytes32">> /\ A!idl_optimisticProposal[16] = <<"challengeEvidenceUri", "string">>
      /\ A!idl_optimisticProposal[18] = <<"bondAmount", "u64">> /\ A!idl_optimisticProposal[19] = <<"proposerPayout", "u64">>
      /\ A!idl_optimisticProposal[20] = <<"challengerPayout", "u64">> /\ A!idl_optimisticProposal[21] = <<"treasuryPayout", "u64">>
      /\ A!idl_optimisticProposal[22] = <<"proposerClaimed", "bool">> /\ A!idl_optimisticProposal[23] = <<"challengerClaimed", "bool">>
      /\ A!idl_optimisticProposal[24] = <<"treasuryClaimed", "bool">> /\ A!idl_optimisticProposal[25] = <<"finalized", "bool">>
      /\ A!idl_optimisticProposal[26] = <<"winner", "pubkey">>
  BY DEF A!idl_optimisticProposal
<1>3. /\ Has(A!idl_optimisticProposal, "proposer", "pubkey")
      /\ Has(A!idl_optimisticProposal, "proposedOutcome", "u8")
      /\ Has(A!idl_optimisticProposal, "assertionHash", "bytes32")
      /\ Has(A!idl_optimisticProposal, "assertionEvidenceUri", "string")
      /\ Has(A!idl_optimisticProposal, "proposedAt", "i64")
      /\ Has(A!idl_optimisticProposal, "challengeDeadline", "i64")
      /\ Has(A!idl_optimisticProposal, "challenger", "pubkey")
      /\ Has(A!idl_optimisticProposal, "challengedOutcome", "u8")
  BY <1>1, <1>2 DEF Has
<1>4. /\ Has(A!idl_optimisticProposal, "challengeHash", "bytes32")
      /\ Has(A!idl_optimisticProposal, "challengeEvidenceUri", "string")
      /\ Has(A!idl_optimisticProposal, "bondAmount", "u64")
      /\ Has(A!idl_optimisticProposal, "proposerPayout", "u64")
      /\ Has(A!idl_optimisticProposal, "challengerPayout", "u64")
      /\ Has(A!idl_optimisticProposal, "treasuryPayout", "u64")
      /\ Has(A!idl_optimisticProposal, "proposerClaimed", "bool")
      /\ Has(A!idl_optimisticProposal, "challengerClaimed", "bool")
  BY <1>1, <1>2 DEF Has
<1>5. /\ Has(A!idl_optimisticProposal, "treasuryClaimed", "bool")
      /\ Has(A!idl_optimisticProposal, "finalized", "bool")
      /\ Has(A!idl_optimisticProposal, "winner", "pubkey")
  BY <1>1, <1>2 DEF Has
<1>6. QED
  BY <1>3, <1>4, <1>5

LEMMA committee_OrderAccount_answered == Answered(A!committee_OrderAccount, "order")
<1>1. A!committee_OrderAccount.type = "order" /\ A!committee_OrderAccount.spelling = A!Spelling(A!committee_OrderAccount.decoder)
  BY DEF A!committee_OrderAccount, A!Cast, A!Spelling
<1>2. \A name \in
         {"market"} :
         Made(A!idl_order, "PublicKey", name)
  BY orderFields, HasMade, MadeOfFacts
<1>3. \A name \in
         {"orderIndex"} :
         Made(A!idl_order, "number", name)
  BY orderFields, HasMade, MadeOfFacts
<1>4. \A name \in
         {"commitment"} :
         Made(A!idl_order, "numbers", name)
  BY orderFields, HasMade, MadeOfFacts
<1>5. \A name \in
         {"shareCommitments"} :
         Made(A!idl_order, "rows", name)
  BY orderFields, HasMade, MadeOfFacts
<1>6. A!idl_accounts.order = A!idl_order
  BY DEF A!idl_accounts
<1>7. QED
  BY <1>1, <1>2, <1>3, <1>4, <1>5, <1>6 DEF Answered, A!committee_OrderAccount, A!Cast

LEMMA committee_MarketAccount_answered == Answered(A!committee_MarketAccount, "market")
<1>1. A!committee_MarketAccount.type = "market" /\ A!committee_MarketAccount.spelling = A!Spelling(A!committee_MarketAccount.decoder)
  BY DEF A!committee_MarketAccount, A!Cast, A!Spelling
<1>2. \A name \in
         {"lockTs", "batchDeadlineTs"} :
         Made(A!idl_market, "BN", name)
  BY marketFields, HasMade, MadeOfFacts
<1>3. \A name \in
         {"orderCount"} :
         Made(A!idl_market, "number", name)
  BY marketFields, HasMade, MadeOfFacts
<1>4. \A name \in
         {"phase"} :
         Made(A!idl_market, "EnumLike", name)
  BY marketFields, HasMade, EnumsMade
<1>5. A!idl_accounts.market = A!idl_market
  BY DEF A!idl_accounts
<1>6. QED
  BY <1>1, <1>2, <1>3, <1>4, <1>5 DEF Answered, A!committee_MarketAccount, A!Cast

LEMMA server_MarketAccount_answered == Answered(A!server_MarketAccount, "market")
<1>1. A!server_MarketAccount.type = "market" /\ A!server_MarketAccount.spelling = A!Spelling(A!server_MarketAccount.decoder)
  BY DEF A!server_MarketAccount, A!Cast, A!Spelling
<1>2. \A name \in
         {"marketId", "fixtureId", "fixtureStartTs", "stakeAmount", "lockTs", "grossPool",
         "netPool", "yesAmount", "noAmount"} :
         Made(A!idl_market, "IntegerLike", name)
  BY marketFields, HasMade, MadeOfFacts
<1>3. \A name \in
         {"authority"} :
         Made(A!idl_market, "PublicKey", name)
  BY marketFields, HasMade, MadeOfFacts
<1>4. \A name \in
         {"marketMode", "phase"} :
         Made(A!idl_market, "EnumLike", name)
  BY marketFields, HasMade, EnumsMade
<1>5. \A name \in
         {"totalGoalsThreshold", "orderCount", "outcome", "scoreA", "scoreB"} :
         Made(A!idl_market, "number", name)
  BY marketFields, HasMade, MadeOfFacts
<1>6. A!idl_accounts.market = A!idl_market
  BY DEF A!idl_accounts
<1>7. QED
  BY <1>1, <1>2, <1>3, <1>4, <1>5, <1>6 DEF Answered, A!server_MarketAccount, A!Cast

LEMMA server_HybridMarketAccount_answered == Answered(A!server_HybridMarketAccount, "hybridMarket")
<1>1. A!server_HybridMarketAccount.type = "hybridMarket" /\ A!server_HybridMarketAccount.spelling = A!Spelling(A!server_HybridMarketAccount.decoder)
  BY DEF A!server_HybridMarketAccount, A!Cast, A!Spelling
<1>2. \A name \in
         {"marketId", "liquidityParameter", "maxTradeShares", "yesQuantity", "noQuantity",
         "openTs", "lockTs", "resolveNotBeforeTs", "resolutionDeadlineTs", "tradeCount",
         "volume"} :
         Made(A!idl_hybridMarket, "IntegerLike", name)
  BY hybridMarketFields, HasMade, MadeOfFacts
<1>3. \A name \in
         {"creator", "liquidityOwner", "collateralMint", "treasuryOwner", "oracleConfig"} :
         Made(A!idl_hybridMarket, "PublicKey", name)
  BY hybridMarketFields, HasMade, MadeOfFacts
<1>4. \A name \in
         {"category", "phase"} :
         Made(A!idl_hybridMarket, "EnumLike", name)
  BY hybridMarketFields, HasMade, EnumsMade
<1>5. \A name \in
         {"questionHash", "rulesHash", "outcomeLabelsHash", "settlementEvidenceHash"} :
         Made(A!idl_hybridMarket, "numbers", name)
  BY hybridMarketFields, HasMade, MadeOfFacts
<1>6. \A name \in
         {"tradeFeeBps", "treasuryFeeShareBps", "outcome"} :
         Made(A!idl_hybridMarket, "number", name)
  BY hybridMarketFields, HasMade, MadeOfFacts
<1>7. A!idl_accounts.hybridMarket = A!idl_hybridMarket
  BY DEF A!idl_accounts
<1>8. QED
  BY <1>1, <1>2, <1>3, <1>4, <1>5, <1>6, <1>7 DEF Answered, A!server_HybridMarketAccount, A!Cast

LEMMA server_OracleConfigAccount_answered == Answered(A!server_OracleConfigAccount, "oracleConfig")
<1>1. A!server_OracleConfigAccount.type = "oracleConfig" /\ A!server_OracleConfigAccount.spelling = A!Spelling(A!server_OracleConfigAccount.decoder)
  BY DEF A!server_OracleConfigAccount, A!Cast, A!Spelling
<1>2. \A name \in
         {"market", "sourceProgram", "sourceQueue"} :
         Made(A!idl_oracleConfig, "PublicKey", name)
  BY oracleConfigFields, HasMade, MadeOfFacts
<1>3. \A name \in
         {"resolver", "comparator"} :
         Made(A!idl_oracleConfig, "EnumLike", name)
  BY oracleConfigFields, HasMade, EnumsMade
<1>4. \A name \in
         {"sourceId"} :
         Made(A!idl_oracleConfig, "numbers", name)
  BY oracleConfigFields, HasMade, MadeOfFacts
<1>5. \A name \in
         {"threshold", "observationTs", "maxStalenessSlots", "bondAmount"} :
         Made(A!idl_oracleConfig, "IntegerLike", name)
  BY oracleConfigFields, HasMade, MadeOfFacts
<1>6. \A name \in
         {"thresholdExponent", "observationWindowSecs", "maxStalenessSecs", "maxConfidenceBps",
         "minSamples", "challengePeriodSecs"} :
         Made(A!idl_oracleConfig, "number", name)
  BY oracleConfigFields, HasMade, MadeOfFacts
<1>7. \A name \in
         {"consumed"} :
         Made(A!idl_oracleConfig, "boolean", name)
  BY oracleConfigFields, HasMade, MadeOfFacts
<1>8. A!idl_accounts.oracleConfig = A!idl_oracleConfig
  BY DEF A!idl_accounts
<1>9. QED
  BY <1>1, <1>2, <1>3, <1>4, <1>5, <1>6, <1>7, <1>8 DEF Answered, A!server_OracleConfigAccount, A!Cast

LEMMA server_HybridMetadataAccount_answered == Answered(A!server_HybridMetadataAccount, "hybridMarketMetadata")
<1>1. A!server_HybridMetadataAccount.type = "hybridMarketMetadata" /\ A!server_HybridMetadataAccount.spelling = A!Spelling(A!server_HybridMetadataAccount.decoder)
  BY DEF A!server_HybridMetadataAccount, A!Cast, A!Spelling
<1>2. \A name \in
         {"market", "creator"} :
         Made(A!idl_hybridMarketMetadata, "PublicKey", name)
  BY hybridMarketMetadataFields, HasMade, MadeOfFacts
<1>3. \A name \in
         {"question", "rules", "yesLabel", "noLabel", "referenceUrl"} :
         Made(A!idl_hybridMarketMetadata, "string", name)
  BY hybridMarketMetadataFields, HasMade, MadeOfFacts
<1>4. A!idl_accounts.hybridMarketMetadata = A!idl_hybridMarketMetadata
  BY DEF A!idl_accounts
<1>5. QED
  BY <1>1, <1>2, <1>3, <1>4 DEF Answered, A!server_HybridMetadataAccount, A!Cast

LEMMA server_ResolutionReceiptAccount_answered == Answered(A!server_ResolutionReceiptAccount, "resolutionReceipt")
<1>1. A!server_ResolutionReceiptAccount.type = "resolutionReceipt" /\ A!server_ResolutionReceiptAccount.spelling = A!Spelling(A!server_ResolutionReceiptAccount.decoder)
  BY DEF A!server_ResolutionReceiptAccount, A!Cast, A!Spelling
<1>2. \A name \in
         {"market", "sourceAccount"} :
         Made(A!idl_resolutionReceipt, "PublicKey", name)
  BY resolutionReceiptFields, HasMade, MadeOfFacts
<1>3. \A name \in
         {"outcome", "observationExponent", "sampleCount"} :
         Made(A!idl_resolutionReceipt, "number", name)
  BY resolutionReceiptFields, HasMade, MadeOfFacts
<1>4. \A name \in
         {"observationValue", "observationTs", "observationSlot", "confidence",
         "finalizedAt"} :
         Made(A!idl_resolutionReceipt, "IntegerLike", name)
  BY resolutionReceiptFields, HasMade, MadeOfFacts
<1>5. \A name \in
         {"evidenceHash"} :
         Made(A!idl_resolutionReceipt, "numbers", name)
  BY resolutionReceiptFields, HasMade, MadeOfFacts
<1>6. A!idl_accounts.resolutionReceipt = A!idl_resolutionReceipt
  BY DEF A!idl_accounts
<1>7. QED
  BY <1>1, <1>2, <1>3, <1>4, <1>5, <1>6 DEF Answered, A!server_ResolutionReceiptAccount, A!Cast

LEMMA server_PositionAccount_answered == Answered(A!server_PositionAccount, "position")
<1>1. A!server_PositionAccount.type = "position" /\ A!server_PositionAccount.spelling = A!Spelling(A!server_PositionAccount.decoder)
  BY DEF A!server_PositionAccount, A!Cast, A!Spelling
<1>2. \A name \in
         {"market", "owner"} :
         Made(A!idl_position, "PublicKey", name)
  BY positionFields, HasMade, MadeOfFacts
<1>3. A!idl_accounts.position = A!idl_position
  BY DEF A!idl_accounts
<1>4. QED
  BY <1>1, <1>2, <1>3 DEF Answered, A!server_PositionAccount, A!Cast

LEMMA snapshot_HybridMarketAccount_answered == Answered(A!snapshot_HybridMarketAccount, "hybridMarket")
<1>1. A!snapshot_HybridMarketAccount.type = "hybridMarket" /\ A!snapshot_HybridMarketAccount.spelling = A!Spelling(A!snapshot_HybridMarketAccount.decoder)
  BY DEF A!snapshot_HybridMarketAccount, A!Cast, A!Spelling
<1>2. \A name \in
         {"version", "tradeFeeBps", "treasuryFeeShareBps", "outcome"} :
         Made(A!idl_hybridMarket, "number", name)
  BY hybridMarketFields, HasMade, MadeOfFacts
<1>3. \A name \in
         {"marketId", "liquidityParameter", "initialSubsidy", "roundingReserve",
         "maxTradeShares", "resolverSecurityCap", "yesQuantity", "noQuantity", "openTs",
         "lockTs", "resolveNotBeforeTs", "resolutionDeadlineTs", "tradeCount", "volume",
         "treasuryFees", "liquidityFees", "outstandingLiability", "redeemedLiability",
         "settledAt"} :
         Made(A!idl_hybridMarket, "IntegerLike", name)
  BY hybridMarketFields, HasMade, MadeOfFacts
<1>4. \A name \in
         {"creator", "liquidityOwner", "collateralMint", "tokenProgram", "treasuryOwner",
         "oracleConfig"} :
         Made(A!idl_hybridMarket, "PublicKey", name)
  BY hybridMarketFields, HasMade, MadeOfFacts
<1>5. \A name \in
         {"category", "tradingMode", "pricingModel", "phase"} :
         Made(A!idl_hybridMarket, "EnumLike", name)
  BY hybridMarketFields, HasMade, EnumsMade
<1>6. \A name \in
         {"questionHash", "rulesHash", "outcomeLabelsHash", "settlementEvidenceHash"} :
         Made(A!idl_hybridMarket, "numbers", name)
  BY hybridMarketFields, HasMade, MadeOfFacts
<1>7. A!idl_accounts.hybridMarket = A!idl_hybridMarket
  BY DEF A!idl_accounts
<1>8. QED
  BY <1>1, <1>2, <1>3, <1>4, <1>5, <1>6, <1>7 DEF Answered, A!snapshot_HybridMarketAccount, A!Cast

LEMMA snapshot_OracleAccount_answered == Answered(A!snapshot_OracleAccount, "oracleConfig")
<1>1. A!snapshot_OracleAccount.type = "oracleConfig" /\ A!snapshot_OracleAccount.spelling = A!Spelling(A!snapshot_OracleAccount.decoder)
  BY DEF A!snapshot_OracleAccount, A!Cast, A!Spelling
<1>2. \A name \in
         {"version", "thresholdExponent", "observationWindowSecs", "maxStalenessSecs",
         "maxConfidenceBps", "minSamples", "challengePeriodSecs"} :
         Made(A!idl_oracleConfig, "number", name)
  BY oracleConfigFields, HasMade, MadeOfFacts
<1>3. \A name \in
         {"market", "sourceProgram", "sourceQueue", "optimisticProposal"} :
         Made(A!idl_oracleConfig, "PublicKey", name)
  BY oracleConfigFields, HasMade, MadeOfFacts
<1>4. \A name \in
         {"resolver", "comparator"} :
         Made(A!idl_oracleConfig, "EnumLike", name)
  BY oracleConfigFields, HasMade, EnumsMade
<1>5. \A name \in
         {"sourceId", "configHash"} :
         Made(A!idl_oracleConfig, "numbers", name)
  BY oracleConfigFields, HasMade, MadeOfFacts
<1>6. \A name \in
         {"threshold", "observationTs", "maxStalenessSlots", "bondAmount"} :
         Made(A!idl_oracleConfig, "IntegerLike", name)
  BY oracleConfigFields, HasMade, MadeOfFacts
<1>7. \A name \in
         {"consumed"} :
         Made(A!idl_oracleConfig, "boolean", name)
  BY oracleConfigFields, HasMade, MadeOfFacts
<1>8. A!idl_accounts.oracleConfig = A!idl_oracleConfig
  BY DEF A!idl_accounts
<1>9. QED
  BY <1>1, <1>2, <1>3, <1>4, <1>5, <1>6, <1>7, <1>8 DEF Answered, A!snapshot_OracleAccount, A!Cast

LEMMA snapshot_ResolutionReceiptAccount_answered == Answered(A!snapshot_ResolutionReceiptAccount, "resolutionReceipt")
<1>1. A!snapshot_ResolutionReceiptAccount.type = "resolutionReceipt" /\ A!snapshot_ResolutionReceiptAccount.spelling = A!Spelling(A!snapshot_ResolutionReceiptAccount.decoder)
  BY DEF A!snapshot_ResolutionReceiptAccount, A!Cast, A!Spelling
<1>2. \A name \in
         {"version", "outcome", "observationExponent", "sampleCount"} :
         Made(A!idl_resolutionReceipt, "number", name)
  BY resolutionReceiptFields, HasMade, MadeOfFacts
<1>3. \A name \in
         {"market", "sourceQueue", "sourceAccount"} :
         Made(A!idl_resolutionReceipt, "PublicKey", name)
  BY resolutionReceiptFields, HasMade, MadeOfFacts
<1>4. \A name \in
         {"resolver"} :
         Made(A!idl_resolutionReceipt, "EnumLike", name)
  BY resolutionReceiptFields, HasMade, EnumsMade
<1>5. \A name \in
         {"observationValue", "observationTs", "observationSlot", "confidence",
         "finalizedAt"} :
         Made(A!idl_resolutionReceipt, "IntegerLike", name)
  BY resolutionReceiptFields, HasMade, MadeOfFacts
<1>6. \A name \in
         {"sourceId", "evidenceHash"} :
         Made(A!idl_resolutionReceipt, "numbers", name)
  BY resolutionReceiptFields, HasMade, MadeOfFacts
<1>7. A!idl_accounts.resolutionReceipt = A!idl_resolutionReceipt
  BY DEF A!idl_accounts
<1>8. QED
  BY <1>1, <1>2, <1>3, <1>4, <1>5, <1>6, <1>7 DEF Answered, A!snapshot_ResolutionReceiptAccount, A!Cast

LEMMA snapshot_HybridMetadataAccount_answered == Answered(A!snapshot_HybridMetadataAccount, "hybridMarketMetadata")
<1>1. A!snapshot_HybridMetadataAccount.type = "hybridMarketMetadata" /\ A!snapshot_HybridMetadataAccount.spelling = A!Spelling(A!snapshot_HybridMetadataAccount.decoder)
  BY DEF A!snapshot_HybridMetadataAccount, A!Cast, A!Spelling
<1>2. \A name \in
         {"version"} :
         Made(A!idl_hybridMarketMetadata, "number", name)
  BY hybridMarketMetadataFields, HasMade, MadeOfFacts
<1>3. \A name \in
         {"market", "creator"} :
         Made(A!idl_hybridMarketMetadata, "PublicKey", name)
  BY hybridMarketMetadataFields, HasMade, MadeOfFacts
<1>4. \A name \in
         {"question", "rules", "yesLabel", "noLabel", "referenceUrl"} :
         Made(A!idl_hybridMarketMetadata, "string", name)
  BY hybridMarketMetadataFields, HasMade, MadeOfFacts
<1>5. \A name \in
         {"publishedAt"} :
         Made(A!idl_hybridMarketMetadata, "IntegerLike", name)
  BY hybridMarketMetadataFields, HasMade, MadeOfFacts
<1>6. A!idl_accounts.hybridMarketMetadata = A!idl_hybridMarketMetadata
  BY DEF A!idl_accounts
<1>7. QED
  BY <1>1, <1>2, <1>3, <1>4, <1>5, <1>6 DEF Answered, A!snapshot_HybridMetadataAccount, A!Cast

LEMMA portfolio_HybridMarketAccount_answered == Answered(A!portfolio_HybridMarketAccount, "hybridMarket")
<1>1. A!portfolio_HybridMarketAccount.type = "hybridMarket" /\ A!portfolio_HybridMarketAccount.spelling = A!Spelling(A!portfolio_HybridMarketAccount.decoder)
  BY DEF A!portfolio_HybridMarketAccount, A!Cast, A!Spelling
<1>2. \A name \in
         {"marketId", "yesQuantity", "noQuantity", "liquidityParameter",
         "outstandingLiability", "lockTs"} :
         Made(A!idl_hybridMarket, "BN", name)
  BY hybridMarketFields, HasMade, MadeOfFacts
<1>3. \A name \in
         {"creator", "liquidityOwner", "collateralMint"} :
         Made(A!idl_hybridMarket, "PublicKey", name)
  BY hybridMarketFields, HasMade, MadeOfFacts
<1>4. \A name \in
         {"questionHash"} :
         Made(A!idl_hybridMarket, "numbers", name)
  BY hybridMarketFields, HasMade, MadeOfFacts
<1>5. \A name \in
         {"phase"} :
         Made(A!idl_hybridMarket, "EnumLike", name)
  BY hybridMarketFields, HasMade, EnumsMade
<1>6. \A name \in
         {"outcome"} :
         Made(A!idl_hybridMarket, "number", name)
  BY hybridMarketFields, HasMade, MadeOfFacts
<1>7. A!idl_accounts.hybridMarket = A!idl_hybridMarket
  BY DEF A!idl_accounts
<1>8. QED
  BY <1>1, <1>2, <1>3, <1>4, <1>5, <1>6, <1>7 DEF Answered, A!portfolio_HybridMarketAccount, A!Cast

LEMMA portfolio_PositionAccount_answered == Answered(A!portfolio_PositionAccount, "position")
<1>1. A!portfolio_PositionAccount.type = "position" /\ A!portfolio_PositionAccount.spelling = A!Spelling(A!portfolio_PositionAccount.decoder)
  BY DEF A!portfolio_PositionAccount, A!Cast, A!Spelling
<1>2. \A name \in
         {"market", "owner"} :
         Made(A!idl_position, "PublicKey", name)
  BY positionFields, HasMade, MadeOfFacts
<1>3. \A name \in
         {"yesShares", "noShares", "totalSpent", "totalProceeds", "settledAmount"} :
         Made(A!idl_position, "BN", name)
  BY positionFields, HasMade, MadeOfFacts
<1>4. \A name \in
         {"settled"} :
         Made(A!idl_position, "boolean", name)
  BY positionFields, HasMade, MadeOfFacts
<1>5. A!idl_accounts.position = A!idl_position
  BY DEF A!idl_accounts
<1>6. QED
  BY <1>1, <1>2, <1>3, <1>4, <1>5 DEF Answered, A!portfolio_PositionAccount, A!Cast

LEMMA portfolio_MetadataAccount_answered == Answered(A!portfolio_MetadataAccount, "hybridMarketMetadata")
<1>1. A!portfolio_MetadataAccount.type = "hybridMarketMetadata" /\ A!portfolio_MetadataAccount.spelling = A!Spelling(A!portfolio_MetadataAccount.decoder)
  BY DEF A!portfolio_MetadataAccount, A!Cast, A!Spelling
<1>2. \A name \in
         {"market"} :
         Made(A!idl_hybridMarketMetadata, "PublicKey", name)
  BY hybridMarketMetadataFields, HasMade, MadeOfFacts
<1>3. \A name \in
         {"question", "yesLabel", "noLabel"} :
         Made(A!idl_hybridMarketMetadata, "string", name)
  BY hybridMarketMetadataFields, HasMade, MadeOfFacts
<1>4. A!idl_accounts.hybridMarketMetadata = A!idl_hybridMarketMetadata
  BY DEF A!idl_accounts
<1>5. QED
  BY <1>1, <1>2, <1>3, <1>4 DEF Answered, A!portfolio_MetadataAccount, A!Cast

LEMMA panel_HybridAccount_answered == Answered(A!panel_HybridAccount, "hybridMarket")
<1>1. A!panel_HybridAccount.type = "hybridMarket" /\ A!panel_HybridAccount.spelling = A!Spelling(A!panel_HybridAccount.decoder)
  BY DEF A!panel_HybridAccount, A!Cast, A!Spelling
<1>2. \A name \in
         {"collateralMint", "treasuryOwner", "liquidityOwner"} :
         Made(A!idl_hybridMarket, "PublicKey", name)
  BY hybridMarketFields, HasMade, MadeOfFacts
<1>3. \A name \in
         {"liquidityParameter", "yesQuantity", "noQuantity", "maxTradeShares"} :
         Made(A!idl_hybridMarket, "IntegerLike", name)
  BY hybridMarketFields, HasMade, MadeOfFacts
<1>4. \A name \in
         {"tradeFeeBps"} :
         Made(A!idl_hybridMarket, "number", name)
  BY hybridMarketFields, HasMade, MadeOfFacts
<1>5. \A name \in
         {"lockTs"} :
         Made(A!idl_hybridMarket, "BN", name)
  BY hybridMarketFields, HasMade, MadeOfFacts
<1>6. \A name \in
         {"phase"} :
         Made(A!idl_hybridMarket, "EnumLike", name)
  BY hybridMarketFields, HasMade, EnumsMade
<1>7. A!idl_accounts.hybridMarket = A!idl_hybridMarket
  BY DEF A!idl_accounts
<1>8. QED
  BY <1>1, <1>2, <1>3, <1>4, <1>5, <1>6, <1>7 DEF Answered, A!panel_HybridAccount, A!Cast

LEMMA panel_PositionAccount_answered == Answered(A!panel_PositionAccount, "position")
<1>1. A!panel_PositionAccount.type = "position" /\ A!panel_PositionAccount.spelling = A!Spelling(A!panel_PositionAccount.decoder)
  BY DEF A!panel_PositionAccount, A!Cast, A!Spelling
<1>2. \A name \in
         {"yesShares", "noShares"} :
         Made(A!idl_position, "IntegerLike", name)
  BY positionFields, HasMade, MadeOfFacts
<1>3. A!idl_accounts.position = A!idl_position
  BY DEF A!idl_accounts
<1>4. QED
  BY <1>1, <1>2, <1>3 DEF Answered, A!panel_PositionAccount, A!Cast

LEMMA resolution_HybridMarketAccount_answered == Answered(A!resolution_HybridMarketAccount, "hybridMarket")
<1>1. A!resolution_HybridMarketAccount.type = "hybridMarket" /\ A!resolution_HybridMarketAccount.spelling = A!Spelling(A!resolution_HybridMarketAccount.decoder)
  BY DEF A!resolution_HybridMarketAccount, A!Cast, A!Spelling
<1>2. \A name \in
         {"collateralMint", "treasuryOwner", "oracleConfig"} :
         Made(A!idl_hybridMarket, "PublicKey", name)
  BY hybridMarketFields, HasMade, MadeOfFacts
<1>3. \A name \in
         {"phase"} :
         Made(A!idl_hybridMarket, "EnumLike", name)
  BY hybridMarketFields, HasMade, EnumsMade
<1>4. \A name \in
         {"resolveNotBeforeTs", "resolutionDeadlineTs"} :
         Made(A!idl_hybridMarket, "BN", name)
  BY hybridMarketFields, HasMade, MadeOfFacts
<1>5. A!idl_accounts.hybridMarket = A!idl_hybridMarket
  BY DEF A!idl_accounts
<1>6. QED
  BY <1>1, <1>2, <1>3, <1>4, <1>5 DEF Answered, A!resolution_HybridMarketAccount, A!Cast

LEMMA resolution_OracleAccount_answered == Answered(A!resolution_OracleAccount, "oracleConfig")
<1>1. A!resolution_OracleAccount.type = "oracleConfig" /\ A!resolution_OracleAccount.spelling = A!Spelling(A!resolution_OracleAccount.decoder)
  BY DEF A!resolution_OracleAccount, A!Cast, A!Spelling
<1>2. \A name \in
         {"bondAmount"} :
         Made(A!idl_oracleConfig, "BN", name)
  BY oracleConfigFields, HasMade, MadeOfFacts
<1>3. \A name \in
         {"optimisticProposal"} :
         Made(A!idl_oracleConfig, "PublicKey", name)
  BY oracleConfigFields, HasMade, MadeOfFacts
<1>4. A!idl_accounts.oracleConfig = A!idl_oracleConfig
  BY DEF A!idl_accounts
<1>5. QED
  BY <1>1, <1>2, <1>3, <1>4 DEF Answered, A!resolution_OracleAccount, A!Cast

LEMMA resolution_ProposalAccount_answered == Answered(A!resolution_ProposalAccount, "optimisticProposal")
<1>1. A!resolution_ProposalAccount.type = "optimisticProposal" /\ A!resolution_ProposalAccount.spelling = A!Spelling(A!resolution_ProposalAccount.decoder)
  BY DEF A!resolution_ProposalAccount, A!Cast, A!Spelling
<1>2. \A name \in
         {"proposer", "challenger", "winner"} :
         Made(A!idl_optimisticProposal, "PublicKey", name)
  BY optimisticProposalFields, HasMade, MadeOfFacts
<1>3. \A name \in
         {"proposedOutcome", "challengedOutcome"} :
         Made(A!idl_optimisticProposal, "number", name)
  BY optimisticProposalFields, HasMade, MadeOfFacts
<1>4. \A name \in
         {"assertionHash", "challengeHash"} :
         Made(A!idl_optimisticProposal, "numbers", name)
  BY optimisticProposalFields, HasMade, MadeOfFacts
<1>5. \A name \in
         {"assertionEvidenceUri", "challengeEvidenceUri"} :
         Made(A!idl_optimisticProposal, "string", name)
  BY optimisticProposalFields, HasMade, MadeOfFacts
<1>6. \A name \in
         {"proposedAt", "challengeDeadline", "bondAmount", "proposerPayout",
         "challengerPayout", "treasuryPayout"} :
         Made(A!idl_optimisticProposal, "BN", name)
  BY optimisticProposalFields, HasMade, MadeOfFacts
<1>7. \A name \in
         {"proposerClaimed", "challengerClaimed", "treasuryClaimed", "finalized"} :
         Made(A!idl_optimisticProposal, "boolean", name)
  BY optimisticProposalFields, HasMade, MadeOfFacts
<1>8. A!idl_accounts.optimisticProposal = A!idl_optimisticProposal
  BY DEF A!idl_accounts
<1>9. QED
  BY <1>1, <1>2, <1>3, <1>4, <1>5, <1>6, <1>7, <1>8 DEF Answered, A!resolution_ProposalAccount, A!Cast

LEMMA settlement_PythOracleAccount_answered == Answered(A!settlement_PythOracleAccount, "oracleConfig")
<1>1. A!settlement_PythOracleAccount.type = "oracleConfig" /\ A!settlement_PythOracleAccount.spelling = A!Spelling(A!settlement_PythOracleAccount.decoder)
  BY DEF A!settlement_PythOracleAccount, A!Cast, A!Spelling
<1>2. \A name \in
         {"sourceId"} :
         Made(A!idl_oracleConfig, "numbers", name)
  BY oracleConfigFields, HasMade, MadeOfFacts
<1>3. \A name \in
         {"sourceProgram"} :
         Made(A!idl_oracleConfig, "PublicKey", name)
  BY oracleConfigFields, HasMade, MadeOfFacts
<1>4. \A name \in
         {"observationTs"} :
         Made(A!idl_oracleConfig, "BN", name)
  BY oracleConfigFields, HasMade, MadeOfFacts
<1>5. \A name \in
         {"maxStalenessSecs"} :
         Made(A!idl_oracleConfig, "number", name)
  BY oracleConfigFields, HasMade, MadeOfFacts
<1>6. A!idl_accounts.oracleConfig = A!idl_oracleConfig
  BY DEF A!idl_accounts
<1>7. QED
  BY <1>1, <1>2, <1>3, <1>4, <1>5, <1>6 DEF Answered, A!settlement_PythOracleAccount, A!Cast

\* A reader that has to know every variant names exactly those there are.
LEMMA TotalNamings ==
  ASSUME NEW n \in A!total_namings
  PROVE  /\ n.names = A!Fields(A!idl_enums[n.type])
         /\ n.spelling \in A!VariantNames(n)
<1> DEFINE Total(m) == /\ m.names = A!Fields(A!idl_enums[m.type])
                       /\ m.spelling \in A!VariantNames(m)
<1>1. ASSUME NEW m \in {A!phaseName, A!hybridPhaseName, A!oracleResolverName,
                        A!snapshot_comparatorName, A!snapshot_category, A!snapshot_tradingMode,
                        A!snapshot_pricingModel}
      PROVE  Total(m)
  <2>1. m.names = A!Fields(A!idl_enums[m.type])
    <3>1. /\ A!phaseName.type = "marketPhase"
          /\ A!phaseName.names = A!Fields(A!idl_enums.marketPhase)
      BY DEF A!phaseName, A!Naming, A!Fields, A!idl_enums, A!idl_marketPhase
    <3>2. /\ A!hybridPhaseName.type = "hybridPhase"
          /\ A!hybridPhaseName.names = A!Fields(A!idl_enums.hybridPhase)
      BY DEF A!hybridPhaseName, A!Naming, A!Fields, A!idl_enums, A!idl_hybridPhase
    <3>3. /\ A!oracleResolverName.type = "oracleResolver"
          /\ A!oracleResolverName.names = A!Fields(A!idl_enums.oracleResolver)
      BY DEF A!oracleResolverName, A!Naming, A!Fields, A!idl_enums, A!idl_oracleResolver
    <3>4. /\ A!snapshot_comparatorName.type = "valueComparator"
          /\ A!snapshot_comparatorName.names = A!Fields(A!idl_enums.valueComparator)
      BY DEF A!snapshot_comparatorName, A!Naming, A!Fields, A!idl_enums, A!idl_valueComparator
    <3>5. /\ A!snapshot_category.type = "marketCategory"
          /\ A!snapshot_category.names = A!Fields(A!idl_enums.marketCategory)
      BY DEF A!snapshot_category, A!Naming, A!Fields, A!idl_enums, A!idl_marketCategory
    <3>6. /\ A!snapshot_tradingMode.type = "hybridTradingMode"
          /\ A!snapshot_tradingMode.names = A!Fields(A!idl_enums.hybridTradingMode)
      BY DEF A!snapshot_tradingMode, A!Naming, A!Fields, A!idl_enums, A!idl_hybridTradingMode
    <3>7. /\ A!snapshot_pricingModel.type = "hybridPricingModel"
          /\ A!snapshot_pricingModel.names = A!Fields(A!idl_enums.hybridPricingModel)
      BY DEF A!snapshot_pricingModel, A!Naming, A!Fields, A!idl_enums, A!idl_hybridPricingModel
    <3>8. QED
      BY <3>1, <3>2, <3>3, <3>4, <3>5, <3>6, <3>7
  <2>2. m.decoder = "program" /\ m.spelling = "camel"
    BY DEF A!phaseName, A!hybridPhaseName, A!oracleResolverName, A!snapshot_comparatorName,
           A!snapshot_category, A!snapshot_tradingMode, A!snapshot_pricingModel, A!Naming
  <2>3. QED
    BY <2>1, <2>2 DEF A!VariantNames
<1>2. ASSUME NEW m, Total(m) PROVE Total(A!FoldedRaw(m))
  BY <1>2 DEF A!FoldedRaw, A!Naming, A!VariantNames
<1>3. Total(A!portfolio_phaseName)
  <2>1. /\ A!portfolio_phaseName.names = A!hybridPhaseName.names
        /\ A!portfolio_phaseName.type = A!hybridPhaseName.type
        /\ A!portfolio_phaseName.spelling = "folded"
    BY DEF A!portfolio_phaseName, A!hybridPhaseName, A!Naming
  <2>2. QED
    BY <1>1, <2>1 DEF A!VariantNames
<1> HIDE DEF Total
<1>4. Total(n)
  BY <1>1, <1>2, <1>3 DEF A!total_namings, A!server_privatePoolPhase, A!server_hybridPhase,
     A!server_categoryName, A!server_resolverName, A!server_comparatorName
<1>5. QED
  BY <1>4 DEF Total

LEMMA SingleTests ==
  ASSUME NEW n \in A!single_tests
  PROVE  /\ n.names \subseteq A!Fields(A!idl_enums[n.type])
         /\ n.spelling \in A!VariantNames(n)
<1>1. n.names \subseteq A!Fields(A!idl_enums[n.type])
  BY DEF A!single_tests, A!panel_isOpen, A!committee_isOpen, A!Naming, A!Fields, A!idl_enums,
         A!idl_hybridPhase, A!idl_marketPhase
<1>2. n.spelling \in A!VariantNames(n)
  BY DEF A!single_tests, A!panel_isOpen, A!committee_isOpen, A!Naming, A!VariantNames
<1>3. QED
  BY <1>1, <1>2

LEMMA CastsAnswered == \A c \in A!casts : Answered(c, c.type)
<1>1. \A c, type : Answered(c, type) => Answered(c, c.type)
  BY DEF Answered
<1>2. QED
  BY <1>1, committee_OrderAccount_answered, committee_MarketAccount_answered,
     server_MarketAccount_answered, server_HybridMarketAccount_answered,
     server_OracleConfigAccount_answered, server_HybridMetadataAccount_answered,
     server_ResolutionReceiptAccount_answered, server_PositionAccount_answered,
     snapshot_HybridMarketAccount_answered, snapshot_OracleAccount_answered,
     snapshot_ResolutionReceiptAccount_answered, snapshot_HybridMetadataAccount_answered,
     portfolio_HybridMarketAccount_answered, portfolio_PositionAccount_answered,
     portfolio_MetadataAccount_answered, panel_HybridAccount_answered,
     panel_PositionAccount_answered, resolution_HybridMarketAccount_answered,
     resolution_OracleAccount_answered, resolution_ProposalAccount_answered,
     settlement_PythOracleAccount_answered
  DEF A!casts

LEMMA EnumDomains ==
  \A type \in DOMAIN A!idl_enums : DOMAIN A!idl_enums[type] = 1 .. Len(A!idl_enums[type])
BY DEF A!idl_enums, A!idl_marketPhase, A!idl_hybridPhase, A!idl_marketCategory,
       A!idl_resolverKind, A!idl_marketMode, A!idl_hybridTradingMode, A!idl_hybridPricingModel,
       A!idl_oracleResolver, A!idl_valueComparator

LEMMA ReadBackHolds ==
  ASSUME A!AccountIInv
  PROVE  A!ReadBack
<1>1. /\ DOMAIN bytes = 1 .. Len(bytes) /\ Len(bytes) \in Nat
      /\ DOMAIN decoded = 1 .. Len(decoded) /\ Len(decoded) \in Nat /\ Len(decoded) <= Len(bytes)
      /\ account \in DOMAIN A!program_accounts
  BY LenProperties DEF A!AccountIInv, A!BytesOK, A!DecodedOK
<1>2. ASSUME NEW i \in DOMAIN decoded
      PROVE  /\ i \in DOMAIN bytes
             /\ decoded[i].name = bytes[i].name /\ decoded[i].from = bytes[i].name
             /\ decoded[i].type = bytes[i].type /\ decoded[i].value = bytes[i].value
  BY <1>1 DEF A!AccountIInv, A!DecodedOK
<1>3. A!OwnValues
  BY <1>2 DEF A!OwnValues
<1>4. A!VariantsKnown
  <2> SUFFICES ASSUME NEW i \in DOMAIN decoded, decoded[i].type \in DOMAIN A!idl_enums
               PROVE  LET type == decoded[i].type
                          variant == A!idl_enums[type][decoded[i].value + 1]
                      IN  /\ variant = A!program_enums[type][decoded[i].value + 1]
                          /\ \A n \in A!total_namings \cup A!single_tests :
                               n.type = type =>
                                 n.spelling \in A!VariantNames(n) /\ n.names \subseteq A!Fields(A!idl_enums[type])
                          /\ \A n \in A!total_namings : n.type = type => variant \in n.names
    BY DEF A!VariantsKnown
  <2>1. decoded[i].value \in Nat /\ decoded[i].value < Len(A!idl_enums[decoded[i].type])
    BY <1>2, FieldFacts, SameVariants DEF FieldOK
  <2>2. decoded[i].value + 1 \in DOMAIN A!idl_enums[decoded[i].type]
    BY <2>1, EnumDomains, EnumLengths, SameVariants
  <2>3. A!idl_enums[decoded[i].type][decoded[i].value + 1] \in A!Fields(A!idl_enums[decoded[i].type])
    BY <2>2 DEF A!Fields
  <2>4. QED
    BY <2>3, TotalNamings, SingleTests, SameVariants
<1>5. A!CastsHold
  <2> SUFFICES ASSUME Len(decoded) = Len(A!idl_accounts[account]), NEW c \in A!casts, c.type = account
               PROVE  /\ c.spelling = A!Spelling(c.decoder)
                      /\ \A ts \in DOMAIN c.fields : \A name \in c.fields[ts] :
                           \E i \in DOMAIN decoded :
                             decoded[i].name = name /\ decoded[i].type \in A!MadeOf(ts)
    BY DEF A!CastsHold
  <2>1. DOMAIN decoded = DOMAIN A!idl_accounts[account]
    BY <1>1, LayoutLengths, SameLayouts
  <2>2. ASSUME NEW i \in DOMAIN decoded
        PROVE  /\ decoded[i].name = A!idl_accounts[account][i][1]
               /\ decoded[i].type = A!idl_accounts[account][i][2]
    BY <1>2, FieldFacts, SameLayouts DEF FieldOK
  <2>3. Answered(c, account)
    BY CastsAnswered
  <2>4. QED
    BY <2>1, <2>2, <2>3 DEF Answered, Made
<1>6. QED
  BY <1>3, <1>4, <1>5 DEF A!ReadBack

\* However long the strings of an account are and whichever variants it holds: a
\* decoder that goes by the interface description takes from its bytes, under each
\* name, what the program wrote under it; every reader that tests a variant knows
\* it; and each field of the 21 types accounts are cast to is there, in the
\* spelling of its decoder and of a type it makes of such a field.
THEOREM AccountsAlwaysReadBack == WebSpec => []A!ReadBack
<1>1. A!AccountIInv => A!ReadBack
  BY ReadBackHolds
<1>2. QED
  BY <1>1, AccountInvariance, PTL
=============================================================================
