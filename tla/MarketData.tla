----------------------------- MODULE MarketData -----------------------------
(***************************************************************************)
(* What the web server tells browsers of one market and of the Pyth        *)
(* catalogue: the market page and the listing read the market's accounts    *)
(* one request after the other while the program changes them, the activity *)
(* route keeps its last answer and the feed route keeps the catalogue and   *)
(* each search, all shared by the requests it serves at the same time. In    *)
(* front of the routes stand the caches their headers speak to, browsers'    *)
(* and proxies', and the host's copy of the listing, a static page.          *)
(*                                                                         *)
(* Data is the time it was read; an answer carries its age when it was made, *)
(* its age when it is given, and whether it says it is stale. Time is counted *)
(* in parts of a cache's life.                                               *)
(***************************************************************************)
EXTENDS Integers

CONSTANTS
  Requests,      \* requests served at the same time
  Ttl,           \* how long the caches keep an entry
  HttpLife,      \* max-age and stale-while-revalidate of an answer, together
  MaxDelay,      \* the longest the host lets a request run
  MaxNow         \* bound on time

VARIABLES
  chain,         \* the market's accounts
  req,           \* req[r]: the request r is serving
  answer,        \* the answer the last step gave, if it gave one
  activityCache, catalogCache, feedCache,
  front,         \* the answer a cache in front of the routes holds
  now,
  routes         \* the routes that serve: no two of them share anything

vars == <<routes, chain, req, answer, activityCache, catalogCache, feedCache, front, now>>
caches == <<activityCache, catalogCache, feedCache>>

Nothing == [at |-> -1, expires |-> -1]
NoAnswer == [status |-> 0]
NoCopy == [body |-> [status |-> 0, kind |-> "page"], at |-> -1, until |-> -1]
NoView == [phase |-> "none", question |-> "none", outcome |-> "unset", receipt |-> "unset"]
Idle == [kind |-> "page", pc |-> "idle", began |-> 0, view |-> NoView, at |-> -1, read |-> -1]

Init ==
  /\ chain = [phase |-> "none", metadata |-> FALSE, outcome |-> "unset", receipt |-> "unset"]
  /\ req = [r \in Requests |-> Idle]
  /\ answer = NoAnswer
  /\ activityCache = Nothing /\ catalogCache = Nothing /\ feedCache = Nothing
  /\ front = NoCopy
  /\ now = 0
  /\ routes \in {{"page"}, {"listing"}, {"activity"}, {"feeds"}}

-----------------------------------------------------------------------------
(* The program, and time.                                                  *)

Chain(next) == chain' = next /\ answer' = NoAnswer /\ UNCHANGED <<routes, req, caches, front, now>>

create == chain.phase = "none" /\ Chain([chain EXCEPT !.phase = "open"])
publish == chain.phase # "none" /\ ~chain.metadata /\ Chain([chain EXCEPT !.metadata = TRUE])
\* finalize_hybrid_resolution sets the outcome and writes the receipt.
resolve ==
  /\ chain.phase = "open"
  /\ Chain([chain EXCEPT !.phase = "resolved", !.outcome = "yes", !.receipt = "yes"])
close == chain.phase = "resolved" /\ Chain([chain EXCEPT !.phase = "closed"])

tick ==
  /\ now < MaxNow
  /\ \A r \in Requests : req[r].pc # "idle" => now < req[r].began + MaxDelay
  /\ now' = now + 1
  /\ answer' = NoAnswer
  /\ UNCHANGED <<routes, chain, req, caches, front>>

-----------------------------------------------------------------------------
(* Answers.                                                                *)

Body(status, kind, at, stale, view) ==
  [status |-> status, kind |-> kind, lag |-> now - at, age |-> now - at,
   stale |-> stale, view |-> view]

\* A request goes on; it is answered, and the copy in front stays; or with an
\* answer that may be kept in front, as its headers or the host allow.
Go(r, next) == req' = [req EXCEPT ![r] = next] /\ answer' = NoAnswer /\ UNCHANGED front
Answer(r, status, kind, at, stale, view) ==
  /\ answer' = Body(status, kind, at, stale, view)
  /\ req' = [req EXCEPT ![r] = Idle]
  /\ UNCHANGED front
Cacheable(r, status, kind, at, stale, view) ==
  /\ answer' = Body(status, kind, at, stale, view)
  /\ req' = [req EXCEPT ![r] = Idle]
  /\ front' \in {front, [body |-> answer', at |-> at, until |-> now + HttpLife]}
Fails(r, status) == Answer(r, status, req[r].kind, now, FALSE, NoView)

\* The copy in front is given, without a request: of the activity and the feeds
\* while its life lasts; of the listing, however old, since the host regenerates
\* it for the next one who asks, and keeps it if that fails.
serveFront ==
  /\ front # NoCopy
  /\ front.body.kind = "listing" \/ now < front.until
  /\ answer' = [front.body EXCEPT !.age = now - front.at]
  /\ UNCHANGED <<routes, chain, req, caches, front, now>>

Unexpired(entry) == entry.expires > now
Entry(at) == [at |-> at, expires |-> now + Ttl]

\* A page asks for the market, the listing for all; the activity route looks
\* into its cache first.
start(r, kind) ==
  /\ req[r].pc = "idle"
  /\ IF kind = "activity" /\ Unexpired(activityCache)
       THEN Answer(r, 200, kind, activityCache.at, FALSE, NoView)
       ELSE Go(r, [Idle EXCEPT !.kind = kind, !.pc = "market", !.began = now,
                               !.at = IF kind = "activity" THEN activityCache.at ELSE -1])
  /\ UNCHANGED <<routes, chain, caches, now>>

-----------------------------------------------------------------------------
(* getOnchainMarket and getOnchainMarkets.                                  *)

\* The question of published metadata, which the program has verified; one
\* from the page's address if it has the market's hash; or a name for it.
question_trusting(metadata, candidate) == IF metadata THEN "own" ELSE candidate

question(metadata, candidate) ==
  IF metadata \/ candidate = "own" THEN "own" ELSE "generic"

\* The market's account is read first ...
readMarket(r) ==
  /\ req[r].pc = "market" /\ req[r].kind # "listing"
  /\ chain.phase = "none" => req[r].kind # "fallback"
  /\ IF chain.phase = "none" THEN Fails(r, 404)
     ELSE Go(r, [req[r] EXCEPT !.pc = "support",
                               !.view = [NoView EXCEPT !.phase = chain.phase, !.outcome = chain.outcome]])
  /\ UNCHANGED <<routes, chain, caches, now>>

\* ... and then its oracle, metadata, receipt and vault, in one request.
support(r, candidate) ==
  [req[r].view EXCEPT !.receipt = chain.receipt, !.question = question(chain.metadata, candidate)]

\* A page's address may carry a question of its own.
readSupport(r, candidate) ==
  /\ req[r].pc = "support" /\ req[r].kind # "fallback"
  /\ Go(r, [req[r] EXCEPT !.pc = "activity",
                          !.view = IF req[r].kind = "page" THEN support(r, candidate) ELSE NoView])
  /\ UNCHANGED <<routes, chain, caches, now>>

\* An error while reading them is taken for a market that does not exist.
supportFails(r) ==
  /\ req[r].pc = "support" /\ req[r].kind # "fallback"
  /\ Fails(r, 404)
  /\ UNCHANGED <<routes, chain, caches, now>>

\* All accounts of the program in one request, the vaults in a second one.
getOnchainMarkets(r) ==
  /\ req[r].pc = "market" /\ req[r].kind = "listing"
  /\ LET view == IF chain.phase = "none" THEN NoView
                 ELSE [NoView EXCEPT !.phase = chain.phase, !.outcome = chain.outcome,
                                     !.receipt = chain.receipt, !.question = question(chain.metadata, "generic")]
     IN  Cacheable(r, 200, "listing", req[r].began, FALSE, view)
  /\ UNCHANGED <<routes, chain, caches, now>>

\* If that fails the listing's route says so; its page falls back on one market
\* it knows the address of ...
listingFails(r) ==
  /\ req[r].pc = "market" /\ req[r].kind = "listing"
  /\ \/ Cacheable(r, 503, "listing", now, FALSE, NoView)
     \/ Go(r, [req[r] EXCEPT !.kind = "fallback"])
  /\ UNCHANGED <<routes, chain, caches, now>>

\* ... and lists it alone, or nothing if that fails or the market is not there.
listDeployed(r) ==
  /\ req[r].kind = "fallback"
  /\ \/ /\ req[r].pc = "support"
        /\ Cacheable(r, 200, "listing", req[r].began, FALSE, support(r, "generic"))
     \/ /\ req[r].pc \in {"market", "support"}
        /\ Cacheable(r, 200, "listing", req[r].began, FALSE, NoView)
  /\ UNCHANGED <<routes, chain, caches, now>>

-----------------------------------------------------------------------------
(* The activity route.                                                     *)

\* The signatures are read; a page shows the market without activity if that
\* fails.
readActivity(r) ==
  /\ req[r].pc = "activity"
  /\ IF req[r].kind = "page" THEN Answer(r, 200, "page", req[r].began, FALSE, req[r].view)
     ELSE Go(r, [req[r] EXCEPT !.pc = "store", !.read = now])
  /\ UNCHANGED <<routes, chain, caches, now>>

\* Their transactions are read, and the payload replaces whatever is cached
\* by now.
storeActivity(r) ==
  /\ req[r].pc = "store"
  /\ activityCache' = Entry(req[r].read)
  /\ Cacheable(r, 200, "activity", req[r].read, FALSE, NoView)
  /\ UNCHANGED <<routes, chain, catalogCache, feedCache, now>>

\* A fallback that does not say what it is.
activityFails_silent(r) ==
  /\ req[r].kind = "activity" /\ req[r].pc \in {"market", "activity", "store"}
  /\ IF req[r].at = Nothing.at THEN Fails(r, 503)
     ELSE Cacheable(r, 200, "activity", req[r].at, FALSE, NoView)
  /\ UNCHANGED <<routes, chain, caches, now>>

\* The entry found when the request began, marked as stale.
activityFails(r) ==
  /\ req[r].kind = "activity" /\ req[r].pc \in {"market", "activity", "store"}
  /\ IF req[r].at = Nothing.at THEN Fails(r, 503)
     ELSE Cacheable(r, 200, "activity", req[r].at, TRUE, NoView)
  /\ UNCHANGED <<routes, chain, caches, now>>

pageFails(r) ==
  /\ req[r].kind = "page" /\ req[r].pc = "market"
  /\ Fails(r, 503)
  /\ UNCHANGED <<routes, chain, caches, now>>

-----------------------------------------------------------------------------
(* The Pyth catalogue: a search is kept, and so is what it is searched in. *)

startFeeds(r) ==
  /\ "feeds" \in routes
  /\ req[r].pc = "idle"
  /\ IF Unexpired(feedCache) THEN Answer(r, 200, "feeds", feedCache.at, FALSE, NoView) /\ UNCHANGED feedCache
     ELSE IF Unexpired(catalogCache)
       THEN /\ feedCache' = Entry(catalogCache.at)
            /\ Cacheable(r, 200, "feeds", catalogCache.at, FALSE, NoView)
       ELSE /\ Go(r, [Idle EXCEPT !.kind = "feeds", !.pc = "hermes", !.began = now])
            /\ UNCHANGED feedCache
  /\ UNCHANGED <<routes, chain, activityCache, catalogCache, now>>

\* Hermes' answer was made at any time since it was asked. The search was the
\* one that is followed here, or another one, whose entry is another.
hermesAnswers(r) ==
  /\ req[r].pc = "hermes"
  /\ \E at \in req[r].began .. now :
       /\ catalogCache' = Entry(at)
       /\ \/ feedCache' = Entry(at) /\ Cacheable(r, 200, "feeds", at, FALSE, NoView)
          \/ UNCHANGED feedCache /\ Answer(r, 200, "feeds", at, FALSE, NoView)
  /\ UNCHANGED <<routes, chain, activityCache, now>>

\* The static list, marked as degraded and not to be kept.
hermesFails(r) ==
  /\ req[r].pc = "hermes"
  /\ Answer(r, 200, "feeds", 0, TRUE, NoView)
  /\ UNCHANGED <<routes, chain, caches, now>>

Next ==
  \/ create \/ publish \/ resolve \/ close \/ tick \/ serveFront
  \/ \E r \in Requests :
       \/ \E kind \in routes \ {"feeds"} : start(r, kind)
       \/ \E candidate \in {"own", "other"} : readSupport(r, candidate)
       \/ readMarket(r) \/ supportFails(r) \/ getOnchainMarkets(r)
       \/ listingFails(r) \/ listDeployed(r)
       \/ readActivity(r) \/ storeActivity(r) \/ activityFails(r) \/ pageFails(r)
       \/ startFeeds(r) \/ hermesAnswers(r) \/ hermesFails(r)

Spec == Init /\ [][Next]_vars

-----------------------------------------------------------------------------
\* What is shown of a market holds together although its accounts are read
\* one after the other: a market shown as final comes with its resolution
\* receipt and the receipt's outcome, and a question is the market's own or a
\* mere name for it, whatever question the page's address carries.
ShownAgrees ==
  answer.status = 200 =>
    /\ answer.view.phase \in {"resolved", "closed"} =>
         answer.view.receipt # "unset" /\ answer.view.receipt = answer.view.outcome
    /\ answer.view.question # "other"

\* How old the data of an answer may be when it is made, if it does not call
\* itself stale: a cache's life and a request; two lives where one cache is
\* filled from another; a request where there is no cache.
Life(kind) ==
  CASE kind = "activity" -> Ttl + MaxDelay
    [] kind = "feeds"    -> 2 * Ttl + MaxDelay
    [] OTHER             -> MaxDelay + 1

\* An answer that does not call itself stale was not when it was made, although
\* a slow request replaces a newer entry; and it reaches the browser at most
\* HttpLife later, however its copies are served in front of the routes. (Of the
\* listing only the first is true: its copy has no end.)
AnswersFresh ==
  answer.status = 200 /\ ~answer.stale =>
    /\ answer.lag < Life(answer.kind)
    /\ answer.kind = "page" => answer.age < Life("page")
    /\ answer.kind \in {"activity", "feeds"} => answer.age < Life(answer.kind) + HttpLife
-----------------------------------------------------------------------------
(* The inductive invariant.                                                *)

Final == {"resolved", "closed"}

\* A final market has its outcome and its receipt, and they stay.
ChainOK ==
  /\ chain \in [phase : {"none", "open"} \cup Final, metadata : BOOLEAN,
                outcome : {"unset", "yes"}, receipt : {"unset", "yes"}]
  /\ chain.phase \in Final <=> chain.outcome = "yes"
  /\ chain.outcome = chain.receipt

Views == [phase : {"none", "open"} \cup Final, question : {"none", "own", "generic"},
          outcome : {"unset", "yes"}, receipt : {"unset", "yes"}]

\* What a request has read was so at some time: only its receipt may be newer.
RequestOK(q) ==
  /\ q \in [kind : {"page", "listing", "fallback", "activity", "feeds"},
            pc : {"idle", "market", "support", "activity", "store", "hermes"},
            began : Nat, view : Views, at : Int, read : Int]
  /\ q.pc # "idle" => q.began <= now /\ now <= q.began + MaxDelay
  /\ q.pc = "store" => q.began <= q.read /\ q.read <= now
  /\ q.kind = "feeds" => q.pc \in {"idle", "hermes"}
  /\ q.pc = "support" => q.kind # "listing"
  /\ q.pc \in {"activity", "store"} => q.kind \in {"page", "activity"}
  /\ q.pc = "store" => q.kind = "activity"
  /\ q.view.phase \in Final => q.view.outcome = "yes" /\ chain.receipt = "yes"
  /\ q.pc = "activity" /\ q.kind = "page" /\ q.view.phase \in Final => q.view.receipt = "yes"

\* An entry was read at most a request before it was kept, or, filled from
\* another cache, at most that cache's life more.
Kept(entry, life) ==
  /\ entry \in [at : Int, expires : Int]
  /\ entry.expires <= entry.at + life \/ entry = Nothing

CachesOK ==
  /\ Kept(activityCache, Ttl + MaxDelay) /\ Kept(catalogCache, Ttl + MaxDelay)
  /\ Kept(feedCache, 2 * Ttl + MaxDelay)

\* What is kept in front of the routes was true when it was made, and its life
\* began then.
FrontOK ==
  front # NoCopy =>
    /\ front \in [body : [status : {200, 503}, kind : {"listing", "activity", "feeds"}, lag : Int,
                         age : Int, stale : BOOLEAN, view : Views],
                 at : Int, until : Int]
    /\ front.until = front.at + front.body.lag + HttpLife
    /\ front.body.status = 200 =>
         /\ front.body.view.phase \in Final =>
              front.body.view.receipt = "yes" /\ front.body.view.outcome = "yes"
         /\ front.body.view.question # "other"
         /\ ~front.body.stale => front.body.lag < Life(front.body.kind)

DataIInv ==
  /\ now \in Nat /\ ChainOK /\ CachesOK /\ FrontOK
  /\ req = [r \in Requests |-> req[r]] /\ \A r \in Requests : RequestOK(req[r])
  /\ routes \subseteq {"page", "listing", "activity", "feeds"}
  /\ ShownAgrees /\ AnswersFresh
=============================================================================
