----------------------------- MODULE MarketForm -----------------------------
(***************************************************************************)
(* The page that creates markets. The user edits a form while requests to  *)
(* the oracle services are answered; a submission works on the form as it   *)
(* was when the button was pressed, creates the market at an address fixed  *)
(* when the page was opened, and then publishes the question and the rules  *)
(* the market only stores hashes of. Either transaction can land with its   *)
(* answer lost, and the user may edit the form before trying again.         *)
(*                                                                         *)
(* Timestamps count units of five minutes; durations the program compares   *)
(* with numbers are in seconds.                                             *)
(***************************************************************************)
EXTENDS Integers, Sequences

CONSTANTS
  Texts,         \* thresholds or questions the user may type
  Wide,          \* those whose UTF-8 encoding is longer than the program allows
  MaxNow,        \* bound on time
  MaxEdits,      \* bound on edits
  MaxAttempts    \* bound on submissions

VARIABLES
  form,          \* the fields of the form
  checking,      \* the Switchboard hash a validation request is out for, or None
  asking,        \* the Stork asset a metadata request is out for, or None
  stage,         \* the submission's stage
  attempt,       \* the form a submission in progress was started with
  chain,         \* the accounts at the page's addresses, by kind: market, metadata, pool
  flying,        \* transactions sent and neither landed nor expired
  now, edits, attempts,
  verified,      \* history: sources the oracle services have confirmed
  edited,        \* history: the form was changed after a submission began
  raced          \* history: the hash was changed while its validation was out

fieldVars == <<form, checking, asking, edits, verified, edited, raced>>
submitVars == <<stage, attempt, attempts>>
vars == <<fieldVars, submitVars, chain, flying, now>>

None == "none"
Exists(kind) == kind \in DOMAIN chain
Categories == {"crypto", "economics", "sports", "other"}
\* Feeds of the static list (sponsored) and of Hermes.
PythFeeds == {"sponsored", "hermes"}
feedCategory(feed) == IF feed = "sponsored" THEN "crypto" ELSE "economics"
Hashes == {"hash1", "hash2"}
Assets == {"asset"}

\* A category whose choices include one the program refuses.
resolverChoices_bonded(category) ==
  CASE category = "sports"    -> {"txline-replay"}
    [] category = "crypto"    -> {"pyth", "stork", "optimistic"}
    [] category = "economics" -> {"pyth", "switchboard", "stork", "optimistic"}
    [] OTHER                  -> {"optimistic", "switchboard"}

resolverChoices(category) ==
  CASE category = "sports"    -> {"txline-replay"}
    [] category = "crypto"    -> {"pyth", "stork"}
    [] category = "economics" -> {"pyth", "switchboard", "stork", "optimistic"}
    [] OTHER                  -> {"optimistic", "switchboard"}

first(category) ==
  CASE category = "sports" -> "txline-replay"
    [] category \in {"crypto", "economics"} -> "pyth"
    [] OTHER -> "optimistic"

-----------------------------------------------------------------------------
(* What a submission sends.                                                *)

\* The text the question and the rules are put together from.
description(f) ==
  CASE f.resolver = "pyth"        -> <<"pyth", f.feed, f.text>>
    [] f.resolver = "switchboard" -> <<"switchboard", f.hash, f.text>>
    [] f.resolver = "stork"       -> <<"stork", f.assetId, f.text>>
    [] OTHER                      -> <<f.resolver, f.text>>

Numeric == [program |-> None, queue |-> None, threshold |-> TRUE, exponent |-> 0, window |-> 0,
            secs |-> 0, slots |-> 0, confidence |-> 0, samples |-> 0, challenge |-> 0, bond |-> 0]
OPTIMISTIC_BOND == 25000000
INITIAL_SUBSIDY == 17328682

\* The oracle's parameters and the hours its evidence may take, by resolver.
oracleArgs(f) ==
  CASE f.resolver = "pyth" ->
         LET window == IF f.feed = "sponsored" THEN 90 ELSE 60
         IN  [Numeric EXCEPT !.program = IF f.feed = "sponsored" THEN "pythPush" ELSE "pythReceiver",
                             !.exponent = -8, !.window = window, !.secs = window, !.confidence = 100]
    [] f.resolver = "switchboard" ->
         [Numeric EXCEPT !.program = "switchboardQuote", !.queue = "devnetQueue", !.exponent = -18,
                         !.window = 300, !.slots = 150, !.samples = 3]
    [] f.resolver = "stork" ->
         [Numeric EXCEPT !.program = "stork", !.exponent = -18, !.window = 30, !.secs = 15]
    [] OTHER ->
         [Numeric EXCEPT !.program = "nortia", !.threshold = FALSE, !.window = 86400,
                         !.challenge = 21600, !.bond = OPTIMISTIC_BOND]

Source(f) ==
  CASE f.resolver = "pyth"        -> f.feed
    [] f.resolver = "switchboard" -> f.hash
    [] f.resolver = "stork"       -> f.asset
    [] OTHER                      -> None

LeadTime == 4          \* twenty minutes
evidenceTime(resolver) ==
  CASE resolver = "switchboard" -> 12 [] resolver = "optimistic" -> 576 [] OTHER -> 6

marketArgs(f) ==
  [category |-> f.category, resolver |-> f.resolver, hashes |-> description(f), source |-> Source(f),
   oracle |-> oracleArgs(f), lock |-> f.when - 1, observation |-> f.when,
   deadline |-> f.when + evidenceTime(f.resolver)]

poolArgs(f) == [hashes |-> description(f), lock |-> now + 3, batch |-> now + 6, deadline |-> now + 27]

-----------------------------------------------------------------------------
(* The program's side.                                                     *)

validate_oracle_config(category, resolver, o) ==
  /\ o.window > 0 /\ o.exponent \in -18 .. 18
  /\ \/ /\ resolver = "pyth" /\ category \in {"crypto", "economics"}
        /\ o.program \in {"pythReceiver", "pythPush"} /\ o.queue = None
        /\ o.secs > 0 /\ o.slots = 0 /\ o.confidence \in 1 .. 10000 /\ o.bond = 0
     \/ /\ resolver = "stork" /\ category \in {"crypto", "economics"}
        /\ o.program = "stork" /\ o.queue = None
        /\ o.secs > 0 /\ o.slots = 0 /\ o.confidence = 0 /\ o.samples = 0
        /\ o.challenge = 0 /\ o.bond = 0
     \/ /\ resolver = "switchboard" /\ category \notin {"sports", "crypto"}
        /\ o.program = "switchboardQuote" /\ o.queue = "devnetQueue"
        /\ o.secs = 0 /\ o.slots > 0 /\ o.confidence = 0 /\ o.samples \in 2 .. 8 /\ o.bond = 0
     \/ /\ resolver = "optimistic" /\ category \notin {"sports", "crypto"}
        /\ o.program = "nortia" /\ o.queue = None /\ ~o.threshold /\ o.exponent = 0
        /\ o.secs = 0 /\ o.slots = 0 /\ o.confidence = 0 /\ o.samples = 0
        /\ o.challenge >= 3600 /\ o.bond >= INITIAL_SUBSIDY

initialize_hybrid_market(args) ==
  /\ now < args.lock /\ args.lock <= args.observation /\ args.observation < args.deadline
  /\ validate_oracle_config(args.category, args.resolver, args.oracle)

initialize_market(args) == now < args.lock /\ args.lock < args.batch /\ args.batch < args.deadline

\* Counted in bytes. A threshold is a plain decimal number; only a question
\* or a label the user words freely can have wider characters.
fits(hashes) == hashes[1] \in {"pyth", "stork"} \/ hashes[Len(hashes)] \notin Wide

\* The texts fit and have the hashes the market stores.
publish_hybrid_metadata(args) ==
  /\ fits(args.hashes)
  /\ Exists("market") /\ chain.market.hashes = args.hashes

-----------------------------------------------------------------------------
Init ==
  /\ form = [category |-> "crypto", resolver |-> "pyth", feed |-> "sponsored", hash |-> None,
             validated |-> FALSE, assetId |-> None, asset |-> None,
             text |-> CHOOSE t \in Texts : t \notin Wide, when |-> 12]
  /\ checking = None /\ asking = None
  /\ stage = "idle" /\ attempt = None
  /\ chain = [kind \in {} |-> None]
  /\ flying = {}
  /\ now = 0 /\ edits = 0 /\ attempts = 0
  /\ verified = {"sponsored"}
  /\ edited = FALSE /\ raced = FALSE

(* Editing. Every field may be changed at any time, also while a           *)
(* submission is in progress.                                              *)

Edit(next) ==
  /\ edits < MaxEdits
  /\ next # form
  /\ form' = next /\ edits' = edits + 1
  /\ edited' = (edited \/ attempts > 0)

selectCategory(category) ==
  LET resolver == IF form.resolver \in resolverChoices(category) THEN form.resolver ELSE first(category)
      feed == CASE category = "crypto" -> "sponsored" [] category = "economics" -> None [] OTHER -> form.feed
  IN  /\ Edit([form EXCEPT !.category = category, !.resolver = resolver, !.feed = feed])
      /\ asking' = IF resolver = form.resolver THEN asking ELSE None
      /\ UNCHANGED <<checking, verified, raced, submitVars, chain, flying, now>>

\* Choosing Stork asks again for an asset chosen before.
setResolver(resolver) ==
  /\ resolver \in resolverChoices(form.category)
  /\ LET asks == resolver = "stork" /\ form.assetId # None
     IN  /\ Edit([form EXCEPT !.resolver = resolver, !.asset = IF asks THEN None ELSE @])
         /\ asking' = IF asks THEN form.assetId ELSE None
  /\ UNCHANGED <<checking, verified, raced, submitVars, chain, flying, now>>

\* The feeds of the category arrive, or the static list when Hermes fails. A
\* feed that is not among them gives way to the first one.
feedsArrive ==
  /\ form.resolver = "pyth"
  /\ \E feeds \in {{f \in PythFeeds : feedCategory(f) = form.category},
                   {f \in {"sponsored"} : feedCategory(f) = form.category}} :
       /\ form.feed \notin feeds
       /\ form' = [form EXCEPT !.feed = IF feeds = {} THEN None ELSE CHOOSE f \in feeds : TRUE]
       /\ verified' = verified \cup feeds
  /\ edited' = (edited \/ attempts > 0)
  /\ UNCHANGED <<checking, asking, edits, raced, submitVars, chain, flying, now>>

setText(text) ==
  /\ Edit([form EXCEPT !.text = text])
  /\ UNCHANGED <<checking, asking, verified, raced, submitVars, chain, flying, now>>

setResolutionAt(when) ==
  /\ Edit([form EXCEPT !.when = when])
  /\ UNCHANGED <<checking, asking, verified, raced, submitVars, chain, flying, now>>

setFeedHash(hash) ==
  /\ form.resolver = "switchboard"
  /\ Edit([form EXCEPT !.hash = hash, !.validated = FALSE])
  /\ raced' = (raced \/ checking # None)
  /\ UNCHANGED <<checking, asking, verified, submitVars, chain, flying, now>>

validateSwitchboard ==
  /\ form.resolver = "switchboard" /\ form.hash # None /\ checking = None
  /\ checking' = form.hash
  /\ form' = [form EXCEPT !.validated = FALSE]
  /\ UNCHANGED <<asking, edits, verified, edited, raced, submitVars, chain, flying, now>>

\* An answer that refuses the hash and is taken for a confirmation.
switchboardAnswers_always(available) ==
  /\ checking # None
  /\ form' = [form EXCEPT !.validated = TRUE]
  /\ verified' = verified \cup (IF available THEN {checking} ELSE {})
  /\ checking' = None
  /\ UNCHANGED <<asking, edits, edited, raced, submitVars, chain, flying, now>>

\* The answer sets the flag, whatever the hash field holds by now.
switchboardAnswers(available) ==
  /\ checking # None
  /\ form' = [form EXCEPT !.validated = available]
  /\ verified' = verified \cup (IF available THEN {checking} ELSE {})
  /\ checking' = None
  /\ UNCHANGED <<asking, edits, edited, raced, submitVars, chain, flying, now>>

\* The list's first asset is chosen for the user; "Select an asset" is the
\* empty choice, which asks for nothing and clears nothing.
setStorkAsset(asset) ==
  /\ form.resolver = "stork"
  /\ Edit([form EXCEPT !.assetId = asset, !.asset = IF asset = None THEN @ ELSE None])
  /\ asking' = asset
  /\ UNCHANGED <<checking, verified, raced, submitVars, chain, flying, now>>

storkAnswers(available) ==
  /\ asking # None
  /\ form' = [form EXCEPT !.asset = IF available THEN asking ELSE None]
  /\ verified' = verified \cup (IF available THEN {asking} ELSE {})
  /\ asking' = None
  /\ edited' = (edited \/ attempts > 0)
  /\ UNCHANGED <<checking, edits, raced, submitVars, chain, flying, now>>

-----------------------------------------------------------------------------
(* Submitting.                                                             *)

resolverReady(f) ==
  CASE f.resolver = "pyth"        -> f.feed # None /\ feedCategory(f.feed) = f.category
    [] f.resolver = "switchboard" -> f.validated
    [] f.resolver = "stork"       -> f.asset # None
    [] OTHER                      -> TRUE

submit ==
  /\ stage \in {"idle", "confirmed"}
  /\ resolverReady(form)
  /\ attempts < MaxAttempts
  /\ stage' = "validating" /\ attempt' = form
  /\ attempts' = attempts + 1
  /\ UNCHANGED <<fieldVars, chain, flying, now>>

Send(kind, args) ==
  flying' = flying \cup {[kind |-> kind, args |-> args, at |-> now, of |-> attempts]}

\* A pool market is created without looking whether it exists.
createReplayMarket ==
  /\ stage = "validating" /\ attempt.resolver = "txline-replay"
  /\ Send("pool", poolArgs(attempt))
  /\ stage' = "pool-confirming"
  /\ UNCHANGED <<fieldVars, attempt, attempts, chain, now>>

\* A retry that takes an existing market for a finished submission.
createHybridMarket_done ==
  /\ stage = "validating" /\ attempt.resolver # "txline-replay"
  /\ attempt.when >= now + LeadTime
  /\ IF Exists("market") THEN stage' = "confirmed" /\ UNCHANGED flying
     ELSE stage' = "market-confirming" /\ Send("market", marketArgs(attempt))
  /\ UNCHANGED <<fieldVars, attempt, attempts, chain, now>>

\* The market is created unless an earlier attempt has done so.
createHybridMarket ==
  /\ stage = "validating" /\ attempt.resolver # "txline-replay"
  /\ attempt.when >= now + LeadTime
  /\ IF Exists("market") THEN stage' = "market-confirmed" /\ UNCHANGED flying
     ELSE stage' = "market-confirming" /\ Send("market", marketArgs(attempt))
  /\ UNCHANGED <<fieldVars, attempt, attempts, chain, now>>

\* The metadata is published unless it is there.
publishMetadata ==
  /\ stage = "market-confirmed"
  /\ IF Exists("metadata") THEN stage' = "confirmed" /\ UNCHANGED flying
     ELSE /\ stage' = "metadata-confirming"
          /\ Send("metadata", [hashes |-> description(attempt)])
  /\ UNCHANGED <<fieldVars, attempt, attempts, chain, now>>

Confirming == [pool |-> "pool-confirming", market |-> "market-confirming", metadata |-> "metadata-confirming"]
Next_(kind) == IF kind = "market" THEN "market-confirmed" ELSE "confirmed"

Accepted(tx) ==
  /\ ~Exists(tx.kind)
  /\ CASE tx.kind = "pool"   -> initialize_market(tx.args)
       [] tx.kind = "market" -> initialize_hybrid_market(tx.args)
       [] OTHER              -> publish_hybrid_metadata(tx.args)

Waits(tx) == tx.of = attempts /\ stage = Confirming[tx.kind]

\* A transaction lands while its blockhash is valid.
land(tx) ==
  /\ now <= tx.at + 1
  /\ Accepted(tx)
  /\ chain' = [kind \in DOMAIN chain \cup {tx.kind} |->
                IF kind = tx.kind THEN tx.args ELSE chain[kind]]
  /\ flying' = flying \ {tx}
  /\ stage' = IF Waits(tx) THEN Next_(tx.kind) ELSE stage
  /\ UNCHANGED <<fieldVars, attempt, attempts, now>>

\* It is refused or expires: an error at the form that waits for it.
reject(tx) ==
  /\ ~Accepted(tx) \/ now > tx.at
  /\ flying' = flying \ {tx}
  /\ stage' = IF Waits(tx) THEN "idle" ELSE stage
  /\ UNCHANGED <<fieldVars, attempt, attempts, chain, now>>

\* An error that reaches the form before a transaction lands, which it still
\* may, or while nothing has been sent: the time is too near, the balance too
\* small, the wallet says no, a request fails.
fail ==
  /\ stage \notin {"idle", "confirmed"}
  /\ stage' = "idle"
  /\ UNCHANGED <<fieldVars, attempt, attempts, chain, flying, now>>

tick ==
  /\ now < MaxNow
  /\ now' = now + 1
  /\ UNCHANGED <<fieldVars, submitVars, chain, flying>>

Next ==
  \/ \E category \in Categories : selectCategory(category)
  \/ \E resolver \in resolverChoices(form.category) : setResolver(resolver)
  \/ feedsArrive \/ validateSwitchboard
  \/ \E text \in Texts : setText(text)
  \/ \E when \in {LeadTime, 12} : setResolutionAt(when)
  \/ \E hash \in Hashes : setFeedHash(hash)
  \/ \E asset \in Assets \cup {None} : setStorkAsset(asset)
  \/ \E available \in BOOLEAN : switchboardAnswers(available) \/ storkAnswers(available)
  \/ submit \/ createReplayMarket \/ createHybridMarket \/ publishMetadata
  \/ \E tx \in flying : land(tx) \/ reject(tx)
  \/ fail \/ tick

Spec == Init /\ [][Next]_vars

-----------------------------------------------------------------------------
\* Whatever the user has chosen, and in whatever order, the program accepts
\* the market the form sends: the resolver is one of its category, the
\* parameters preset for it are those validate_oracle_config asks for, and the
\* lock time is still ahead when the transaction lands.
CreationAccepted ==
  \A tx \in flying :
    /\ tx.kind = "market" /\ now <= tx.at + 1 => initialize_hybrid_market(tx.args)
    /\ tx.kind = "pool" /\ now <= tx.at + 1 => initialize_market(tx.args)

\* A confirmed submission is the one the user made: the market at the address
\* is the one the form described, with its question published, also when it
\* took several attempts with answers lost. Only edits between attempts break
\* this: the second attempt then finds the first one's market and keeps it.
ConfirmedAsDescribed ==
  stage = "confirmed" /\ ~edited =>
    IF attempt.resolver = "txline-replay" THEN Exists("pool") /\ chain.pool.hashes = description(attempt)
    ELSE /\ Exists("market") /\ chain.market = marketArgs(attempt)
         /\ Exists("metadata") /\ chain.metadata.hashes = description(attempt)

\* The source a market resolves from is one its oracle service has confirmed
\* to this page, unless the hash was edited while its validation was out.
SourceVerified ==
  Exists("market") =>
    chain.market.source \in verified \cup {None} \/ raced

\* "Question or resolution rules exceed contract limits": a form that does not
\* say so creates only markets whose question and rules can be published.
CreatedPublishable ==
  Exists("market") => fits(chain.market.hashes)
-----------------------------------------------------------------------------
(* The inductive invariant.                                                *)

Resolvers == {"txline-replay", "pyth", "switchboard", "stork", "optimistic"}
Forms ==
  [category : Categories, resolver : Resolvers, feed : PythFeeds \cup {None},
   hash : Hashes \cup {None}, validated : BOOLEAN, assetId : Assets \cup {None},
   asset : Assets \cup {None}, text : Texts, when : Int]

\* The source of a form that is ready is one that was confirmed to the page.
FormOK ==
  /\ form \in Forms
  /\ form.resolver \in resolverChoices(form.category)
  /\ form.feed \in verified \cup {None} /\ form.asset \in verified \cup {None}
  /\ form.validated => form.hash \in verified \/ raced
  /\ checking # None => checking = form.hash \/ raced
  /\ asking \in Assets \cup {None} /\ "sponsored" \in verified
  /\ edited \in BOOLEAN /\ raced \in BOOLEAN

\* A submission works on a form that was ready when it was started.
Ready(f) ==
  /\ f \in Forms /\ f.resolver \in resolverChoices(f.category) /\ resolverReady(f)
  /\ Source(f) \in verified \cup {None} \/ raced

Stages == {"idle", "validating", "pool-confirming", "market-confirming", "market-confirmed",
           "metadata-confirming", "confirmed"}

SubmissionOK ==
  /\ stage \in Stages /\ attempts \in Nat /\ now \in Int
  /\ stage # "idle" => attempts > 0
  /\ attempts > 0 => Ready(attempt)
  /\ attempts = 0 => flying = {} /\ DOMAIN chain = {}
  /\ stage = "pool-confirming" => attempt.resolver = "txline-replay"
  /\ stage \in {"market-confirming", "market-confirmed", "metadata-confirming"} =>
       attempt.resolver # "txline-replay"
  /\ stage \in {"market-confirmed", "metadata-confirming"} => Exists("market")
  /\ stage = "confirmed" =>
       IF attempt.resolver = "txline-replay" THEN Exists("pool")
       ELSE Exists("market") /\ Exists("metadata")

\* What the program asks of a creation that lands in the next unit of time.
FlyingOK ==
  \A tx \in flying :
    /\ tx.kind \in {"pool", "market", "metadata"} /\ tx.at \in Int
    /\ tx.kind = "pool" =>
         tx.args.lock > tx.at + 1 /\ tx.args.lock < tx.args.batch /\ tx.args.batch < tx.args.deadline
         /\ tx.args.lock \in Int
    /\ tx.kind = "market" =>
         /\ tx.args.lock > tx.at + 1 /\ tx.args.lock <= tx.args.observation
         /\ tx.args.observation < tx.args.deadline /\ tx.args.lock \in Int
         /\ validate_oracle_config(tx.args.category, tx.args.resolver, tx.args.oracle)
         /\ tx.args.source \in verified \cup {None} \/ raced

\* While nothing is edited every attempt describes the market of the first.
SameTerms(f, g) ==
  /\ f.category = g.category /\ f.resolver = g.resolver /\ f.feed = g.feed /\ f.hash = g.hash
  /\ f.assetId = g.assetId /\ f.asset = g.asset /\ f.text = g.text /\ f.when = g.when
Describes(kind, args) ==
  IF kind = "market" THEN args = marketArgs(attempt) ELSE args.hashes = description(attempt)
AttemptsAgree ==
  ~edited /\ attempts > 0 =>
    /\ SameTerms(attempt, form)
    /\ \A tx \in flying : Describes(tx.kind, tx.args)
    /\ \A kind \in DOMAIN chain : Describes(kind, chain[kind])

FormIInv == FormOK /\ SubmissionOK /\ FlyingOK /\ AttemptsAgree /\ SourceVerified
=============================================================================
