# Nortia: a TLA+ verification of the prediction-market program

Nortia is a Solana program (`programs/nortia`) with two kinds of prediction
market, a set of off-chain services around it, and a web application.  This
directory models the program's markets, the services and every part of the web
application that sends a transaction or keeps a secret, model-checks them with
TLC and proves nearly all of their safety properties with TLAPS.

## 1. Inventory

| Part | State it keeps | Operations | Modelled by |
|---|---|---|---|
| Private pool market (`lib.rs`, `state.rs`) | phase, order and claim accounts, batch sums, settlement figures, escrow vault, verifier pair | `initialize_protocol`, `rotate_verifiers`, `sync_market_verifiers`, `initialize_market`, `place_order`, `submit_batch`, `resolve_market`, `begin_refund`, `refund_order`, `redeem` | `PrivatePool` |
| LMSR pricing (`lmsr.rs`) | none | cost, probability, buy and sell quotes, subsidy | `Lmsr` |
| Public LMSR market (`lib.rs`) | quantities, positions, vault, outcome, liability counters | `initialize_hybrid_market`, `initialize_position`, `buy_`/`sell_hybrid_shares`, `lock_hybrid_market`, the resolvers, `resolve_hybrid_timeout`, `settle_hybrid_position`, `withdraw_hybrid_liquidity` | `HybridMarket` |
| Optimistic resolution (`lib.rs`) | proposal, bond vault | `propose_`, `challenge_`, `finalize_`, `arbitrate_optimistic_resolution`, `timeout_optimistic_dispute`, `claim_optimistic_bond` | `OptimisticMarket` |
| Oracle adapters (`oracles.rs`, `stork.rs`, `switchboard.rs`, `txline.rs`) | `oracle.consumed`, the receipt | accept one observation | effect only, in `HybridMarket` and `Keeper` |
| Circuits (`circuits/*/main.nr`, `zk.rs`) | none | force amounts and payouts | `place_circuit`, `Payout` in `PrivatePool` |
| Committee member service (`services/src/committee/server.ts`, `state.ts`) | shares in memory, an encrypted state file | `POST /shares`, `POST .../aggregate`, `DELETE .../shares`, `persist`, start-up | `MemberStore`, `Committee` |
| Committee coordinator (`coordinator.ts`) | none between runs | query two members, submit the batch, purge | `Committee` |
| Keeper (`keeper/runner.ts`, `keeper/hybrid.ts`, `lifecycle.ts`, `hybrid-lifecycle.ts`) | one pass: a clock and account snapshots | plan and send locks, batches, resolutions, timeouts, refunds | `Keeper` |
| Redemption: page, web routes, prover, relayer | serial queues, a count, witness directories | prove, relay, answer | `Redemption` |
| Indexer (`indexer/`) | the index file | snapshot, debounce, rename | `Indexer` |
| Order panel, portfolio, recovery panel (`positions.ts`) | the browser vault: one record per order | save, place, deliver, retry, import, export, unlock | `Committee`, `PositionVault` |
| Market form (`create-market-form.tsx`) | the form's fields, one submission | edit, validate, create, publish, retry | `MarketForm` |
| Public portfolio and optimistic panel | what they fetched last | show, offer calls | `HybridPages`, `OptimisticPanel` |
| Trading panel and client pricing (`client/src/lmsr.ts`) | a quote | quote, guard, send | `TradingPanel` |
| Web data layer (`server-market.ts`, market and oracle routes) | caches | read, verify, answer | `MarketData` |
| Call sites of every client, the generated IDL, operator scripts | none | name accounts, derive addresses | `Interface` |
| Account layouts: the program's structs, the generated IDL, the readers' casts | none | encode, decode, cast | `AccountData` |

How they interact.  Wallets and services call the program; the program keeps
all the money.  The committee learns secret shares of every private order and
hands the program the sums of the batch.  A keeper sends the permissionless
calls when they are due: resolution, timeouts, refunds.  A relayer sends
`redeem` for a position owner.  Any account may also send tokens to a vault,
which the program does not notice; both market models include that (`Donate`).

What is hard here:

- *Every call is a transaction and any order of calls is possible.*  A market
  is never locked, a liquidity owner withdraws between two settlements, a
  refund is opened while a claim is under way, verifiers are rotated while
  orders arrive.
- *Rounding.*  Payouts are rounded one claim at a time, prices one trade at a
  time, and the last claim sweeps what is left.
- *Deadlines.*  Decision and timeout meet in the deadline's own second, the
  challenge window ends before the hard deadline, and no party is obliged to
  act.
- *Absent parties.*  The committee or the oracle may do nothing for ever.
- *Off-chain services* that check, await and act: the committee's state file,
  a batch made from reads of different moments, the keeper's snapshot, the
  relayer's queue, the indexer's shared temporary file.
- *A browser vault* that every tab reads, decrypts, changes and writes back
  whole, and forms that go on being edited while requests are out.
- *Two implementations of one rule*: prices, payouts, address derivations and
  the conditions of buttons exist in Rust and in TypeScript.
- *Interruption.*  A browser, a member service or the coordinator stops between
  any two steps; requests are late, repeated or lost; clocks differ.

`PROJECT.json` lists these as hazards, each at its line with the properties
that would catch it.

## 2. Modules

**`Sums`** defines `Total(f, S, cap)`, the sum of amounts, as the number of
pairs of an element and one of its units.  It has no recursion, so it can be
reasoned about by the prover; `SumTheorems` proves how it changes.

**`PrivatePool`** is one private market.  An order is its commitment; side,
amount and nullifier are constant functions of it because the commitment binds
them, and the program never reads them.  `place_circuit` and `Payout` are what
the two circuits assert, `finalizeCommitteeAggregates` what two committee
members' sums reconstruct.  `claims` and `placed` stand for the `Claim` and
`Order` accounts, whose derived addresses make them unique.  `paid`, `donated`
and `placed_under` are history variables.  Which outcome the oracle proves is a
free choice.

**`Escrow`** is what that market promises, without its phases, counters, proofs
and rounding: a pool of equal stakes that decides and pays after one fee, or
gives up and refunds, never some of both; everyone is settled once and gets at
least what they did not wager; a pool that is done keeps gifts only.
`PrivatePool` implements it (`ImplementsEscrow`): an open and a batched market
are an open pool, refunds and claims together are its settled depositors, the
fees of treasury and keeper its one fee.

**`Lmsr`** is `lmsr.rs`: each function that may return an error is a value and
the predicate under which the code returns it (`quote_buy`, `quote_buy_ok`).
`softplus` tabulates `ln(1 + exp(-d/b))` computed by the program's own two
series, so that proofs and runs use the same costs.

**`HybridMarket`** is one public market.  `ResolveHybrid` stands for all four
machine resolvers: each ends in `finalize_hybrid_resolution` and may find
either outcome.  `withdrawable`, `resolvable`, `in_resolution_window` and
`closes_when_drained` name the conditions of the code.  `MarketStep` is every
instruction that does not decide the outcome.

**`OptimisticMarket`** extends it with the optimistic resolver: the proposal,
one challenge, arbitration and the bond vault.  Its `phase` also takes the
values Resolving and Disputed.  The specification is shown to implement
`HybridMarket` under `phase <- BasePhase`, where a pending proposal is a locked
market.

**`MemberStore`** is how one member service keeps its shares.  A request is at
one of the awaits of `persist`: `mkdir`, the snapshot and `open` of the
temporary file, the write, the `rename`.  All requests use the same temporary
path; a descriptor follows its file through another request's rename
(`Moved`), and bytes written over another writer's leave a whole state or a
garbled one (`Overwritten`).  `openCommitteeState` accepts only a whole file
and start-up forgives only a missing one (`readable`).  `accepted`, `purged`
and `overlapped` are history variables.  The module has one market; the
service keeps all its markets in one file, so the saves of other markets'
requests overlap with its own in the same way, and are not modelled.

**`Committee`** is the path of a private market's shares from browsers to the
batch.  Its variables are grouped by who owns them: the chain, the browser,
the member services, the coordinator.  A share is its order and its index,
because the order's share commitment binds the values.  `ConfirmPlacement` and
`RetryCommitteeDelivery` send one request to every member; `ReceiveShare` is
the handler up to the update of the map and `AnswerShare` its 202 after
`persist`.  Requests nobody waits for any more, and those the route passes on
from elsewhere, are `ReceiveStray`.  What an account read shows after an await
is `SeenOpen` and `SeenCounts`, and a local clock may be ahead of the chain's
by `Skew`.  `Restart` starts from *any* part of what the service ever held,
which covers whatever `MemberStore` may leave on disk, overlapping persists
included; so the properties of `Committee` that must survive a crash do not
rest on the state file.  Amounts and the root's hash are `PrivatePool`'s.
The variable `batch` stands for the orders under the submitted root.

**`Keeper`** is the keeper process between its loops' awaits.  `readClock`
reads the clock the whole pass is planned from, `listPools` and `listHybrids`
the accounts, `readOracle` a public market's resolver and proposal;
`servePool` and `serveHybrid` plan by `planKeeperAction` and
`planHybridKeeperAction` and send.  A transaction sent is in `sent` until it
lands or expires.  The program appears as one operator per instruction that
yields the accounts it may leave behind, the empty set when it refuses:
phases, deadlines, proposals and challengers, no money.  `others` are all
other callers, and the host's clock differs from the chain's by `Skew`.

**`Redemption`** follows a click on "redeem" through the page, the two web
routes with their time-outs, the prover's serial queue with its witness
directory, and the relayer with its bound, its body, its queue, its checks and
its transaction, whose confirmation may be lost.

**`Indexer`** has one `run` for each call of `writeSnapshot`: five lists read in any
order, the join, which throws when an oracle is missing, the temporary file and
its rename.  Files are inodes, so an overlapping run truncates and renames as
it would on disk.  `onLogs` arms the debounce timer; a change may also be
reported to nobody (before the subscription stands, while it reconnects).

**`PositionVault`** is one browser's vault.  A write in flight has read and
not yet stored; its read and its store are separate steps, as the awaits of
`encryptVault` make them.  `dedupe` lets the first record win, as the code
does.  The history variable `causes` says whether a write dropped or regressed
a record, an import overrode one, or another wallet's unlocking removed the
plaintext entry all wallets share; the properties name which of these, and
nothing else, can cost a record.

**`MarketForm`** is the creation page: the fields and the edits that reset
each other, the requests to the oracle services, a submission that works on
the form as it was (`attempt`), and transactions that land with their answer
lost.  `validate_oracle_config`, `initialize_hybrid_market` and
`publish_hybrid_metadata` are the program's conditions on what is sent.

**`MarketData`** is the server side of the pages.  Data is the time it was
read, so an answer has an age when it is made (`lag`) and when it is given
(`age`); what was read before an await is kept in `req[r]`.  In front of the
routes, `front` is a copy of an answer that a browser, a proxy or the host
keeps: of activity and feeds for `max-age` and `stale-while-revalidate`
together (`HttpLife`), of the listing, a static page with `revalidate = 15`,
until somebody asks again, however late (`serveFront`).  A stale mark travels
with the copy; no copy acquires one.

**`TradingPanel`** repeats the client's own pricing next to `Lmsr`, and its
ticket is the panel between the click and the landing.  The market is reduced
to its quantities, which every trade moves, and its `resolver_security_cap`, which
the panel does not know, and the module states what the pricing must
meet at each of them.  **`HybridPages`** adds
the two requests of the liquidity console to `HybridMarket`, and the rows of the
portfolio.  **`OptimisticPanel`** reads the panel's conditions on the states
of `OptimisticMarket`, at the chain's second and at a fraction past it (`part`),
since `Date.now() / 1_000` is not rounded down.

**`Interface`** is the boundary itself.  An address is a term, a key or a
label with the addresses it is seeded with.  Each instruction of the IDL is a
record of what it asks of every account (signer, fixed address, seeds, stored
in another account, created); each call site is the record it hands to
`accountsPartial`, with the accounts it creates first and the reads that guard
it.  The state is the set of accounts that exist, so the order in which calls
may come matters; a wallet may close its token account at any time
(`closeAccount`).  `SentBlind` names the two calls whose accounts no read has
established: the replay form's second attempt, and a refund.

**`AccountData`** is the other direction, an account's bytes.  `serialize` is the
program writing the next field of a struct behind the one before it; `decode`
is a reader's decoder taking the next field of the IDL's description from where
it stands.  Widths are Borsh's and a string is as wide as it is long, so a field
missing from the description, or one of another width, makes every later one
other fields' bytes (`Taken`).  The structs, both copies of the IDL and
the readers' casts, with their TypeScript types, are each transcribed from their own
file.  Two decoders are in use, one that keeps the file's spelling and
one that changes it to camelCase; a reader that casts to the wrong spelling
finds `undefined`.  Of values only a string's length and a variant's number are
kept.  Strings have the shortest and the longest length their validation allows,
and `Fits` checks the longest against the account's space.

`MCPrivatePool`, `MCHybridMarket`, `MCMemberStore` and `MCCommittee` give the constants
and symmetries for TLC.  `MCMembers` puts the committee's path and a member's
store side by side, `MCServices` and `MCWeb` the services and the clients: they meet only on the chain, so a behaviour is one
of them while the others do not move, and one run covers the sum, not the
product, of their states.  An operator that a comment calls a deviation, or
describes as what the code does not do, precedes the definition it deviates
from; no specification uses it.

Left out of the state: statistics nobody reads back (volume, fee totals),
callers' own limits (`amount_guard` is `TradingPanel`'s, `deadline_ts`),
addresses and account validation (`Interface`'s), hashes and URIs of evidence,
the metadata account (`MarketForm`'s).  In the market modules each of these can
only make a call fail without effect.  The migration of a member's legacy
plaintext file at start-up is left out as well.

The modules `PrivatePoolProofs`, `HybridMarketProofs`, `OptimisticMarketProofs`,
`MemberStoreProofs`, `CommitteeProofs`, `ServicesProofs` and `WebProofs` hold
the theorems of section 4, `SumTheorems` their lemmas on totals.

## 3. Runs

| Run | Question | Result |
|---|---|---|
| `private_pool` | Is the escrow exact in every phase, is the market a pool as `Escrow` promises it, is every payment as proved, is every honest batch accepted, and is every order paid when committee and oracle do nothing? (Of the committee, honest sums and idleness are modelled; it is trusted not to submit others.) | holds |
| `private_pool_donation` | README: "Unrelated vault donations cannot inflate that settlement." | violated |
| `trading_panel` | Do cost and round trips meet their bounds at every state, and does the program honour what the panel offered, up to the security cap? | holds |
| `hybrid_safety` | Does the vault cover every possible and every actual liability through any trading, and do the pages show what is paid? | holds |
| `hybrid_invalid` | README: "An invalid result pays half of the aggregate YES and NO shares, rounded down." | violated |
| `optimistic_market` | Are bonds exact and outcomes justified; is it a `HybridMarket`; is every bond returned and every position settled; does the panel offer what is accepted, outside a deadline's own second? | holds |
| `committee` | Are delivered shares kept while a batch is possible, and does an accepted batch list exactly the market's orders? Does a crash anywhere in a persist that runs alone lose an accepted share or revive a purged one? | holds; it does not |
| `committee_recovery` | README: "an interrupted delivery remains recoverable from the encrypted browser vault" | violated |
| `form_metadata` | create-market-form.tsx: "Question or resolution rules exceed contract limits" | violated |
| `services` | Keeper: are plans accepted, stale plans harmless, markets settled? Redemption: paid once, secrets erased, queue recovering? Indexer: whole file, catching up? | holds |
| `web` | Are accounts and token accounts right at every call site and fields at every reader, secrets kept, markets created as described, final markets shown with their outcome, old answers marked? | holds |
| `member_store_overlap` | services/README.md: "one encrypted share-validation member per process with durable encrypted state" | violated |

The violated runs record differences between documentation and code.
*Donations*: `redeem` caps the final claim's dust at `winning_count - 1` units
but takes it from the live vault balance, so donated units fill the cap when
real dust does not; `PaidAsProved` bounds the effect.  *Invalid markets*: the
program reserves half of the aggregate shares and pays each position half of
its own, rounded down; what rounding withholds stays in
`outstanding_liability`, cannot be withdrawn, and the market stays Resolved.
`LiabilityExact` bounds the residue by half a unit per settled position.
*Recovery*: the portfolio retries a delivery only for a record with the
placement signature, which is saved after the transaction was confirmed; an
interruption before that save leaves an order on chain whose shares stay in
the vault.  *Metadata*: the form counts UTF-16 units, the program bytes; a
question of wider characters creates a market, with its subsidy deposited,
whose hashes no acceptable metadata can match.  *Overlapping persists*: two
requests inside `persist` at once share one temporary file, so an older snapshot
can be renamed over a newer one, or a file just truncated become the state
file, after a 202 was sent; `DurableAlone` shows that overlap is the only way.

The properties also mark, by what they except, limits a reader should know:

- `QuoteHonoured`: a buy beyond `resolver_security_cap` is offered and refused;
  the panel checks every limit of the program but that one.
- `OffersMatch`: in a deadline's own second the panel withholds a challenge the
  program accepts, and offers a finalization or a dispute timeout it refuses, because its
  clock tells fractions; and `canPropose` offers proposals outside the
  observation window.  The browser's clock is taken to be right otherwise.
- `CallsAccepted`: the replay form does not look for the market its lost
  transaction may have created, and a refund reads neither the order nor the
  payer's token account, which the owner may have closed (`SentBlind`).  The
  program refuses these calls.
- `FileWhole`, `FileCatchesUp`: two overlapping snapshots of the indexer share a
  temporary file, and a reader may find it truncated; a change between its
  first snapshot and its subscription, or a snapshot that throws, waits
  for the next log.
- `PlacedRecoverable`, `DeliveryRetryable`: two saves of a browser's vault at
  once, by two tabs or by an export and an order, store an older copy over a
  newer one and can undo a record; so can an import of an older backup and another
  wallet's unlocking.  `causes` names these; no property promises a record
  that survives them.
- `ConfirmedAsDescribed`: edits between two attempts; the second attempt finds
  the first one's market and keeps it.  `SourceVerified`: an answer sets the
  form's flag whatever hash the field holds by then, so a hash typed while
  a validation was out counts as validated; it is the only way to an unconfirmed
  source.
- `ShownAgrees`: a market read as open may come with the receipt of a
  resolution that landed between the two reads, and is shown as open.
- `AnswersFresh`: the listing is bounded only when it is made, since its
  static copy is given at any age; activity and feeds may reach a browser
  `HttpLife` (about five and eleven minutes) after they were made, unmarked.
- `WitnessErased`: a prover process killed while a proof is made leaves the
  witness on its disk; that is not modelled.

**Bounds.**  `PrivatePool.cfg` has eight possible orders on both sides, two of which share a
nullifier and one of which wagers more than the stake, a batch minimum
small enough that resolved, refunded and ineligible markets all occur, fees
that leave remainders, and two donated units.  Times are small integers that
keep every order and coincidence of the deadlines.  `HybridMarket.cfg`
has two traders, four trades, both quantity limits and the resolver cap within
reach of each other, and a fixed-point scale of 10^4 with `ln 2` rounded as in
the code; prices then still round in both directions.  `TradingPanel.cfg` reaches
every quantity pair up to 30 with an imbalance of up to 4 b, with one trade of
another trader while a ticket is out.  The optimistic
run has one trader with two trades, three wallets of which one is the treasury, and a
committee of three; the window, the hard deadline and the observation
window end at different times.
`Committee.cfg` has, for the store, two shares, two requests and two crashes, enough
for a crash in every step of a persist and a second one after the restart; for the path, three orders on two sides and two members, those the
coordinator asks (the third receives shares and purges like them and takes no
other part), a minimum of two, one crash, one stray and one interruption, and
clocks one unit ahead.  The constraint `Bounded` follows three orders without a
fault up to the batch deadline (members answer for two of them), and two orders
with any two faults before and any one fault after it.
`Services.cfg` has one market of each kind, with every kind of resolver and an
unknown one, two transactions in flight and a clock skew; three redemptions of
which two compete for one position, with a bound of one; and two overlapping
snapshots of two markets.  `Web.cfg` has two wallets, of which one is the
creator; an order placed in this browser and one placed earlier, with two
writes in flight; two texts, four edits and two submissions; and two requests
at once over five instants of time, two cache lives, with `HttpLife` as long as a
cache's life so that copies in front expire while followed; and every account with
its strings at their shortest and longest.  Its constraint
`Followed` follows the vault up to the first lost or regressed record, which
the properties except anyway, and the form through four edits of one submission,
or three edits and two submissions.  Deadlock is not checked: a closed market, and
the end of a bounded clock, are legitimate ends.

**Fairness.**  Time passes (`WF(Tick)`).  `begin_refund`,
`resolve_hybrid_timeout`, `finalize_optimistic_resolution` and
`timeout_optimistic_dispute` have no privileged signer, so anyone affected, or
the keeper's loop, can send them: weakly fair.  Owners collect what is theirs
(`refund_order`, `redeem`, `settle_hybrid_position`,
`withdraw_hybrid_liquidity`, `claim_optimistic_bond`): weakly fair for each
owner.  Nothing is assumed of the committee, the oracles, proposers,
challengers or arbiters.  `EveryOrderSettled` speaks of orders with a nullifier
of their own, as clients draw them at random; with a shared one the second order
could not be claimed and the market would not close.  The keeper's loop and the
clock are weakly fair; serving a market and landing a transaction are strongly
fair, because a read or a send that is repeated pass after pass succeeds at
last.  `MarketsSettle` then needs no other party.  The relayer's queue goes on because its
RPC calls have time-outs; the indexer's calls return and its timer fires.

## 4. Proofs

TLAPS proves the theorems below for every value of the constants that meets
the modules' named assumptions; TLC evaluates those assumptions in the runs.

| Module | Theorem | States |
|---|---|---|
| `PrivatePoolProofs` | `TypeCorrect` | `TypeOK` |
| | `EscrowIntactAlways` | `EscrowIntact`: stakes not yet refunded are in the vault |
| | `RedeemAlwaysCovered` | `RedeemNeverShort`: no order of claims runs the vault short |
| | `ClosedPaidOut`, `MoneyAlwaysConserved` | `EscrowPaidOut`: the last claim sweeps all real dust; `MoneyConserved` |
| | `RefinesEscrow` | `ImplementsEscrow`: the market is a pool that keeps its promise |
| | `HonestBatchAlwaysAccepted` | `HonestBatchAccepted` |
| | `ClaimsPaidAsProved`, `RefundsAlwaysFeeFree` | `PaidAsProved`, `RefundsFeeFree` |
| | `VerifiersAlwaysBinding`, `NeverPaidTwice` | `VerifiersBinding`, the action property `PaidOnce` |
| `HybridMarketProofs` | `TypeCorrect` | `TypeOK` |
| | `SharesAlwaysAccounted` | `SharesAccounted` |
| | `PotentialAlwaysCovered`, `AlwaysSolvent`, `TradesAlwaysSolvent` | `PotentialCovered`, `MarketSolvent`, `TradesNeverInsolvent` |
| | `SettlementAlwaysCovered`, `LiabilityAlwaysExact`, `ClosedMarketPaidOut` | `SettlementCovered`, `LiabilityExact`, `ClosedPaidOut` |
| | `AlwaysDecidedInTime`, `DecisionsAlwaysFinal` | `DecidedInTime`, the action property `DecisionsFinal` |
| | `WithdrawableAlwaysSafe`, `PortfolioAlwaysMatches` | `WithdrawableNeverOverstated`, `PortfolioMatches` of the pages |
| | `CostAlwaysBounded`, `RoundTripsNeverGain` | `CostBounds`, `NoRoundTripGain` |
| | `QuoteAlwaysHonoured` | `QuoteHonoured`: the client's pricing is the program's, security cap apart |
| `OptimisticMarketProofs` | `OptInvariance` | `OptIInv`, types included |
| | `BondsAlwaysCovered`, `OutcomesAlwaysJustified`, `OffersAlwaysMatch` | `BondsCovered`, `OutcomeJustified`, `OffersMatch` |
| | `RefinesHybridMarket` | `ImplementsHybridMarket` |
| | `DisputedAlwaysSolvent`, `OptimisticSettlementCovered`, `OptimisticDecisionsFinal` | `DisputedSolvent`, `SettlementCovered`, `DecisionsFinal`, through the refinement |
| `MemberStoreProofs` | `TypeCorrect`, `DurableWhileAlone` | `TypeOK`, `DurableAlone` |
| `CommitteeProofs` | `TypeCorrect` | `TypeOK` |
| | `SharesAlwaysVerified`, `DeliveredAlwaysKept` | `SharesVerified`, `DeliveredKept` |
| | `BatchAlwaysComplete` | `BatchComplete`: stale reads and early clocks never cost an order its place in the batch |
| `ServicesProofs` | `KeeperPlansAccepted`, `LatePlansHarmless` | `PlansAccepted`, the action property `StaleHarmless` |
| | `ClaimedAlwaysPaid`, `WitnessAlwaysErased`, `PendingAlwaysExact` | `ClaimedMeansPaid`, `WitnessErased`, `PendingExact` |
| | `FileAlwaysWhole` | `FileWhole` |
| `WebProofs` | `ShownAlwaysAgrees`, `AnswersAlwaysFresh` | `ShownAgrees`, `AnswersFresh` |
| | `PlacedAlwaysRecoverable`, `DeliveryAlwaysRetryable` | `PlacedRecoverable`, `DeliveryRetryable` |
| | `CreationAlwaysAccepted`, `ConfirmedAlwaysAsDescribed`, `SourceAlwaysVerified` | `CreationAccepted`, `ConfirmedAsDescribed`, `SourceVerified` |
| | `CallsAlwaysAccepted`, `AccountsAlwaysReadBack` | `CallsAccepted`, `ReadBack` of `AccountData` |

**Sums.**  `SumTheorems` rests on cardinality facts of the library only:
a total is a natural number, splits over a partition, bounds each of its
members and changes by the difference when one member changes.

**Private pool.**  Assumed: finitely many orders with natural amounts
(`OrdersAssumption`), a positive stake and fees below the whole
(`AmountsAssumption`), deadlines in the order `initialize_market` demands
(`TimesAssumption`).  `RedeemNeverShort` is not inductive: it bounds each
payout by the balance and says nothing of the next one.  The inductive
invariant `IInv` adds what the balance *is*.  `AggregateFacts` ties the
submitted sums to the orders; `EscrowIntact` gives the balance up to
resolution; `ResolvedVault` bounds it after: from below by the exact,
unrounded shares of the winners still to be paid (each payout is rounded down,
so paying one never takes from the others), and from above by less than one
unit of dust per winner already paid.  The lower bound proves that every claim
is covered, the upper one that the cap `winning_count - 1` on the last claim's
dust sweeps everything, so that a closed market keeps donations only.
`RefinesEscrow` maps each instruction to a step of `Escrow` or to a stutter
(lemmas `...Promise`).  It needs `PayInv` too, that an order not yet settled
has received nothing, and that a counter reaches the number of orders exactly
with the last of them (`LastOrder`).  `MoneyConserved` is inductive with a bound
on what was paid, which it implies itself: nobody is paid more than the vault
holds.

**Public market.**  Assumed: finitely many traders (`TradersAssumption`), the
order of the timestamps and a treasury share below the whole
(`HybridAssumption`), pricing parameters in range (`LmsrAssumption`), and of
the fixed-point series two inequalities between constants: `ln 2` is at most one,
and the series of `ln(1 + x)` at one is at most `LN_2_FIXED`
(`SeriesAssumption`, which TLC evaluates).  `MarketSolvent` is not
inductive, because a sale lowers vault and quantities at once.  The invariant
that is, `PotentialCovered`, says in fixed point that the vault holds the LMSR
cost of the outstanding shares, the reserve and the donations: the subsidy
establishes it (`b ln 2`, rounded up), a buy adds its cost difference rounded
up, a sale takes its own rounded down, and cost is at least the larger
quantity.  `IInv` adds the counting of shares and, after resolution,
`LiabilityExact`, from which every unsettled payout is covered whoever settled
or withdrew before.  `PagesIInv` extends it with the liquidity console: between
its two requests the market stays decided and what it owes only falls.

*The series.*  That `softplus` is a natural number, at most `ln 2`, is proved,
not assumed.  `exp_sums` and `ln_sums` are
recursive functions; what holds of every round follows from the natural-number
principle over the set of rounds for which it holds (`ExpTerms`, `ExpSums`,
`LnPowers`, `LnSums`): terms fall because `x < ln 2 <= 1`, so the alternating
sum stays between its first two partial sums, and both series are monotone in
every rounded operation.

*The ticket* (assumed: slippage limits of at most 10 000 basis points and natural
security caps, `PanelAssumption`).  `ExpLoop` and `LnLoop` show that the client's loops, which
carry a pair, compute the program's terms and sums; `ClientCost` lifts that to
the cost at every accepted pair of quantities, and `QuotedAccepted` to the
amounts.  `PanelIInv` says that a ticket that is out holds a quote that was
really made, from quantities the program accepts.  `NoRoundTripGain` needs no
monotonicity of the series between the two ends, only that two amounts rounded
down never exceed their sum rounded up.

**Optimistic market.**  Assumed besides: the treasury owner is a wallet, a
dispute fee of at most the whole, the observation time not before the
resolution time (`OptimisticAssumption`).  `OptIInv` ties phase, proposal,
challenger and payouts together: which roles are paid once a market is
finalised, and that payouts unclaimed add up to the bond vault.  The refinement
maps each call to the step `HybridMarket` takes, or to a stutter; every
operator of the public market exists again in the instance, and the lemmas up
to `BasePricing` show that the copies are equal.  A second instance, of
`HybridMarketProofs` itself, then carries its theorems over, to the phases
Resolving and Disputed included.

**Member store.**  Nothing is assumed of its constants.  `DurableAlone` speaks of
the state file only; to be inductive it needs what the next rename will put
there.  `StoreInv` adds, for as long as no persists have overlapped: one
request persists at a time (`Alone`), its snapshot is still what memory holds
and is what the temporary file gets (`SnapshotCurrent`), and memory agrees
with every answer given (`MemoryCurrent`).

**Committee.**  Assumed: finitely many orders, the lock time before the batch
deadline (`CommitteeAssumption`).  The chain of `CommitteeInv`: orders are
only appended and distinct, so a verified share stays verified (`Known`);
verified shares at contiguous indices make every answer a prefix of the
market's orders (`AnswersTrue`); and the program's count check makes the
prefix the whole (`BatchComplete`).  `PromisesKept` generalises
`DeliveredKept` from completed deliveries to every answer already given or
about to be given, which is what a retry and a purge could disturb.

**Services.**  Assumed: deadlines in the program's order, a clock of the
instance that runs past the last of them on every host, and for a finite number of
snapshots more inodes than snapshots (`KeeperAssumption`, `ServicesAssumption`).
`KeeperIInv` says what phase, outcome and proposal a market can have together,
and that a snapshot in the keeper's hands was once such a state; a plan is then
compared with the instruction's guards case by case.  `StaleHarmless` is proved
of each transaction in flight, however old, from what its kind of market allows.
`RedemptionIInv` follows a request through page, routes, prover and relayer:
each is in at most one queue, and a success is answered only where that
request's own transaction has landed (`RelayedOwnClaim`).  `IndexerIInv`
describes the only running snapshot; nothing is claimed once two overlapped.

**Clients.**  Assumed: orders made here are orders, a narrow text exists, and
cache lives and delay are natural numbers (`WebAssumption`).  `DataIInv` bounds
the age of everything a request holds at each of its awaits, and of each cache
(`CachesOK`) and each copy in front of a route (`FrontOK`); the bounds add up where one cache is filled from another.
`VaultIInv` says of each write in flight that what it read was stored
(`WriteOK`), so that whatever it drops is named in `causes`.  `FormIInv`
relates the attempt to the form it was started from, to transactions in flight
and to the accounts that exist (`AttemptsAgree`), however the form was edited
since.

*The boundary* (assumed: the creator is a wallet, and a wallet is a key, since a
derived address cannot sign; `WalletsAssumption`).  Addresses are records of a
label and seeds, so that two of them are equal only when derived alike.
`InterfaceIInv` says what an address that exists implies: accounts made by one
instruction exist together (`CreatedTogether`), and a proposal, receipt,
order or position exists only after its market, and an order only after its
owner's token account (`CreatedAfter`).  Each call site has a lemma (`...Sound`):
what its own reads establish, with `InterfaceIInv`, gives every account its
instruction asks for, and what it adds keeps `InterfaceIInv`
(`ClosedPreserves`).  That the scans by byte offset find what they mean follows
from the offsets, computed from the sizes of the fields before them.
A token account may close under a call; the lemmas then ask only of calls
outside `SentBlind`, and show that the program refuses those inside.

*The accounts.*  `AccountIInv` says that the bytes written are the struct's fields
so far, each beginning where the one before it ends (`Begin`), and that the
decoder stands where the program began the field it reads next.  `SerializeInv` and
`DecodeInv` prove it inductive, for any string lengths: the step that needs an
argument is that a field the decoder takes is the one that was written there,
which follows from `SameLayouts` (the IDL's fields, in order and type, are the
struct's) and from beginnings that increase (`TakenIs`).  What each of the 21 readers
asks for is then compared with the layout its decoder followed (`..._answered`), and
each naming with the variants of its enum (`TotalNamings`).

## 5. Only model-checked

- `Fits`, that no account outgrows its space: sums of constants, one per account.
- Liveness, with the fairness of section 3: `EveryOrderSettled`,
  `PositionsSettled`, `BondsReturned`, `MarketsSettle`, `RelayRecovers`,
  `FileCatchesUp`.  Reasoning from fairness is outside the prover.

The type invariants of the modules with theorems, and `RedeemNeverShort`,
`RefundsFeeFree`, `EscrowPaidOut`, `MoneyConserved`, `VerifiersBinding`,
`PaidOnce`, `SharesAccounted`,
`PotentialCovered`, `TradesNeverInsolvent`, `LiabilityExact`, `DecidedInTime`,
`SharesVerified`, `DisputedSolvent` and `PendingExact`, and the inductive
invariants named above, are proved for every instance; no run repeats them.

## 6. Not modelled

- Cryptography (commitments, Merkle paths, proof verification, Shamir shares,
  encryption): taken as binding and correct.
- How the oracle adapters parse and compare an observation, and the HTTP
  formats of the providers; their effect and their deadlines are modelled.
- The placement proof of the hosted prover, which takes the same path as the
  redeem proof; the proving tools themselves and the vendored browser prover.
- Two coordinators at once; several keepers beyond "other callers may do the
  same".
- Layout, charts, wallet connection, demonstration pages; of the generated
  IDL, argument encodings, events and error tables.

## 7. Plan

1. `OracleResolution`: the acceptance windows of the Pyth, Stork, Switchboard
   and TxLINE adapters and `compare_values` against a reference definition,
   with the receipt each of them leaves.
2. Liveness of delivery: under which fairness of browsers and services every
   placed order reaches a batch.
