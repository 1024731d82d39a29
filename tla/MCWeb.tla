------------------------------- MODULE MCWeb --------------------------------
(***************************************************************************)
(* The clients: every call site of the program with the accounts it names,  *)
(* the readers of its accounts, the browser's vault of positions, the form   *)
(* that creates a market and the data layer of the pages. They meet only on  *)
(* the chain, so one run checks them side by side: a behaviour is one of the *)
(* five, and the others do not move.                                         *)
(***************************************************************************)
EXTENDS Interface, FiniteSets, TLC

CONSTANTS
  Orders, Fresh, MaxWrites,                        \* PositionVault
  Texts, Wide, FormMaxNow, MaxEdits, MaxAttempts,  \* MarketForm
  Requests, Ttl, HttpLife, MaxDelay, MaxNow        \* MarketData

ASSUME WebAssumption ==
  /\ Fresh \subseteq Orders
  /\ \E text \in Texts : text \notin Wide
  /\ Ttl \in Nat \ {0} /\ MaxDelay \in Nat /\ HttpLife \in Nat

VARIABLES
  part,
  vault, exists, legacy, writes, panel, loaded, shown, placed, delivered, settled, phase, causes,
  form, checking, asking, stage, attempt, formChain, flying, formNow, edits, attempts,
  verified, edited, raced,
  routes, dataChain, req, answer, activityCache, catalogCache, feedCache, front, now,
  account, bytes, written, cursor, decoded

vaultVars ==
  <<vault, exists, legacy, writes, panel, loaded, shown, placed, delivered, settled, phase, causes>>
formVars ==
  <<form, checking, asking, stage, attempt, formChain, flying, formNow, edits, attempts,
    verified, edited, raced>>
dataVars == <<routes, dataChain, req, answer, activityCache, catalogCache, feedCache, front, now>>
accountVars == <<account, bytes, written, cursor, decoded>>
allVars == <<chain, vaultVars, formVars, dataVars, accountVars, part>>

\* The creator of both markets and one trader.
MCCreator == Key("creator")
MCWallets == {Key("creator"), Key("trader")}

V == INSTANCE PositionVault
F == INSTANCE MarketForm WITH chain <- formChain, now <- formNow, MaxNow <- FormMaxNow
D == INSTANCE MarketData WITH chain <- dataChain
A == INSTANCE AccountData

WebInit ==
  /\ part \in {"interface", "vault", "form", "data", "accounts"}
  /\ Init /\ V!Init /\ F!Init /\ D!Init /\ A!Init
  /\ part # "vault" => exists
  /\ part # "data" => routes = {"feeds"}
  /\ part # "accounts" => account = "order"

WebNext ==
  \/ part = "interface" /\ Next /\ UNCHANGED <<vaultVars, formVars, dataVars, accountVars, part>>
  \/ part = "vault" /\ V!Next /\ UNCHANGED <<chain, formVars, dataVars, accountVars, part>>
  \/ part = "form" /\ F!Next /\ UNCHANGED <<chain, vaultVars, dataVars, accountVars, part>>
  \/ part = "data" /\ D!Next /\ UNCHANGED <<chain, vaultVars, formVars, accountVars, part>>
  \/ part = "accounts" /\ A!Next /\ UNCHANGED <<chain, vaultVars, formVars, dataVars, part>>

WebSpec == WebInit /\ [][WebNext]_allVars

\* PositionVault is followed until something has undone a record, and MarketForm
\* through all edits of one submission, or one edit less and two submissions.
Followed == V!Undamaged /\ edits + attempts <= MaxEdits + 1

-----------------------------------------------------------------------------
\* Interface: the accounts a call names are those the program verifies, and those
\* its instruction needs exist when it is sent, whichever wallet calls first, but
\* for the calls that are sent without reading whether they do.
\* (Where another component moves, the chain of Interface stays as it was.)
CallsAccepted == part = "interface" => AddressesVerified /\ AccountsReady

\* AccountData: a reader finds in every field it names the value the program wrote
\* there, knows every variant, and every account fits into its space.
AccountsReadBack == A!ReadBack /\ A!Fits

\* PositionVault: the secret of every staked order stays in the vault.
PlacedRecoverable == V!PlacedRecoverable

\* PositionVault: an interrupted delivery can be retried from the vault.
DeliveryRetryable == V!DeliveryRetryable

\* MarketForm: the program accepts the market the form sends.
CreationAccepted == F!CreationAccepted

\* MarketForm: a confirmed submission created what was described.
ConfirmedAsDescribed == F!ConfirmedAsDescribed

\* MarketForm: a market resolves from a source its oracle service confirmed.
SourceVerified == F!SourceVerified

\* MarketData: what is shown of a market holds together.
ShownAgrees == D!ShownAgrees

\* MarketData: an answer that is stale when it is made says so, and a copy of it
\* is not given for longer than its headers allow.
AnswersFresh == D!AnswersFresh
=============================================================================
