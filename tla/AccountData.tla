----------------------------- MODULE AccountData -----------------------------
(***************************************************************************)
(* How an account of the program reaches a TypeScript reader. The program   *)
(* writes the fields of a struct one after the other, in Borsh: nothing but  *)
(* their order and their widths says where one ends, and a string is as wide *)
(* as it is long. A decoder takes the bytes apart again by the interface      *)
(* description (IDL); a reader casts the result to a type of its own, which  *)
(* no compiler compares with either. Two decoders are in use, both over the  *)
(* JSON file: BorshAccountsCoder, which keeps its spelling (snake_case       *)
(* fields, PascalCase variants), and Program, which turns both into camelCase. *)
(*                                                                         *)
(* One account is written and then decoded, field by field. Names are        *)
(* written here in camelCase; the spelling a reader uses is data of its own. *)
(***************************************************************************)
EXTENDS Integers, Sequences

VARIABLES
  account,     \* its type
  bytes,       \* what the program has written: where each field begins, and what it is
  written,     \* where the next one begins
  cursor,      \* where the decoder stands
  decoded      \* what it has read: under which name, and what was written there

vars == <<account, bytes, written, cursor, decoded>>

Fields(layout) == {layout[i] : i \in DOMAIN layout}

-----------------------------------------------------------------------------
(* What the program writes: its structs and enums, in declaration order,    *)
(* and the space it gives an account.                                       *)

program_accounts ==
  [market |->
     << <<"bump", "u8">>, <<"vaultBump", "u8">>, <<"marketId", "u64">>,
      <<"authority", "pubkey">>, <<"category", "marketCategory">>,
      <<"resolverKind", "resolverKind">>, <<"questionHash", "bytes32">>,
      <<"rulesHash", "bytes32">>, <<"fixtureId", "i64">>,
      <<"marketMode", "marketMode">>, <<"fixtureStartTs", "i64">>,
      <<"scoreKeyA", "u32">>, <<"scoreKeyB", "u32">>, <<"totalGoalsThreshold", "i32">>,
      <<"collateralMint", "pubkey">>, <<"tokenProgram", "pubkey">>,
      <<"stakeAmount", "u64">>, <<"feeBps", "u16">>, <<"keeperRewardBps", "u16">>,
      <<"treasuryOwner", "pubkey">>, <<"txlineProgram", "pubkey">>,
      <<"lockTs", "i64">>, <<"batchDeadlineTs", "i64">>,
      <<"resolutionDeadlineTs", "i64">>, <<"phase", "marketPhase">>,
      <<"orderCount", "u32">>, <<"yesCount", "u32">>, <<"noCount", "u32">>,
      <<"commitmentRoot", "bytes32">>, <<"outcome", "u8">>, <<"committee", "pubkeys">>,
      <<"placementVerifier", "pubkey">>, <<"redeemVerifier", "pubkey">>,
      <<"grossPool", "u64">>, <<"protocolFee", "u64">>, <<"keeperReward", "u64">>,
      <<"treasuryFee", "u64">>, <<"netPool", "u64">>, <<"payoutAmount", "u64">>,
      <<"payoutRemainder", "u64">>, <<"claimedCount", "u32">>,
      <<"refundedCount", "u32">>, <<"settledAt", "i64">>, <<"txlineProofTs", "i64">>,
      <<"finalSeq", "u32">>, <<"dailyScoresRoot", "pubkey">>,
      <<"settlementEvidenceHash", "bytes32">>, <<"scoreA", "i32">>,
      <<"scoreB", "i32">>, <<"yesAmount", "u64">>, <<"noAmount", "u64">> >>,
   order |->
     << <<"bump", "u8">>, <<"market", "pubkey">>, <<"payer", "pubkey">>,
      <<"orderIndex", "u32">>, <<"commitment", "bytes32">>,
      <<"shareCommitments", "hashes">>, <<"refunded", "bool">> >>,
   hybridMarket |->
     << <<"bump", "u8">>, <<"vaultBump", "u8">>, <<"version", "u8">>,
      <<"marketId", "u64">>, <<"creator", "pubkey">>, <<"liquidityOwner", "pubkey">>,
      <<"category", "marketCategory">>, <<"tradingMode", "hybridTradingMode">>,
      <<"pricingModel", "hybridPricingModel">>, <<"questionHash", "bytes32">>,
      <<"rulesHash", "bytes32">>, <<"outcomeLabelsHash", "bytes32">>,
      <<"collateralMint", "pubkey">>, <<"tokenProgram", "pubkey">>,
      <<"treasuryOwner", "pubkey">>, <<"oracleConfig", "pubkey">>,
      <<"liquidityParameter", "u64">>, <<"initialSubsidy", "u64">>,
      <<"roundingReserve", "u64">>, <<"maxTradeShares", "u64">>,
      <<"resolverSecurityCap", "u64">>, <<"yesQuantity", "u64">>,
      <<"noQuantity", "u64">>, <<"tradeFeeBps", "u16">>,
      <<"treasuryFeeShareBps", "u16">>, <<"openTs", "i64">>, <<"lockTs", "i64">>,
      <<"resolveNotBeforeTs", "i64">>, <<"resolutionDeadlineTs", "i64">>,
      <<"phase", "hybridPhase">>, <<"outcome", "u8">>, <<"tradeCount", "u64">>,
      <<"volume", "u64">>, <<"treasuryFees", "u64">>, <<"liquidityFees", "u64">>,
      <<"outstandingLiability", "u64">>, <<"redeemedLiability", "u64">>,
      <<"settledAt", "i64">>, <<"settlementEvidenceHash", "bytes32">> >>,
   oracleConfig |->
     << <<"bump", "u8">>, <<"version", "u8">>, <<"market", "pubkey">>,
      <<"resolver", "oracleResolver">>, <<"sourceProgram", "pubkey">>,
      <<"sourceQueue", "pubkey">>, <<"sourceId", "bytes32">>,
      <<"comparator", "valueComparator">>, <<"threshold", "i128">>,
      <<"thresholdExponent", "i32">>, <<"observationTs", "i64">>,
      <<"observationWindowSecs", "u32">>, <<"maxStalenessSecs", "u32">>,
      <<"maxStalenessSlots", "u64">>, <<"maxConfidenceBps", "u16">>,
      <<"minSamples", "u8">>, <<"challengePeriodSecs", "u32">>,
      <<"bondAmount", "u64">>, <<"configHash", "bytes32">>,
      <<"optimisticProposal", "pubkey">>, <<"consumed", "bool">> >>,
   resolutionReceipt |->
     << <<"bump", "u8">>, <<"version", "u8">>, <<"market", "pubkey">>,
      <<"resolver", "oracleResolver">>, <<"outcome", "u8">>,
      <<"observationValue", "i128">>, <<"observationExponent", "i32">>,
      <<"observationTs", "i64">>, <<"observationSlot", "u64">>,
      <<"confidence", "u64">>, <<"sampleCount", "u8">>, <<"sourceQueue", "pubkey">>,
      <<"sourceId", "bytes32">>, <<"sourceAccount", "pubkey">>,
      <<"evidenceHash", "bytes32">>, <<"finalizedAt", "i64">> >>,
   hybridMarketMetadata |->
     << <<"bump", "u8">>, <<"version", "u8">>, <<"market", "pubkey">>,
      <<"creator", "pubkey">>, <<"question", "string">>, <<"rules", "string">>,
      <<"yesLabel", "string">>, <<"noLabel", "string">>, <<"referenceUrl", "string">>,
      <<"publishedAt", "i64">> >>,
   position |->
     << <<"bump", "u8">>, <<"version", "u8">>, <<"market", "pubkey">>,
      <<"owner", "pubkey">>, <<"yesShares", "u64">>, <<"noShares", "u64">>,
      <<"totalSpent", "u64">>, <<"totalProceeds", "u64">>, <<"settledAmount", "u64">>,
      <<"settled", "bool">> >>,
   optimisticProposal |->
     << <<"bump", "u8">>, <<"bondVaultBump", "u8">>, <<"version", "u8">>,
      <<"market", "pubkey">>, <<"proposer", "pubkey">>, <<"proposerToken", "pubkey">>,
      <<"proposedOutcome", "u8">>, <<"assertionHash", "bytes32">>,
      <<"assertionEvidenceUri", "string">>, <<"proposedAt", "i64">>,
      <<"challengeDeadline", "i64">>, <<"challenger", "pubkey">>,
      <<"challengerToken", "pubkey">>, <<"challengedOutcome", "u8">>,
      <<"challengeHash", "bytes32">>, <<"challengeEvidenceUri", "string">>,
      <<"challengedAt", "i64">>, <<"bondAmount", "u64">>, <<"proposerPayout", "u64">>,
      <<"challengerPayout", "u64">>, <<"treasuryPayout", "u64">>,
      <<"proposerClaimed", "bool">>, <<"challengerClaimed", "bool">>,
      <<"treasuryClaimed", "bool">>, <<"finalized", "bool">>, <<"winner", "pubkey">>,
      <<"decisionHash", "bytes32">> >>]

program_enums ==
  [marketPhase |->
     <<"open", "batched", "resolved", "refunding", "closed">>,
   hybridPhase |->
     <<"open", "locked", "resolving", "disputed", "resolved", "closed">>,
   marketCategory |->
     <<"sports", "crypto", "politics", "technology", "culture", "other", "economics",
      "science">>,
   resolverKind |->
     <<"txlineStat">>,
   marketMode |->
     <<"live", "replay">>,
   hybridTradingMode |->
     <<"continuous", "privateBatch">>,
   hybridPricingModel |->
     <<"lmsr">>,
   oracleResolver |->
     <<"txlineStat", "pythPrice", "switchboardQuote", "optimistic", "umaWormhole",
      "chainlinkReport", "storkPrice">>,
   valueComparator |->
     <<"greaterThan", "greaterThanOrEqual", "lessThan", "lessThanOrEqual", "equal">>]

Space ==
  [market |-> 8 + 1024, order |-> 8 + 1 + 32 + 32 + 4 + 32 + 96 + 1, hybridMarket |-> 8 + 768,
   oracleConfig |-> 8 + 256, resolutionReceipt |-> 8 + 224, position |-> 8 + 128,
   hybridMarketMetadata |-> 8 + 1 + 1 + 32 + 32 + 4 + 160 + 4 + 420 + 4 + 24 + 4 + 24 + 4 + 160 + 8,
   optimisticProposal |-> 8 + 768]

MAX_OPTIMISTIC_EVIDENCE_URI_BYTES == 160

\* The lengths a string may have: what its validation lets through at either
\* end (of an address, "ar://" and a character), and for the challenge what it
\* holds before there is one.
TextLengths(name) ==
  CASE name = "question"  -> {1, 160}
    [] name = "rules"     -> {1, 420}
    [] name \in {"yesLabel", "noLabel"} -> {1, 24}
    [] name = "referenceUrl" -> {0, 160}
    [] name = "challengeEvidenceUri" -> {0, MAX_OPTIMISTIC_EVIDENCE_URI_BYTES}
    [] OTHER -> {6, MAX_OPTIMISTIC_EVIDENCE_URI_BYTES}

-----------------------------------------------------------------------------
(* What the decoders are told: the types of the IDL.                       *)

idl_market ==
  << <<"bump", "u8">>, <<"vaultBump", "u8">>, <<"marketId", "u64">>,
    <<"authority", "pubkey">>, <<"category", "marketCategory">>,
    <<"resolverKind", "resolverKind">>, <<"questionHash", "bytes32">>,
    <<"rulesHash", "bytes32">>, <<"fixtureId", "i64">>, <<"marketMode", "marketMode">>,
    <<"fixtureStartTs", "i64">>, <<"scoreKeyA", "u32">>, <<"scoreKeyB", "u32">>,
    <<"totalGoalsThreshold", "i32">>, <<"collateralMint", "pubkey">>,
    <<"tokenProgram", "pubkey">>, <<"stakeAmount", "u64">>, <<"feeBps", "u16">>,
    <<"keeperRewardBps", "u16">>, <<"treasuryOwner", "pubkey">>,
    <<"txlineProgram", "pubkey">>, <<"lockTs", "i64">>, <<"batchDeadlineTs", "i64">>,
    <<"resolutionDeadlineTs", "i64">>, <<"phase", "marketPhase">>,
    <<"orderCount", "u32">>, <<"yesCount", "u32">>, <<"noCount", "u32">>,
    <<"commitmentRoot", "bytes32">>, <<"outcome", "u8">>, <<"committee", "pubkeys">>,
    <<"placementVerifier", "pubkey">>, <<"redeemVerifier", "pubkey">>,
    <<"grossPool", "u64">>, <<"protocolFee", "u64">>, <<"keeperReward", "u64">>,
    <<"treasuryFee", "u64">>, <<"netPool", "u64">>, <<"payoutAmount", "u64">>,
    <<"payoutRemainder", "u64">>, <<"claimedCount", "u32">>,
    <<"refundedCount", "u32">>, <<"settledAt", "i64">>, <<"txlineProofTs", "i64">>,
    <<"finalSeq", "u32">>, <<"dailyScoresRoot", "pubkey">>,
    <<"settlementEvidenceHash", "bytes32">>, <<"scoreA", "i32">>, <<"scoreB", "i32">>,
    <<"yesAmount", "u64">>, <<"noAmount", "u64">> >>
\* Deviation: a description generated before payer was added to the struct.
idl_order_old ==
  << <<"bump", "u8">>, <<"market", "pubkey">>, <<"orderIndex", "u32">>,
    <<"commitment", "bytes32">>, <<"shareCommitments", "hashes">>, <<"refunded", "bool">> >>
idl_order ==
  << <<"bump", "u8">>, <<"market", "pubkey">>, <<"payer", "pubkey">>,
    <<"orderIndex", "u32">>, <<"commitment", "bytes32">>,
    <<"shareCommitments", "hashes">>, <<"refunded", "bool">> >>
idl_hybridMarket ==
  << <<"bump", "u8">>, <<"vaultBump", "u8">>, <<"version", "u8">>,
    <<"marketId", "u64">>, <<"creator", "pubkey">>, <<"liquidityOwner", "pubkey">>,
    <<"category", "marketCategory">>, <<"tradingMode", "hybridTradingMode">>,
    <<"pricingModel", "hybridPricingModel">>, <<"questionHash", "bytes32">>,
    <<"rulesHash", "bytes32">>, <<"outcomeLabelsHash", "bytes32">>,
    <<"collateralMint", "pubkey">>, <<"tokenProgram", "pubkey">>,
    <<"treasuryOwner", "pubkey">>, <<"oracleConfig", "pubkey">>,
    <<"liquidityParameter", "u64">>, <<"initialSubsidy", "u64">>,
    <<"roundingReserve", "u64">>, <<"maxTradeShares", "u64">>,
    <<"resolverSecurityCap", "u64">>, <<"yesQuantity", "u64">>,
    <<"noQuantity", "u64">>, <<"tradeFeeBps", "u16">>,
    <<"treasuryFeeShareBps", "u16">>, <<"openTs", "i64">>, <<"lockTs", "i64">>,
    <<"resolveNotBeforeTs", "i64">>, <<"resolutionDeadlineTs", "i64">>,
    <<"phase", "hybridPhase">>, <<"outcome", "u8">>, <<"tradeCount", "u64">>,
    <<"volume", "u64">>, <<"treasuryFees", "u64">>, <<"liquidityFees", "u64">>,
    <<"outstandingLiability", "u64">>, <<"redeemedLiability", "u64">>,
    <<"settledAt", "i64">>, <<"settlementEvidenceHash", "bytes32">> >>
idl_oracleConfig ==
  << <<"bump", "u8">>, <<"version", "u8">>, <<"market", "pubkey">>,
    <<"resolver", "oracleResolver">>, <<"sourceProgram", "pubkey">>,
    <<"sourceQueue", "pubkey">>, <<"sourceId", "bytes32">>,
    <<"comparator", "valueComparator">>, <<"threshold", "i128">>,
    <<"thresholdExponent", "i32">>, <<"observationTs", "i64">>,
    <<"observationWindowSecs", "u32">>, <<"maxStalenessSecs", "u32">>,
    <<"maxStalenessSlots", "u64">>, <<"maxConfidenceBps", "u16">>,
    <<"minSamples", "u8">>, <<"challengePeriodSecs", "u32">>, <<"bondAmount", "u64">>,
    <<"configHash", "bytes32">>, <<"optimisticProposal", "pubkey">>,
    <<"consumed", "bool">> >>
idl_resolutionReceipt ==
  << <<"bump", "u8">>, <<"version", "u8">>, <<"market", "pubkey">>,
    <<"resolver", "oracleResolver">>, <<"outcome", "u8">>,
    <<"observationValue", "i128">>, <<"observationExponent", "i32">>,
    <<"observationTs", "i64">>, <<"observationSlot", "u64">>, <<"confidence", "u64">>,
    <<"sampleCount", "u8">>, <<"sourceQueue", "pubkey">>, <<"sourceId", "bytes32">>,
    <<"sourceAccount", "pubkey">>, <<"evidenceHash", "bytes32">>,
    <<"finalizedAt", "i64">> >>
idl_hybridMarketMetadata ==
  << <<"bump", "u8">>, <<"version", "u8">>, <<"market", "pubkey">>,
    <<"creator", "pubkey">>, <<"question", "string">>, <<"rules", "string">>,
    <<"yesLabel", "string">>, <<"noLabel", "string">>, <<"referenceUrl", "string">>,
    <<"publishedAt", "i64">> >>
idl_position ==
  << <<"bump", "u8">>, <<"version", "u8">>, <<"market", "pubkey">>,
    <<"owner", "pubkey">>, <<"yesShares", "u64">>, <<"noShares", "u64">>,
    <<"totalSpent", "u64">>, <<"totalProceeds", "u64">>, <<"settledAmount", "u64">>,
    <<"settled", "bool">> >>
idl_optimisticProposal ==
  << <<"bump", "u8">>, <<"bondVaultBump", "u8">>, <<"version", "u8">>,
    <<"market", "pubkey">>, <<"proposer", "pubkey">>, <<"proposerToken", "pubkey">>,
    <<"proposedOutcome", "u8">>, <<"assertionHash", "bytes32">>,
    <<"assertionEvidenceUri", "string">>, <<"proposedAt", "i64">>,
    <<"challengeDeadline", "i64">>, <<"challenger", "pubkey">>,
    <<"challengerToken", "pubkey">>, <<"challengedOutcome", "u8">>,
    <<"challengeHash", "bytes32">>, <<"challengeEvidenceUri", "string">>,
    <<"challengedAt", "i64">>, <<"bondAmount", "u64">>, <<"proposerPayout", "u64">>,
    <<"challengerPayout", "u64">>, <<"treasuryPayout", "u64">>,
    <<"proposerClaimed", "bool">>, <<"challengerClaimed", "bool">>,
    <<"treasuryClaimed", "bool">>, <<"finalized", "bool">>, <<"winner", "pubkey">>,
    <<"decisionHash", "bytes32">> >>
idl_marketPhase == <<"open", "batched", "resolved", "refunding", "closed">>
idl_hybridPhase == <<"open", "locked", "resolving", "disputed", "resolved", "closed">>
idl_marketCategory ==
  <<"sports", "crypto", "politics", "technology", "culture", "other", "economics",
    "science">>
idl_resolverKind == <<"txlineStat">>
idl_marketMode == <<"live", "replay">>
idl_hybridTradingMode == <<"continuous", "privateBatch">>
idl_hybridPricingModel == <<"lmsr">>
idl_oracleResolver ==
  <<"txlineStat", "pythPrice", "switchboardQuote", "optimistic", "umaWormhole",
    "chainlinkReport", "storkPrice">>
idl_valueComparator ==
  <<"greaterThan", "greaterThanOrEqual", "lessThan", "lessThanOrEqual", "equal">>

idl_accounts ==
  [market |-> idl_market,
   order |-> idl_order,
   hybridMarket |-> idl_hybridMarket,
   oracleConfig |-> idl_oracleConfig,
   resolutionReceipt |-> idl_resolutionReceipt,
   hybridMarketMetadata |-> idl_hybridMarketMetadata,
   position |-> idl_position,
   optimisticProposal |-> idl_optimisticProposal]
idl_enums ==
  [marketPhase |-> idl_marketPhase,
   hybridPhase |-> idl_hybridPhase,
   marketCategory |-> idl_marketCategory,
   resolverKind |-> idl_resolverKind,
   marketMode |-> idl_marketMode,
   hybridTradingMode |-> idl_hybridTradingMode,
   hybridPricingModel |-> idl_hybridPricingModel,
   oracleResolver |-> idl_oracleResolver,
   valueComparator |-> idl_valueComparator]

-----------------------------------------------------------------------------
(* Borsh: the bytes of a value, and those of the discriminator before it.  *)

discriminator == 8

Width(type) ==
  CASE type \in {"u16"} -> 2
    [] type \in {"u32", "i32", "string"} -> 4
    [] type \in {"u64", "i64"} -> 8
    [] type = "i128" -> 16
    [] type \in {"pubkey", "bytes32"} -> 32
    [] type \in {"pubkeys", "hashes"} -> 3 * 32
    [] OTHER -> 1

\* A string is preceded by its length.
Size(type, value) == Width(type) + (IF type = "string" THEN value ELSE 0)

\* A value is the length of a string, the number of a variant, or whatever the
\* field of this name holds.
Values(name, type) ==
  IF type = "string" THEN TextLengths(name)
  ELSE IF type \in DOMAIN program_enums THEN 0 .. Len(program_enums[type]) - 1
  ELSE {0}

Init ==
  /\ account \in DOMAIN program_accounts
  /\ bytes = <<>> /\ written = discriminator
  /\ decoded = <<>> /\ cursor = discriminator

\* The program writes the next field.
serialize ==
  LET layout == program_accounts[account]
      next == layout[Len(bytes) + 1]
  IN  /\ Len(bytes) < Len(layout)
      /\ \E value \in Values(next[1], next[2]) :
           /\ bytes' = Append(bytes, [at |-> written, name |-> next[1], type |-> next[2], value |-> value])
           /\ written' = written + Size(next[2], value)
      /\ UNCHANGED <<account, cursor, decoded>>

\* What the bytes at a place are, taken for a value of a type: a field of that
\* type that begins there, or parts of others.
Taken(at, type) ==
  LET begins == {k \in DOMAIN bytes : bytes[k].at = at /\ bytes[k].type = type}
  IN  IF begins = {} THEN [name |-> "parts of others", value |-> 0]
      ELSE LET k == CHOOSE k \in begins : TRUE
           IN  [name |-> bytes[k].name, value |-> bytes[k].value]

\* The decoder reads the next field, once all are written.
decode ==
  LET layout == idl_accounts[account]
      next == layout[Len(decoded) + 1]
      taken == Taken(cursor, next[2])
  IN  /\ Len(bytes) = Len(program_accounts[account]) /\ Len(decoded) < Len(layout)
      /\ decoded' = Append(decoded, [name |-> next[1], type |-> next[2],
                                    from |-> taken.name, value |-> taken.value])
      /\ cursor' = cursor + Size(next[2], taken.value)
      /\ UNCHANGED <<account, bytes, written>>

Next == serialize \/ decode

Spec == Init /\ [][Next]_vars

-----------------------------------------------------------------------------
(* What the readers ask for: the type each of them casts an account to, its *)
(* fields by their TypeScript types. (BN is a number with toNumber; where    *)
(* toString is enough, IntegerLike.)                                        *)

Cast(type, decoder, spelling, fields) ==
  [type |-> type, decoder |-> decoder, spelling |-> spelling, fields |-> fields]

\* The Borsh types a decoder makes such a value of.
MadeOf(ts) ==
  CASE ts = "number"      -> {"u8", "u16", "u32", "i32"}
    [] ts = "BN"          -> {"u64", "i64", "i128"}
    [] ts = "IntegerLike" -> {"u8", "u16", "u32", "i32", "u64", "i64", "i128"}
    [] ts = "PublicKey"   -> {"pubkey"}
    [] ts = "EnumLike"    -> DOMAIN idl_enums
    [] ts = "numbers"     -> {"bytes32"}
    [] ts = "rows"        -> {"hashes"}
    [] ts = "boolean"     -> {"bool"}
    [] ts = "string"      -> {"string"}

Spelling(decoder) == IF decoder = "raw" THEN "snake" ELSE "camel"

committee_OrderAccount ==
  Cast("order", "raw", "snake",
    [PublicKey |-> {"market"},
     number |-> {"orderIndex"},
     numbers |-> {"commitment"},
     rows |-> {"shareCommitments"}])
committee_MarketAccount ==
  Cast("market", "raw", "snake",
    [BN |-> {"lockTs", "batchDeadlineTs"},
     number |-> {"orderCount"},
     EnumLike |-> {"phase"}])
server_MarketAccount ==
  Cast("market", "raw", "snake",
    [IntegerLike |-> {"marketId", "fixtureId", "fixtureStartTs", "stakeAmount",
                      "lockTs", "grossPool", "netPool", "yesAmount", "noAmount"},
     PublicKey |-> {"authority"},
     EnumLike |-> {"marketMode", "phase"},
     number |-> {"totalGoalsThreshold", "orderCount", "outcome", "scoreA", "scoreB"}])
server_HybridMarketAccount ==
  Cast("hybridMarket", "raw", "snake",
    [IntegerLike |-> {"marketId", "liquidityParameter", "maxTradeShares",
                      "yesQuantity", "noQuantity", "openTs", "lockTs",
                      "resolveNotBeforeTs", "resolutionDeadlineTs", "tradeCount",
                      "volume"},
     PublicKey |-> {"creator", "liquidityOwner", "collateralMint", "treasuryOwner",
                    "oracleConfig"},
     EnumLike |-> {"category", "phase"},
     numbers |-> {"questionHash", "rulesHash", "outcomeLabelsHash",
                  "settlementEvidenceHash"},
     number |-> {"tradeFeeBps", "treasuryFeeShareBps", "outcome"}])
server_OracleConfigAccount ==
  Cast("oracleConfig", "raw", "snake",
    [PublicKey |-> {"market", "sourceProgram", "sourceQueue"},
     EnumLike |-> {"resolver", "comparator"},
     numbers |-> {"sourceId"},
     IntegerLike |-> {"threshold", "observationTs", "maxStalenessSlots", "bondAmount"},
     number |-> {"thresholdExponent", "observationWindowSecs", "maxStalenessSecs",
                 "maxConfidenceBps", "minSamples", "challengePeriodSecs"},
     boolean |-> {"consumed"}])
server_HybridMetadataAccount ==
  Cast("hybridMarketMetadata", "raw", "snake",
    [PublicKey |-> {"market", "creator"},
     string |-> {"question", "rules", "yesLabel", "noLabel", "referenceUrl"}])
server_ResolutionReceiptAccount ==
  Cast("resolutionReceipt", "raw", "snake",
    [PublicKey |-> {"market", "sourceAccount"},
     number |-> {"outcome", "observationExponent", "sampleCount"},
     IntegerLike |-> {"observationValue", "observationTs", "observationSlot",
                      "confidence", "finalizedAt"},
     numbers |-> {"evidenceHash"}])
server_PositionAccount ==
  Cast("position", "raw", "snake",
    [PublicKey |-> {"market", "owner"}])
snapshot_HybridMarketAccount ==
  Cast("hybridMarket", "program", "camel",
    [number |-> {"version", "tradeFeeBps", "treasuryFeeShareBps", "outcome"},
     IntegerLike |-> {"marketId", "liquidityParameter", "initialSubsidy",
                      "roundingReserve", "maxTradeShares", "resolverSecurityCap",
                      "yesQuantity", "noQuantity", "openTs", "lockTs",
                      "resolveNotBeforeTs", "resolutionDeadlineTs", "tradeCount",
                      "volume", "treasuryFees", "liquidityFees",
                      "outstandingLiability", "redeemedLiability", "settledAt"},
     PublicKey |-> {"creator", "liquidityOwner", "collateralMint", "tokenProgram",
                    "treasuryOwner", "oracleConfig"},
     EnumLike |-> {"category", "tradingMode", "pricingModel", "phase"},
     numbers |-> {"questionHash", "rulesHash", "outcomeLabelsHash",
                  "settlementEvidenceHash"}])
snapshot_OracleAccount ==
  Cast("oracleConfig", "program", "camel",
    [number |-> {"version", "thresholdExponent", "observationWindowSecs",
                 "maxStalenessSecs", "maxConfidenceBps", "minSamples",
                 "challengePeriodSecs"},
     PublicKey |-> {"market", "sourceProgram", "sourceQueue", "optimisticProposal"},
     EnumLike |-> {"resolver", "comparator"},
     numbers |-> {"sourceId", "configHash"},
     IntegerLike |-> {"threshold", "observationTs", "maxStalenessSlots", "bondAmount"},
     boolean |-> {"consumed"}])
snapshot_ResolutionReceiptAccount ==
  Cast("resolutionReceipt", "program", "camel",
    [number |-> {"version", "outcome", "observationExponent", "sampleCount"},
     PublicKey |-> {"market", "sourceQueue", "sourceAccount"},
     EnumLike |-> {"resolver"},
     IntegerLike |-> {"observationValue", "observationTs", "observationSlot",
                      "confidence", "finalizedAt"},
     numbers |-> {"sourceId", "evidenceHash"}])
snapshot_HybridMetadataAccount ==
  Cast("hybridMarketMetadata", "program", "camel",
    [number |-> {"version"},
     PublicKey |-> {"market", "creator"},
     string |-> {"question", "rules", "yesLabel", "noLabel", "referenceUrl"},
     IntegerLike |-> {"publishedAt"}])
portfolio_HybridMarketAccount ==
  Cast("hybridMarket", "program", "camel",
    [BN |-> {"marketId", "yesQuantity", "noQuantity", "liquidityParameter",
             "outstandingLiability", "lockTs"},
     PublicKey |-> {"creator", "liquidityOwner", "collateralMint"},
     numbers |-> {"questionHash"},
     EnumLike |-> {"phase"},
     number |-> {"outcome"}])
portfolio_PositionAccount ==
  Cast("position", "program", "camel",
    [PublicKey |-> {"market", "owner"},
     BN |-> {"yesShares", "noShares", "totalSpent", "totalProceeds", "settledAmount"},
     boolean |-> {"settled"}])
portfolio_MetadataAccount ==
  Cast("hybridMarketMetadata", "program", "camel",
    [PublicKey |-> {"market"},
     string |-> {"question", "yesLabel", "noLabel"}])
panel_HybridAccount ==
  Cast("hybridMarket", "program", "camel",
    [PublicKey |-> {"collateralMint", "treasuryOwner", "liquidityOwner"},
     IntegerLike |-> {"liquidityParameter", "yesQuantity", "noQuantity",
                      "maxTradeShares"},
     number |-> {"tradeFeeBps"},
     BN |-> {"lockTs"},
     EnumLike |-> {"phase"}])
panel_PositionAccount ==
  Cast("position", "program", "camel",
    [IntegerLike |-> {"yesShares", "noShares"}])
resolution_HybridMarketAccount ==
  Cast("hybridMarket", "program", "camel",
    [PublicKey |-> {"collateralMint", "treasuryOwner", "oracleConfig"},
     EnumLike |-> {"phase"},
     BN |-> {"resolveNotBeforeTs", "resolutionDeadlineTs"}])
resolution_OracleAccount ==
  Cast("oracleConfig", "program", "camel",
    [BN |-> {"bondAmount"},
     PublicKey |-> {"optimisticProposal"}])
resolution_ProposalAccount ==
  Cast("optimisticProposal", "program", "camel",
    [PublicKey |-> {"proposer", "challenger", "winner"},
     number |-> {"proposedOutcome", "challengedOutcome"},
     numbers |-> {"assertionHash", "challengeHash"},
     string |-> {"assertionEvidenceUri", "challengeEvidenceUri"},
     BN |-> {"proposedAt", "challengeDeadline", "bondAmount", "proposerPayout",
             "challengerPayout", "treasuryPayout"},
     boolean |-> {"proposerClaimed", "challengerClaimed", "treasuryClaimed",
                  "finalized"}])
settlement_PythOracleAccount ==
  Cast("oracleConfig", "program", "camel",
    [numbers |-> {"sourceId"},
     PublicKey |-> {"sourceProgram"},
     BN |-> {"observationTs"},
     number |-> {"maxStalenessSecs"}])

casts ==
  {committee_OrderAccount, committee_MarketAccount, server_MarketAccount,
   server_HybridMarketAccount, server_OracleConfigAccount,
   server_HybridMetadataAccount, server_ResolutionReceiptAccount,
   server_PositionAccount, snapshot_HybridMarketAccount,
   snapshot_OracleAccount, snapshot_ResolutionReceiptAccount,
   snapshot_HybridMetadataAccount, portfolio_HybridMarketAccount,
   portfolio_PositionAccount, portfolio_MetadataAccount, panel_HybridAccount,
   panel_PositionAccount, resolution_HybridMarketAccount,
   resolution_OracleAccount, resolution_ProposalAccount,
   settlement_PythOracleAccount}

-----------------------------------------------------------------------------
(* Variants: a reader tests the name of the variant, as its decoder spells *)
(* it or folded (no underscores, lower case). A total reader has to know   *)
(* every variant: for one it does not know it throws, drops the market, or *)
(* shows it as locked.                                                     *)

Naming(type, decoder, spelling, names) ==
  [type |-> type, decoder |-> decoder, spelling |-> spelling, names |-> names]

\* The server's readers: the same variants through the raw decoder, folded.
FoldedRaw(n) == Naming(n.type, "raw", "folded", n.names)

phaseName ==
  Naming("marketPhase", "program", "camel",
    {"open", "batched", "resolved", "refunding", "closed"})
hybridPhaseName ==
  Naming("hybridPhase", "program", "camel",
    {"open", "locked", "resolving", "disputed", "resolved", "closed"})
oracleResolverName ==
  Naming("oracleResolver", "program", "camel",
    {"txlineStat", "pythPrice", "switchboardQuote", "optimistic", "umaWormhole",
     "chainlinkReport", "storkPrice"})
snapshot_comparatorName ==
  Naming("valueComparator", "program", "camel",
    {"greaterThan", "greaterThanOrEqual", "lessThan", "lessThanOrEqual", "equal"})
snapshot_category ==
  Naming("marketCategory", "program", "camel",
    {"sports", "crypto", "politics", "technology", "culture", "other", "economics",
     "science"})
snapshot_tradingMode ==
  Naming("hybridTradingMode", "program", "camel", {"continuous", "privateBatch"})
snapshot_pricingModel == Naming("hybridPricingModel", "program", "camel", {"lmsr"})
server_privatePoolPhase == FoldedRaw(phaseName)
server_hybridPhase == FoldedRaw(hybridPhaseName)
server_categoryName == FoldedRaw(snapshot_category)
server_resolverName == FoldedRaw(oracleResolverName)
server_comparatorName == FoldedRaw(snapshot_comparatorName)
portfolio_phaseName == [hybridPhaseName EXCEPT !.spelling = "folded"]

total_namings ==
  {phaseName, hybridPhaseName, oracleResolverName, snapshot_comparatorName,
   snapshot_category, snapshot_tradingMode, snapshot_pricingModel,
   server_privatePoolPhase, server_hybridPhase, server_categoryName,
   server_resolverName, server_comparatorName, portfolio_phaseName}

\* Two readers ask for one variant only.
panel_isOpen == Naming("hybridPhase", "program", "folded", {"open"})
committee_isOpen == Naming("marketPhase", "raw", "Pascal", {"open"})

single_tests == {panel_isOpen, committee_isOpen}

-----------------------------------------------------------------------------
\* What a reader finds under a name is what the program wrote under it, however
\* long the strings before it are.
OwnValues == \A i \in DOMAIN decoded : decoded[i].from = decoded[i].name

\* A variant that was written has, for every reader that tests it, the name the
\* program gives it, in the spelling its decoder produces; and a reader that must
\* know all of them knows it.
VariantNames(n) == {"folded", IF n.decoder = "raw" THEN "Pascal" ELSE "camel"}
VariantsKnown ==
  \A i \in DOMAIN decoded :
    decoded[i].type \in DOMAIN idl_enums =>
      LET type == decoded[i].type
          variant == idl_enums[type][decoded[i].value + 1]
      IN  /\ variant = program_enums[type][decoded[i].value + 1]
          /\ \A n \in total_namings \cup single_tests :
               n.type = type =>
                 n.spelling \in VariantNames(n) /\ n.names \subseteq Fields(idl_enums[type])
          /\ \A n \in total_namings : n.type = type => variant \in n.names

\* When the account is decoded, every field a reader's type names is there, in
\* the spelling its decoder produces and of a type it makes of such a field.
CastsHold ==
  Len(decoded) = Len(idl_accounts[account]) =>
    \A c \in casts : c.type = account =>
      /\ c.spelling = Spelling(c.decoder)
      /\ \A ts \in DOMAIN c.fields : \A name \in c.fields[ts] :
           \E i \in DOMAIN decoded : decoded[i].name = name /\ decoded[i].type \in MadeOf(ts)

\* A write beyond its account's space would fail the instruction that makes it,
\* a challenge after a proposal with a long address for instance: none does.
Fits == written <= Space[account]

ReadBack == OwnValues /\ VariantsKnown /\ CastsHold
-----------------------------------------------------------------------------
(* The inductive invariant.                                                *)

Names == UNION {{field[1] : field \in Fields(layout)} : layout \in Fields(program_accounts)}
Types == UNION {{field[2] : field \in Fields(layout)} : layout \in Fields(program_accounts)}
WrittenField == [at : Nat, name : Names, type : Types, value : Nat]
DecodedField == [name : Names, type : Types, from : Names, value : Nat]

\* Where the i-th field begins: behind the one before it.
Begin(i) ==
  IF i = 1 THEN discriminator ELSE bytes[i - 1].at + Size(bytes[i - 1].type, bytes[i - 1].value)

\* The fields written are the struct's so far, one after the other.
BytesOK ==
  /\ bytes \in Seq(WrittenField)
  /\ Len(bytes) <= Len(program_accounts[account])
  /\ written = Begin(Len(bytes) + 1)
  /\ \A i \in DOMAIN bytes :
       /\ bytes[i].name = program_accounts[account][i][1] /\ bytes[i].type = program_accounts[account][i][2]
       /\ bytes[i].type \in DOMAIN program_enums => bytes[i].value < Len(program_enums[bytes[i].type])
       /\ bytes[i].at = Begin(i) /\ bytes[i].at < written
       /\ \A j \in DOMAIN bytes : i < j => bytes[i].at < bytes[j].at

\* The decoder stands where the program began the field it reads next.
DecodedOK ==
  /\ decoded \in Seq(DecodedField)
  /\ Len(decoded) <= Len(bytes)
  /\ decoded # <<>> => Len(bytes) = Len(program_accounts[account])
  /\ cursor = Begin(Len(decoded) + 1)
  /\ \A i \in DOMAIN decoded :
       decoded[i] = [name |-> bytes[i].name, type |-> bytes[i].type,
                     from |-> bytes[i].name, value |-> bytes[i].value]

AccountIInv ==
  /\ account \in DOMAIN program_accounts
  /\ written \in Nat /\ cursor \in Nat /\ BytesOK /\ DecodedOK
=============================================================================
