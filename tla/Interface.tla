------------------------------ MODULE Interface ------------------------------
(***************************************************************************)
(* The boundary between the TypeScript clients and the program: the       *)
(* accounts each instruction of the generated interface description (IDL)  *)
(* takes, and the accounts each call site hands to accountsPartial, which  *)
(* the compiler does not check for completeness. The state is the set of   *)
(* accounts that exist on chain; a step is one transaction of one call     *)
(* site, offered when the accounts it reads first are as it expects them.  *)
(*                                                                         *)
(* An address is a term: a key, or an address derived from a label and the *)
(* addresses it is seeded with. Terms are equal when they are derived the  *)
(* same way from the same addresses, and no derived address is a key.      *)
(***************************************************************************)
EXTENDS Integers, Sequences

CONSTANTS Wallets,   \* keys of ordinary users and service operators
          Creator    \* the wallet that creates the two markets of the model

VARIABLE chain       \* addresses of the accounts that exist

Key(name) == [label |-> "key", name |-> name]
findProgramAddress(label, seeds) == [label |-> label, seeds |-> seeds]

\* Wallets sign, so they are keys: a derived address has no private key.
ASSUME WalletsAssumption == Creator \in Wallets /\ \A w \in Wallets : w.label = "key"

PROTOCOL_AUTHORITY == Key("protocol authority")
USDC == Key("usdc mint")
TOKEN == Key("token program")
SYSTEM == Key("system program")
TXLINE_PROGRAM == Key("txline program")
Treasury == Key("treasury")
FreshWallet == Key("fresh payout wallet")
Id == Key("market id")
PlacementVerifier == Key("placement verifier")
RedeemVerifier == Key("redeem verifier")

\* getAssociatedTokenAddressSync: one token account per mint and owner.
Ata(owner) == findProgramAddress("ata", <<USDC, owner>>)
\* The random bytes a wallet commits to its order with.
Commitment(w) == findProgramAddress("commitment", <<w>>)

-----------------------------------------------------------------------------
(* How the IDL says an account is found.                                   *)

Given == [kind |-> "given"]
Signer == [kind |-> "signer"]
At(address) == [kind |-> "fixed", at |-> address]
Pda(label, seeds) == [kind |-> "pda", label |-> label, seeds |-> seeds]
\* A program address seeded with fields stored in the account itself: it can
\* be verified, and never derived before the account is known.
Stored(label) == [kind |-> "stored", label |-> label]

Protocol == Pda("protocol", <<>>)
Engine == Pda("engine", <<>>)
PoolMarket == Stored("market")
PoolVault == Pda("vault", <<"market">>)
Market == Stored("hybrid-market")
Vault == Pda("hybrid-vault", <<"market">>)
OracleConfig == Pda("oracle-config", <<"market">>)
Proposal == Pda("optimistic-proposal", <<"market">>)
BondVault == Pda("optimistic-bond-vault", <<"market">>)
Receipt == Pda("resolution-receipt", <<"market">>)
Position == Pda("position", <<"market", "owner">>)

-----------------------------------------------------------------------------
(* The instructions of the IDL, with the accounts the program creates in   *)
(* each (its init constraints).                                            *)

beginRefund ==
  [creates |-> {}, accounts |-> [market |-> PoolMarket]]
initializeMarket ==
  [creates |-> {"market", "vault"}, accounts |-> [creator |-> Signer,
     protocol |-> Protocol, collateralMint |-> Given,
     market |-> Pda("market", <<"creator", "marketId">>), vault |-> PoolVault,
     tokenProgram |-> At(TOKEN), systemProgram |-> At(SYSTEM)]]
initializeProtocol ==
  [creates |-> {"protocol"}, accounts |-> [authority |-> At(PROTOCOL_AUTHORITY),
     protocol |-> Protocol, collateralMint |-> At(USDC), tokenProgram |-> At(TOKEN),
     systemProgram |-> At(SYSTEM)]]
placeOrder ==
  [creates |-> {"order"}, accounts |-> [payer |-> Signer, market |-> PoolMarket,
     collateralMint |-> Given, payerToken |-> Given,
     order |-> Pda("order", <<"market", "commitment">>), vault |-> PoolVault,
     placementVerifier |-> Given, tokenProgram |-> At(TOKEN),
     systemProgram |-> At(SYSTEM)]]
redeem ==
  [creates |-> {"claim"}, accounts |-> [relayer |-> Signer, market |-> PoolMarket,
     collateralMint |-> Given, claim |-> Pda("claim", <<"market", "nullifierHash">>),
     vault |-> PoolVault, recipientOwner |-> Given, recipientToken |-> Given,
     redeemVerifier |-> Given, tokenProgram |-> At(TOKEN), systemProgram |-> At(SYSTEM)]]
refundOrder ==
  [creates |-> {}, accounts |-> [payer |-> Signer, market |-> PoolMarket,
     collateralMint |-> Given, order |-> Given, vault |-> PoolVault,
     payerToken |-> Given, tokenProgram |-> At(TOKEN)]]
resolveMarket ==
  [creates |-> {}, accounts |-> [keeper |-> Signer, market |-> PoolMarket,
     collateralMint |-> Given, vault |-> PoolVault, treasuryToken |-> Given,
     keeperToken |-> Given, dailyScoresMerkleRoots |-> Given, txlineProgram |-> Given,
     tokenProgram |-> At(TOKEN)]]
rotateVerifiers ==
  [creates |-> {}, accounts |-> [authority |-> Signer, protocol |-> Protocol,
     placementVerifier |-> Given, redeemVerifier |-> Given]]
submitBatch ==
  [creates |-> {}, accounts |-> [market |-> PoolMarket]]
syncMarketVerifiers ==
  [creates |-> {}, accounts |-> [authority |-> Signer, protocol |-> Protocol,
     market |-> PoolMarket, vault |-> PoolVault]]

initializeEngine ==
  [creates |-> {"engine"}, accounts |-> [authority |-> Signer, protocol |-> Protocol,
     engine |-> Engine, systemProgram |-> At(SYSTEM)]]
initializeHybridMarket ==
  [creates |-> {"market", "oracleConfig", "vault"}, accounts |-> [creator |-> Signer,
     engine |-> Engine, collateralMint |-> Given, creatorToken |-> Given,
     market |-> Pda("hybrid-market", <<"creator", "marketId">>),
     oracleConfig |-> OracleConfig, vault |-> Vault, tokenProgram |-> At(TOKEN),
     systemProgram |-> At(SYSTEM)]]
publishHybridMetadata ==
  [creates |-> {"metadata"}, accounts |-> [creator |-> Signer, market |-> Market,
     metadata |-> Pda("hybrid-metadata", <<"market">>), systemProgram |-> At(SYSTEM)]]
initializePosition ==
  [creates |-> {"position"}, accounts |-> [owner |-> Signer, market |-> Market,
     position |-> Position, systemProgram |-> At(SYSTEM)]]
buyHybridShares ==
  [creates |-> {}, accounts |-> [owner |-> Signer, market |-> Market,
     position |-> Position, collateralMint |-> Given, ownerToken |-> Given,
     vault |-> Vault, treasuryToken |-> Given, liquidityToken |-> Given,
     tokenProgram |-> At(TOKEN)]]
sellHybridShares ==
  [creates |-> {}, accounts |-> [owner |-> Signer, market |-> Market,
     position |-> Position, collateralMint |-> Given, ownerToken |-> Given,
     vault |-> Vault, treasuryToken |-> Given, liquidityToken |-> Given,
     tokenProgram |-> At(TOKEN)]]
lockHybridMarket ==
  [creates |-> {}, accounts |-> [market |-> Market]]
settleHybridPosition ==
  [creates |-> {}, accounts |-> [owner |-> Signer, market |-> Market,
     position |-> Position, collateralMint |-> Given, vault |-> Vault,
     ownerToken |-> Given, tokenProgram |-> At(TOKEN)]]
withdrawHybridLiquidity ==
  [creates |-> {}, accounts |-> [liquidityOwner |-> Signer, market |-> Market,
     collateralMint |-> Given, vault |-> Vault, liquidityToken |-> Given,
     tokenProgram |-> At(TOKEN)]]

resolveHybridTimeout ==
  [creates |-> {"receipt"}, accounts |-> [keeper |-> Signer, market |-> Market,
     oracleConfig |-> OracleConfig, receipt |-> Receipt, vault |-> Vault,
     systemProgram |-> At(SYSTEM)]]
resolveHybridWithPyth ==
  [creates |-> {"receipt"}, accounts |-> [keeper |-> Signer, market |-> Market,
     oracleConfig |-> OracleConfig, receipt |-> Receipt, priceUpdate |-> Given,
     vault |-> Vault, systemProgram |-> At(SYSTEM)]]
resolveHybridWithStork ==
  [creates |-> {"receipt"}, accounts |-> [keeper |-> Signer, market |-> Market,
     oracleConfig |-> OracleConfig, receipt |-> Receipt, vault |-> Vault,
     feedAccount |-> Given, systemProgram |-> At(SYSTEM)]]
resolveHybridWithSwitchboard ==
  [creates |-> {"receipt"}, accounts |-> [keeper |-> Signer, market |-> Market,
     oracleConfig |-> OracleConfig, receipt |-> Receipt, vault |-> Vault,
     quoteAccount |-> Given, systemProgram |-> At(SYSTEM)]]
resolveHybridWithTxline ==
  [creates |-> {"receipt"}, accounts |-> [keeper |-> Signer, market |-> Market,
     oracleConfig |-> OracleConfig, receipt |-> Receipt, vault |-> Vault,
     dailyScoresMerkleRoots |-> Given, txlineProgram |-> Given,
     systemProgram |-> At(SYSTEM)]]

proposeOptimisticResolution ==
  [creates |-> {"proposal", "bondVault"}, accounts |-> [proposer |-> Signer,
     market |-> Market, oracleConfig |-> OracleConfig, proposal |-> Proposal,
     bondVault |-> BondVault, collateralMint |-> Given, proposerToken |-> Given,
     tokenProgram |-> At(TOKEN), systemProgram |-> At(SYSTEM)]]
challengeOptimisticResolution ==
  [creates |-> {}, accounts |-> [challenger |-> Signer, market |-> Market,
     oracleConfig |-> OracleConfig, proposal |-> Proposal, bondVault |-> BondVault,
     collateralMint |-> Given, challengerToken |-> Given, tokenProgram |-> At(TOKEN)]]
finalizeOptimisticResolution ==
  [creates |-> {"receipt"}, accounts |-> [keeper |-> Signer, market |-> Market,
     oracleConfig |-> OracleConfig, proposal |-> Proposal, receipt |-> Receipt,
     vault |-> Vault, systemProgram |-> At(SYSTEM)]]
timeoutOptimisticDispute ==
  [creates |-> {"receipt"}, accounts |-> [keeper |-> Signer, market |-> Market,
     oracleConfig |-> OracleConfig, proposal |-> Proposal, receipt |-> Receipt,
     vault |-> Vault, systemProgram |-> At(SYSTEM)]]
claimOptimisticBond ==
  [creates |-> {}, accounts |-> [claimant |-> Signer, market |-> Market,
     proposal |-> Proposal, bondVault |-> BondVault, collateralMint |-> Given,
     destination |-> Given, tokenProgram |-> At(TOKEN)]]

-----------------------------------------------------------------------------
(* The addresses the clients derive for themselves.                        *)

enginePda == findProgramAddress("engine", <<>>)
hybridMarketPda(creator, marketId) == findProgramAddress("hybrid-market", <<creator, marketId>>)
hybridVaultPda_pool(market) == findProgramAddress("vault", <<market>>)
hybridVaultPda(market) == findProgramAddress("hybrid-vault", <<market>>)
oracleConfigPda(market) == findProgramAddress("oracle-config", <<market>>)
positionPda(market, owner) == findProgramAddress("position", <<market, owner>>)
resolutionReceiptPda(market) == findProgramAddress("resolution-receipt", <<market>>)
optimisticProposalPda(market) == findProgramAddress("optimistic-proposal", <<market>>)
optimisticBondVaultPda(market) == findProgramAddress("optimistic-bond-vault", <<market>>)
hybridMetadataPda(market) == findProgramAddress("hybrid-metadata", <<market>>)
protocolPda == findProgramAddress("protocol", <<>>)
marketPda(creator, marketId) == findProgramAddress("market", <<creator, marketId>>)
vaultPda(market) == findProgramAddress("vault", <<market>>)
dailyScoresRoot == findProgramAddress("daily_scores_roots", <<Key("epoch day"), TXLINE_PROGRAM>>)
pythPushFeedAccount == findProgramAddress("pyth feed", <<Key("source id")>>)
storkFeedAccount == findProgramAddress("stork_feed", <<Key("source id")>>)
switchboardQuoteAccount == findProgramAddress("quote", <<Key("queue"), Key("source id")>>)

\* The two markets, as the clients read their addresses from the program.
PM == findProgramAddress("market", <<Creator, Id>>)
HM == findProgramAddress("hybrid-market", <<Creator, Id>>)
Order(w) == findProgramAddress("order", <<PM, Commitment(w)>>)
ClaimAccount == findProgramAddress("claim", <<PM, Key("nullifier")>>)
HybridReceipt == findProgramAddress("resolution-receipt", <<HM>>)
HybridProposal == findProgramAddress("optimistic-proposal", <<HM>>)

-----------------------------------------------------------------------------
(* The accounts the wallet's portfolio finds: account scans that compare   *)
(* the bytes at an offset with an address.                                 *)

\* Widths of the leading fields of the account layouts, after the 8 bytes of
\* the discriminator.
position_layout ==
  <<[field |-> "bump", width |-> 1], [field |-> "version", width |-> 1],
    [field |-> "market", width |-> 32], [field |-> "owner", width |-> 32]>>
hybridMarket_layout ==
  <<[field |-> "bump", width |-> 1], [field |-> "vaultBump", width |-> 1],
    [field |-> "version", width |-> 1], [field |-> "marketId", width |-> 8],
    [field |-> "creator", width |-> 32], [field |-> "liquidityOwner", width |-> 32]>>

POSITION_OWNER_OFFSET == 42
HYBRID_LIQUIDITY_OWNER_OFFSET == 51
POSITION_MARKET_OFFSET == 10

\* The offset of the i-th field.
FieldOffset(layout, i) ==
  LET before[n \in 0..Len(layout)] == IF n = 0 THEN 8 ELSE before[n - 1] + layout[n].width
  IN  before[i - 1]
\* A filter matches an account when the field at its offset holds the value.
memcmp(layout, data, offset, value) ==
  \E i \in 1..Len(layout) :
    FieldOffset(layout, i) = offset /\ layout[i].field \in DOMAIN data /\ data[layout[i].field] = value

Positions == {[market |-> HM, owner |-> w] : w \in {v \in Wallets : positionPda(HM, v) \in chain}}
portfolio_positions(w) ==
  {p \in Positions : memcmp(position_layout, p, POSITION_OWNER_OFFSET, w) /\ p.owner = w}
portfolio_liquidity(w) ==
  {m \in {[creator |-> Creator, liquidityOwner |-> Creator]} :
     HM \in chain /\ memcmp(hybridMarket_layout, m, HYBRID_LIQUIDITY_OWNER_OFFSET, w)}
hybridTraderCount == {p \in Positions : memcmp(position_layout, p, POSITION_MARKET_OFFSET, HM)}

-----------------------------------------------------------------------------
(* The call sites: the signing wallet, the instruction, the accounts and   *)
(* arguments supplied, the token accounts the transaction creates first,   *)
(* and what the client has read to exist, or to be absent, before it.      *)

Call(wallet, instruction, supplied) ==
  [wallet |-> wallet, instruction |-> instruction, supplied |-> supplied,
   setup |-> {}, seen |-> {}, absent |-> {}]
After(c, seen) == [c EXCEPT !.seen = seen]
Unless(c, absent) == [c EXCEPT !.absent = absent]
Creating(c, tokens) == [c EXCEPT !.setup = tokens]

runner_beginRefund(w) == After(Call(w, beginRefund, [market |-> PM]), {PM})
runner_resolveMarket_bare(w) ==
  After(Creating(Call(w, resolveMarket,
       [keeper |-> w, market |-> PM, collateralMint |-> USDC,
        vault |-> findProgramAddress("vault", <<PM>>), treasuryToken |-> Ata(Treasury),
        keeperToken |-> Ata(w), dailyScoresMerkleRoots |-> dailyScoresRoot,
        txlineProgram |-> TXLINE_PROGRAM, tokenProgram |-> TOKEN]),
     {Ata(w)}), {PM})
runner_resolveMarket(w) ==
  After(Creating(Call(w, resolveMarket,
       [keeper |-> w, market |-> PM, collateralMint |-> USDC,
        vault |-> findProgramAddress("vault", <<PM>>), treasuryToken |-> Ata(Treasury),
        keeperToken |-> Ata(w), dailyScoresMerkleRoots |-> dailyScoresRoot,
        txlineProgram |-> TXLINE_PROGRAM, tokenProgram |-> TOKEN]),
     {Ata(w), Ata(Treasury)}), {PM})
coordinator_submitBatch(w) == After(Call(w, submitBatch, [market |-> PM]), {PM})
relay_redeem(w) ==
  Unless(After(Creating(Call(w, redeem,
       [relayer |-> w, market |-> PM, collateralMint |-> USDC, nullifierHash |-> Key("nullifier"),
        claim |-> ClaimAccount, vault |-> findProgramAddress("vault", <<PM>>),
        recipientOwner |-> FreshWallet, recipientToken |-> Ata(FreshWallet),
        redeemVerifier |-> RedeemVerifier, tokenProgram |-> TOKEN, systemProgram |-> SYSTEM]),
     {Ata(FreshWallet)}), {PM}), {ClaimAccount})
\* The commitment is freshly drawn; one order per wallet is modelled.
orderPanel_placeOrder(w) ==
  Unless(After(Call(w, placeOrder,
       [payer |-> w, market |-> PM, collateralMint |-> USDC, payerToken |-> Ata(w),
        commitment |-> Commitment(w), order |-> Order(w), vault |-> vaultPda(PM),
        placementVerifier |-> PlacementVerifier, tokenProgram |-> TOKEN,
        systemProgram |-> SYSTEM]),
     {PM, Ata(w)}), {Order(w)})
\* Offered for every record of the vault whose market is refunding: the client
\* reads neither the order, which a record may never have led to, nor the token
\* account the refund is paid to, and creates neither.
portfolio_refundOrder(w) ==
  After(Call(w, refundOrder,
       [payer |-> w, market |-> PM, collateralMint |-> USDC, order |-> Order(w),
        vault |-> vaultPda(PM), payerToken |-> Ata(w), tokenProgram |-> TOKEN]), {PM})
\* The form draws its market id at random when it is opened; one market is
\* modelled. A private replay market is sent without looking for it first.
createForm_initializeMarket(w) ==
  After(Call(w, initializeMarket,
       [creator |-> w, marketId |-> Id, protocol |-> protocolPda, collateralMint |-> USDC,
        market |-> marketPda(w, Id), vault |-> vaultPda(marketPda(w, Id)),
        tokenProgram |-> TOKEN, systemProgram |-> SYSTEM]), {protocolPda})
deploy_initializeMarket(w) ==
  Unless(After(Call(w, initializeMarket,
       [creator |-> w, marketId |-> Id, protocol |-> findProgramAddress("protocol", <<>>),
        collateralMint |-> USDC, market |-> PM, vault |-> findProgramAddress("vault", <<PM>>),
        tokenProgram |-> TOKEN, systemProgram |-> SYSTEM]),
     {protocolPda}), {PM})
deploy_initializeProtocol(w) ==
  Unless(Call(w, initializeProtocol,
       [authority |-> w, protocol |-> findProgramAddress("protocol", <<>>),
        collateralMint |-> USDC, tokenProgram |-> TOKEN, systemProgram |-> SYSTEM]),
     {protocolPda})
deploy_initializeEngine(w) ==
  Unless(After(Call(w, initializeEngine,
       [authority |-> w, protocol |-> findProgramAddress("protocol", <<>>),
        engine |-> findProgramAddress("engine", <<>>), systemProgram |-> SYSTEM]),
     {protocolPda}), {enginePda})
deploy_rotateVerifiers(w) ==
  After(Call(w, rotateVerifiers,
       [authority |-> w, protocol |-> findProgramAddress("protocol", <<>>),
        placementVerifier |-> PlacementVerifier, redeemVerifier |-> RedeemVerifier]),
     {protocolPda})
deploy_syncMarketVerifiers(w) ==
  After(Call(w, syncMarketVerifiers,
       [authority |-> w, protocol |-> findProgramAddress("protocol", <<>>), market |-> PM,
        vault |-> findProgramAddress("vault", <<PM>>)]),
     {protocolPda, PM})

HybridMarketAccounts(w) ==
  LET market == hybridMarketPda(w, Id)
  IN  [creator |-> w, marketId |-> Id, engine |-> enginePda, collateralMint |-> USDC,
       creatorToken |-> Ata(w), market |-> market, oracleConfig |-> oracleConfigPda(market),
       vault |-> hybridVaultPda(market), tokenProgram |-> TOKEN, systemProgram |-> SYSTEM]
createForm_initializeHybridMarket(w) ==
  Unless(After(Call(w, initializeHybridMarket, HybridMarketAccounts(w)),
               {enginePda, Ata(w)}), {hybridMarketPda(w, Id)})
deploy_initializeHybridMarket(w) ==
  Unless(After(Creating(Call(w, initializeHybridMarket, HybridMarketAccounts(w)), {Ata(w)}),
               {enginePda, Ata(w)}), {hybridMarketPda(w, Id)})
createForm_publishHybridMetadata(w) ==
  Unless(After(Call(w, publishHybridMetadata,
       [creator |-> w, market |-> hybridMarketPda(w, Id),
        metadata |-> hybridMetadataPda(hybridMarketPda(w, Id)), systemProgram |-> SYSTEM]),
     {hybridMarketPda(w, Id)}), {hybridMetadataPda(hybridMarketPda(w, Id))})
deploy_publishHybridMetadata(w) ==
  Unless(After(Call(w, publishHybridMetadata,
       [creator |-> w, market |-> hybridMarketPda(w, Id),
        metadata |-> hybridMetadataPda(hybridMarketPda(w, Id)), systemProgram |-> SYSTEM]),
     {hybridMarketPda(w, Id)}), {hybridMetadataPda(hybridMarketPda(w, Id))})

\* A trade creates the position in the same transaction when it read none.
TradeAccounts(w) ==
  [owner |-> w, market |-> HM, position |-> positionPda(HM, w), collateralMint |-> USDC,
   ownerToken |-> Ata(w), vault |-> hybridVaultPda(HM), treasuryToken |-> Ata(Treasury),
   liquidityToken |-> Ata(Creator), tokenProgram |-> TOKEN]
TradeCall(w, instruction) ==
  After(Creating(Call(w, instruction, TradeAccounts(w)),
                 {Ata(w), Ata(Treasury), Ata(Creator)} \cup
                   IF positionPda(HM, w) \in chain THEN {} ELSE {positionPda(HM, w)}),
        {HM})
\* The instruction the trade puts first when it read no position; checked as a
\* call of its own.
PositionCall(w) ==
  Unless(After(Call(w, initializePosition,
       [owner |-> w, market |-> HM, position |-> positionPda(HM, w), systemProgram |-> SYSTEM]),
     {HM}), {positionPda(HM, w)})
tradePanel(w) == {PositionCall(w), TradeCall(w, buyHybridShares), TradeCall(w, sellHybridShares)}
deploy_trade(w) == {PositionCall(w), TradeCall(w, buyHybridShares), TradeCall(w, sellHybridShares)}

SettleCall(w, position) ==
  After(Creating(Call(w, settleHybridPosition,
       [owner |-> w, market |-> HM, position |-> position, collateralMint |-> USDC,
        vault |-> hybridVaultPda(HM), ownerToken |-> Ata(w), tokenProgram |-> TOKEN]),
     {Ata(w)}), {HybridReceipt})
portfolio_settle(w) ==
  {SettleCall(w, findProgramAddress("position", <<p.market, p.owner>>)) : p \in portfolio_positions(w)}
deploy_settle(w) == After(SettleCall(w, positionPda(HM, w)), {HybridReceipt, positionPda(HM, w)})
WithdrawCall(w) ==
  After(Creating(Call(w, withdrawHybridLiquidity,
       [liquidityOwner |-> w, market |-> HM, collateralMint |-> USDC,
        vault |-> hybridVaultPda(HM), liquidityToken |-> Ata(w), tokenProgram |-> TOKEN]),
     {Ata(w)}), {HybridReceipt})
portfolio_withdraw(w) == {WithdrawCall(w) : m \in portfolio_liquidity(w)}
deploy_withdraw(w) == {WithdrawCall(v) : v \in {w} \cap {Creator}}

\* The accounts every resolution of a public market supplies.
Resolution(w) ==
  [keeper |-> w, market |-> HM, oracleConfig |-> oracleConfigPda(HM),
   receipt |-> resolutionReceiptPda(HM), vault |-> hybridVaultPda(HM), systemProgram |-> SYSTEM]
With(r, name, address) ==
  [n \in DOMAIN r \cup {name} |-> IF n = name THEN address ELSE r[n]]
Resolving(w, instruction, supplied) ==
  Unless(After(Call(w, instruction, supplied), {HM}), {HybridReceipt})
Disputing(w, instruction) ==
  Unless(After(Call(w, instruction, With(Resolution(w), "proposal", optimisticProposalPda(HM))),
               {HM, HybridProposal}), {HybridReceipt})

keeper_lock(w) == After(Call(w, lockHybridMarket, [market |-> HM]), {HM})
keeper_timeout(w) == Resolving(w, resolveHybridTimeout, Resolution(w))
keeper_finalize(w) == Disputing(w, finalizeOptimisticResolution)
keeper_timeoutDispute(w) == Disputing(w, timeoutOptimisticDispute)
resolveTxline(w) ==
  Resolving(w, resolveHybridWithTxline,
            With(With(Resolution(w), "dailyScoresMerkleRoots", dailyScoresRoot),
                 "txlineProgram", TXLINE_PROGRAM))
resolvePythHybridMarket(w) ==
  {Resolving(w, resolveHybridWithPyth, With(Resolution(w), "priceUpdate", update)) :
     update \in {pythPushFeedAccount, Key("posted update")}}
resolveStorkHybridMarket(w) ==
  Resolving(w, resolveHybridWithStork, With(Resolution(w), "feedAccount", storkFeedAccount))
resolveSwitchboardHybridMarket(w) ==
  Resolving(w, resolveHybridWithSwitchboard,
            With(Resolution(w), "quoteAccount", switchboardQuoteAccount))

\* The panel takes the oracle account's address from the market it has read.
StoredOracle == findProgramAddress("oracle-config", <<HM>>)
panel_propose(w) ==
  Unless(After(Creating(Call(w, proposeOptimisticResolution,
       [proposer |-> w, market |-> HM, oracleConfig |-> StoredOracle,
        proposal |-> optimisticProposalPda(HM), bondVault |-> optimisticBondVaultPda(HM),
        collateralMint |-> USDC, proposerToken |-> Ata(w), tokenProgram |-> TOKEN,
        systemProgram |-> SYSTEM]),
     {Ata(w)}), {HM}), {HybridProposal, HybridReceipt})
panel_challenge(w) ==
  Unless(After(Creating(Call(w, challengeOptimisticResolution,
       [challenger |-> w, market |-> HM, oracleConfig |-> StoredOracle,
        proposal |-> optimisticProposalPda(HM), bondVault |-> optimisticBondVaultPda(HM),
        collateralMint |-> USDC, challengerToken |-> Ata(w), tokenProgram |-> TOKEN]),
     {Ata(w)}), {HybridProposal}), {HybridReceipt})
panel_finalize(w) == Disputing(w, finalizeOptimisticResolution)
panel_timeoutDispute(w) == Disputing(w, timeoutOptimisticDispute)
panel_claim(w) ==
  After(Creating(Call(w, claimOptimisticBond,
       [claimant |-> w, market |-> HM, proposal |-> optimisticProposalPda(HM),
        bondVault |-> optimisticBondVaultPda(HM), collateralMint |-> USDC,
        destination |-> Ata(w), tokenProgram |-> TOKEN]),
     {Ata(w)}), {HybridProposal, HybridReceipt})

WalletCalls(w) ==
  {runner_beginRefund(w), runner_resolveMarket(w), coordinator_submitBatch(w), relay_redeem(w),
   orderPanel_placeOrder(w), portfolio_refundOrder(w), deploy_settle(w), keeper_lock(w),
   keeper_timeout(w), keeper_finalize(w), keeper_timeoutDispute(w), resolveTxline(w),
   resolveStorkHybridMarket(w), resolveSwitchboardHybridMarket(w), panel_propose(w),
   panel_challenge(w), panel_finalize(w), panel_timeoutDispute(w), panel_claim(w)}
  \cup tradePanel(w) \cup deploy_trade(w) \cup resolvePythHybridMarket(w)
  \cup portfolio_settle(w) \cup portfolio_withdraw(w) \cup deploy_withdraw(w)
CreatorCalls ==
  {createForm_initializeMarket(Creator), deploy_initializeMarket(Creator),
   createForm_initializeHybridMarket(Creator), deploy_initializeHybridMarket(Creator),
   createForm_publishHybridMetadata(Creator), deploy_publishHybridMetadata(Creator)}
AuthorityCalls ==
  {deploy_initializeProtocol(PROTOCOL_AUTHORITY), deploy_initializeEngine(PROTOCOL_AUTHORITY),
   deploy_rotateVerifiers(PROTOCOL_AUTHORITY), deploy_syncMarketVerifiers(PROTOCOL_AUTHORITY)}
Calls == (UNION {WalletCalls(w) : w \in Wallets}) \cup CreatorCalls \cup AuthorityCalls

\* What the call sites would send now.
Offered == {c \in Calls : c.seen \subseteq chain /\ c.absent \cap chain = {}}

-----------------------------------------------------------------------------
(* What the program checks of the accounts it is given.                    *)

Names(c) == DOMAIN c.instruction.accounts
Complete(c) == Names(c) \subseteq DOMAIN c.supplied

\* The wallet a token account has to belong to.
token_owner ==
  [ownerToken |-> "owner", payerToken |-> "payer", proposerToken |-> "proposer",
   challengerToken |-> "challenger", destination |-> "claimant", keeperToken |-> "keeper",
   recipientToken |-> "recipientOwner", creatorToken |-> "creator"]

Derived(c, spec) ==
  findProgramAddress(spec.label, [i \in DOMAIN spec.seeds |-> c.supplied[spec.seeds[i]]])

accepts(c, a) ==
  LET spec == c.instruction.accounts[a]
      address == c.supplied[a]
  IN  /\ spec.kind = "signer" => address = c.wallet
      /\ spec.kind = "fixed" => address = spec.at
      /\ spec.kind = "pda" => address = Derived(c, spec)
      /\ spec.kind = "stored" => address = findProgramAddress(spec.label, <<Creator, Id>>)
      /\ a = "collateralMint" => address = USDC
      /\ a = "treasuryToken" => address = Ata(Treasury)
      /\ a = "liquidityToken" => address = Ata(Creator)
      /\ a \in DOMAIN token_owner => address = Ata(c.supplied[token_owner[a]])

\* Accounts the instruction creates must be free, all others must exist when
\* it runs, after the instructions that set the transaction up.
ready(c, a) ==
  IF a \in c.instruction.creates THEN c.supplied[a] \notin chain
  ELSE c.supplied[a] \in chain \cup c.setup

Accepted(c) == Complete(c) /\ \A a \in Names(c) : accepts(c, a) /\ ready(c, a)

-----------------------------------------------------------------------------
\* Accounts that exist before the protocol: programs, mint, wallets, feeds.
Genesis ==
  Wallets \cup {PROTOCOL_AUTHORITY, USDC, TOKEN, SYSTEM, TXLINE_PROGRAM, FreshWallet,
                PlacementVerifier, RedeemVerifier, dailyScoresRoot, pythPushFeedAccount,
                Key("posted update"), storkFeedAccount, switchboardQuoteAccount}

Init == chain = Genesis

\* A wallet receives its first token from outside the system.
fund(w) ==
  /\ Ata(w) \notin chain
  /\ chain' = chain \cup {Ata(w)}

\* The owner of an empty token account may close it, and open it again later.
closeAccount(w) ==
  /\ Ata(w) \in chain
  /\ chain' = chain \ {Ata(w)}

\* The accounts a transaction creates, those it sets up included.
Added(c) == c.setup \cup {c.supplied[a] : a \in c.instruction.creates}

\* A transaction takes effect whole or not at all.
submit(c) ==
  /\ c \in Offered
  /\ chain' = IF Accepted(c) THEN chain \cup Added(c) ELSE chain

Next ==
  \/ \E w \in Wallets : fund(w) \/ closeAccount(w)
  \/ \E c \in Calls : submit(c)

Spec == Init /\ [][Next]_chain

-----------------------------------------------------------------------------
\* Every address a client derives for itself, every token account it names
\* and the address of every account it leaves to a scan is the one the
\* program verifies, and no account an instruction needs is left out of
\* accountsPartial. The byte offsets of the scans are those of the fields they
\* mean: the portfolio finds exactly the wallet's positions and the creator's
\* market, and the market page counts every trader.
AddressesVerified ==
  /\ \A c \in Offered : Complete(c) /\ \A a \in Names(c) : accepts(c, a)
  /\ \A w \in Wallets :
       /\ portfolio_positions(w) = {p \in Positions : p.owner = w}
       /\ (portfolio_liquidity(w) # {}) <=> (HM \in chain /\ w = Creator)
  /\ hybridTraderCount = Positions

\* The calls a client sends although an account they need is missing, or one
\* they create is there: the replay form's market sent again, after a confirmation
\* was lost, and the refund of a record whose order never landed or whose owner
\* has closed the token account.
SentBlind ==
  {c \in {createForm_initializeMarket(Creator)} : PM \in chain}
  \cup {portfolio_refundOrder(w) :
          w \in {v \in Wallets : Order(v) \notin chain \/ Ata(v) \notin chain}}

\* In whatever order markets are created, wallets funded, token accounts closed,
\* orders and trades placed and outcomes decided, a call site that its own reads
\* allow finds every account its instruction needs, and absent every account it
\* creates: a first trader, keeper or recipient does not fail on a token account
\* or a position nobody created. The calls sent blind are the only exceptions,
\* and the program refuses each of them.
AccountsReady ==
  \A c \in Offered :
    Complete(c) => ((\A a \in Names(c) : ready(c, a)) <=> c \notin SentBlind)
-----------------------------------------------------------------------------
\* What the two properties rest on. The accounts there are from the start stay;
\* the accounts one instruction creates exist together; and an account that
\* is about a market, an order or a position exists only after what it is about.
GenesisKept == Genesis \subseteq chain
CreatedTogether ==
  /\ PM \in chain <=> vaultPda(PM) \in chain
  /\ HM \in chain <=> hybridVaultPda(HM) \in chain
  /\ HM \in chain <=> oracleConfigPda(HM) \in chain
  /\ HybridProposal \in chain <=> optimisticBondVaultPda(HM) \in chain
CreatedAfter ==
  /\ HybridProposal \in chain => HM \in chain
  /\ HybridReceipt \in chain => HM \in chain
  /\ \A w \in Wallets : Order(w) \in chain => PM \in chain
  /\ \A w \in Wallets : positionPda(HM, w) \in chain => HM \in chain

InterfaceIInv == GenesisKept /\ CreatedTogether /\ CreatedAfter
=============================================================================
