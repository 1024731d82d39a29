---------------------------- MODULE PositionVault ----------------------------
(***************************************************************************)
(* The encrypted vault of private positions in one browser: one entry of    *)
(* local storage per wallet that every tab reads, decrypts, changes and     *)
(* writes back whole, with awaits in between. The order panel saves a       *)
(* record three times around the placement of its order, the portfolio      *)
(* page refreshes, settles and delivers records, the recovery panel exports *)
(* and imports backups, and unlocking migrates records of the old plaintext *)
(* format. Losing a record loses the secret, and with it the stake.         *)
(*                                                                         *)
(* A write in flight carries the records it has seen, those it means to     *)
(* change and the vault it will store; its read and its store are separate  *)
(* steps.                                                                   *)
(***************************************************************************)
EXTENDS Naturals, FiniteSets

CONSTANTS
  Orders,        \* positions of the connected wallet, by commitment
  Fresh,         \* the ones placed in this browser; the others are placed already
  MaxWrites      \* bound on writes in flight

VARIABLES
  vault,         \* the stored records
  exists,        \* whether a vault is stored at all
  legacy,        \* records in the plaintext entry older versions wrote
  writes,        \* encryptVault calls that have read and not yet stored
  panel,         \* panel[o]: the order panel's step for o
  loaded,        \* the records the portfolio's effect has loaded and refreshed
  shown,         \* the portfolio's React state: the records its buttons act on
  placed, delivered, settled,   \* on chain and at the committee
  phase,         \* the market's phase
  causes         \* history: what has made a record disappear or regress

chainVars == <<placed, delivered, settled, phase>>
storage == <<vault, exists, legacy>>
vars == <<storage, writes, panel, loaded, shown, chainVars, causes>>

Empty == [o \in {} |-> [signed |-> FALSE]]
\* A record: whether it has its placement signature and its committee shares.
\* The status it is shown with follows from these and the market's phase.
Prepared == [signed |-> FALSE, shares |-> TRUE]
Pending == [signed |-> TRUE, shares |-> TRUE]
Delivered == [signed |-> TRUE, shares |-> FALSE]

\* { ...first, ...rest } by commitment, as dedupe keeps the first of two.
dedupe(first, rest) ==
  [o \in DOMAIN first \cup DOMAIN rest |-> IF o \in DOMAIN first THEN first[o] ELSE rest[o]]
One(o, record) == [p \in {o} |-> record]

Old == Orders \ Fresh

Init ==
  \* A vault with the old records, or only the plaintext entry with them.
  /\ \E migrated \in BOOLEAN :
       LET records == [o \in Old |-> Pending]
       IN  /\ vault = IF migrated THEN records ELSE Empty
           /\ exists = migrated
           /\ legacy = IF migrated THEN Empty ELSE records
  /\ writes = {}
  /\ panel = [o \in Fresh |-> "idle"]
  /\ loaded = Empty /\ shown = Empty
  /\ placed = Old /\ delivered = {} /\ settled = {}
  /\ phase = "open"
  /\ causes = {}

-----------------------------------------------------------------------------
(* Reading and writing the vault.                                          *)

Write(by, own, seen, content) ==
  /\ Cardinality(writes) < MaxWrites
  /\ \A w \in writes : w.by # by
  /\ writes' = writes \cup {[by |-> by, own |-> own, seen |-> seen, content |-> content]}

\* The vault is read and the record put in front of the others.
savePrivatePosition(by, o, record) == Write(by, {o}, vault, dedupe(One(o, record), vault))

\* What a write undoes that has seen less than is stored by now.
Dropped(w) == DOMAIN vault \ (DOMAIN w.seen \cup w.own)
Regressed(w) == {o \in (DOMAIN vault \cap DOMAIN w.seen) \ w.own : w.seen[o] # vault[o]}
\* What the imported file overrides.
Overridden(w) == {o \in DOMAIN vault \cap w.own : w.content[o] # vault[o]}

Store(w) ==
  /\ vault' = w.content /\ exists' = TRUE
  /\ writes' = writes \ {w}
  /\ causes' = causes \cup (IF Dropped(w) # {} THEN {"dropped"} ELSE {})
                     \cup (IF Regressed(w) # {} THEN {"regressed"} ELSE {})
                     \cup (IF w.by = <<"import">> /\ Overridden(w) # {} THEN {"import"} ELSE {})

\* A write ends; what follows it in its caller is in the caller's next step.
encryptVault(w) ==
  /\ w.by[1] \notin {"unlock", "import"}
  /\ Store(w)
  /\ UNCHANGED <<legacy, panel, loaded, shown, chainVars>>

\* The caller holds the key: the vault exists and nothing is left to migrate.
Unlocked == exists /\ legacy = Empty
Writing(by) == \E w \in writes : w.by = by

\* unlockPrivatePositions writes when there is plaintext to migrate or no vault.
unlock ==
  /\ legacy # Empty \/ ~exists
  /\ Write(<<"unlock">>, {}, vault, dedupe(vault, legacy))
  /\ UNCHANGED <<storage, panel, loaded, shown, chainVars, causes>>

\* The plaintext entry is removed only after the write.
unlocked(w) ==
  /\ w.by = <<"unlock">>
  /\ Store(w)
  /\ legacy' = Empty
  /\ shown' = w.content
  /\ UNCHANGED <<panel, loaded, chainVars>>

\* Another wallet unlocks its own, empty vault in this browser: records with
\* this wallet's owner field are not its own, and the entry is removed.
otherWalletUnlocks ==
  /\ legacy # Empty /\ ~Writing(<<"unlock">>)
  /\ legacy' = Empty
  /\ causes' = causes \cup {"other wallet"}
  /\ UNCHANGED <<vault, exists, writes, panel, loaded, shown, chainVars>>

-----------------------------------------------------------------------------
(* The order panel.                                                        *)

Step(o, from, to) == panel[o] = from /\ panel' = [panel EXCEPT ![o] = to]

\* submit: the vault is unlocked, the proof made and the record saved ...
prepare(o) ==
  /\ phase = "open" /\ Unlocked
  /\ Step(o, "idle", "prepared")
  /\ savePrivatePosition(<<"panel", o>>, o, Prepared)
  /\ UNCHANGED <<storage, loaded, shown, chainVars, causes>>

\* A panel that sends the order before its record is stored.
placeOrder_unsaved(o, answered) ==
  /\ Step(o, "prepared", IF answered THEN "placed" ELSE "stopped")
  /\ phase = "open"
  /\ placed' = placed \cup {o}
  /\ UNCHANGED <<storage, writes, loaded, shown, delivered, settled, phase, causes>>

\* ... before the order is sent. It may land with its answer lost.
placeOrder(o, answered) ==
  /\ ~Writing(<<"panel", o>>)
  /\ Step(o, "prepared", IF answered THEN "placed" ELSE "stopped")
  /\ phase = "open"
  /\ placed' = placed \cup {o}
  /\ UNCHANGED <<storage, writes, loaded, shown, delivered, settled, phase, causes>>

placeOrderFails(o) ==
  /\ ~Writing(<<"panel", o>>)
  /\ Step(o, "prepared", "stopped")
  /\ UNCHANGED <<storage, writes, loaded, shown, chainVars, causes>>

\* The shares are dropped with the signature's save, before they are delivered.
savePending_bare(o) ==
  /\ Step(o, "placed", "pending")
  /\ savePrivatePosition(<<"panel", o>>, o, Delivered)
  /\ UNCHANGED <<storage, loaded, shown, chainVars, causes>>

savePending(o) ==
  /\ Step(o, "placed", "pending")
  /\ savePrivatePosition(<<"panel", o>>, o, Pending)
  /\ UNCHANGED <<storage, loaded, shown, chainVars, causes>>

\* deliverCommitteeShares: all three members accept, or an error stops the panel.
deliver(o) ==
  /\ ~Writing(<<"panel", o>>)
  /\ \/ Step(o, "pending", "delivered") /\ delivered' = delivered \cup {o}
     \/ Step(o, "pending", "undelivered") /\ UNCHANGED delivered
  /\ UNCHANGED <<storage, writes, loaded, shown, placed, settled, phase, causes>>

saveDelivered(o) ==
  /\ Step(o, "delivered", "stopped")
  /\ savePrivatePosition(<<"panel", o>>, o, Delivered)
  /\ UNCHANGED <<storage, loaded, shown, chainVars, causes>>

-----------------------------------------------------------------------------
(* The portfolio page.                                                     *)

\* The effect: the records are loaded and each one's market is fetched for the
\* status it is shown with ...
loadPrivatePositions ==
  /\ Unlocked /\ loaded = Empty
  /\ loaded' = vault
  /\ UNCHANGED <<storage, writes, panel, shown, chainVars, causes>>

\* ... and every record is saved by a call of its own, all at once.
saveRefreshed ==
  /\ loaded # Empty
  /\ \A o \in DOMAIN loaded : ~Writing(<<"effect", o>>)
  /\ Cardinality(writes) + Cardinality(DOMAIN loaded) <= MaxWrites
  /\ writes' = writes \cup
       {[by |-> <<"effect", o>>, own |-> {}, seen |-> dedupe(One(o, loaded[o]), vault),
         content |-> dedupe(One(o, loaded[o]), vault)] : o \in DOMAIN loaded}
  /\ shown' = loaded /\ loaded' = Empty
  /\ UNCHANGED <<storage, panel, chainVars, causes>>

\* The committee has the shares and the page has not saved so yet; a page that
\* stopped in between saves nothing.
retryCommitteeDelivery(o) ==
  /\ o \in DOMAIN shown /\ shown[o].signed /\ shown[o].shares
  /\ phase = "open" /\ o \in placed
  /\ delivered' = delivered \cup {o}
  /\ \/ /\ savePrivatePosition(<<"page", o>>, o, Delivered)
        /\ shown' = [shown EXCEPT ![o] = Delivered]
     \/ UNCHANGED <<writes, shown>>
  /\ UNCHANGED <<storage, panel, loaded, placed, settled, phase, causes>>

\* redeem and refund, once the chain has paid: the page saves the record it
\* shows, with its last status.
settle(o) ==
  /\ o \in DOMAIN shown /\ o \in placed \ settled
  /\ phase # "open"
  /\ savePrivatePosition(<<"page", o>>, o, shown[o]) \/ UNCHANGED writes
  /\ settled' = settled \cup {o}
  /\ UNCHANGED <<storage, panel, loaded, shown, placed, delivered, phase, causes>>

exportVault ==
  /\ Unlocked
  /\ Write(<<"export">>, {}, vault, vault)
  /\ UNCHANGED <<storage, panel, loaded, shown, chainVars, causes>>

\* A file exported at some earlier time; its records win over the stored ones.
Backups ==
  {vault} \cup {[o \in saved |-> Prepared] : saved \in SUBSET (Old \cup {o \in Fresh : panel[o] # "idle"})}

importVault ==
  /\ Unlocked
  /\ \E backup \in Backups :
       Write(<<"import">>, DOMAIN backup, vault, dedupe(backup, vault))
  /\ UNCHANGED <<storage, panel, loaded, shown, chainVars, causes>>

imported(w) ==
  /\ w.by = <<"import">>
  /\ Store(w)
  /\ shown' = w.content
  /\ UNCHANGED <<legacy, panel, loaded, chainVars>>

\* The market resolves or is refunded: orders can be settled.
market ==
  /\ phase = "open"
  /\ phase' = "closed"
  /\ UNCHANGED <<storage, writes, panel, loaded, shown, placed, delivered, settled, causes>>

Next ==
  \/ \E w \in writes : encryptVault(w) \/ unlocked(w) \/ imported(w)
  \/ unlock \/ otherWalletUnlocks
  \/ \E o \in Fresh :
       \/ prepare(o) \/ placeOrderFails(o) \/ savePending(o) \/ deliver(o) \/ saveDelivered(o)
       \/ \E answered \in BOOLEAN : placeOrder(o, answered)
  \/ loadPrivatePositions \/ saveRefreshed \/ exportVault \/ importVault \/ market
  \/ \E o \in Orders : retryCommitteeDelivery(o) \/ settle(o)

\* Behaviours are followed until something has undone a record.
Undamaged == causes = {}

Spec == Init /\ [][Next]_vars

-----------------------------------------------------------------------------
\* The secret of every order whose stake is still in the market is stored,
\* whatever the tabs do and wherever the placement is interrupted: the record
\* is saved before the order is sent, and every writer keeps the records it
\* did not mean to change. Only a write that was read before another one added
\* a record, or another wallet's unlocking, loses one.
PlacedRecoverable ==
  causes \cap {"dropped", "other wallet"} # {}
  \/ placed \ settled \subseteq DOMAIN vault \cup DOMAIN legacy

\* An interrupted delivery can be retried: once the panel has stored an
\* order's placement signature, and for every record found signed, the vault
\* keeps signature and shares while the market takes shares, until the
\* committee has them. Only the
\* import of an older backup, a write from an older read and a lost record
\* take them away.
Signed(o) == o \in Old \/ (panel[o] \in {"pending", "undelivered"} /\ ~Writing(<<"panel", o>>))
DeliveryRetryable ==
  \/ causes # {} \/ phase # "open"
  \/ \A o \in placed \ delivered :
       Signed(o) => LET record == dedupe(vault, legacy)[o]
                    IN  record.signed /\ record.shares
-----------------------------------------------------------------------------
(* The inductive invariant.                                                *)

Lost == causes \cap {"dropped", "other wallet"} # {}

\* What each kind of write means to change, and that it carries the rest over:
\* unlocking carries the plaintext records, the panel a signed record once it is
\* past the placement, the page what is delivered or what can be settled.
WriteOK(w) ==
  /\ DOMAIN w.seen \cup w.own \subseteq DOMAIN w.content
  /\ \A o \in DOMAIN w.seen \ w.own : w.content[o] = w.seen[o]
  /\ \A o \in w.own : w.by \in {<<"import">>, <<"panel", o>>, <<"page", o>>}
  /\ w.by = <<"unlock">> => \A o \in DOMAIN legacy :
       o \in DOMAIN w.content /\ (o \in DOMAIN vault \/ w.content[o] = legacy[o] \/ Lost)
  /\ \A o \in Orders :
       /\ w.by = <<"panel", o>> => o \in w.own /\ o \in Fresh
       /\ w.by = <<"panel", o>> /\ panel[o] \in {"pending", "undelivered"} => w.content[o] = Pending
       /\ w.by = <<"page", o>> => o \in delivered \/ phase # "open"

\* Only an unlocked vault is written to, and unlocking leaves nothing behind.
Migrated ==
  \/ \E w \in writes : w.by # <<"unlock">>
  \/ loaded # Empty \/ shown # Empty
  \/ \E o \in Fresh : panel[o] # "idle"
  => legacy = Empty

Stored == DOMAIN vault \cup DOMAIN legacy

\* A panel sends its order only once its record is stored.
PreparedStored ==
  \A o \in Fresh : panel[o] # "idle" => o \in Stored \/ Writing(<<"panel", o>>) \/ Lost

SignedKept ==
  causes = {} /\ phase = "open" =>
    \A o \in Orders \ delivered :
      Signed(o) => o \in Stored /\ dedupe(vault, legacy)[o] = Pending

VaultOK ==
  /\ panel = [o \in Fresh |-> panel[o]]
  /\ placed \subseteq Orders
  /\ \A o \in DOMAIN legacy : o \in Old /\ legacy[o] = Pending

VaultIInv ==
  /\ VaultOK /\ (\A w \in writes : WriteOK(w)) /\ Migrated
  /\ PreparedStored /\ PlacedRecoverable /\ SignedKept
=============================================================================
