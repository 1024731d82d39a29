---------------------------- MODULE MemberStore ----------------------------
(* How one committee member service keeps its shares                        *)
(* (services/src/committee/server.ts): a map in memory and an encrypted     *)
(* state file that every request rewrites through one temporary file.       *)
(* Requests run concurrently and every await of persist is a point where    *)
(* the others proceed.  Which shares and purges a service lets in is the    *)
(* business of module Committee.                                            *)
EXTENDS Naturals, FiniteSets

CONSTANTS
  Shares,        \* the verified shares of this member
  Requests,      \* requests the service can have under way at once
  MaxCrashes     \* bound of the crashes

VARIABLES
  up,            \* the process is running
  held,          \* CommitteeMember.#shares
  tmp, disk,     \* the temporary file and the state file
  req,           \* the requests under way
  accepted,      \* history: shares answered 202 and not purged since
  purged,        \* history: shares a purge answered 200 removed, not back since
  overlapped,    \* history: two persists have overlapped
  crashes

fileVars == <<tmp, disk>>
historyVars == <<accepted, purged, overlapped, crashes>>
vars == <<up, held, fileVars, req, historyVars>>

\* Contents of a file: absent, just truncated, overwritten in part, or a state.
NoFile == [kind |-> "none", shares |-> {}]
Empty == [kind |-> "empty", shares |-> {}]
Garbled == [kind |-> "garbled", shares |-> {}]
StateFile(shares) == [kind |-> "state", shares |-> shares]

\* A request: the step persist is at, the shares it submits or removes, its
\* snapshot, and the file its descriptor is open on.
Idle == [pc |-> "idle", kind |-> "none", shares |-> {}, snap |-> {}, at |-> "none"]
Persisting(r) == req[r].pc # "idle"

Init ==
  /\ up = TRUE /\ held = {}
  /\ tmp = NoFile /\ disk = NoFile
  /\ req = [r \in Requests |-> Idle]
  /\ accepted = {} /\ purged = {} /\ overlapped = FALSE /\ crashes = 0

----------------------------------------------------------------------------
BeginPersist(r, kind, shares) ==
  /\ req' = [req EXCEPT ![r] = [Idle EXCEPT !.pc = "mkdir", !.kind = kind, !.shares = shares]]
  /\ overlapped' = (overlapped \/ \E z \in Requests \ {r} : Persisting(z))

\* POST /shares once the share is verified: submit is idempotent.
SubmitShare(r, share) ==
  /\ up /\ req[r].pc = "idle"
  /\ held' = held \cup {share}
  /\ BeginPersist(r, "share", {share})
  /\ purged' = purged \ {share}
  /\ UNCHANGED <<up, fileVars, accepted, crashes>>

\* DELETE /markets/.../shares once it is allowed.
PurgeShares(r) ==
  /\ up /\ req[r].pc = "idle"
  /\ held' = {}
  /\ BeginPersist(r, "purge", held)
  /\ accepted' = {}
  /\ UNCHANGED <<up, fileVars, purged, crashes>>

\* persist, after its mkdir, takes the snapshot of that moment.
TakeSnapshot(r) ==
  /\ req[r].pc = "mkdir"
  /\ req' = [req EXCEPT ![r].pc = "open", ![r].snap = held]
  /\ UNCHANGED <<up, held, fileVars, historyVars>>

\* Deviation: the state file itself is opened for writing.
OpenTemporary_in_place(r) ==
  /\ req[r].pc = "open"
  /\ disk' = Empty
  /\ req' = [req EXCEPT ![r].pc = "write", ![r].at = "disk"]
  /\ UNCHANGED <<up, held, tmp, historyVars>>

\* writeFile creates or truncates the one temporary path.
OpenTemporary(r) ==
  /\ req[r].pc = "open"
  /\ tmp' = Empty
  /\ req' = [req EXCEPT ![r].pc = "write", ![r].at = "tmp"]
  /\ UNCHANGED <<up, held, disk, historyVars>>

\* Bytes written from the start of a file another writer has already filled
\* leave the tail of the longer text.
Overwritten(file, snap) ==
  CASE file.kind = "empty" -> {StateFile(snap)}
    [] file.kind = "state" /\ Cardinality(snap) < Cardinality(file.shares) -> {Garbled}
    [] file.kind = "state" /\ Cardinality(snap) > Cardinality(file.shares) -> {StateFile(snap)}
    [] file.kind = "state" /\ snap = file.shares -> {StateFile(snap)}
    [] OTHER -> {Garbled, StateFile(snap)}

\* The descriptor follows its file through the renames of other requests.
WriteTemporary(r) ==
  /\ req[r].pc = "write"
  /\ req' = [req EXCEPT ![r].pc = "rename"]
  /\ \/ req[r].at = "tmp" /\ tmp' \in Overwritten(tmp, req[r].snap) /\ UNCHANGED disk
     \/ req[r].at = "disk" /\ disk' \in Overwritten(disk, req[r].snap) /\ UNCHANGED tmp
     \/ req[r].at = "gone" /\ UNCHANGED fileVars
  /\ UNCHANGED <<up, held, historyVars>>

\* Where a descriptor points once the temporary file is renamed.
Moved(at) == CASE at = "tmp" -> "disk" [] at = "disk" -> "gone" [] OTHER -> at

\* rename and the successful answer.  A share purged meanwhile, or back
\* meanwhile, is not what the answer is about.
RenameTemporary(r) ==
  /\ req[r].pc = "rename" /\ tmp # NoFile
  /\ disk' = tmp
  /\ tmp' = NoFile
  /\ req' = [z \in Requests |-> IF z = r THEN Idle ELSE [req[z] EXCEPT !.at = Moved(@)]]
  /\ IF req[r].kind = "share"
     THEN accepted' = accepted \cup (req[r].shares \cap held) /\ UNCHANGED purged
     ELSE purged' = purged \cup (req[r].shares \ held) /\ UNCHANGED accepted
  /\ UNCHANGED <<up, held, overlapped, crashes>>

\* Another request has renamed the file away: ENOENT, answered 400.
RenameFails(r) ==
  /\ req[r].pc = "rename" /\ tmp = NoFile
  /\ req' = [req EXCEPT ![r] = Idle]
  /\ UNCHANGED <<up, held, fileVars, historyVars>>

\* The process dies: memory and requests are gone, the files stay.
Crash ==
  /\ up /\ crashes < MaxCrashes
  /\ crashes' = crashes + 1
  /\ up' = FALSE
  /\ held' = {}
  /\ req' = [r \in Requests |-> Idle]
  /\ UNCHANGED <<fileVars, accepted, purged, overlapped>>

\* openCommitteeState throws on anything but a whole file; only ENOENT is
\* forgiven.
readable == disk.kind \in {"none", "state"}

\* main: the service starts from its state file.
Restart ==
  /\ ~up /\ readable
  /\ up' = TRUE
  /\ held' = disk.shares
  /\ UNCHANGED <<fileVars, req, historyVars>>

PersistStep(r) ==
  \/ TakeSnapshot(r) \/ OpenTemporary(r) \/ WriteTemporary(r)
  \/ RenameTemporary(r) \/ RenameFails(r)

Next ==
  \/ Crash \/ Restart
  \/ \E r \in Requests :
       \/ PersistStep(r)
       \/ PurgeShares(r)
       \/ \E share \in Shares : SubmitShare(r, share)

Spec == Init /\ [][Next]_vars

----------------------------------------------------------------------------
Files == {NoFile, Empty, Garbled} \cup {StateFile(shares) : shares \in SUBSET Shares}
Steps == {"idle", "mkdir", "open", "write", "rename"}

\* The type of every variable.
TypeOK ==
  /\ up \in BOOLEAN /\ overlapped \in BOOLEAN /\ crashes \in Nat
  /\ held \in SUBSET Shares /\ accepted \in SUBSET Shares /\ purged \in SUBSET Shares
  /\ tmp \in Files /\ disk \in Files
  /\ req \in [Requests -> [pc : Steps, kind : {"none", "share", "purge"}, shares : SUBSET Shares,
                           snap : SUBSET Shares, at : {"none", "tmp", "disk", "gone"}]]

\* While its persists have not overlapped, a service always has a readable
\* state file with every share it accepted and none whose purge it confirmed,
\* wherever it crashes.
DurableAlone ==
  ~overlapped => readable /\ accepted \subseteq disk.shares /\ purged \cap disk.shares = {}

\* "One encrypted share-validation member per process with durable encrypted
\* state": whatever requests are under way, a share that was answered 202 is in a
\* state file the next start can read. Two persists at once break it.
Durable == \A share \in accepted : readable /\ share \in disk.shares

=============================================================================
