------------------------- MODULE MemberStoreProofs -------------------------
(* Proof that a member service whose persists do not overlap never loses an *)
(* accepted share nor brings back a purged one, for any number of shares,   *)
(* requests and crashes.                                                    *)
EXTENDS MemberStore, TLAPS

\* Only StateFile, NoFile, Empty and Garbled contents ever reach a file.
LEMMA OverwrittenType ==
  ASSUME NEW file \in Files, NEW snap \in SUBSET Shares
  PROVE  Overwritten(file, snap) \subseteq Files
  BY DEF Overwritten, Files, StateFile, Garbled

\* The records of the requests under way.
RequestRecords ==
  [pc : Steps, kind : {"none", "share", "purge"}, shares : SUBSET Shares,
   snap : SUBSET Shares, at : {"none", "tmp", "disk", "gone"}]

\* The type invariant of a member service, whatever its requests do.
THEOREM TypeCorrect == Spec => []TypeOK
<1>1. Init => TypeOK
  <2> SUFFICES ASSUME Init PROVE TypeOK
    OBVIOUS
  <2>1. req \in [Requests -> RequestRecords]
    BY DEF Init, Idle, RequestRecords, Steps
  <2>2. crashes \in Nat
    BY DEF Init
  <2>3. tmp \in Files /\ disk \in Files
    BY DEF Init, Files
  <2> QED BY <2>1, <2>2, <2>3 DEF Init, TypeOK, RequestRecords
<1>2. TypeOK /\ [Next]_vars => TypeOK'
  <2> SUFFICES ASSUME TypeOK, [Next]_vars PROVE TypeOK'
    OBVIOUS
  <2> USE DEF TypeOK, Steps
  <2>1. CASE Crash
    <3>1. req' \in [Requests -> RequestRecords]
      BY <2>1 DEF Crash, Idle, RequestRecords
    <3>2. crashes' \in Nat
      BY <2>1 DEF Crash
    <3> QED BY <2>1, <3>1, <3>2 DEF Crash, fileVars, RequestRecords
  <2>2. CASE Restart
    BY <2>2 DEF Restart, fileVars, historyVars, Files, NoFile, Empty, Garbled, StateFile
  <2>3. ASSUME NEW r \in Requests, PurgeShares(r) PROVE TypeOK'
    BY <2>3 DEF PurgeShares, BeginPersist, fileVars, Idle
  <2>4. ASSUME NEW r \in Requests, NEW share \in Shares, SubmitShare(r, share) PROVE TypeOK'
    BY <2>4 DEF SubmitShare, BeginPersist, fileVars, Idle
  <2>5. ASSUME NEW r \in Requests, TakeSnapshot(r) PROVE TypeOK'
    <3>1. req[r] \in RequestRecords /\ req \in [Requests -> RequestRecords]
      BY DEF RequestRecords
    <3>2. [req[r] EXCEPT !.pc = "open", !.snap = held] \in RequestRecords
      BY <3>1 DEF RequestRecords
    <3>3. req' = [req EXCEPT ![r] = [req[r] EXCEPT !.pc = "open", !.snap = held]]
      BY <2>5, <3>1 DEF TakeSnapshot
    <3>4. req' \in [Requests -> RequestRecords]
      BY <3>1, <3>2, <3>3
    <3> QED BY <2>5, <3>4 DEF TakeSnapshot, fileVars, historyVars, RequestRecords
  <2>6. ASSUME NEW r \in Requests, OpenTemporary(r) PROVE TypeOK'
    <3>1. req[r] \in RequestRecords /\ req \in [Requests -> RequestRecords]
      BY DEF RequestRecords
    <3>2. [req[r] EXCEPT !.pc = "write", !.at = "tmp"] \in RequestRecords
      BY <3>1 DEF RequestRecords
    <3>3. req' = [req EXCEPT ![r] = [req[r] EXCEPT !.pc = "write", !.at = "tmp"]]
      BY <2>6, <3>1 DEF OpenTemporary
    <3>4. req' \in [Requests -> RequestRecords]
      BY <3>1, <3>2, <3>3
    <3>5. tmp' \in Files
      BY <2>6 DEF OpenTemporary, Files
    <3> QED BY <2>6, <3>4, <3>5 DEF OpenTemporary, historyVars, RequestRecords
  <2>7. ASSUME NEW r \in Requests, WriteTemporary(r) PROVE TypeOK'
    <3>1. req[r].snap \in SUBSET Shares
      OBVIOUS
    <3>2. tmp' \in Files /\ disk' \in Files
      BY <2>7, <3>1, OverwrittenType DEF WriteTemporary, fileVars
    <3> QED BY <2>7, <3>2 DEF WriteTemporary, historyVars
  <2>8. ASSUME NEW r \in Requests, RenameTemporary(r) PROVE TypeOK'
    <3>1. \A at \in {"none", "tmp", "disk", "gone"} : Moved(at) \in {"none", "tmp", "disk", "gone"}
      BY DEF Moved
    <3>2. req' \in [Requests -> RequestRecords]
      BY <2>8, <3>1 DEF RenameTemporary, Idle, RequestRecords
    <3>3. accepted' \in SUBSET Shares /\ purged' \in SUBSET Shares
      BY <2>8 DEF RenameTemporary
    <3>4. tmp' \in Files /\ disk' \in Files
      BY <2>8 DEF RenameTemporary, Files
    <3> QED BY <2>8, <3>2, <3>3, <3>4 DEF RenameTemporary, RequestRecords
  <2>9. ASSUME NEW r \in Requests, RenameFails(r) PROVE TypeOK'
    BY <2>9 DEF RenameFails, fileVars, historyVars, Idle
  <2>10. CASE UNCHANGED vars
    BY <2>10 DEF vars, fileVars, historyVars
  <2> QED BY <2>1, <2>2, <2>3, <2>4, <2>5, <2>6, <2>7, <2>8, <2>9, <2>10 DEF Next, PersistStep
<1> QED BY <1>1, <1>2, PTL DEF Spec

----------------------------------------------------------------------------
\* One request persists at a time, and only while the process runs.
Alone ==
  /\ \A r, z \in Requests : Persisting(r) /\ Persisting(z) => r = z
  /\ ~up => \A r \in Requests : ~Persisting(r)

\* The snapshot under way is still what memory holds, and it is what the
\* temporary file gets.
SnapshotCurrent ==
  \A r \in Requests :
    /\ req[r].pc \in {"open", "write", "rename"} => req[r].snap = held
    /\ req[r].pc = "write" => req[r].at = "tmp" /\ tmp = Empty
    /\ req[r].pc = "rename" => tmp = StateFile(held)

\* Memory knows what the answers promised.
MemoryCurrent == up => accepted \subseteq held /\ purged \cap held = {}

\* And so does the state file.
FileCurrent == readable /\ accepted \subseteq disk.shares /\ purged \cap disk.shares = {}

Sound == Alone /\ SnapshotCurrent /\ MemoryCurrent /\ FileCurrent

\* The inductive invariant of a service whose persists have not overlapped.
StoreInv == ~overlapped => Sound

\* Every step keeps the inductive invariant.
LEMMA StoreInvStep ==
  ASSUME TypeOK, StoreInv, [Next]_vars
  PROVE  StoreInv'
<1> SUFFICES ASSUME ~overlapped' PROVE Sound'
  BY DEF StoreInv
<1>0. ~overlapped
  BY DEF Next, PersistStep, Crash, Restart, PurgeShares, SubmitShare, BeginPersist, TakeSnapshot,
         OpenTemporary, WriteTemporary, RenameTemporary, RenameFails, vars, historyVars, TypeOK
<1>A. Sound
  BY <1>0 DEF StoreInv
<1> USE DEF Sound, Alone, SnapshotCurrent, MemoryCurrent, FileCurrent, Persisting, readable
<1>1. CASE Crash
  BY <1>1, <1>A DEF Crash, fileVars, Idle
<1>2. CASE Restart
  BY <1>2, <1>A DEF Restart, fileVars, historyVars
<1>3. ASSUME NEW r \in Requests, PurgeShares(r) PROVE Sound'
  <2>1. \A z \in Requests \ {r} : req'[z] = req[z] /\ req[z].pc = "idle"
    BY <1>3, <1>0 DEF PurgeShares, BeginPersist, TypeOK
  <2>2. req'[r].pc = "mkdir"
    BY <1>3 DEF PurgeShares, BeginPersist, TypeOK, Idle
  <2> QED BY <1>3, <1>A, <2>1, <2>2 DEF PurgeShares, fileVars
<1>4. ASSUME NEW r \in Requests, NEW share \in Shares, SubmitShare(r, share) PROVE Sound'
  <2>1. \A z \in Requests \ {r} : req'[z] = req[z] /\ req[z].pc = "idle"
    BY <1>4, <1>0 DEF SubmitShare, BeginPersist, TypeOK
  <2>2. req'[r].pc = "mkdir"
    BY <1>4 DEF SubmitShare, BeginPersist, TypeOK, Idle
  <2> QED BY <1>4, <1>A, <2>1, <2>2 DEF SubmitShare, fileVars
<1>5. ASSUME NEW r \in Requests, TakeSnapshot(r) PROVE Sound'
  <2>1. req'[r].pc = "open" /\ req'[r].snap = held /\ req[r].pc # "idle"
        /\ \A z \in Requests \ {r} : req'[z] = req[z]
    BY <1>5 DEF TakeSnapshot, TypeOK
  <2> QED BY <1>5, <1>A, <2>1 DEF TakeSnapshot, fileVars, historyVars
<1>6. ASSUME NEW r \in Requests, OpenTemporary(r) PROVE Sound'
  <2>1. req'[r].pc = "write" /\ req'[r].at = "tmp" /\ req'[r].snap = req[r].snap /\ req[r].pc = "open"
        /\ \A z \in Requests \ {r} : req'[z] = req[z]
    BY <1>6 DEF OpenTemporary, TypeOK
  <2> QED BY <1>6, <1>A, <2>1 DEF OpenTemporary, historyVars
<1>7. ASSUME NEW r \in Requests, WriteTemporary(r) PROVE Sound'
  <2>1. req'[r].pc = "rename" /\ req'[r].snap = req[r].snap /\ req[r].pc = "write"
        /\ \A z \in Requests \ {r} : req'[z] = req[z]
    BY <1>7 DEF WriteTemporary, TypeOK
  <2>2. req[r].at = "tmp" /\ tmp = Empty /\ req[r].snap = held
    BY <1>A, <2>1
  <2>3. Overwritten(tmp, req[r].snap) = {StateFile(held)}
    BY <2>2 DEF Overwritten, Empty
  <2>4. tmp' = StateFile(held) /\ disk' = disk
    BY <1>7, <2>2, <2>3 DEF WriteTemporary
  <2> QED BY <1>7, <1>A, <2>1, <2>4 DEF WriteTemporary, historyVars, StateFile
<1>8. ASSUME NEW r \in Requests, RenameTemporary(r) PROVE Sound'
  <2>1. up /\ tmp = StateFile(held) /\ \A z \in Requests \ {r} : req[z].pc = "idle"
    BY <1>8, <1>A DEF RenameTemporary
  <2>2. \A z \in Requests : req'[z].pc = "idle"
    BY <1>8, <2>1 DEF RenameTemporary, TypeOK, Idle
  <2>3. disk'.kind = "state" /\ disk'.shares = held /\ held' = held
    BY <1>8, <2>1 DEF RenameTemporary, StateFile
  <2>4. accepted' \subseteq held /\ purged' \cap held = {}
    BY <1>8, <1>A, <2>1 DEF RenameTemporary
  <2> QED BY <2>2, <2>3, <2>4
<1>9. ASSUME NEW r \in Requests, RenameFails(r) PROVE Sound'
  <2>1. req'[r].pc = "idle" /\ \A z \in Requests \ {r} : req'[z] = req[z]
    BY <1>9 DEF RenameFails, TypeOK, Idle
  <2> QED BY <1>9, <1>A, <2>1 DEF RenameFails, fileVars, historyVars
<1>10. CASE UNCHANGED vars
  BY <1>10, <1>A DEF vars, fileVars, historyVars
<1> QED BY <1>1, <1>2, <1>3, <1>4, <1>5, <1>6, <1>7, <1>8, <1>9, <1>10 DEF Next, PersistStep

\* Wherever a member service crashes, its state file is readable, has every
\* share it accepted and none it confirmed to have purged, as long as no two of
\* its persists overlapped.
THEOREM DurableWhileAlone == Spec => []DurableAlone
<1>1. Init => StoreInv
  BY DEF Init, StoreInv, Sound, Alone, SnapshotCurrent, MemoryCurrent, FileCurrent, readable,
         Persisting, Idle, NoFile
<1>2. TypeOK /\ StoreInv /\ [Next]_vars => StoreInv'
  BY StoreInvStep
<1>3. StoreInv => DurableAlone
  BY DEF StoreInv, Sound, FileCurrent, DurableAlone
<1> QED BY <1>1, <1>2, <1>3, TypeCorrect, PTL DEF Spec
=============================================================================
