------------------------------- MODULE Indexer -------------------------------
(***************************************************************************)
(* The indexer: one snapshot when it starts, then one for every quiet       *)
(* moment after program logs. A snapshot lists five kinds of accounts in    *)
(* concurrent calls, joins them, writes a temporary file and renames it     *)
(* over the output. Nothing keeps two snapshots from running at once, and   *)
(* they share the temporary file. Files are inodes: a rename moves the      *)
(* name, a writer keeps writing where it opened.                            *)
(***************************************************************************)
EXTENDS Naturals, FiniteSets

CONSTANTS
  Markets,      \* public markets that may be created
  Runs,         \* calls of writeSnapshot that may overlap
  Inodes,
  MaxChanges    \* bound on transactions of the program

VARIABLES
  chain,        \* chain[m]: "absent", "open" or "resolved"
  changes,      \* transactions so far
  process,      \* "starting", "watching", "exited"
  scheduled,    \* whether the debounce timer is armed
  run,          \* run[i]: where a call of writeSnapshot is
  file,         \* file.tmp, file.output: an inode or None
  data,         \* what each inode holds
  overlapped,   \* history: two snapshots have run at once
  unnoticed     \* history: a change or a failed snapshot no later log made up for

chainVars == <<chain, changes>>
fileVars == <<file, data>>
history == <<overlapped, unnoticed>>
vars == <<chainVars, process, scheduled, run, fileVars, history>>

None == "none"
Partial == [whole |-> FALSE]
Whole(snapshot) == [whole |-> TRUE, snapshot |-> snapshot]
Idle == [pc |-> "idle"]
Lists == {"hybridMarket", "oracleConfig", "resolutionReceipt"}
Created == {m \in Markets : chain[m] # "absent"}

\* What a listing returns now: the oracle account is created with its market,
\* the receipt when the market is resolved.
all(list) ==
  CASE list = "hybridMarket"      -> [m \in Created |-> chain[m]]
    [] list = "oracleConfig"      -> [m \in Created |-> TRUE]
    [] list = "resolutionReceipt" -> [m \in {n \in Created : chain[n] = "resolved"} |-> TRUE]

Init ==
  /\ chain = [m \in Markets |-> "absent"] /\ changes = 0
  /\ process = "starting" /\ scheduled = FALSE
  /\ run = [i \in Runs |-> Idle]
  /\ file = [tmp |-> None, output |-> None]
  /\ data = [n \in Inodes |-> Partial]
  /\ overlapped = FALSE /\ unnoticed = FALSE

-----------------------------------------------------------------------------
\* A call starts: on its own when the process does, from the timer afterwards.
startRun(i) ==
  /\ run[i] = Idle
  /\ run' = [run EXCEPT ![i] = [pc |-> "reading", rows |-> [l \in {} |-> Idle]]]
  /\ overlapped' = (overlapped \/ \E j \in Runs : run[j] # Idle)

firstSnapshot(i) ==
  /\ process = "starting" /\ \A j \in Runs : run[j] = Idle
  /\ startRun(i)
  /\ UNCHANGED <<chainVars, process, scheduled, fileVars, unnoticed>>

debounced(i) ==
  /\ process = "watching" /\ scheduled
  /\ scheduled' = FALSE
  /\ startRun(i)
  /\ UNCHANGED <<chainVars, process, fileVars, unnoticed>>

\* Promise.all: each listing answers from the chain at its own moment.
readList(i, l) ==
  /\ run[i].pc = "reading" /\ l \in Lists \ DOMAIN run[i].rows
  /\ run' = [run EXCEPT ![i].rows =
               [k \in DOMAIN @ \cup {l} |-> IF k = l THEN all(l) ELSE run[i].rows[k]]]
  /\ UNCHANGED <<chainVars, process, scheduled, fileVars, history>>

\* One market of the snapshot, joined from the listings.
buildHybridMarketSnapshot(rows, m) ==
  [phase |-> rows.hybridMarket[m], receipt |-> m \in DOMAIN rows.resolutionReceipt]

Snapshot(rows) ==
  [m \in DOMAIN rows.hybridMarket |-> buildHybridMarketSnapshot(rows, m)]

\* A market without an oracle account fails the whole snapshot.
build(i) ==
  /\ run[i].pc = "reading" /\ DOMAIN run[i].rows = Lists
  /\ DOMAIN run[i].rows.hybridMarket \subseteq DOMAIN run[i].rows.oracleConfig
  /\ run' = [run EXCEPT ![i] = [pc |-> "built", snapshot |-> Snapshot(run[i].rows)]]
  /\ UNCHANGED <<chainVars, process, scheduled, fileVars, history>>

\* A failure ends the process if it is the first call's, and is logged otherwise.
fails(i) ==
  /\ run' = [run EXCEPT ![i] = Idle]
  /\ process' = IF process = "starting" THEN "exited" ELSE process
  /\ unnoticed' = TRUE

readFails(i) ==
  /\ run[i].pc = "reading" /\ fails(i)
  /\ UNCHANGED <<chainVars, scheduled, fileVars, overlapped>>

Writers(n) == {j \in Runs : run[j].pc = "writing" /\ run[j].fd = n}
Unused == {n \in Inodes : n # file.tmp /\ n # file.output /\ Writers(n) = {}}

\* A writer that opens the output itself.
openTemporary_in_place(i) ==
  LET n == IF file.output # None THEN file.output ELSE CHOOSE k \in Unused : TRUE
  IN  /\ run[i].pc = "built"
      /\ run' = [run EXCEPT ![i] = [pc |-> "writing", snapshot |-> @.snapshot, fd |-> n]]
      /\ file' = [tmp |-> n, output |-> n]
      /\ data' = [data EXCEPT ![n] = Partial]
      /\ UNCHANGED <<chainVars, process, scheduled, history>>

\* writeFile opens the one temporary name and truncates what is there.
openTemporary(i) ==
  LET n == IF file.tmp # None THEN file.tmp ELSE CHOOSE k \in Unused : TRUE
  IN  /\ run[i].pc = "built"
      /\ run' = [run EXCEPT ![i] = [pc |-> "writing", snapshot |-> @.snapshot, fd |-> n]]
      /\ file' = [file EXCEPT !.tmp = n]
      /\ data' = [data EXCEPT ![n] = Partial]
      /\ UNCHANGED <<chainVars, process, scheduled, history>>

\* Two writers of one inode may leave a mixture.
finishWrite(i) ==
  /\ run[i].pc = "writing"
  /\ \E content \in {Whole(run[i].snapshot)} \cup
         IF Writers(run[i].fd) = {i} THEN {} ELSE {Partial} :
       data' = [data EXCEPT ![run[i].fd] = content]
  /\ run' = [run EXCEPT ![i] = [pc |-> "written"]]
  /\ UNCHANGED <<chainVars, process, scheduled, file, history>>

\* The first snapshot done, the process subscribes or, indexing once, ends.
renameTemporary(i) ==
  /\ run[i].pc = "written" /\ file.tmp # None
  /\ file' = [tmp |-> None, output |-> file.tmp]
  /\ run' = [run EXCEPT ![i] = Idle]
  /\ process' \in IF process = "starting" THEN {"watching", "exited"} ELSE {process}
  /\ UNCHANGED <<chainVars, scheduled, data, history>>

\* Another call has renamed the file away.
renameFails(i) ==
  /\ run[i].pc = "written" /\ file.tmp = None
  /\ fails(i)
  /\ UNCHANGED <<chainVars, scheduled, fileVars, overlapped>>

-----------------------------------------------------------------------------
\* onLogs: every log pushes the timer back.
onLogs_while_idle ==
  IF process = "watching" /\ \A i \in Runs : run[i] = Idle
  THEN scheduled' = TRUE /\ unnoticed' = FALSE
  ELSE scheduled' = scheduled /\ unnoticed' = unnoticed
onLogs ==
  IF process = "watching"
  THEN scheduled' = TRUE /\ unnoticed' = FALSE
  ELSE scheduled' = scheduled /\ unnoticed' = TRUE

\* A transaction changes a market; the subscription reports it, or, if it
\* reconnects just then or does not stand yet, reports nothing.
change(m) ==
  /\ changes < MaxChanges /\ changes' = changes + 1
  /\ chain[m] # "resolved"
  /\ chain' = [chain EXCEPT ![m] = IF @ = "absent" THEN "open" ELSE "resolved"]
  /\ \/ onLogs
     \/ scheduled' = scheduled /\ unnoticed' = TRUE
  /\ UNCHANGED <<process, run, fileVars, overlapped>>

writeSnapshot(i) ==
  \/ \E l \in Lists : readList(i, l)
  \/ build(i) \/ openTemporary(i) \/ finishWrite(i) \/ renameTemporary(i)

Next ==
  \/ \E i \in Runs :
       firstSnapshot(i) \/ debounced(i) \/ writeSnapshot(i) \/ readFails(i) \/ renameFails(i)
  \/ \E m \in Markets : change(m)

\* Calls that were answered go on, and the timer fires.
Fairness ==
  /\ \A i \in Runs : WF_vars(writeSnapshot(i))
  /\ WF_vars(\E i \in Runs : debounced(i))

Spec == Init /\ [][Next]_vars /\ Fairness

-----------------------------------------------------------------------------
\* A reader of the index never meets a missing or half-written file once there
\* was a whole one, wherever the indexer is in a write, unless two snapshots
\* have overlapped and truncated each other's temporary file.
FileWhole ==
  overlapped \/ file.output = None \/ data[file.output].whole

Current == [m \in Created |-> [phase |-> chain[m], receipt |-> chain[m] = "resolved"]]

\* The index catches up. When the last log, however it fell between the reads
\* and the writes of a running snapshot, was received after the last change and
\* the last failure, and snapshots did not overlap, the file ends up with every
\* market as it is on chain, receipt and phase agreeing.
FileCatchesUp ==
  [](~overlapped) /\ <>[](process = "watching" /\ ~unnoticed)
    => <>[](file.output # None /\ data[file.output] = Whole(Current))
-----------------------------------------------------------------------------
(* The inductive invariant.                                                *)


\* What a call of writeSnapshot has kept at each of its steps.
RunShape(r) ==
  \/ r = Idle
  \/ r.pc = "reading" /\ r = [pc |-> "reading", rows |-> r.rows]
  \/ r.pc = "built" /\ r = [pc |-> "built", snapshot |-> r.snapshot]
  \/ r.pc = "writing" /\ r = [pc |-> "writing", snapshot |-> r.snapshot, fd |-> r.fd]
  \/ r = [pc |-> "written"]

\* While snapshots do not overlap the one that runs writes the file that has
\* the temporary name, has it whole when it is to rename it, and never touches
\* the inode that has the output's name.
AloneFacts ==
  /\ \A i, j \in Runs : run[i] # Idle /\ run[j] # Idle => i = j
  /\ file.tmp # None => file.tmp # file.output
  /\ \A i \in Runs :
       /\ run[i].pc = "writing" => run[i].fd = file.tmp /\ file.tmp # None
       /\ run[i].pc = "written" => file.tmp # None /\ data[file.tmp].whole
  /\ file.output # None => data[file.output].whole

IndexerOK ==
  /\ DOMAIN run = Runs /\ run = [i \in Runs |-> run[i]] /\ \A i \in Runs : RunShape(run[i])
  /\ overlapped \in BOOLEAN
  /\ ~overlapped =>
       /\ file \in [tmp : Inodes \cup {None}, output : Inodes \cup {None}]
       /\ DOMAIN data = Inodes /\ data = [n \in Inodes |-> data[n]]

IndexerIInv == IndexerOK /\ (~overlapped => AloneFacts)
=============================================================================
