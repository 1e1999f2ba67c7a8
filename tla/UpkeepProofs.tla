---------------------------- MODULE UpkeepProofs ----------------------------
(***************************************************************************)
(* Proofs about what the service does beside its batches, in Upkeep, for   *)
(* any number of requests, calls and runs, batches, commits, samples and   *)
(* results.  Updates that overlap install what they pulled; the rows that  *)
(* retention removed are in an archive, but for batches that two calls had *)
(* listed at once; a backup that was alone leaves its zip; slow samples    *)
(* are recorded and told; the list of batches agrees with its filters.     *)
(***************************************************************************)
EXTENDS Upkeep, FiniteSetTheorems, SequenceTheorems, TLAPS

(* Self-update *)

\* Nothing on the machine is ahead of the checkout, nor the checkout of origin.
Ordered == head <= remote /\ venv <= head /\ bundle <= head

\* What a thread has pulled is in the checkout, whoever pulls beside it.
PulledIsThere ==
  \A a \in Applies :
    apply[a] \in {"sync", "install", "build", "spawn"} /\ new[a] # Unknown
      => new[a] <= head

\* What a thread has synchronised is in the environment...
SyncedIsThere ==
  \A a \in Applies :
    apply[a] \in {"install", "build", "spawn"} /\ old[a] # Unknown /\ new[a] # Unknown
      => \A c \in old[a] + 1 .. new[a] : Touches[c] => venv >= c

\* ...and what it has built in the page.
BuiltIsThere ==
  \A a \in Applies :
    apply[a] = "spawn" /\ new[a] # Unknown => bundle >= new[a]

UpdateInv == TypeOK /\ Ordered /\ PulledIsThere /\ SyncedIsThere /\ BuiltIsThere

-----------------------------------------------------------------------------
LEMMA NullCommit ==
  0 \in Commits /\ Unknown \notin Commits /\ \A c \in Commits : c \in Nat
BY UpdateAssumption DEF Commits, Unknown

LEMMA InitUpdate == Init => UpdateInv
<1> SUFFICES ASSUME Init PROVE UpdateInv
  OBVIOUS
<1>1. TypeOK
  BY NullCommit DEF Init, TypeOK
<1>2. Ordered
  BY DEF Init, Ordered
<1>3. PulledIsThere /\ SyncedIsThere /\ BuiltIsThere
  BY DEF Init, PulledIsThere, SyncedIsThere, BuiltIsThere
<1> QED BY <1>1, <1>2, <1>3 DEF UpdateInv

(* Types *)

LEMMA TypeNext == TypeOK /\ [Next]_updateVars => TypeOK'
<1> SUFFICES ASSUME TypeOK, [Next]_updateVars PROVE TypeOK'
  OBVIOUS
<1> USE NullCommit DEF TypeOK
<1>1. ASSUME NEW a \in Applies, ApplyStep(a) PROVE TypeOK'
  <2>1. ASSUME NEW force \in BOOLEAN, Apply(a, force) PROVE TypeOK'
    BY <2>1 DEF Apply, Goto, repo
  <2>2. CASE ReadOld(a)
    BY <2>2 DEF ReadOld, Goto, repo
  <2>3. CASE Pull(a)
    BY <2>3 DEF Pull, Goto
  <2>4. CASE ReadNew(a)
    BY <2>4 DEF ReadNew, Goto, repo
  <2>5. CASE Sync(a)
    BY <2>5 DEF Sync, Goto
  <2>6. CASE Install(a)
    BY <2>6 DEF Install, Goto, repo
  <2>7. CASE Build(a)
    BY <2>7 DEF Build, Goto
  <2>8. CASE Spawn(a)
    BY <2>8 DEF Spawn, Ends, Goto, repo
  <2>9. CASE Fails(a)
    BY <2>9 DEF Fails, Ends, Goto, repo
  <2>10. CASE Answer(a)
    BY <2>10 DEF Answer, Ends, Goto, repo
  <2>11. CASE Restart(a)
    BY <2>11 DEF Restart
  <2> QED BY <1>1, <2>1, <2>2, <2>3, <2>4, <2>5, <2>6, <2>7, <2>8, <2>9, <2>10, <2>11
          DEF ApplyStep
<1>2. CASE FetchTick
  BY <1>2 DEF FetchTick, thread
<1>3. CASE Push
  BY <1>3, UpdateAssumption DEF Push, thread, Commits
<1>4. CASE SetEnabled
  BY <1>4 DEF SetEnabled, repo, thread
<1>5. ASSUME NEW b \in Batches, Submit(b) \/ BatchEnds(b) PROVE TypeOK'
  BY <1>5 DEF Submit, BatchEnds, repo, thread
<1>6. CASE UNCHANGED updateVars
  BY <1>6 DEF updateVars, repo, thread
<1> QED BY <1>1, <1>2, <1>3, <1>4, <1>5, <1>6 DEF Next

(* The checkout, the environment and the page only go forward *)

LEMMA Forward ==
  ASSUME TypeOK, Ordered, [Next]_updateVars
  PROVE  Ordered' /\ head' >= head /\ venv' >= venv /\ bundle' >= bundle
<1> USE NullCommit DEF TypeOK, Ordered
<1>1. ASSUME NEW a \in Applies, ApplyStep(a)
      PROVE  Ordered' /\ head' >= head /\ venv' >= venv /\ bundle' >= bundle
  <2>1. CASE Pull(a)
    BY <2>1 DEF Pull
  <2>2. CASE Sync(a)
    BY <2>2 DEF Sync
  <2>3. CASE Build(a)
    BY <2>3 DEF Build
  <2>4. CASE Restart(a)
    BY <2>4 DEF Restart
  <2>5. CASE UNCHANGED repo
    BY <2>5 DEF repo
  <2> QED BY <1>1, <2>1, <2>2, <2>3, <2>4, <2>5
          DEF ApplyStep, Apply, ReadOld, ReadNew, Install, Spawn, Fails, Answer
<1>2. CASE FetchTick
  BY <1>2 DEF FetchTick
<1>3. CASE Push
  BY <1>3 DEF Push
<1>4. CASE UNCHANGED repo
  BY <1>4 DEF repo
<1> QED BY <1>1, <1>2, <1>3, <1>4
        DEF Next, SetEnabled, Submit, BatchEnds, updateVars

(* What the threads have done stays done *)

LEMMA ThreadsNext == UpdateInv /\ [Next]_updateVars =>
                       PulledIsThere' /\ SyncedIsThere' /\ BuiltIsThere'
<1> SUFFICES ASSUME UpdateInv, [Next]_updateVars
             PROVE  PulledIsThere' /\ SyncedIsThere' /\ BuiltIsThere'
  OBVIOUS
<1> DEFINE Done(a) ==
      /\ apply[a] \in {"sync", "install", "build", "spawn"} /\ new[a] # Unknown
           => new[a] <= head
      /\ apply[a] \in {"install", "build", "spawn"} /\ old[a] # Unknown /\ new[a] # Unknown
           => \A c \in old[a] + 1 .. new[a] : Touches[c] => venv >= c
      /\ apply[a] = "spawn" /\ new[a] # Unknown => bundle >= new[a]
<1>1. TypeOK /\ Ordered /\ \A a \in Applies : Done(a)
  BY DEF UpdateInv, PulledIsThere, SyncedIsThere, BuiltIsThere
<1>2. TypeOK' /\ Ordered' /\ head' >= head /\ venv' >= venv /\ bundle' >= bundle
  BY <1>1, TypeNext, Forward
<1>3. ASSUME NEW a \in Applies,
             UNCHANGED <<old[a], new[a], apply[a]>> \/ apply'[a] \in {"idle", "begun", "pull", "pulled", "current"}
      PROVE  Done(a)'
  BY <1>1, <1>2, <1>3, NullCommit DEF TypeOK
<1>4. ASSUME NEW q \in Applies, ApplyStep(q) PROVE \A a \in Applies : Done(a)'
  <2> USE <1>1
  <2>1. ASSUME NEW force \in BOOLEAN, Apply(q, force) PROVE \A a \in Applies : Done(a)'
    BY <2>1, <1>3 DEF Apply, Goto, TypeOK
  <2>2. CASE ReadOld(q)
    BY <2>2, <1>3 DEF ReadOld, Goto, TypeOK
  <2>3. CASE Pull(q)
    BY <2>3, <1>3 DEF Pull, Goto, TypeOK
  <2>4. CASE ReadNew(q)
    <3>1. Done(q)'
      BY <2>4, NullCommit DEF ReadNew, Goto, TypeOK, repo
    <3>2. \A a \in Applies \ {q} : Done(a)'
      BY <2>4, <1>3 DEF ReadNew, Goto, TypeOK
    <3> QED BY <3>1, <3>2
  <2>5. CASE Sync(q)
    <3>1. Done(q)'
      BY <2>5, <1>2, NullCommit DEF Sync, Goto, TypeOK, DepsChanged
    <3>2. \A a \in Applies \ {q} : Done(a)'
      BY <2>5, <1>3 DEF Sync, Goto, TypeOK
    <3> QED BY <3>1, <3>2
  <2>6. CASE Install(q)
    <3>1. Done(q)'
      BY <2>6, <1>2, NullCommit DEF Install, Goto, TypeOK, repo
    <3>2. \A a \in Applies \ {q} : Done(a)'
      BY <2>6, <1>3 DEF Install, Goto, TypeOK
    <3> QED BY <3>1, <3>2
  <2>7. CASE Build(q)
    <3>1. Done(q)'
      BY <2>7, <1>2, NullCommit DEF Build, Goto, TypeOK
    <3>2. \A a \in Applies \ {q} : Done(a)'
      BY <2>7, <1>3 DEF Build, Goto, TypeOK
    <3> QED BY <3>1, <3>2
  <2>8. CASE Spawn(q) \/ Fails(q) \/ Answer(q)
    BY <2>8, <1>3 DEF Spawn, Fails, Answer, Ends, Goto, TypeOK
  <2>9. CASE Restart(q)
    BY <2>9, <1>3 DEF Restart
  <2> QED BY <1>4, <2>1, <2>2, <2>3, <2>4, <2>5, <2>6, <2>7, <2>8, <2>9 DEF ApplyStep
<1>5. ASSUME UNCHANGED thread PROVE \A a \in Applies : Done(a)'
  BY <1>5, <1>3 DEF thread
<1>6. \A a \in Applies : Done(a)'
  BY <1>4, <1>5 DEF Next, FetchTick, Push, SetEnabled, Submit, BatchEnds, updateVars
<1> QED BY <1>6 DEF PulledIsThere, SyncedIsThere, BuiltIsThere

LEMMA NextUpdate == UpdateInv /\ [Next]_updateVars => UpdateInv'
BY TypeNext, Forward, ThreadsNext DEF UpdateInv

\* However many updates overlap, what one of them pulled is built and installed when
\* it schedules its restart: UpdateIsSafe (system/updater.py, api/system.py).  What
\* an earlier update left out is not: see StagedIsWhole.
THEOREM UpdatesAreSafe == UpkeepSpec => []UpdateIsSafe
<1>1. UpdateInv => UpdateIsSafe
  BY DEF UpdateInv, UpdateIsSafe, PulledIsInstalled, SyncedIsThere, BuiltIsThere
<1>2. UpkeepInit => Init
  BY DEF UpkeepInit
<1>3. [UpkeepNext]_UpkeepVars => [Next]_updateVars
  BY DEF UpkeepNext, UpdateStep, RetentionStep, BackupStep, AnomalyStep, ListStep, UpkeepVars
<1> QED BY <1>1, <1>2, <1>3, InitUpdate, NextUpdate, PTL DEF UpkeepSpec

-----------------------------------------------------------------------------
(* Retention *)

\* But for the batches that two calls had listed at once, a batch is in the hands
\* of one call...
ListedOnce ==
  \A c, d \in Pruners : c # d => Archive!Listed(c) \cap Archive!Listed(d) \subseteq shared

\* ...and what a call has yet to handle still has its rows, unless a user deleted it.
ToDoIsThere == \A c \in Pruners : \A b \in Archive!Listed(c) \ shared : row[b] # "pruned"

\* Rows do not come back: those that are there were there for the snapshot...
SnapshotHasRows ==
  \A c \in Pruners : stage[c] \in {"archive", "delete"} =>
    \A b \in cur[c] \cap Archive!Present : snap[c]

\* ...so they are in the archive when it is their turn to go.
ArchivedFirst ==
  Archiving => \A c \in Pruners : stage[c] = "delete" =>
    \A b \in (cur[c] \cap Archive!Present) \ shared :
      {"zip", "rows"} \subseteq zip[b] \/ b \in expired

\* What a call has in its hands is one batch, which it will not pick again.
CurIsPicked ==
  \A c \in Pruners : stage[c] \in {"archive", "delete"} =>
    \A b \in cur[c] : cur[c] = {b} /\ b \notin pruning[c]

ArchiveInv ==
  /\ Archive!TypeOK /\ Archive!PrunedIsArchived
  /\ ListedOnce /\ ToDoIsThere /\ SnapshotHasRows /\ ArchivedFirst /\ CurIsPicked

-----------------------------------------------------------------------------
LEMMA InitArchive == UpkeepInit => ArchiveInv
<1> SUFFICES ASSUME Archive!Init PROVE ArchiveInv
  BY DEF UpkeepInit
<1>1. Archive!TypeOK
  BY DEF Archive!Init, Archive!TypeOK, Archive!Files
<1>2. Archive!PrunedIsArchived
  BY DEF Archive!Init, Archive!PrunedIsArchived
<1>3. ListedOnce /\ ToDoIsThere /\ SnapshotHasRows /\ ArchivedFirst /\ CurIsPicked
  BY DEF Archive!Init, ListedOnce, ToDoIsThere, SnapshotHasRows, ArchivedFirst, CurIsPicked, Archive!Listed
<1> QED BY <1>1, <1>2, <1>3 DEF ArchiveInv

LEMMA ArchiveTypeNext == Archive!TypeOK /\ Archive!Next => Archive!TypeOK'
<1> SUFFICES ASSUME Archive!TypeOK, Archive!Next PROVE Archive!TypeOK'
  OBVIOUS
<1> USE DEF Archive!TypeOK, Archive!data, Archive!work, Archive!Goto, Archive!Files
<1>1. ASSUME NEW c \in Pruners, Archive!PruneStep(c) PROVE Archive!TypeOK'
  <2>1. CASE Archive!Begin(c)
    BY <2>1 DEF Archive!Begin, Archive!LiveZips, Archive!OldEnded
  <2>2. ASSUME NEW b \in Archivable, Archive!Pick(c, b) PROVE Archive!TypeOK'
    BY <2>2 DEF Archive!Pick
  <2>3. CASE Archive!ArchiveBatch(c)
    BY <2>3 DEF Archive!ArchiveBatch, Archive!Snapshot
  <2>4. CASE Archive!DeleteRows(c)
    BY <2>4 DEF Archive!DeleteRows
  <2>5. CASE Archive!PurgeFiles(c)
    BY <2>5 DEF Archive!PurgeFiles, Archive!Purged
  <2>6. CASE Archive!EndPrune(c)
    BY <2>6 DEF Archive!EndPrune
  <2>7. CASE Archive!Sweep(c)
    <3>1. PICK gone \in SUBSET age :
            disk' = [b \in Archivable |-> IF b \in gone THEN disk[b] \ {"logs"} ELSE disk[b]]
      BY <2>7 DEF Archive!Sweep
    <3>2. disk' \in [Archivable -> SUBSET {"results", "logs"}]
      BY <3>1
    <3> QED BY <2>7, <3>2 DEF Archive!Sweep
  <2> QED BY <1>1, <2>1, <2>2, <2>3, <2>4, <2>5, <2>6, <2>7 DEF Archive!PruneStep
<1>2. ASSUME NEW b \in Archivable, Archive!BatchEnds(b) \/ Archive!BatchAges(b) \/ Archive!ArchiveAges(b)
      PROVE  Archive!TypeOK'
  BY <1>2 DEF Archive!BatchEnds, Archive!BatchAges, Archive!ArchiveAges
<1>3. ASSUME NEW b \in Archivable, Archive!UserDeletes(b) \/ Archive!UserPurges(b)
      PROVE  Archive!TypeOK'
  BY <1>3 DEF Archive!UserDeletes, Archive!UserPurges, Archive!Purged
<1>4. CASE Archive!Kill
  BY <1>4 DEF Archive!Kill
<1> QED BY <1>1, <1>2, <1>3, <1>4 DEF Archive!Next

LEMMA ArchiveNext ==
  ASSUME ArchiveInv, Archive!Next
  PROVE  ArchiveInv'
<1>1. Archive!TypeOK /\ Archive!TypeOK'
  BY ArchiveTypeNext DEF ArchiveInv
<1> USE DEF ArchiveInv, ListedOnce, ToDoIsThere, SnapshotHasRows, ArchivedFirst, CurIsPicked,
            Archive!PrunedIsArchived, Archive!Present
<1>2. ASSUME NEW c \in Pruners, Archive!PruneStep(c) PROVE ArchiveInv'
  <2> USE DEF Archive!Goto, Archive!TypeOK, Archive!data
  <2>1. CASE Archive!Begin(c)
    <3>1. /\ zip' = [b \in Archivable |-> IF Archiving /\ b \in expired THEN {} ELSE zip[b]]
          /\ stage' = [stage EXCEPT ![c] = "pick"] /\ stage[c] = "idle"
          /\ pruning' = [pruning EXCEPT ![c] = Archive!OldEnded]
          /\ shared' = shared \cup (Archive!OldEnded \cap UNION {Archive!Listed(d) : d \in Pruners \ {c}})
          /\ UNCHANGED <<row, expired, cur, snap>>
      BY <2>1 DEF Archive!Begin, Archive!LiveZips
    <3>2. Archive!OldEnded = {b \in age : row[b] = "terminal"}
      BY DEF Archive!OldEnded
    <3>3. /\ Archive!Listed(c)' = Archive!OldEnded
          /\ \A d \in Pruners \ {c} : Archive!Listed(d)' = Archive!Listed(d)
      BY <1>1, <3>1 DEF Archive!Listed
    <3>4. \A d \in Pruners \ {c} : Archive!OldEnded \cap Archive!Listed(d) \subseteq shared'
      BY <3>1
    <3>5. ListedOnce' /\ ToDoIsThere'
      BY <3>1, <3>2, <3>3, <3>4
    <3>6. Archive!PrunedIsArchived' /\ SnapshotHasRows' /\ ArchivedFirst' /\ CurIsPicked'
      BY <1>1, <3>1
    <3> QED BY <1>1, <3>5, <3>6
  <2>2. ASSUME NEW b \in Archivable, Archive!Pick(c, b) PROVE ArchiveInv'
    <3>1. /\ b \in pruning[c] /\ stage[c] = "pick"
          /\ pruning' = [pruning EXCEPT ![c] = pruning[c] \ {b}]
          /\ cur' = [cur EXCEPT ![c] = {b}]
          /\ snap' = [snap EXCEPT ![c] = b \in Archive!Present]
          /\ stage' = [stage EXCEPT ![c] = IF Archiving THEN "archive" ELSE "delete"]
          /\ UNCHANGED <<row, zip, expired, shared>>
      BY <2>2 DEF Archive!Pick
    <3>2. \A d \in Pruners : Archive!Listed(d)' = Archive!Listed(d)
      BY <1>1, <3>1 DEF Archive!Listed
    <3>3. ListedOnce' /\ ToDoIsThere'
      BY <3>1, <3>2
    <3>4. Archive!PrunedIsArchived' /\ SnapshotHasRows' /\ ArchivedFirst' /\ CurIsPicked'
      BY <1>1, <3>1
    <3> QED BY <1>1, <3>3, <3>4
  <2>3. CASE Archive!ArchiveBatch(c)
    <3>1. PICK b \in cur[c], ok \in BOOLEAN :
            /\ zip' = [zip EXCEPT ![b] = IF ok THEN Archive!Snapshot(c, b) ELSE {}]
            /\ expired' = expired \ {b}
            /\ stage' = [stage EXCEPT ![c] = IF ok THEN "delete" ELSE "pick"]
      BY <2>3 DEF Archive!ArchiveBatch
    <3>2. stage[c] = "archive" /\ UNCHANGED <<row, pruning, cur, snap, shared>>
      BY <2>3 DEF Archive!ArchiveBatch
    <3>3. b \in Archivable /\ b \in Archive!Listed(c)
      BY <1>1, <3>2 DEF Archive!Listed
    <3>4. \A d \in Pruners : Archive!Listed(d)' \in SUBSET Archive!Listed(d)
      BY <1>1, <3>1, <3>2 DEF Archive!Listed
    <3>5. ListedOnce' /\ ToDoIsThere'
      BY <3>2, <3>4
    <3>6. \A q \in Archivable \ {b} : zip'[q] = zip[q] /\ (q \in expired' <=> q \in expired)
      BY <1>1, <3>1
    <3>7. Archive!PrunedIsArchived' /\ CurIsPicked' /\ SnapshotHasRows'
      <4>1. b \notin shared => row[b] # "pruned"
        BY <3>3
      <4> QED BY <1>1, <3>1, <3>2, <3>6, <4>1
    <3>8. ASSUME NEW d \in Pruners, Archiving, stage'[d] = "delete",
                 NEW q \in cur[d], row[q] \in {"active", "terminal"}, q \notin shared
          PROVE  {"zip", "rows"} \subseteq zip'[q] \/ q \in expired'
      <4>1. CASE d = c
        <5>1. ok
          BY <1>1, <3>1, <3>2, <3>8, <4>1
        <5>2. snap[c] /\ q = b
          BY <3>2, <3>8, <4>1
        <5> QED BY <1>1, <3>1, <3>3, <5>1, <5>2 DEF Archive!Snapshot
      <4>2. CASE d # c
        <5>1. stage[d] = "delete" /\ q \in Archive!Listed(d) /\ q \in Archivable
          BY <1>1, <3>1, <3>8, <4>2 DEF Archive!Listed
        <5>2. q # b
          BY <3>3, <3>8, <4>2, <5>1
        <5> QED BY <3>6, <3>8, <5>1, <5>2
      <4> QED BY <4>1, <4>2
    <3>9. ArchivedFirst'
      BY <3>2, <3>8
    <3> QED BY <1>1, <3>5, <3>7, <3>9
  <2>4. CASE Archive!DeleteRows(c)
    <3>1. PICK b \in cur[c] :
            \/ /\ row[b] \in {"active", "terminal"} /\ row' = [row EXCEPT ![b] = "pruned"]
               /\ stage' = [stage EXCEPT ![c] = "purge"]
            \/ stage' = [stage EXCEPT ![c] = "pick"] /\ row' = row
      BY <2>4 DEF Archive!DeleteRows
    <3>2. stage[c] = "delete" /\ UNCHANGED <<zip, expired, pruning, cur, snap, shared>>
      BY <2>4 DEF Archive!DeleteRows
    <3>3. /\ \A d \in Pruners \ {c} : Archive!Listed(d)' = Archive!Listed(d)
          /\ Archive!Listed(c)' = pruning[c]
          /\ Archive!Listed(c) = pruning[c] \cup cur[c]
      BY <1>1, <3>1, <3>2 DEF Archive!Listed
    <3>4. b \in Archivable /\ b \notin pruning[c]
      BY <1>1, <3>2
    <3>5. ListedOnce'
      BY <3>2, <3>3
    <3>6. ToDoIsThere'
      <4>1. \A d \in Pruners : b \in Archive!Listed(d)' => b \in shared
        BY <3>3, <3>4
      <4>2. \A q \in Archivable : q # b => row'[q] = row[q]
        BY <1>1, <3>1
      <4>3. \A d \in Pruners : Archive!Listed(d)' \in SUBSET (Archive!Listed(d) \cap Archivable)
        BY <1>1, <3>3 DEF Archive!Listed
      <4> QED BY <3>2, <4>1, <4>2, <4>3
    <3>7. Archive!PrunedIsArchived' /\ SnapshotHasRows' /\ ArchivedFirst' /\ CurIsPicked'
      BY <1>1, <3>1, <3>2, <3>4
    <3> QED BY <1>1, <3>5, <3>6, <3>7
  <2>5. CASE Archive!PurgeFiles(c) \/ Archive!EndPrune(c) \/ Archive!Sweep(c)
    <3>1. /\ stage[c] \notin {"archive", "delete"} /\ UNCHANGED <<row, zip, expired, pruning, shared>>
          /\ \E to \in {"pick", "sweep", "idle"} : stage' = [stage EXCEPT ![c] = to]
          /\ \A d \in Pruners \ {c} : cur'[d] = cur[d] /\ snap'[d] = snap[d]
      BY <1>1, <2>5 DEF Archive!PurgeFiles, Archive!EndPrune, Archive!Sweep
    <3>2. \A d \in Pruners : Archive!Listed(d)' = Archive!Listed(d)
      BY <1>1, <3>1 DEF Archive!Listed
    <3>3. ListedOnce' /\ ToDoIsThere'
      BY <3>1, <3>2
    <3>4. Archive!PrunedIsArchived' /\ SnapshotHasRows' /\ ArchivedFirst' /\ CurIsPicked'
      BY <1>1, <3>1
    <3> QED BY <1>1, <3>3, <3>4
  <2> QED BY <1>2, <2>1, <2>2, <2>3, <2>4, <2>5 DEF Archive!PruneStep
<1>3. ASSUME NEW b \in Archivable, Archive!BatchEnds(b) \/ Archive!BatchAges(b) \/ Archive!ArchiveAges(b)
      PROVE  ArchiveInv'
  <2>1. UNCHANGED <<stage, pruning, cur, snap, shared, zip>>
    BY <1>3 DEF Archive!BatchEnds, Archive!BatchAges, Archive!ArchiveAges, Archive!work, Archive!data
  <2>2. \A d \in Pruners : Archive!Listed(d)' = Archive!Listed(d)
    BY <2>1 DEF Archive!Listed
  <2>3. \A q \in Archivable : (row'[q] = "pruned" <=> row[q] = "pruned")
          /\ (row'[q] \in {"active", "terminal"} => row[q] \in {"active", "terminal"})
          /\ (q \in expired => q \in expired')
    BY <1>1, <1>3 DEF Archive!BatchEnds, Archive!BatchAges, Archive!ArchiveAges, Archive!data, Archive!TypeOK
  <2>4. \A d \in Pruners : Archive!Listed(d) \in SUBSET Archivable
    BY <1>1 DEF Archive!Listed, Archive!TypeOK
  <2>5. ListedOnce' /\ ToDoIsThere'
    BY <2>1, <2>2, <2>3, <2>4
  <2>6. Archive!PrunedIsArchived' /\ SnapshotHasRows' /\ ArchivedFirst' /\ CurIsPicked'
    BY <1>1, <2>1, <2>3 DEF Archive!TypeOK
  <2> QED BY <1>1, <2>5, <2>6
<1>4. ASSUME NEW b \in Archivable, Archive!UserDeletes(b) \/ Archive!UserPurges(b)
      PROVE  ArchiveInv'
  <2>1. UNCHANGED <<stage, pruning, cur, snap, shared, zip, expired>>
    BY <1>4 DEF Archive!UserDeletes, Archive!UserPurges, Archive!work, Archive!data
  <2>2. \A d \in Pruners : Archive!Listed(d)' = Archive!Listed(d)
    BY <2>1 DEF Archive!Listed
  <2>3. \A q \in Archivable : (row'[q] = "pruned" => row[q] = "pruned")
          /\ (row'[q] \in {"active", "terminal"} => row[q] \in {"active", "terminal"})
    BY <1>1, <1>4 DEF Archive!UserDeletes, Archive!UserPurges, Archive!TypeOK
  <2>4. \A d \in Pruners : Archive!Listed(d) \in SUBSET Archivable
    BY <1>1 DEF Archive!Listed, Archive!TypeOK
  <2>5. ListedOnce' /\ ToDoIsThere'
    BY <2>1, <2>2, <2>3, <2>4
  <2>6. Archive!PrunedIsArchived' /\ SnapshotHasRows' /\ ArchivedFirst' /\ CurIsPicked'
    BY <1>1, <2>1, <2>3 DEF Archive!TypeOK
  <2> QED BY <1>1, <2>5, <2>6
<1>5. CASE Archive!Kill
  <2>1. PICK torn \in SUBSET UNION {cur[c] : c \in {p \in Pruners : stage[p] = "archive"}} :
          zip' = [b \in Archivable |-> IF b \in torn THEN zip[b] \ {"zip", "rows"} ELSE zip[b]]
    BY <1>5 DEF Archive!Kill
  <2>2. /\ stage' = [c \in Pruners |-> "idle"] /\ pruning' = [c \in Pruners |-> {}]
        /\ row' = [b \in Archivable |-> IF row[b] = "active" THEN "terminal" ELSE row[b]]
        /\ UNCHANGED <<expired, shared>>
    BY <1>5 DEF Archive!Kill
  <2>3. \A c \in Pruners : Archive!Listed(c)' = {}
    BY <2>2 DEF Archive!Listed
  <2>4. \A b \in torn \ shared : row[b] # "pruned"
    BY <2>1 DEF Archive!Listed
  <2>5. Archive!PrunedIsArchived'
    BY <1>1, <2>1, <2>2, <2>4 DEF Archive!TypeOK
  <2>6. SnapshotHasRows' /\ ArchivedFirst' /\ CurIsPicked'
    BY <2>2
  <2> QED BY <1>1, <2>3, <2>5, <2>6
<1> QED BY <1>2, <1>3, <1>4, <1>5 DEF Archive!Next

LEMMA NextArchive == ArchiveInv /\ [UpkeepNext]_UpkeepVars => ArchiveInv'
<1> SUFFICES ASSUME ArchiveInv, [UpkeepNext]_UpkeepVars PROVE ArchiveInv'
  OBVIOUS
<1>1. CASE Archive!Next
  BY <1>1, ArchiveNext
<1>2. CASE UNCHANGED archiveVars
  BY <1>2 DEF archiveVars, ArchiveInv, Archive!TypeOK, Archive!PrunedIsArchived, ListedOnce, ToDoIsThere,
              SnapshotHasRows, ArchivedFirst, CurIsPicked, Archive!Present, Archive!Listed
<1> QED BY <1>1, <1>2
        DEF UpkeepNext, UpdateStep, RetentionStep, BackupStep, AnomalyStep, ListStep, UpkeepVars

\* "if archiving fails, skip the delete so we never lose data" (batch_retention.py),
\* however many calls of it run at once, for all batches but those that two of them
\* had listed together: PrunedStaysArchived.
THEOREM PrunedArchived == UpkeepSpec => []PrunedStaysArchived
<1>1. ArchiveInv => PrunedStaysArchived
  BY DEF ArchiveInv, PrunedStaysArchived
<1> QED BY <1>1, InitArchive, NextArchive, PTL DEF UpkeepSpec
-----------------------------------------------------------------------------
(* Backups *)

\* Beside a run that is marked as alone nobody is at work...
AloneIsAlone ==
  \A r \in Runs \ beside : at[r] # "idle" => \A q \in Runs \ {r} : at[q] = "idle"

\* ...so what it has written is the newest zip, and whole, until it has told it.
WrittenIsNewest ==
  \A r \in Runs \ beside : at[r] \in {"cap", "report"} =>
    Len(zips) > 0 /\ zips[Len(zips)].name = name[r] /\ zips[Len(zips)].whole = TRUE

BackupInv == Backup!TypeOK /\ Backup!FreshIsKept /\ AloneIsAlone /\ WrittenIsNewest

LEMMA Length == ASSUME Backup!TypeOK PROVE Len(zips) \in Nat /\ DOMAIN zips = 1 .. Len(zips)
BY LenProperties DEF Backup!TypeOK

\* The newest zips are zips, and the newest of all is one of them.
LEMMA Newest ==
  ASSUME Backup!TypeOK, NEW n \in 0 .. Len(zips)
  PROVE  LET s == Backup!KeepNewest(n)
         IN  s \in Seq(Backup!BackupZip) /\ Len(s) = n /\ (n > 0 => s[n] = zips[Len(zips)])
<1> DEFINE l == Len(zips)
           s == SubSeq(zips, l - n + 1, l)
<1>1. zips \in Seq(Backup!BackupZip) /\ l \in Nat
  BY Length DEF Backup!TypeOK
<1>2. \A i \in l - n + 1 .. l : i \in 1 .. l
  BY <1>1
<1> HIDE DEF l
<1>3. /\ s \in Seq(Backup!BackupZip)
      /\ Len(s) = (IF l - n + 1 <= l THEN l - (l - n + 1) + 1 ELSE 0)
      /\ \A i \in 1 .. l - (l - n + 1) + 1 : s[i] = zips[l - n + 1 + i - 1]
  <2>1. l - n + 1 \in Int /\ \A i \in l - n + 1 .. l : i \in 1 .. Len(zips)
    BY <1>1, <1>2 DEF l
  <2> QED BY <1>1, <2>1, SubSeqProperties
<1> HIDE DEF s
<1>4. Len(s) = n
  BY <1>1, <1>3 DEF l
<1>5. n > 0 => s[n] = zips[l]
  <2>1. n > 0 => n \in 1 .. l - (l - n + 1) + 1 /\ l - n + 1 + n - 1 = l
    BY <1>1 DEF l
  <2> QED BY <1>3, <2>1
<1> QED BY <1>3, <1>4, <1>5 DEF l, s, Backup!KeepNewest

\* A zip that goes leaves the others: the newest too, unless it is the one.
LEMMA Removed ==
  ASSUME Backup!TypeOK, NEW n
  PROVE  LET s == Backup!Without(n)
         IN  /\ s \in Seq(Backup!BackupZip)
             /\ Len(zips) > 0 /\ zips[Len(zips)].name # n => Len(s) > 0 /\ s[Len(s)] = zips[Len(zips)]
<1> DEFINE l == Len(zips)
<1>1. zips \in Seq(Backup!BackupZip) /\ l \in Nat /\ DOMAIN zips = 1 .. l
  BY Length DEF Backup!TypeOK
<1>2. CASE Backup!Named(n) = {}
  BY <1>1, <1>2 DEF Backup!Without
<1>3. CASE Backup!Named(n) # {}
  <2> PICK i \in 1 .. l : zips[i].name = n /\ Backup!Without(n) = SubSeq(zips, 1, i - 1) \o SubSeq(zips, i + 1, l)
    <3>1. (CHOOSE i \in Backup!Named(n) : TRUE) \in Backup!Named(n)
      BY <1>3
    <3> QED BY <1>1, <1>3, <3>1 DEF Backup!Named, Backup!Without, Backup!RemoveAt
  <2> DEFINE a == SubSeq(zips, 1, i - 1)
             b == SubSeq(zips, i + 1, l)
  <2>1. /\ i - 1 \in Int /\ i + 1 \in Int /\ l \in Int
        /\ \A j \in 1 .. i - 1 : j \in 1 .. l
        /\ \A j \in i + 1 .. l : j \in 1 .. l
    BY <1>1
  <2> HIDE DEF l
  <2>2. a \in Seq(Backup!BackupZip) /\ Len(a) \in Nat
    <3>1. a \in Seq(Backup!BackupZip)
      BY <1>1, <2>1, SubSeqProperties DEF l
    <3> QED BY <3>1, LenProperties
  <2>3. /\ b \in Seq(Backup!BackupZip)
        /\ Len(b) = (IF i + 1 <= l THEN l - (i + 1) + 1 ELSE 0)
        /\ \A j \in 1 .. l - (i + 1) + 1 : b[j] = zips[i + 1 + j - 1]
    BY <1>1, <2>1, SubSeqProperties DEF l
  <2> HIDE DEF a, b
  <2>4. a \o b \in Seq(Backup!BackupZip) /\ Len(a \o b) = Len(a) + Len(b)
        /\ \A j \in 1 .. Len(a) + Len(b) : (a \o b)[j] = IF j <= Len(a) THEN a[j] ELSE b[j - Len(a)]
    BY <2>2, <2>3, ConcatProperties
  <2>5. ASSUME l > 0, zips[l].name # n
        PROVE  Len(a \o b) > 0 /\ (a \o b)[Len(a \o b)] = zips[l]
    <3>1. i < l
      BY <1>1, <2>5
    <3>2. Len(b) = l - i /\ Len(b) > 0 /\ b[Len(b)] = zips[l]
      <4>1. Len(b) = l - i /\ Len(b) > 0
        BY <1>1, <2>3, <3>1
      <4>2. Len(b) \in 1 .. l - (i + 1) + 1 /\ i + 1 + Len(b) - 1 = l
        BY <1>1, <3>1, <4>1
      <4> QED BY <2>3, <4>1, <4>2
    <3>3. Len(a) + Len(b) \in 1 .. Len(a) + Len(b) /\ ~(Len(a) + Len(b) <= Len(a))
          /\ Len(a) + Len(b) - Len(a) = Len(b)
      BY <1>1, <2>2, <3>1, <3>2
    <3> QED BY <2>4, <3>2, <3>3
  <2> QED BY <2>4, <2>5 DEF a, b, l
<1> QED BY <1>2, <1>3

\* What is written is the newest.
LEMMA Newly ==
  ASSUME Backup!TypeOK, NEW n \in 1 .. MaxSecond, NEW ok \in BOOLEAN
  PROVE  LET s == Backup!Written(n, ok)
         IN  /\ s \in Seq(Backup!BackupZip)
             /\ Len(s) > 0 /\ s[Len(s)].name = n /\ s[Len(s)].whole = ok
<1> DEFINE z == [name |-> n, wrote |-> clock, whole |-> ok]
           w == Backup!Without(n)
<1>1. z \in Backup!BackupZip
  BY DEF Backup!TypeOK, Backup!BackupZip
<1>2. w \in Seq(Backup!BackupZip) /\ Len(w) \in Nat
  BY Removed, LenProperties
<1>3. z.name = n /\ z.whole = ok
  OBVIOUS
<1> HIDE DEF z, w
<1>4. Append(w, z) \in Seq(Backup!BackupZip) /\ Len(Append(w, z)) = Len(w) + 1 /\ Append(w, z)[Len(w) + 1] = z
  BY <1>1, <1>2, AppendProperties
<1>5. Backup!Written(n, ok) = Append(w, z)
  BY DEF Backup!Written, w, z
<1> QED BY <1>2, <1>3, <1>4, <1>5

LEMMA InitBackup == UpkeepInit => BackupInv
<1> SUFFICES ASSUME Backup!Init PROVE BackupInv
  BY DEF UpkeepInit
<1> USE BackupAssumption DEF Backup!Init
<1>1. <<>> \in Seq(Backup!BackupZip) /\ Len(<<>>) = 0
  BY EmptySeq
<1>2. Backup!TypeOK
  BY <1>1 DEF Backup!TypeOK
<1>3. Backup!FreshIsKept /\ AloneIsAlone /\ WrittenIsNewest
  BY DEF Backup!FreshIsKept, AloneIsAlone, WrittenIsNewest
<1> QED BY <1>2, <1>3 DEF BackupInv

\* How many zips a run keeps is no more than there are.
LEMMA FreshZips ==
  ASSUME Backup!TypeOK
  PROVE  \A S : Cardinality({i \in DOMAIN zips : i \in S}) \in 0 .. Len(zips)
<1> SUFFICES ASSUME NEW S PROVE Cardinality({i \in DOMAIN zips : i \in S}) \in 0 .. Len(zips)
  OBVIOUS
<1>1. Len(zips) \in Nat /\ DOMAIN zips = 1 .. Len(zips)
  BY Length
<1>2. IsFiniteSet(1 .. Len(zips)) /\ Cardinality(1 .. Len(zips)) = Len(zips)
  <2>1. \A l \in Nat : (IF 1 > l THEN 0 ELSE l - 1 + 1) = l
    OBVIOUS
  <2>2. \A l \in Nat : IsFiniteSet(1 .. l) /\ Cardinality(1 .. l) = l
    BY <2>1, FS_Interval
  <2> QED BY <1>1, <2>2
<1>3. {i \in DOMAIN zips : i \in S} \in SUBSET (1 .. Len(zips))
  BY <1>1
<1> QED BY <1>1, <1>2, <1>3, FS_Subset, FS_CardinalityType

LEMMA BackupNext ==
  ASSUME BackupInv, Backup!Next
  PROVE  BackupInv'
<1>1. /\ Backup!TypeOK /\ lost = {} /\ Len(zips) \in Nat /\ clock \in 1 .. MaxSecond
      /\ at \in [Runs -> {"idle", "copy", "write", "cap", "report"}] /\ name \in [Runs -> 1 .. MaxSecond]
      /\ zips \in Seq(Backup!BackupZip) /\ beside \in SUBSET Runs
      /\ AloneIsAlone /\ WrittenIsNewest
  BY Length DEF BackupInv, Backup!FreshIsKept, Backup!TypeOK
<1> USE DEF Backup!Goto
<1> DEFINE Places == {"idle", "copy", "write", "cap", "report"}
           Typed == /\ clock' \in 1 .. MaxSecond /\ zips' \in Seq(Backup!BackupZip) /\ at' \in [Runs -> Places]
                    /\ name' \in [Runs -> 1 .. MaxSecond] /\ beside' \in SUBSET Runs
<1>2. SUFFICES Typed /\ lost' = {} /\ AloneIsAlone' /\ WrittenIsNewest'
  BY DEF BackupInv, Backup!FreshIsKept, Backup!TypeOK
<1>3. ASSUME NEW r \in Runs, Backup!StartRun(r) \/ Backup!CopyDatabase(r) \/ Backup!WriteZip(r)
                             \/ Backup!Cap(r) \/ Backup!Report(r)
      PROVE  Typed /\ lost' = {} /\ AloneIsAlone' /\ WrittenIsNewest'
  <2>1. ASSUME at[r] # "idle", beside' = beside, NEW to \in Places, at' = [at EXCEPT ![r] = to],
               name' \in [Runs -> 1 .. MaxSecond], \A q \in Runs \ {r} : name'[q] = name[q],
               r \notin beside /\ to \in {"cap", "report"} =>
                 Len(zips') > 0 /\ zips'[Len(zips')].name = name'[r] /\ zips'[Len(zips')].whole = TRUE
        PROVE  at' \in [Runs -> Places] /\ beside' \in SUBSET Runs /\ AloneIsAlone' /\ WrittenIsNewest'
    <3>1. at' \in [Runs -> Places] /\ at'[r] = to /\ \A q \in Runs \ {r} : at'[q] = at[q]
      BY <1>1, <2>1
    <3>2. \A q \in (Runs \ beside) \ {r} : at[q] = "idle"
      BY <1>1, <2>1 DEF AloneIsAlone
    <3>3. AloneIsAlone'
      BY <1>1, <2>1, <3>1, <3>2 DEF AloneIsAlone
    <3>4. WrittenIsNewest'
      BY <2>1, <3>1, <3>2 DEF WrittenIsNewest
    <3> QED BY <1>1, <2>1, <3>1, <3>3, <3>4
  <2>2. CASE Backup!StartRun(r)
    <3>1. zips' \in Seq(Backup!BackupZip)
      <4>1. Backup!Cardinality({i \in DOMAIN zips : zips[i].wrote + Retention >= clock}) \in 0 .. Len(zips)
        <5> DEFINE S == {i \in DOMAIN zips : zips[i].wrote + Retention >= clock}
        <5>1. S = {i \in DOMAIN zips : i \in S}
          OBVIOUS
        <5> HIDE DEF S
        <5>2. Cardinality({i \in DOMAIN zips : i \in S}) \in 0 .. Len(zips)
          BY <1>1, FreshZips
        <5>3. Backup!Cardinality(S) = Cardinality(S)
          BY DEF Backup!Cardinality, Cardinality
        <5>4. Backup!Cardinality(S) \in 0 .. Len(zips)
          BY <5>1, <5>2, <5>3
        <5> QED BY <5>4 DEF S
      <4> QED BY <1>1, <2>2, <4>1, Newest DEF Backup!StartRun, Backup!Fresh
    <3>2. /\ at[r] = "idle" /\ at' = [at EXCEPT ![r] = "copy"] /\ UNCHANGED <<clock, name, lost>>
          /\ beside' = IF Backup!Busy(r) = {} THEN beside \ {r} ELSE beside \cup Backup!Busy(r) \cup {r}
      BY <2>2 DEF Backup!StartRun
    <3>3. Backup!Busy(r) = {q \in Runs \ {r} : at[q] # "idle"}
      BY DEF Backup!Busy
    <3>4. at' \in [Runs -> Places] /\ beside' \in SUBSET Runs
      BY <1>1, <3>2, <3>3
    <3>5. ASSUME NEW q \in Runs \ beside', at'[q] # "idle"
          PROVE  q = r /\ \A p \in Runs \ {r} : at'[p] = "idle"
      BY <1>1, <3>2, <3>3, <3>5
    <3>6. AloneIsAlone' /\ WrittenIsNewest'
      BY <1>1, <3>2, <3>5 DEF AloneIsAlone, WrittenIsNewest
    <3> QED BY <1>1, <3>1, <3>2, <3>4, <3>6
  <2>3. CASE Backup!CopyDatabase(r)
    <3>1. /\ at[r] = "copy" /\ at' = [at EXCEPT ![r] = "write"] /\ name' = [name EXCEPT ![r] = clock]
          /\ zips' = Backup!Written(clock, FALSE) /\ UNCHANGED <<clock, beside, lost>>
      BY <2>3 DEF Backup!CopyDatabase
    <3>2. zips' \in Seq(Backup!BackupZip)
      BY <1>1, <3>1, Newly
    <3>3. name' \in [Runs -> 1 .. MaxSecond] /\ \A q \in Runs \ {r} : name'[q] = name[q]
      BY <1>1, <3>1
    <3> QED BY <1>1, <2>1, <3>1, <3>2, <3>3
  <2>4. CASE Backup!WriteZip(r)
    <3>1. at[r] = "write" /\ UNCHANGED <<clock, name, beside, lost>>
      BY <2>4 DEF Backup!WriteZip
    <3>2. CASE zips' = Backup!Written(name[r], TRUE) /\ at' = [at EXCEPT ![r] = "cap"]
      <4>1. /\ zips' \in Seq(Backup!BackupZip)
            /\ Len(zips') > 0 /\ zips'[Len(zips')].name = name[r] /\ zips'[Len(zips')].whole = TRUE
        BY <1>1, <3>2, Newly
      <4> QED BY <1>1, <2>1, <3>1, <3>2, <4>1
    <3>3. CASE zips' = zips /\ at' = [at EXCEPT ![r] = "idle"]
      BY <1>1, <2>1, <3>1, <3>3
    <3> QED BY <2>4, <3>2, <3>3 DEF Backup!WriteZip
  <2>5. CASE Backup!Cap(r)
    <3>1. at[r] = "cap" /\ at' = [at EXCEPT ![r] = "report"] /\ UNCHANGED <<clock, name, beside, lost>>
      BY <2>5 DEF Backup!Cap
    <3>2. /\ zips' \in Seq(Backup!BackupZip)
          /\ Len(zips) > 0 => Len(zips') > 0 /\ zips'[Len(zips')] = zips[Len(zips)]
      <4>1. CASE MaxCount = 0 \/ Len(zips) <= MaxCount
        BY <1>1, <2>5, <4>1 DEF Backup!Cap
      <4>2. CASE ~(MaxCount = 0 \/ Len(zips) <= MaxCount)
        <5>1. zips' = Backup!KeepNewest(MaxCount) /\ MaxCount \in 0 .. Len(zips) /\ MaxCount > 0
          BY <1>1, <2>5, <4>2, BackupAssumption DEF Backup!Cap
        <5> QED BY <1>1, <5>1, Newest
      <4> QED BY <4>1, <4>2
    <3>3. r \notin beside =>
            Len(zips') > 0 /\ zips'[Len(zips')].name = name[r] /\ zips'[Len(zips')].whole = TRUE
      BY <1>1, <3>1, <3>2 DEF WrittenIsNewest
    <3> QED BY <1>1, <2>1, <3>1, <3>2, <3>3
  <2>6. CASE Backup!Report(r)
    <3>1. at[r] = "report" /\ at' = [at EXCEPT ![r] = "idle"] /\ UNCHANGED <<clock, zips, name, beside>>
      BY <2>6 DEF Backup!Report
    <3>2. r \notin beside => \E z \in Backup!ToSet(zips) : z.name = name[r] /\ z.whole
      <4> SUFFICES ASSUME r \notin beside PROVE \E z \in Backup!ToSet(zips) : z.name = name[r] /\ z.whole
        OBVIOUS
      <4>1. Len(zips) > 0 /\ zips[Len(zips)].name = name[r] /\ zips[Len(zips)].whole = TRUE
        BY <1>1, <3>1 DEF WrittenIsNewest
      <4>2. Len(zips) \in DOMAIN zips
        BY <1>1, <4>1, Length
      <4>3. zips[Len(zips)] \in Backup!ToSet(zips)
        BY <4>2 DEF Backup!ToSet
      <4> QED BY <4>1, <4>3
    <3>3. lost' = {}
      BY <1>1, <2>6, <3>2 DEF Backup!Report
    <3> QED BY <1>1, <2>1, <3>1, <3>3
  <2> QED BY <1>3, <2>2, <2>3, <2>4, <2>5, <2>6
<1>4. ASSUME NEW z \in Backup!ToSet(zips), Backup!Delete(z)
      PROVE  Typed /\ lost' = {} /\ AloneIsAlone' /\ WrittenIsNewest'
  <2>1. zips' = Backup!Without(z.name) /\ UNCHANGED <<clock, at, name, beside, lost>>
    BY <1>4 DEF Backup!Delete
  <2>2. \A r \in Runs : at[r] \in {"cap", "report"} => name[r] # z.name
    BY <1>4 DEF Backup!Delete
  <2>3. zips' \in Seq(Backup!BackupZip)
    BY <1>1, <2>1, Removed
  <2>4. ASSUME NEW r \in Runs \ beside, at[r] \in {"cap", "report"}
        PROVE  Len(zips') > 0 /\ zips'[Len(zips')].name = name[r] /\ zips'[Len(zips')].whole = TRUE
    <3>1. Len(zips) > 0 /\ zips[Len(zips)].name = name[r] /\ zips[Len(zips)].whole = TRUE
      BY <1>1, <2>4 DEF WrittenIsNewest
    <3>2. zips[Len(zips)].name # z.name
      BY <2>2, <2>4, <3>1
    <3>3. Len(zips') > 0 /\ zips'[Len(zips')] = zips[Len(zips)]
      BY <1>1, <2>1, <3>1, <3>2, Removed
    <3> QED BY <3>1, <3>3
  <2>5. AloneIsAlone' /\ WrittenIsNewest'
    BY <1>1, <2>1, <2>4 DEF AloneIsAlone, WrittenIsNewest
  <2> QED BY <1>1, <2>1, <2>3, <2>5
<1>5. CASE Backup!Tick
  <2>1. clock' \in 1 .. MaxSecond /\ UNCHANGED <<zips, at, name, beside, lost>>
    BY <1>1, <1>5, BackupAssumption DEF Backup!Tick
  <2>2. AloneIsAlone' /\ WrittenIsNewest'
    BY <1>1, <2>1 DEF AloneIsAlone, WrittenIsNewest
  <2> QED BY <1>1, <2>1, <2>2
<1>6. CASE Backup!Kill
  <2>1. at' = [r \in Runs |-> "idle"] /\ UNCHANGED <<clock, zips, name, beside, lost>>
    BY <1>6 DEF Backup!Kill
  <2>2. AloneIsAlone' /\ WrittenIsNewest'
    BY <2>1 DEF AloneIsAlone, WrittenIsNewest
  <2> QED BY <1>1, <2>1, <2>2
<1> QED BY <1>3, <1>4, <1>5, <1>6 DEF Backup!Next

LEMMA NextBackup == BackupInv /\ [UpkeepNext]_UpkeepVars => BackupInv'
<1> SUFFICES ASSUME BackupInv, [UpkeepNext]_UpkeepVars PROVE BackupInv'
  OBVIOUS
<1>1. CASE Backup!Next
  BY <1>1, BackupNext
<1>2. CASE UNCHANGED backupVars
  BY <1>2 DEF backupVars, BackupInv, Backup!TypeOK, Backup!FreshIsKept, AloneIsAlone, WrittenIsNewest
<1> QED BY <1>1, <1>2
        DEF UpkeepNext, UpdateStep, RetentionStep, BackupStep, AnomalyStep, ListStep, UpkeepVars

\* "it never prunes the fresh backup itself" (backup.py), whatever the retention, the
\* count and the runs that overlapped before, for every run that had no other beside
\* it: FreshBackupIsKept.
THEOREM BackupKept == UpkeepSpec => []FreshBackupIsKept
<1>1. BackupInv => FreshBackupIsKept
  BY DEF BackupInv, FreshBackupIsKept
<1> QED BY <1>1, InitBackup, NextBackup, PTL DEF UpkeepSpec
-----------------------------------------------------------------------------
(* Anomalies *)

Digest == [at : {"idle", "read", "send"}, now : 0 .. MaxHalf, since : 0 .. MaxHalf, rows : SUBSET Anomaly!Row]

\* What the table and the digest hold is of the past; a window begins where the
\* last one ended.
Moments ==
  /\ \A r \in records : r.created <= second /\ r.created = Anomaly!Second(r.created)
  /\ lastSent <= second
  /\ digest \in Digest /\ digest.rows \subseteq records
  /\ digest.at # "idle" => /\ 1 <= digest.now /\ digest.now <= second /\ lastSent <= digest.now
                           /\ lastSent # 0 => digest.since = lastSent

WindowsAreKnown ==
  /\ lastSent = 0 => windows = {}
  /\ lastSent # 0 => \E w \in windows : w[2] = lastSent
  /\ \A w \in windows : w[2] <= lastSent

\* What is older than the tick, and not too old for its window, is in its message.
Taken ==
  digest.at = "send" =>
    \A r \in records : digest.since <= r.created /\ r.created < Anomaly!Second(digest.now) => r \in digest.rows

\* A backfill knows its own rows.
FillKnowsItsOwn == fill # "idle" => \A r \in records : r.by = "fill" => r.sample \in recorded

AnomalyInv ==
  /\ Anomaly!TypeOK /\ Anomaly!WindowsLeaveNoGap /\ Anomaly!BackfillIsIdempotent
  /\ Moments /\ WindowsAreKnown /\ Taken /\ FillKnowsItsOwn

LEMMA Seconds ==
  \A t \in Nat :
    /\ Anomaly!Second(t) \in Nat /\ Anomaly!Second(t) <= t
    /\ Anomaly!Second(Anomaly!Second(t)) = Anomaly!Second(t)
    /\ \A u \in Nat : t <= u => Anomaly!Second(t) <= Anomaly!Second(u)
<1> SUFFICES ASSUME NEW t \in Nat
             PROVE  /\ 2 * (t \div 2) \in Nat /\ 2 * (t \div 2) <= t
                    /\ 2 * ((2 * (t \div 2)) \div 2) = 2 * (t \div 2)
                    /\ \A u \in Nat : t <= u => 2 * (t \div 2) <= 2 * (u \div 2)
  BY DEF Anomaly!Second
<1>1. \A u \in Nat : t <= u => 2 * (t \div 2) <= 2 * (u \div 2)
  OBVIOUS
<1>2. 2 * (t \div 2) \in Nat /\ 2 * (t \div 2) <= t
  OBVIOUS
<1>3. \A k \in Nat : (2 * k) \div 2 = k
  OBVIOUS
<1>4. t \div 2 \in Nat
  OBVIOUS
<1> QED BY <1>1, <1>2, <1>3, <1>4

LEMMA InitAnomaly == UpkeepInit => AnomalyInv
<1> SUFFICES ASSUME Anomaly!Init PROVE AnomalyInv
  BY DEF UpkeepInit
<1> USE AnomalyAssumption DEF Anomaly!Init, Anomaly!NoDigest
<1>1. Anomaly!TypeOK
  BY DEF Anomaly!TypeOK
<1>2. Moments /\ WindowsAreKnown /\ Taken /\ FillKnowsItsOwn
  BY DEF Moments, WindowsAreKnown, Taken, FillKnowsItsOwn, Digest
<1>3. Anomaly!WindowsLeaveNoGap /\ Anomaly!BackfillIsIdempotent
  BY DEF Anomaly!WindowsLeaveNoGap, Anomaly!BackfillIsIdempotent
<1> QED BY <1>1, <1>2, <1>3 DEF AnomalyInv

\* The rows in their types.
LEMMA Rows ==
  ASSUME Anomaly!TypeOK
  PROVE  /\ second \in 1 .. MaxHalf /\ second \in Nat /\ lastSent \in Nat
         /\ \A r \in records : r \in Anomaly!Row /\ r.created \in Nat
         /\ \A w \in windows : w[1] \in Nat /\ w[2] \in Nat
         /\ Anomaly!Second(second) \in 0 .. MaxHalf
BY Seconds, AnomalyAssumption DEF Anomaly!TypeOK, Anomaly!Row

\* A new row is too young for the windows that are closed, and for a message
\* that is on its way.
LEMMA RecordedLate ==
  ASSUME AnomalyInv, UNCHANGED <<second, told, lastSent, digest, windows>>, records \subseteq records',
         \A r \in records' \ records : r.created = Anomaly!Second(second)
  PROVE  Moments' /\ WindowsAreKnown' /\ Taken' /\ Anomaly!WindowsLeaveNoGap'
<1> USE DEF AnomalyInv
<1>1. /\ second \in Nat /\ lastSent \in Nat
      /\ \A w \in windows : w[1] \in Nat /\ w[2] \in Nat
  BY Rows
<1>2. Anomaly!Second(second) \in Nat /\ Anomaly!Second(second) <= second
      /\ Anomaly!Second(Anomaly!Second(second)) = Anomaly!Second(second)
  BY <1>1, Seconds
<1>3. Moments'
  BY <1>2 DEF Moments
<1>4. WindowsAreKnown'
  BY DEF WindowsAreKnown
<1>5. Taken'
  <2> SUFFICES ASSUME digest.at = "send", NEW r \in records' \ records
               PROVE  ~(r.created < Anomaly!Second(digest.now))
    BY DEF Taken
  <2>1. digest.now \in Nat /\ digest.now <= second
    BY AnomalyAssumption DEF Moments, Digest
  <2>2. Anomaly!Second(digest.now) <= Anomaly!Second(second) /\ Anomaly!Second(digest.now) \in Nat
    BY <1>1, <2>1, Seconds
  <2> QED BY <1>2, <2>2
<1>6. Anomaly!WindowsLeaveNoGap'
  <2>1. ASSUME NEW r \in records' \ records, NEW w \in windows PROVE ~(r.created < Anomaly!Second(w[2]))
    <3>1. w[2] \in Nat /\ w[2] <= second
      BY <1>1 DEF WindowsAreKnown, Moments
    <3>2. Anomaly!Second(w[2]) <= Anomaly!Second(second) /\ Anomaly!Second(w[2]) \in Nat
      BY <1>1, <3>1, Seconds
    <3> QED BY <1>2, <3>2
  <2>2. \A t : Anomaly!Second(t) = 2 * (t \div 2)
    BY DEF Anomaly!Second
  <2> QED BY <2>1, <2>2 DEF Anomaly!WindowsLeaveNoGap, Anomaly!Second
<1> QED BY <1>3, <1>4, <1>5, <1>6

\* The windows that are closed leave no gap before the one that closes now.
LEMMA ClosedWindow ==
  ASSUME AnomalyInv, Anomaly!Sent, digest.at # "idle", UNCHANGED <<second, records>>, told \subseteq told',
         \A r \in records :
           digest.since <= r.created /\ r.created < Anomaly!Second(digest.now) => r \in told'
  PROVE  /\ WindowsAreKnown' /\ Anomaly!WindowsLeaveNoGap' /\ lastSent' <= second'
         /\ lastSent' \in 0 .. MaxHalf /\ windows' \in SUBSET ((0 .. MaxHalf) \X (0 .. MaxHalf))
<1> USE DEF AnomalyInv, Anomaly!Sent
<1> DEFINE w0 == <<digest.since, digest.now>>
<1>1. /\ second \in Nat /\ lastSent \in Nat
      /\ \A w \in windows : w[1] \in Nat /\ w[2] \in Nat
      /\ \A r \in records : r.created \in Nat
  BY Rows
<1>2. /\ digest.now \in 0 .. MaxHalf /\ digest.since \in 0 .. MaxHalf
      /\ 1 <= digest.now /\ digest.now <= second /\ lastSent <= digest.now
      /\ lastSent # 0 => digest.since = lastSent
  BY DEF Moments, Digest
<1>3. w0[1] = digest.since /\ w0[2] = digest.now
  OBVIOUS
<1>4. windows' = windows \cup {w0} /\ lastSent' = digest.now
  OBVIOUS
<1> HIDE DEF w0
<1>5. WindowsAreKnown'
  <2>1. \A w \in windows : w[2] <= digest.now
    BY <1>1, <1>2, AnomalyAssumption DEF WindowsAreKnown
  <2> QED BY <1>1, <1>2, <1>3, <1>4, <2>1, AnomalyAssumption DEF WindowsAreKnown
<1>6. ASSUME NEW r \in records,
             NEW v \in windows', v[1] <= r.created,
             NEW w \in windows', r.created < Anomaly!Second(w[2]),
             \A u \in windows' : r.created # Anomaly!Second(u[2])
      PROVE  r \in told'
  <2>1. /\ r.created < Anomaly!Second(digest.now)
    <3>1. w[2] \in Nat /\ w[2] <= digest.now /\ digest.now \in Nat
      BY <1>1, <1>2, <1>3, <1>4, AnomalyAssumption DEF WindowsAreKnown
    <3>2. /\ Anomaly!Second(w[2]) <= Anomaly!Second(digest.now)
          /\ Anomaly!Second(w[2]) \in Nat /\ Anomaly!Second(digest.now) \in Nat
      BY <3>1, Seconds
    <3> QED BY <1>1, <1>6, <3>2
  <2>2. CASE digest.since <= r.created
    BY <2>1, <2>2
  <2>3. CASE r.created < digest.since
    <3>1. v \in windows /\ lastSent # 0
      BY <1>3, <1>4, <1>6, <1>1, <1>2, <2>3, AnomalyAssumption DEF WindowsAreKnown
    <3>2. PICK u \in windows : u[2] = lastSent
      BY <3>1 DEF WindowsAreKnown
    <3>3. r.created < Anomaly!Second(lastSent)
      <4>1. r.created = Anomaly!Second(r.created) /\ r.created <= lastSent
        BY <1>1, <1>2, <2>3, <3>1, AnomalyAssumption DEF Moments
      <4>2. Anomaly!Second(r.created) <= Anomaly!Second(lastSent) /\ Anomaly!Second(lastSent) \in Nat
        BY <1>1, <4>1, Seconds
      <4>3. r.created # Anomaly!Second(lastSent)
        BY <1>4, <1>6, <3>2
      <4> QED BY <1>1, <4>1, <4>2, <4>3
    <3>4. r \in told
      BY <1>4, <1>6, <3>1, <3>2, <3>3 DEF Anomaly!WindowsLeaveNoGap
    <3> QED BY <3>4
  <2> QED BY <1>1, <1>2, <2>2, <2>3, AnomalyAssumption
<1>7. Anomaly!WindowsLeaveNoGap'
  <2>1. \A t : Anomaly!Second(t) = 2 * (t \div 2)
    BY DEF Anomaly!Second
  <2> QED BY <1>6, <2>1 DEF Anomaly!WindowsLeaveNoGap, Anomaly!Second
<1>8. windows' \in SUBSET ((0 .. MaxHalf) \X (0 .. MaxHalf))
  BY <1>2, <1>4 DEF Anomaly!TypeOK, w0
<1> QED BY <1>2, <1>4, <1>5, <1>7, <1>8

\* Detection: what it adds is new.
LEMMA DetectionNext ==
  ASSUME AnomalyInv, NEW x \in Samples,
         Anomaly!SampleEnds(x) \/ Anomaly!Check(x) \/ Anomaly!RecordHook(x) \/ Anomaly!Fill(x)
  PROVE  AnomalyInv'
<1> USE DEF AnomalyInv
<1>1. /\ Anomaly!TypeOK /\ second \in Nat
      /\ Anomaly!Second(second) \in 0 .. MaxHalf
  BY Rows
<1>2. CASE Anomaly!SampleEnds(x) \/ Anomaly!Check(x)
  <2>1. UNCHANGED <<second, fill, recorded, records, told, lastSent, digest, windows>>
    BY <1>2 DEF Anomaly!SampleEnds, Anomaly!Check, Anomaly!sending
  <2>2. Anomaly!TypeOK'
    BY <1>2 DEF Anomaly!TypeOK, Anomaly!SampleEnds, Anomaly!Check, Anomaly!sending
  <2>3. Moments' /\ WindowsAreKnown' /\ Taken' /\ Anomaly!WindowsLeaveNoGap'
    BY <2>1, RecordedLate
  <2>4. Anomaly!BackfillIsIdempotent' /\ FillKnowsItsOwn'
    BY <2>1 DEF Anomaly!BackfillIsIdempotent, FillKnowsItsOwn
  <2> QED BY <2>2, <2>3, <2>4
<1>3. CASE Anomaly!RecordHook(x)
  <2> DEFINE entry == [sample |-> x, by |-> "hook", created |-> Anomaly!Second(second)]
  <2>1. /\ records' = records \cup {entry} \/ records' = records
        /\ UNCHANGED <<second, fill, recorded, told, lastSent, digest, windows, timed, judging>>
        /\ hook' = [hook EXCEPT ![x] = "over"]
    BY <1>3 DEF Anomaly!RecordHook, Anomaly!Record, Anomaly!sending
  <2>2. entry \in Anomaly!Row /\ entry.by = "hook" /\ entry.created = Anomaly!Second(second)
    BY <1>1 DEF Anomaly!Row
  <2> HIDE DEF entry
  <2>3. Anomaly!TypeOK'
    <3>1. records' \in SUBSET Anomaly!Row /\ told' \in SUBSET records'
      BY <1>1, <2>1, <2>2 DEF Anomaly!TypeOK
    <3> QED BY <1>1, <2>1, <3>1 DEF Anomaly!TypeOK
  <2>4. Moments' /\ WindowsAreKnown' /\ Taken' /\ Anomaly!WindowsLeaveNoGap'
    <3>1. records \subseteq records' /\ \A r \in records' \ records : r.created = Anomaly!Second(second)
      BY <2>1, <2>2
    <3> QED BY <2>1, <3>1, RecordedLate
  <2>5. Anomaly!BackfillIsIdempotent' /\ FillKnowsItsOwn'
    BY <2>1, <2>2 DEF Anomaly!BackfillIsIdempotent, FillKnowsItsOwn
  <2> QED BY <2>3, <2>4, <2>5
<1>4. CASE Anomaly!Fill(x)
  <2> DEFINE entry == [sample |-> x, by |-> "fill", created |-> Anomaly!Second(second)]
  <2>1. /\ \/ records' = records \cup {entry} /\ x \notin recorded /\ recorded' = recorded \cup {x}
           \/ UNCHANGED <<records, recorded>>
        /\ UNCHANGED <<second, timed, hook, fill, told, lastSent, digest, windows>>
        /\ fill = "judge" /\ judging' = judging \ {x}
    BY <1>4 DEF Anomaly!Fill, Anomaly!Record, Anomaly!sending
  <2>2. entry \in Anomaly!Row /\ entry.sample = x /\ entry.created = Anomaly!Second(second)
    BY <1>1 DEF Anomaly!Row
  <2> HIDE DEF entry
  <2>3. Anomaly!TypeOK'
    <3>1. records' \in SUBSET Anomaly!Row /\ told' \in SUBSET records'
      BY <1>1, <2>1, <2>2 DEF Anomaly!TypeOK
    <3> QED BY <1>1, <2>1, <3>1 DEF Anomaly!TypeOK
  <2>4. Moments' /\ WindowsAreKnown' /\ Taken' /\ Anomaly!WindowsLeaveNoGap'
    <3>1. records \subseteq records' /\ \A r \in records' \ records : r.created = Anomaly!Second(second)
      BY <2>1, <2>2
    <3> QED BY <2>1, <3>1, RecordedLate
  <2>5. \A r \in records : r.by = "fill" => r.sample \in recorded
    BY <2>1 DEF FillKnowsItsOwn
  <2>6. FillKnowsItsOwn'
    BY <2>1, <2>2, <2>5 DEF FillKnowsItsOwn
  <2>7. Anomaly!BackfillIsIdempotent'
    BY <2>1, <2>2, <2>5 DEF Anomaly!BackfillIsIdempotent
  <2> QED BY <2>3, <2>4, <2>6, <2>7
<1> QED BY <1>2, <1>3, <1>4

LEMMA BackfillNext ==
  ASSUME AnomalyInv, Anomaly!Backfill \/ Anomaly!ReadTimed \/ Anomaly!EndBackfill
  PROVE  AnomalyInv'
<1> USE DEF AnomalyInv
<1>1. UNCHANGED <<second, records, told, lastSent, digest, windows>>
  BY DEF Anomaly!Backfill, Anomaly!ReadTimed, Anomaly!EndBackfill, Anomaly!sending
<1>2. Anomaly!TypeOK'
  BY DEF Anomaly!TypeOK, Anomaly!Backfill, Anomaly!ReadTimed, Anomaly!EndBackfill, Anomaly!sending, Anomaly!Row
<1>3. Moments' /\ WindowsAreKnown' /\ Taken' /\ Anomaly!WindowsLeaveNoGap'
  BY <1>1, RecordedLate
<1>4. Anomaly!BackfillIsIdempotent'
  BY <1>1 DEF Anomaly!BackfillIsIdempotent
<1>5. FillKnowsItsOwn'
  BY <1>1 DEF FillKnowsItsOwn, Anomaly!Backfill, Anomaly!ReadTimed, Anomaly!EndBackfill
<1> QED BY <1>2, <1>3, <1>4, <1>5

\* The digest: a tick reads what is older than itself.
LEMMA DigestNext ==
  ASSUME AnomalyInv, Anomaly!DigestTick \/ Anomaly!ReadRows \/ Anomaly!Send
  PROVE  AnomalyInv'
<1> USE DEF AnomalyInv
<1>1. /\ second \in 1 .. MaxHalf /\ lastSent \in Nat /\ lastSent <= second
      /\ \A r \in records : r \in Anomaly!Row /\ r.created \in Nat
      /\ digest \in Digest /\ digest.rows \subseteq records
      /\ Anomaly!NoDigest \in Digest /\ Anomaly!NoDigest.rows = {} /\ Anomaly!NoDigest.at = "idle"
  BY Rows, AnomalyAssumption DEF Moments, Digest, Anomaly!NoDigest
<1>2. /\ UNCHANGED <<second, timed, hook, fill, recorded, judging, records>>
      /\ Anomaly!BackfillIsIdempotent' /\ FillKnowsItsOwn'
  BY DEF Anomaly!DigestTick, Anomaly!ReadRows, Anomaly!Send, Anomaly!detection,
         Anomaly!BackfillIsIdempotent, FillKnowsItsOwn
<1>3. SUFFICES /\ digest' \in Digest /\ digest'.rows \subseteq records /\ told' \subseteq records
               /\ lastSent' \in 0 .. MaxHalf /\ lastSent' <= second
               /\ windows' \in SUBSET ((0 .. MaxHalf) \X (0 .. MaxHalf))
               /\ digest'.at # "idle" => /\ 1 <= digest'.now /\ digest'.now <= second /\ lastSent' <= digest'.now
                                         /\ lastSent' # 0 => digest'.since = lastSent'
               /\ WindowsAreKnown' /\ Taken' /\ Anomaly!WindowsLeaveNoGap'
  <2>1. Anomaly!TypeOK'
    <3>1. digest'.at \in {"idle", "read", "send"} /\ digest'.rows \in SUBSET Anomaly!Row
      BY <1>3 DEF Digest
    <3> QED BY <1>2, <1>3, <3>1 DEF Anomaly!TypeOK
  <2>2. Moments'
    BY <1>2, <1>3 DEF Moments
  <2> QED BY <1>2, <1>3, <2>1, <2>2
<1>4. CASE Anomaly!DigestTick
  <2>1. /\ digest' \in Digest /\ digest'.rows = {} /\ digest'.at = "read" /\ digest'.now = second
        /\ lastSent # 0 => digest'.since = lastSent
        /\ UNCHANGED <<told, lastSent, windows>>
    <3>1. PICK since : /\ digest' = [at |-> "read", now |-> second, rows |-> {}, since |-> since]
                       /\ since = IF lastSent # 0 THEN lastSent ELSE IF second > Interval THEN second - Interval ELSE 0
                       /\ UNCHANGED <<told, lastSent, windows>>
      BY <1>4 DEF Anomaly!DigestTick
    <3>2. since \in 0 .. MaxHalf
      BY <1>1, <3>1, AnomalyAssumption
    <3> QED BY <1>1, <3>1, <3>2, AnomalyAssumption DEF Digest
  <2>2. Taken' /\ WindowsAreKnown' /\ Anomaly!WindowsLeaveNoGap'
    BY <1>2, <2>1 DEF Taken, WindowsAreKnown, Anomaly!WindowsLeaveNoGap
  <2>3. /\ told' \subseteq records /\ lastSent' \in 0 .. MaxHalf
        /\ windows' \in SUBSET ((0 .. MaxHalf) \X (0 .. MaxHalf))
    BY <2>1 DEF Anomaly!TypeOK
  <2> QED BY <1>1, <2>1, <2>2, <2>3
<1>5. CASE Anomaly!ReadRows
  <2> DEFINE rows == {r \in records : r.created >= digest.since}
  <2>1. digest.at = "read" /\ told' = told
    BY <1>5 DEF Anomaly!ReadRows
  <2>2. CASE rows = {}
    <3>1. Anomaly!Sent /\ digest' = Anomaly!NoDigest
      BY <1>5, <2>2 DEF Anomaly!ReadRows
    <3>2. \A r \in records : ~(digest.since <= r.created)
      BY <1>1, <2>2 DEF Digest
    <3>3. /\ WindowsAreKnown' /\ Anomaly!WindowsLeaveNoGap' /\ lastSent' <= second'
          /\ lastSent' \in 0 .. MaxHalf /\ windows' \in SUBSET ((0 .. MaxHalf) \X (0 .. MaxHalf))
      BY <1>2, <2>1, <3>1, <3>2, ClosedWindow
    <3>4. Taken'
      BY <1>1, <3>1 DEF Taken
    <3> QED BY <1>1, <1>2, <2>1, <3>1, <3>3, <3>4 DEF Anomaly!TypeOK
  <2>3. CASE rows # {}
    <3>1. digest' = [digest EXCEPT !.at = "send", !.rows = rows] /\ UNCHANGED <<lastSent, windows>>
      BY <1>5, <2>3 DEF Anomaly!ReadRows
    <3>2. /\ digest' \in Digest /\ digest'.rows = rows /\ digest'.now = digest.now /\ digest'.since = digest.since
      <4>1. rows \in SUBSET Anomaly!Row /\ rows \subseteq records
        BY <1>1
      <4> HIDE DEF rows
      <4> QED BY <1>1, <3>1, <4>1 DEF Digest
    <3>3. Taken'
      BY <1>1, <1>2, <3>2 DEF Taken, Digest
    <3>4. WindowsAreKnown' /\ Anomaly!WindowsLeaveNoGap'
      BY <1>2, <2>1, <3>1 DEF WindowsAreKnown, Anomaly!WindowsLeaveNoGap
    <3> QED BY <1>1, <1>2, <2>1, <3>1, <3>2, <3>3, <3>4 DEF Anomaly!TypeOK, Moments
  <2> QED BY <2>2, <2>3
<1>6. CASE Anomaly!Send
  <2>1. digest.at = "send" /\ digest' = Anomaly!NoDigest
    BY <1>6 DEF Anomaly!Send
  <2>2. Taken'
    BY <1>1, <2>1 DEF Taken
  <2>3. CASE told' = told \cup digest.rows /\ Anomaly!Sent
    <3>1. \A r \in records :
            digest.since <= r.created /\ r.created < Anomaly!Second(digest.now) => r \in told'
      BY <2>1, <2>3 DEF Taken
    <3>2. /\ WindowsAreKnown' /\ Anomaly!WindowsLeaveNoGap' /\ lastSent' <= second'
          /\ lastSent' \in 0 .. MaxHalf /\ windows' \in SUBSET ((0 .. MaxHalf) \X (0 .. MaxHalf))
      BY <1>2, <2>1, <2>3, <3>1, ClosedWindow
    <3> QED BY <1>1, <1>2, <2>1, <2>2, <2>3, <3>2 DEF Anomaly!TypeOK
  <2>4. CASE told \subseteq told' /\ told' \subseteq told \cup digest.rows /\ UNCHANGED <<lastSent, windows>>
    <3>1. WindowsAreKnown' /\ Anomaly!WindowsLeaveNoGap'
      BY <1>2, <2>4 DEF WindowsAreKnown, Anomaly!WindowsLeaveNoGap
    <3> QED BY <1>1, <1>2, <2>1, <2>2, <2>4, <3>1 DEF Anomaly!TypeOK
  <2> QED BY <1>6, <2>3, <2>4 DEF Anomaly!Send
<1> QED BY <1>4, <1>5, <1>6

LEMMA AnomalyNext ==
  ASSUME AnomalyInv, Anomaly!Next
  PROVE  AnomalyInv'
<1>1. CASE Anomaly!Tick
  <2> USE DEF AnomalyInv
  <2>1. /\ second' = second + 1 /\ second < MaxHalf
        /\ UNCHANGED <<timed, hook, fill, recorded, judging, records, told, lastSent, digest, windows>>
    BY <1>1 DEF Anomaly!Tick, Anomaly!detection, Anomaly!sending
  <2>2. Anomaly!TypeOK'
    BY <2>1, AnomalyAssumption DEF Anomaly!TypeOK
  <2>3. Moments'
    <3>1. second \in Nat /\ second' = second + 1 /\ lastSent \in Nat /\ \A r \in records : r.created \in Nat
      BY <2>1, Rows
    <3>2. digest.now \in Nat
      BY DEF Moments, Digest
    <3> QED BY <2>1, <3>1, <3>2 DEF Moments
  <2>4. WindowsAreKnown' /\ Taken' /\ Anomaly!WindowsLeaveNoGap'
    BY <2>1 DEF WindowsAreKnown, Taken, Anomaly!WindowsLeaveNoGap
  <2>5. Anomaly!BackfillIsIdempotent' /\ FillKnowsItsOwn'
    BY <2>1 DEF Anomaly!BackfillIsIdempotent, FillKnowsItsOwn
  <2> QED BY <2>2, <2>3, <2>4, <2>5
<1> QED BY <1>1, DetectionNext, BackfillNext, DigestNext DEF Anomaly!Next

LEMMA NextAnomaly == AnomalyInv /\ [UpkeepNext]_UpkeepVars => AnomalyInv'
<1> SUFFICES ASSUME AnomalyInv, [UpkeepNext]_UpkeepVars PROVE AnomalyInv'
  OBVIOUS
<1>1. CASE Anomaly!Next
  BY <1>1, AnomalyNext
<1>2. CASE UNCHANGED anomalyVars
  BY <1>2 DEF anomalyVars, AnomalyInv, Anomaly!TypeOK, Anomaly!WindowsLeaveNoGap,
              Anomaly!BackfillIsIdempotent, Moments, WindowsAreKnown, Taken, FillKnowsItsOwn
<1> QED BY <1>1, <1>2
        DEF UpkeepNext, UpdateStep, RetentionStep, BackupStep, AnomalyStep, ListStep, UpkeepVars

\* "each sample yields at most one duration anomaly", "retry next tick": a slow
\* sample is recorded once by the backfills and told by a digest: AnomaliesAreTold.
THEOREM AnomaliesTold == UpkeepSpec => []AnomaliesAreTold
<1>1. AnomalyInv => AnomaliesAreTold
  BY DEF AnomalyInv, AnomaliesAreTold, Anomaly!AnomaliesAreTold
<1> QED BY <1>1, InitAnomaly, NextAnomaly, PTL DEF UpkeepSpec
-----------------------------------------------------------------------------
(* The list of batches *)

\* Rows are of samples that ran, of which a single batch has one.
RowsAreRan ==
  /\ ran \in [Stored -> Seq(Results)] /\ kept \in [Stored -> SUBSET Nat]
  /\ status \in [Stored -> {"running", "done", "failed", "deleted"}]
  /\ \A b \in Stored : Len(ran[b]) <= List!Total(b) /\ kept[b] \subseteq 1 .. Len(ran[b])

\* A batch that is listed as empty will show no answer, however it goes on.
Answerless(b) ==
  b \in SingleRows /\ status[b] \in {"done", "deleted"} /\ List!Preview(b) \in {List!None, List!Nothing}
ListedAreAnswerless ==
  "empty" \in reader.filter /\ reader.at = "samples" => \A b \in reader.rows : Answerless(b)

ReaderIs(at_, filter, averages, rows) ==
  reader = [at |-> at_, filter |-> filter, averages |-> averages, rows |-> rows]

ListInv ==
  /\ RowsAreRan /\ ListedAreAnswerless /\ List!EmptyShowsNoAnswer
  /\ ReaderIs(reader.at, reader.filter, reader.averages, reader.rows)

\* "Must agree with select_effective_response": of a row, they do.
LEMMA EffectiveIsNothing ==
  ASSUME NEW s \in Results
  PROVE  List!RawEmpty(s) /\ ~List!HasEffectiveLlm(s) <=> List!SelectEffective(s) = List!Nothing
<1>1. /\ s.answers \in Seq(STRING) /\ s.llm \in Seq(STRING) /\ Len(s.errors) = Len(s.llm)
      /\ \A i \in 1 .. Len(s.llm) : s.llm[i] # List!None
  BY ListingAssumption
<1>2. /\ Len(s.llm) \in Nat /\ Len(s.answers) \in Nat
      /\ s.llm = <<>> <=> Len(s.llm) = 0
      /\ s.answers = <<>> <=> Len(s.answers) = 0
      /\ s.errors = <<>> => Len(s.errors) = 0
  BY <1>1, LenProperties, EmptySeq
<1>3. List!RawEmpty(s) <=> s.answers = <<>> \/ s.answers[1] = List!Nothing
  <2>1. s.answers # <<>> /\ s.answers[1] = List!Nothing /\ ~(Len(s.answers) > 1) => s.answers = <<List!Nothing>>
    <3> SUFFICES ASSUME s.answers # <<>>, s.answers[1] = List!Nothing, ~(Len(s.answers) > 1)
                 PROVE  s.answers = <<List!Nothing>>
      OBVIOUS
    <3>1. Len(s.answers) = 1
      <4>1. PICK n \in Nat : n = Len(s.answers)
        BY <1>2
      <4>2. n # 0 /\ ~(n > 1)
        BY <1>2, <4>1
      <4>3. n = 1
        BY <4>2
      <4> QED BY <4>1, <4>3
    <3> QED BY <1>1, <3>1, SeqEqual
  <2> QED BY <2>1, <1>2 DEF List!RawEmpty
<1>4. CASE s.llm = <<>>
  <2>1. ~List!HasEffectiveLlm(s)
    BY <1>4 DEF List!HasEffectiveLlm, List!AtZero, List!None, List!Nothing
  <2>2. List!SelectEffective(s) = IF s.answers = <<>> THEN List!Nothing ELSE s.answers[1]
    BY <1>4 DEF List!SelectEffective
  <2> QED BY <1>3, <2>1, <2>2
<1>5. CASE s.llm # <<>>
  <2>1. s.errors # <<>> /\ s.llm[1] # List!None
    BY <1>1, <1>2, <1>5, EmptySeq
  <2>2. List!HasEffectiveLlm(s) <=> s.errors[1] = List!None /\ s.llm[1] # List!Nothing
    BY <1>5, <2>1 DEF List!HasEffectiveLlm, List!AtZero
  <2> QED BY <1>3, <1>5, <2>1, <2>2 DEF List!SelectEffective
<1> QED BY <1>4, <1>5

\* The outer join of a single batch has one row.
LEMMA SingleJoined ==
  ASSUME RowsAreRan, NEW b \in SingleRows
  PROVE  /\ b \in Stored /\ List!Total(b) = 1
         /\ kept[b] = {} => List!Joined(b) = {List!NoRow}
         /\ kept[b] # {} => List!Joined(b) = {ran[b][1]} /\ ran[b][1] \in Results /\ ran[b][1] # List!NoRow
<1>1. b \in Stored /\ List!Total(b) = 1
  BY ListingAssumption DEF List!Total
<1>2. kept[b] = {} => List!Joined(b) = {List!NoRow}
  BY DEF List!Joined
<1>3. ASSUME kept[b] # {}
      PROVE  List!Joined(b) = {ran[b][1]} /\ ran[b][1] \in Results /\ ran[b][1] # List!NoRow
  <2>1. ran[b] \in Seq(Results) /\ Len(ran[b]) \in Nat /\ Len(ran[b]) <= 1
    BY <1>1, LenProperties DEF RowsAreRan
  <2>2. kept[b] = {1} /\ Len(ran[b]) = 1
    <3>1. PICK l \in Nat : l = Len(ran[b])
      BY <2>1
    <3>2. kept[b] \subseteq 1 .. l /\ l <= 1
      BY <1>1, <2>1, <3>1 DEF RowsAreRan
    <3>3. l = 1
      BY <1>3, <3>2
    <3> QED BY <1>3, <3>1, <3>2, <3>3
  <2>3. ran[b][1] \in Results
    BY <2>1, <2>2, ElementOfSeq
  <2>4. ran[b][1].profile # List!NoRow.profile
    BY <2>3, ListingAssumption DEF List!NoRow
  <2>5. List!Joined(b) = {ran[b][1]}
    BY <2>2 DEF List!Joined, List!Rows
  <2> QED BY <2>3, <2>4, <2>5
<1> QED BY <1>1, <1>2, <1>3

\* A batch is listed for one of its rows.
LEMMA Listed ==
  ASSUME NEW filter, NEW averages, NEW b
  PROVE  b \in List!ListBatches(filter, averages) <=>
           b \in Stored /\ status[b] # "deleted" /\ \E s \in List!Joined(b) : List!Passes(b, s, filter, averages)
<1>1. ASSUME NEW s, b \in Stored, s \in List!Joined(b), status[b] # "deleted", List!Passes(b, s, filter, averages)
      PROVE  b \in List!ListBatches(filter, averages)
  <2>1. <<b, s>> \in UNION {{q} \X List!Joined(q) : q \in Stored}
    BY <1>1
  <2>2. <<b, s>>[1] = b /\ <<b, s>>[2] = s
    OBVIOUS
  <2> HIDE DEF List!Joined
  <2>3. <<b, s>> \in List!Hits(filter, averages)
    BY <1>1, <2>1, <2>2 DEF List!Hits
  <2> QED BY <2>2, <2>3 DEF List!ListBatches
<1>2. ASSUME b \in List!ListBatches(filter, averages)
      PROVE  b \in Stored /\ status[b] # "deleted" /\ \E s \in List!Joined(b) : List!Passes(b, s, filter, averages)
  <2>1. PICK x \in List!Hits(filter, averages) : b = x[1]
    BY <1>2 DEF List!ListBatches
  <2>2. PICK q \in Stored : x \in {q} \X List!Joined(q)
    BY <2>1 DEF List!Hits
  <2>3. status[x[1]] # "deleted" /\ List!Passes(x[1], x[2], filter, averages)
    BY <2>1 DEF List!Hits
  <2> QED BY <2>1, <2>2, <2>3
<1> QED BY <1>1, <1>2

\* Of a single batch with a row, the list knows only that row.
LEMMA SingleListed ==
  ASSUME RowsAreRan, NEW b \in SingleRows, kept[b] # {}, NEW filter, NEW averages
  PROVE  b \in List!ListBatches(filter, averages) <=>
           status[b] # "deleted" /\ List!Passes(b, ran[b][1], filter, averages)
BY SingleJoined, Listed

\* The filter finds a row as empty for what it shows, if it shows anything.
LEMMA FoundEmpty ==
  ASSUME RowsAreRan, NEW b \in SingleRows, kept[b] # {}
  PROVE  /\ List!IsEmpty(ran[b][1]) =>
              List!Preview(b) = IF ran[b][1].asked THEN List!Nothing ELSE List!None
         /\ List!SelectEffective(ran[b][1]) # List!Blank /\ List!Preview(b) = List!Nothing
              => List!IsEmpty(ran[b][1])
<1>1. PICK s : s = ran[b][1]
  OBVIOUS
<1>2. s \in Results /\ s # List!NoRow /\ (s.released => ~s.asked)
  <2>1. s \in Results /\ s # List!NoRow
    BY <1>1, SingleJoined
  <2> QED BY <2>1, ListingAssumption
<1>3. List!IsEmpty(s) <=> List!SelectEffective(s) = List!Nothing /\ ~s.released
  <2>1. List!RawEmpty(s) /\ ~List!HasEffectiveLlm(s) <=> List!SelectEffective(s) = List!Nothing
    BY <1>2, EffectiveIsNothing
  <2> QED BY <1>2, <2>1 DEF List!IsEmpty
<1>4. List!Preview(b) = IF ~s.asked THEN List!None ELSE List!Truncate(List!SelectEffective(s))
  BY <1>1 DEF List!Preview
<1>5. List!Nothing # List!None /\ List!Nothing # List!Blank
  BY DEF List!Nothing, List!None, List!Blank
<1>6. List!IsEmpty(s) => List!Preview(b) = IF s.asked THEN List!Nothing ELSE List!None
  BY <1>3, <1>4, <1>5 DEF List!Truncate
<1>7. List!SelectEffective(s) # List!Blank /\ List!Preview(b) = List!Nothing => List!IsEmpty(s)
  BY <1>2, <1>3, <1>4, <1>5 DEF List!Truncate
<1> QED BY <1>1, <1>6, <1>7

LEMMA AgreesOnEmpty == RowsAreRan => List!EmptyAgrees
<1> SUFFICES ASSUME RowsAreRan, NEW b \in SingleRows, kept[b] # {}
             PROVE  /\ b \in List!ListBatches({"empty"}, <<>>) => List!ShownEmpty(b) \/ ~ran[b][1].asked
                    /\ List!ShownEmpty(b) => b \in List!ListBatches({"empty"}, <<>>)
                                               \/ List!SelectEffective(ran[b][1]) = List!Blank
  BY DEF List!EmptyAgrees
<1>1. List!Passes(b, ran[b][1], {"empty"}, <<>>) <=> status[b] = "done" /\ List!IsEmpty(ran[b][1])
  BY SingleJoined DEF List!Passes
<1>2. List!IsEmpty(ran[b][1]) /\ ran[b][1].asked => List!Preview(b) = List!Nothing
  BY FoundEmpty
<1>3. List!SelectEffective(ran[b][1]) # List!Blank /\ List!Preview(b) = List!Nothing
        => List!IsEmpty(ran[b][1])
  BY FoundEmpty
<1> QED BY <1>1, <1>2, <1>3, SingleListed DEF List!ShownEmpty

LEMMA AgreesOnSlow == RowsAreRan => List!SlowAgrees
<1> SUFFICES ASSUME RowsAreRan, NEW b \in SingleRows, status[b] # "deleted"
             PROVE  b \in List!ListBatches({"slow"}, List!Averages) <=> List!IsFlagged(b, List!Averages)
  BY DEF List!SlowAgrees
<1>1. PICK averages : averages = List!Averages
  OBVIOUS
<1>2. ASSUME NEW s
      PROVE  List!Passes(b, s, {"slow"}, averages) <=>
               List!BatchAverage(b) # 0 /\ List!IsSlow(b, s, averages)
  BY SingleJoined DEF List!Passes
<1>3. CASE kept[b] = {}
  <2>1. List!NoRow.profile \notin DOMAIN averages
    <3>1. DOMAIN averages \subseteq {r.profile : r \in Results}
      BY <1>1 DEF List!Averages
    <3>2. List!NoRow.profile = List!None
      BY DEF List!NoRow
    <3> QED BY <3>1, <3>2, ListingAssumption
  <2>2. ~List!Passes(b, List!NoRow, {"slow"}, averages)
    BY <1>2, <2>1 DEF List!IsSlow
  <2>3. b \notin List!ListBatches({"slow"}, averages)
    BY <1>3, <2>2, SingleJoined, Listed
  <2> QED BY <1>1, <1>3, <2>3 DEF List!IsFlagged
<1>4. CASE kept[b] # {}
  <2>1. List!IsFlagged(b, averages) <=>
          List!BatchAverage(b) # 0 /\ List!IsSlow(b, ran[b][1], averages)
    BY <1>4 DEF List!IsFlagged, List!IsDurationAnomaly, List!IsSlow
  <2>2. b \in List!ListBatches({"slow"}, averages) <=> List!Passes(b, ran[b][1], {"slow"}, averages)
    BY <1>4, SingleListed
  <2> QED BY <1>1, <1>2, <2>1, <2>2
<1> QED BY <1>3, <1>4

\* The clauses of the cards, written a second time, let through what those of the
\* list let through.
LEMMA CountedPasses ==
  ASSUME NEW b \in Stored, NEW s, NEW filter, NEW averages
  PROVE  List!Counted(b, s, filter, averages) <=> List!Passes(b, s, filter, averages)
<1>1. b \in SingleRows <=> List!Total(b) = 1
  BY DEF List!Total
<1>2. \A p : p \in {Default[b], s.profile} <=> Default[b] = p \/ s.profile = p
  OBVIOUS
<1> QED BY <1>1, <1>2 DEF List!Counted, List!Passes

LEMMA CardsCount == List!CardsAgree
<1> SUFFICES ASSUME NEW filter \in List!Filters, NEW st \in {status[b] : b \in Stored}
             PROVE  List!CountByStatus(filter, List!Averages)[st]
                      = List!Cardinality({b \in List!ListBatches(filter, List!Averages) : status[b] = st})
  BY DEF List!CardsAgree
<1>1. PICK averages : averages = List!Averages
  OBVIOUS
<1>2. List!CountByStatus(filter, averages)[st]
        = List!Cardinality({b \in Stored : /\ status[b] = st /\ st # "deleted"
                                           /\ \E s \in List!Joined(b) : List!Counted(b, s, filter, averages)})
  BY DEF List!CountByStatus
<1>3. {b \in Stored : /\ status[b] = st /\ st # "deleted"
                      /\ \E s \in List!Joined(b) : List!Counted(b, s, filter, averages)}
        = {b \in List!ListBatches(filter, averages) : status[b] = st}
  BY Listed, CountedPasses
<1> QED BY <1>1, <1>2, <1>3

LEMMA ListAgrees == ListInv => List!ListIsHonest
BY AgreesOnEmpty, AgreesOnSlow, CardsCount DEF ListInv, List!ListIsHonest

LEMMA InitList == UpkeepInit => ListInv
<1> SUFFICES ASSUME UpkeepInit PROVE ListInv
  OBVIOUS
<1>1. /\ status = [b \in Stored |-> "running"]
      /\ ran = [b \in Stored |-> <<>>] /\ kept = [b \in Stored |-> {}]
      /\ reader = [at |-> "idle", filter |-> {}, averages |-> <<>>, rows |-> {}]
  BY DEF UpkeepInit, List!Init, List!Idle
<1>2. <<>> \in Seq(Results) /\ Len(<<>>) = 0 /\ \A b \in Stored : 0 <= List!Total(b)
  BY EmptySeq DEF List!Total
<1>3. RowsAreRan
  BY <1>1, <1>2 DEF RowsAreRan
<1>4. reader.at = "idle" /\ reader.filter = {} /\ ReaderIs(reader.at, reader.filter, reader.averages, reader.rows)
  BY <1>1 DEF ReaderIs
<1> QED BY <1>3, <1>4 DEF ListInv, ListedAreAnswerless, List!EmptyShowsNoAnswer

\* What a batch that has ended shows only changes when it is deleted.
LEMMA StaysAnswerless ==
  ASSUME ListInv, UNCHANGED <<reader, page>>, RowsAreRan',
         NEW c, status[c] # "deleted",
         \A b \in Stored \ {c} : status'[b] = status[b] /\ ran'[b] = ran[b] /\ kept'[b] = kept[b],
         status[c] # "done" \/ (status'[c] = "deleted" /\ kept'[c] = {})
  PROVE  ListInv'
<1>1. ASSUME NEW b \in SingleRows, Answerless(b)
      PROVE  Answerless(b)'
  <2>1. b \in Stored
    BY ListingAssumption
  <2>2. CASE b = c
    BY <1>1, <2>2 DEF Answerless, List!Preview
  <2>3. CASE b # c
    <3>1. status'[b] = status[b] /\ List!Preview(b)' = List!Preview(b)
      BY <2>1, <2>3 DEF List!Preview
    <3> QED BY <1>1, <3>1 DEF Answerless
  <2> QED BY <2>2, <2>3
<1>2. ListedAreAnswerless'
  BY <1>1 DEF ListInv, ListedAreAnswerless, Answerless
<1> QED BY <1>2 DEF ListInv, List!EmptyShowsNoAnswer, ReaderIs

LEMMA ListNext ==
  ASSUME ListInv, List!Next
  PROVE  ListInv'
<1>1. ASSUME NEW c \in Stored, NEW r \in Results, List!Store(c, r)
      PROVE  ListInv'
  <2>1. /\ status[c] = "running" /\ UNCHANGED <<status, reader, page>>
        /\ ran' = [ran EXCEPT ![c] = Append(ran[c], r)]
        /\ kept' = [kept EXCEPT ![c] = kept[c] \cup {Len(ran[c]) + 1}] \/ kept' = kept
        /\ Len(ran[c]) < List!Total(c)
    BY <1>1 DEF List!Store
  <2>2. RowsAreRan
    BY DEF ListInv
  <2>3. /\ ran[c] \in Seq(Results) /\ Append(ran[c], r) \in Seq(Results)
        /\ Len(Append(ran[c], r)) = Len(ran[c]) + 1
    BY <2>2, AppendProperties DEF RowsAreRan
  <2>4. PICK l \in Nat : l = Len(ran[c])
    BY <2>3, LenProperties
  <2>5. ran' \in [Stored -> Seq(Results)] /\ ran'[c] = Append(ran[c], r)
    BY <2>1, <2>2, <2>3 DEF RowsAreRan
  <2>6. kept[c] \subseteq 1 .. l /\ l + 1 <= List!Total(c)
    <3>1. List!Total(c) \in Nat
      BY DEF List!Total
    <3> QED BY <2>1, <2>2, <2>4, <3>1 DEF RowsAreRan
  <2>7. kept' \in [Stored -> SUBSET Nat] /\ kept'[c] \subseteq kept[c] \cup {l + 1}
    BY <2>1, <2>2, <2>4 DEF RowsAreRan
  <2>8. kept'[c] \subseteq 1 .. (l + 1)
    BY <2>6, <2>7
  <2>9. \A b \in Stored \ {c} : status'[b] = status[b] /\ ran'[b] = ran[b] /\ kept'[b] = kept[b]
    BY <2>1, <2>2 DEF RowsAreRan
  <2>10. Len(ran'[c]) = l + 1
    BY <2>3, <2>4, <2>5
  <2>11. List!Total(c)' = List!Total(c) /\ \A b \in Stored : List!Total(b)' = List!Total(b)
    BY DEF List!Total
  <2>12. RowsAreRan'
    BY <2>1, <2>2, <2>5, <2>6, <2>7, <2>8, <2>9, <2>10, <2>11 DEF RowsAreRan
  <2> QED BY <2>1, <2>9, <2>12, StaysAnswerless
<1>2. ASSUME NEW c \in Stored, List!End(c)
      PROVE  ListInv'
  <2>1. PICK ended \in {"done", "failed"} : status' = [status EXCEPT ![c] = ended]
    BY <1>2 DEF List!End
  <2>2. status[c] = "running" /\ UNCHANGED <<ran, kept, reader, page>>
    BY <1>2 DEF List!End
  <2>3. RowsAreRan' /\ \A b \in Stored \ {c} : status'[b] = status[b]
    BY <2>1, <2>2 DEF ListInv, RowsAreRan, List!Total
  <2> QED BY <2>2, <2>3, StaysAnswerless
<1>3. ASSUME NEW c \in Stored, List!Delete(c)
      PROVE  ListInv'
  <2>1. /\ status[c] \in {"done", "failed"} /\ status' = [status EXCEPT ![c] = "deleted"]
        /\ kept' = [kept EXCEPT ![c] = {}] /\ UNCHANGED <<ran, reader, page>>
    BY <1>3 DEF List!Delete
  <2>2. RowsAreRan' /\ status'[c] = "deleted" /\ kept'[c] = {}
    BY <2>1 DEF ListInv, RowsAreRan, List!Total
  <2>3. \A b \in Stored \ {c} : status'[b] = status[b] /\ kept'[b] = kept[b]
    BY <2>1 DEF ListInv, RowsAreRan
  <2> QED BY <2>1, <2>2, <2>3, StaysAnswerless
<1>4. ASSUME NEW filter, List!Ask(filter)
      PROVE  ListInv'
  <2>1. /\ reader' = [at |-> "rows", filter |-> filter, rows |-> {},
                      averages |-> IF "slow" \in filter THEN List!Averages ELSE <<>>]
        /\ page' = <<>> /\ UNCHANGED <<status, ran, kept>>
    BY <1>4 DEF List!Ask
  <2>2. RowsAreRan'
    BY <2>1 DEF ListInv, RowsAreRan, List!Total
  <2>3. DOMAIN page' = {}
    BY <2>1
  <2>4. reader'.at = "rows" /\ ReaderIs(reader.at, reader.filter, reader.averages, reader.rows)'
    BY <2>1 DEF ReaderIs
  <2> QED BY <2>2, <2>3, <2>4 DEF ListInv, ListedAreAnswerless, List!EmptyShowsNoAnswer
<1>5. CASE List!ReadRows
  <2>1. /\ reader' = [reader EXCEPT !.at = "samples", !.rows = List!ListBatches(reader.filter, reader.averages)]
        /\ UNCHANGED <<status, ran, kept, page>>
    BY <1>5 DEF List!ReadRows
  <2>2. /\ reader'.filter = reader.filter /\ reader'.rows = List!ListBatches(reader.filter, reader.averages)
        /\ ReaderIs(reader.at, reader.filter, reader.averages, reader.rows)'
    BY <2>1 DEF ListInv, ReaderIs
  <2>3. RowsAreRan /\ RowsAreRan'
    BY <2>1 DEF ListInv, RowsAreRan, List!Total
  <2>4. ASSUME "empty" \in reader.filter, NEW b \in List!ListBatches(reader.filter, reader.averages)
        PROVE  Answerless(b)
    <3>1. PICK s \in List!Joined(b) : List!Passes(b, s, reader.filter, reader.averages)
      BY <2>4, Listed
    <3>2. List!Total(b) = 1 /\ status[b] = "done" /\ List!IsEmpty(s)
      BY <2>4, <3>1 DEF List!Passes
    <3>3. b \in SingleRows
      BY <3>2 DEF List!Total
    <3>4. CASE kept[b] = {}
      BY <3>2, <3>3, <3>4 DEF Answerless, List!Preview
    <3>5. CASE kept[b] # {}
      <4>1. s = ran[b][1]
        BY <2>3, <3>1, <3>3, <3>5, SingleJoined
      <4>2. List!Preview(b) \in {List!None, List!Nothing}
        BY <2>3, <3>2, <3>3, <3>5, <4>1, FoundEmpty
      <4> QED BY <3>2, <3>3, <4>2 DEF Answerless
    <3> QED BY <3>4, <3>5
  <2>5. \A b \in reader'.rows : Answerless(b)' <=> Answerless(b)
    BY <2>1 DEF Answerless, List!Preview
  <2>6. ListedAreAnswerless'
    BY <2>2, <2>4, <2>5 DEF ListedAreAnswerless
  <2>7. List!EmptyShowsNoAnswer'
    BY <2>1, <2>2 DEF ListInv, List!EmptyShowsNoAnswer
  <2> QED BY <2>2, <2>3, <2>6, <2>7 DEF ListInv
<1>6. CASE List!ReadSamples
  <2>1. /\ reader.at = "samples" /\ page' = [b \in reader.rows |-> List!Preview(b)]
        /\ reader' = [reader EXCEPT !.at = "idle"] /\ UNCHANGED <<status, ran, kept>>
    BY <1>6 DEF List!ReadSamples
  <2>2. /\ reader'.filter = reader.filter /\ reader'.at = "idle"
        /\ ReaderIs(reader.at, reader.filter, reader.averages, reader.rows)'
    BY <2>1 DEF ListInv, ReaderIs
  <2>3. RowsAreRan'
    BY <2>1 DEF ListInv, RowsAreRan, List!Total
  <2>4. List!EmptyShowsNoAnswer'
    BY <2>1, <2>2 DEF ListInv, ListedAreAnswerless, Answerless, List!EmptyShowsNoAnswer
  <2> QED BY <2>2, <2>3, <2>4 DEF ListInv, ListedAreAnswerless
<1> QED BY <1>1, <1>2, <1>3, <1>4, <1>5, <1>6 DEF List!Next

LEMMA NextList == ListInv /\ [UpkeepNext]_UpkeepVars => ListInv'
<1> SUFFICES ASSUME ListInv, [UpkeepNext]_UpkeepVars PROVE ListInv'
  OBVIOUS
<1>1. CASE List!Next
  BY <1>1, ListNext
<1>2. CASE UNCHANGED listVars
  <2>1. \A b : List!Preview(b)' = List!Preview(b)
    BY <1>2 DEF listVars, List!Preview
  <2> QED BY <1>2, <2>1 DEF listVars, ListInv, RowsAreRan, ListedAreAnswerless, Answerless,
                            List!EmptyShowsNoAnswer, List!Total, ReaderIs
<1> QED BY <1>1, <1>2
        DEF UpkeepNext, UpdateStep, RetentionStep, BackupStep, AnomalyStep, ListStep, UpkeepVars

\* "So the dashboard cards stay consistent with the visible list", "must agree with
\* select_effective_response": filters, cards and rows of the list of batches
\* agree, whatever the batches and their results: ListIsHonest.
THEOREM ListHonest == UpkeepSpec => []ListIsHonest
<1>1. ListInv => ListIsHonest
  BY ListAgrees DEF ListIsHonest
<1> QED BY <1>1, InitList, NextList, PTL DEF UpkeepSpec
=============================================================================
