--------------------------- MODULE BatchRetention ---------------------------
(***************************************************************************)
(* Retention of batches (maintenance/batch_retention.py): batches that     *)
(* ended long ago are archived, their rows deleted and their files purged; *)
(* then the sweep (maintenance/cleanup.py) removes what logs are too old.  *)
(* The daily tick (maintenance/scheduler.py) and POST /config/logs/cleanup *)
(* (api/config.py) both do this, and nothing keeps them apart; a user may  *)
(* delete the same batch.  A step runs from one await to the next.         *)
(***************************************************************************)
EXTENDS Naturals, FiniteSets

CONSTANTS Batches,
          Pruners,     \* calls: the loop's, a request's
          Archiving,   \* archive_retention_days > 0
          MaxKills     \* bound: kills of the process

VARIABLES row,      \* batch -> "active", "terminal", "pruned" or "deleted"
          old,      \* batches created before the cutoff
          disk,     \* batch -> which of its files are on disk
          zip,      \* batch -> what its archive holds; "zip" is in every whole one
          expired,  \* batches whose archive has passed archive_retention_days
          stage,    \* pruner -> where it stands
          todo,     \* pruner -> ids it has listed and not handled yet
          cur,      \* pruner -> the batch it handles, {} or a singleton
          snap,     \* pruner -> whether its snapshot has the batch's rows
          purging,  \* batches whose rows a user's request has deleted
          shared,   \* history: batches that two calls had listed at once
          kills

work == <<stage, todo, cur, snap>>
data == <<row, old, disk>>
vars == <<data, zip, expired, work, purging, shared, kills>>

Files == {"results", "logs"}

TypeOK ==
  /\ row \in [Batches -> {"active", "terminal", "pruned", "deleted"}]
  /\ {old, expired, purging, shared} \subseteq SUBSET Batches
  /\ disk \in [Batches -> SUBSET Files]
  /\ zip \in [Batches -> SUBSET (Files \cup {"zip", "rows"})]
  /\ stage \in [Pruners -> {"idle", "pick", "archive", "delete", "purge", "sweep"}]
  /\ todo \in [Pruners -> SUBSET Batches] /\ cur \in [Pruners -> SUBSET Batches]
  /\ snap \in [Pruners -> BOOLEAN]

\* Batches that still have their rows.
Present == {b \in Batches : row[b] \in {"active", "terminal"}}

Goto(c, to) == stage' = [stage EXCEPT ![c] = to]
-----------------------------------------------------------------------------
(* prune_old_batches *)

\* _prune_old_archives: the archives that are too old go first.
LiveZips == [b \in Batches |-> IF Archiving /\ b \in expired THEN {} ELSE zip[b]]

\* list_finished_batch_ids_before.
OldEnded == {b \in old : row[b] = "terminal"}

\* What a call has listed and not deleted or left alone yet.
Listed(c) == todo[c] \cup IF stage[c] \in {"archive", "delete"} THEN cur[c] ELSE {}

Begin(c) ==
  /\ stage[c] = "idle"
  /\ zip' = LiveZips
  /\ todo' = [todo EXCEPT ![c] = OldEnded]
  /\ shared' = shared \cup (OldEnded \cap UNION {Listed(d) : d \in Pruners \ {c}})
  /\ Goto(c, "pick")
  /\ UNCHANGED <<data, expired, cur, snap, purging, kills>>

\* The next id; _batch_snapshot_json reads what rows there are by now.
Pick(c, b) ==
  /\ stage[c] = "pick" /\ b \in todo[c]
  /\ todo' = [todo EXCEPT ![c] = @ \ {b}]
  /\ cur' = [cur EXCEPT ![c] = {b}]
  /\ snap' = [snap EXCEPT ![c] = b \in Present]
  /\ Goto(c, IF Archiving THEN "archive" ELSE "delete")
  /\ UNCHANGED <<data, zip, expired, purging, shared, kills>>

Snapshot(c, b) == {"zip"} \cup disk[b] \cup (IF snap[c] THEN {"rows"} ELSE {})

\* Mutant: a batch is deleted whether or not its archive was written.
ArchiveCareless(c) ==
  /\ stage[c] = "archive"
  /\ \E b \in cur[c], ok \in BOOLEAN :
       /\ zip' = [zip EXCEPT ![b] = IF ok THEN Snapshot(c, b) ELSE {}]
       /\ expired' = expired \ {b}
  /\ Goto(c, "delete")
  /\ UNCHANGED <<data, todo, cur, snap, purging, shared, kills>>

\* The zip is written over an earlier one; when that fails it is removed, and
\* the batch is left alone.
ArchiveBatch(c) ==
  /\ stage[c] = "archive"
  /\ \E b \in cur[c], ok \in BOOLEAN :
       /\ zip' = [zip EXCEPT ![b] = IF ok THEN Snapshot(c, b) ELSE {}]
       /\ expired' = expired \ {b}
       /\ Goto(c, IF ok THEN "delete" ELSE "pick")
  /\ UNCHANGED <<data, todo, cur, snap, purging, shared, kills>>

\* delete_batch_rows; an error of it is logged and the next id is taken.
DeleteRows(c) ==
  /\ stage[c] = "delete"
  /\ \E b \in cur[c] :
       \/ b \in Present /\ row' = [row EXCEPT ![b] = "pruned"] /\ Goto(c, "purge")
       \/ Goto(c, "pick") /\ UNCHANGED row
  /\ UNCHANGED <<old, disk, zip, expired, todo, cur, snap, purging, shared, kills>>

Purged(gone) == [b \in Batches |-> IF b \in gone THEN {} ELSE disk[b]]

PurgeFiles(c) ==
  /\ stage[c] = "purge"
  /\ disk' = Purged(cur[c])
  /\ Goto(c, "pick")
  /\ UNCHANGED <<row, old, zip, expired, todo, cur, snap, purging, shared, kills>>

EndPrune(c) ==
  /\ stage[c] = "pick" /\ todo[c] = {}
  /\ Goto(c, "sweep")
  /\ cur' = [cur EXCEPT ![c] = {}] /\ snap' = [snap EXCEPT ![c] = FALSE]
  /\ UNCHANGED <<data, zip, expired, todo, purging, shared, kills>>

\* run_cleanup: any log file older than the cutoff, of an old batch that still
\* runs or whose archiving failed too; then emptied directories.
Sweep(c) ==
  /\ stage[c] = "sweep"
  /\ \E gone \in SUBSET old :
       disk' = [b \in Batches |-> IF b \in gone THEN disk[b] \ {"logs"} ELSE disk[b]]
  /\ Goto(c, "idle")
  /\ UNCHANGED <<row, old, zip, expired, todo, cur, snap, purging, shared, kills>>
-----------------------------------------------------------------------------
(* Around it *)

BatchEnds(b) ==
  /\ row[b] = "active"
  /\ row' = [row EXCEPT ![b] = "terminal"]
  /\ UNCHANGED <<old, disk, zip, expired, work, purging, shared, kills>>

\* Time passes: a batch or its archive reaches its age.
BatchAges(b) ==
  /\ old' = old \cup {b}
  /\ UNCHANGED <<row, disk, zip, expired, work, purging, shared, kills>>

ArchiveAges(b) ==
  /\ zip[b] # {}
  /\ expired' = expired \cup {b}
  /\ UNCHANGED <<data, zip, work, purging, shared, kills>>

\* DELETE /batches/{id}, POST /batches/delete-by-status: rows, then files.
UserDeletes(b) ==
  /\ row[b] = "terminal"
  /\ row' = [row EXCEPT ![b] = "deleted"] /\ purging' = purging \cup {b}
  /\ UNCHANGED <<old, disk, zip, expired, work, shared, kills>>

UserPurges(b) ==
  /\ b \in purging
  /\ disk' = Purged({b}) /\ purging' = purging \ {b}
  /\ UNCHANGED <<row, old, zip, expired, work, shared, kills>>

\* A kill ends every call, the writing of a zip in the middle too; the boot
\* cancels the active batches.
Kill ==
  /\ kills < MaxKills /\ kills' = kills + 1
  /\ \E torn \in SUBSET UNION {cur[c] : c \in {p \in Pruners : stage[p] = "archive"}} :
       zip' = [b \in Batches |-> IF b \in torn THEN zip[b] \ {"zip", "rows"} ELSE zip[b]]
  /\ row' = [b \in Batches |-> IF row[b] = "active" THEN "terminal" ELSE row[b]]
  /\ stage' = [c \in Pruners |-> "idle"] /\ snap' = [c \in Pruners |-> FALSE]
  /\ todo' = [c \in Pruners |-> {}] /\ cur' = [c \in Pruners |-> {}]
  /\ purging' = {}
  /\ UNCHANGED <<old, disk, expired, shared>>

Init ==
  /\ row = [b \in Batches |-> "active"] /\ old = {}
  /\ disk = [b \in Batches |-> Files]
  /\ zip = [b \in Batches |-> {}] /\ expired = {}
  /\ stage = [c \in Pruners |-> "idle"] /\ snap = [c \in Pruners |-> FALSE]
  /\ todo = [c \in Pruners |-> {}] /\ cur = [c \in Pruners |-> {}]
  /\ purging = {} /\ shared = {} /\ kills = 0

PruneStep(c) ==
  \/ Begin(c) \/ ArchiveBatch(c) \/ DeleteRows(c) \/ PurgeFiles(c) \/ EndPrune(c)
  \/ Sweep(c)
  \/ \E b \in Batches : Pick(c, b)

Next ==
  \/ \E c \in Pruners : PruneStep(c)
  \/ \E b \in Batches : BatchEnds(b) \/ BatchAges(b) \/ ArchiveAges(b)
  \/ \E b \in Batches : UserDeletes(b) \/ UserPurges(b)
  \/ Kill

Spec == Init /\ [][Next]_vars
-----------------------------------------------------------------------------
\* "Archive first; if archiving fails, skip the delete so we never lose data to
\* a broken archive step": the rows that retention has removed are in an archive
\* that can be read, until it is too old, whatever failed or was killed, whatever a
\* user deletes beside it and however many calls run.  Rows are lost only of a
\* batch that two calls had listed: the slower one writes an archive without rows
\* over the good one.
PrunedIsArchived ==
  Archiving => \A b \in Batches \ shared :
    row[b] = "pruned" => {"zip", "rows"} \subseteq zip[b] \/ b \in expired

=============================================================================
