------------------------------- MODULE Backups ------------------------------
(***************************************************************************)
(* Backups of the database and the profiles (maintenance/backup.py), run   *)
(* by a loop (maintenance/scheduler.py) and by POST /config/backup/run     *)
(* (api/config.py), each in a thread of its own.                           *)
(***************************************************************************)
EXTENDS Naturals, FiniteSets, Sequences, SequencesExt

CONSTANTS Runs,        \* callers of run_backup
          Retention,   \* backup_retention_days, in the model's seconds
          MaxCount,    \* backup_max_count; 0 switches the cap off
          MaxClock,    \* bound: the last second
          MaxKills     \* bound: kills of the process

VARIABLES clock,
          zips,     \* data/backups, in the order of the last write
          at,       \* run -> where its thread stands
          name,     \* run -> the second that names its zip
          beside,   \* history: runs that another one was under way with
          lost,     \* history: runs that had none beside them and reported a zip
                    \* which is not there, or torn
          kills

backupVars == <<clock, zips, at, name, beside, lost, kills>>

BackupZip == [name : 1 .. MaxClock, wrote : 1 .. MaxClock, whole : BOOLEAN]

TypeOK ==
  /\ clock \in 1 .. MaxClock
  /\ zips \in Seq(BackupZip)
  /\ at \in [Runs -> {"idle", "copy", "write", "cap", "report"}]
  /\ name \in [Runs -> 1 .. MaxClock]
  /\ lost \subseteq Runs /\ beside \subseteq Runs

Goto(r, where) == at' = [at EXCEPT ![r] = where]
\* The zips but for that of a name: a name is a path, so there is one at most.
Named(n) == {i \in DOMAIN zips : zips[i].name = n}
Without(n) == IF Named(n) = {} THEN zips ELSE RemoveAt(zips, CHOOSE i \in Named(n) : TRUE)
Written(n, ok) == Append(Without(n), [name |-> n, wrote |-> clock, whole |-> ok])
-----------------------------------------------------------------------------
\* Mutant: the order of the zips is taken the wrong way round.
KeepOldest(n) == SubSeq(zips, 1, n)

\* The last of the zips, which are in the order of their last write.
KeepNewest(n) == SubSeq(zips, Len(zips) - n + 1, Len(zips))

\* _prune_old_backups.
Fresh == KeepNewest(Cardinality({i \in DOMAIN zips : zips[i].wrote + Retention >= clock}))

Busy(r) == {q \in Runs \ {r} : at[q] # "idle"}

\* The loop does nothing when the retention is 0; a request keeps all then.
StartRun(r) ==
  /\ at[r] = "idle"
  /\ beside' = IF Busy(r) = {} THEN beside \ {r} ELSE beside \cup Busy(r) \cup {r}
  /\ zips' = IF Retention = 0 THEN zips ELSE Fresh
  /\ Goto(r, "copy")
  /\ UNCHANGED <<clock, name, lost, kills>>

\* The database is copied aside by SQLite's backup API; the zip is named by the
\* second and opened, over one that has the same name.
CopyDatabase(r) ==
  /\ at[r] = "copy"
  /\ name' = [name EXCEPT ![r] = clock]
  /\ zips' = Written(clock, FALSE)
  /\ Goto(r, "write")
  /\ UNCHANGED <<clock, beside, lost, kills>>

\* The zip is complete, or an error leaves it as it is.
WriteZip(r) ==
  /\ at[r] = "write"
  /\ \/ zips' = Written(name[r], TRUE) /\ Goto(r, "cap")
     \/ zips' = zips /\ Goto(r, "idle")
  /\ UNCHANGED <<clock, name, beside, lost, kills>>

\* _prune_excess_backups: the newest by the time of the last write.
Cap(r) ==
  /\ at[r] = "cap"
  /\ zips' = IF MaxCount = 0 \/ Len(zips) <= MaxCount THEN zips ELSE KeepNewest(MaxCount)
  /\ Goto(r, "report")
  /\ UNCHANGED <<clock, name, beside, lost, kills>>

\* The size of the new zip goes into the report.
Report(r) ==
  /\ at[r] = "report"
  /\ lost' = IF r \in beside \/ \E z \in ToSet(zips) : z.name = name[r] /\ z.whole
             THEN lost ELSE lost \cup {r}
  /\ Goto(r, "idle")
  /\ UNCHANGED <<clock, zips, name, beside, kills>>

\* delete_backup: a zip that is not there is a 404.  Assumed: nobody deletes the
\* one a run is at.
Delete(z) ==
  /\ \A r \in Runs : at[r] # "idle" => name[r] # z.name
  /\ zips' = Without(z.name)
  /\ UNCHANGED <<clock, at, name, beside, lost, kills>>

Tick ==
  /\ clock < MaxClock /\ clock' = clock + 1
  /\ UNCHANGED <<zips, at, name, beside, lost, kills>>

\* A kill leaves a zip that was being written.
Kill ==
  /\ kills < MaxKills /\ kills' = kills + 1
  /\ at' = [r \in Runs |-> "idle"]
  /\ UNCHANGED <<clock, zips, name, beside, lost>>

Init ==
  /\ clock = 1 /\ zips = <<>> /\ kills = 0 /\ beside = {} /\ lost = {}
  /\ at = [r \in Runs |-> "idle"] /\ name = [r \in Runs |-> 1]

Next ==
  \/ \E r \in Runs : StartRun(r) \/ CopyDatabase(r) \/ WriteZip(r) \/ Cap(r) \/ Report(r)
  \/ \E z \in ToSet(zips) : Delete(z)
  \/ Tick \/ Kill

Spec == Init /\ [][Next]_backupVars
-----------------------------------------------------------------------------
\* "Count cap runs after the new zip is written so it counts toward the newest-N
\* kept (it never prunes the fresh backup itself)": a run that had no other beside
\* it and reports success has left its zip, whole, whatever torn zips kills, errors
\* and earlier runs have left.  Not so of two runs at a time: a zip that is still
\* being written is newer than one just finished and takes its place.
FreshIsKept == lost = {}

=============================================================================
