------------------------------- MODULE Upkeep -------------------------------
(***************************************************************************)
(* What the service does beside its batches: it updates itself, archives   *)
(* and removes old batches, backs up its data, looks for slow samples, and *)
(* lists what is there.  These parts share neither memory nor rows that    *)
(* their properties depend on, so a behaviour is one of one part; the      *)
(* others stay as they began.                                              *)
(***************************************************************************)
EXTENDS SelfUpdate, Sequences

CONSTANTS Archivable, Pruners, Archiving,  \* of BatchRetention
          Runs, Retention, MaxCount,       \* of Backups
          Samples, Slow, MinHistory, Interval,  \* of Anomalies
          Stored, SingleRows, Default, Results,   \* of Listing
          MaxSecond, MaxHalf,              \* bounds: the last moment of Backups, of Anomalies
          MaxKills                         \* bound: kills of the process

ASSUME BackupAssumption ==
  /\ Retention \in Nat /\ MaxCount \in Nat
  /\ MaxSecond \in Nat \ {0}

ASSUME AnomalyAssumption == Interval \in Nat /\ MaxHalf \in Nat \ {0}

VARIABLES part,
          row, age, disk, zip, expired, stage, pruning, cur, snap, purging, shared, prunerKills,
          clock, zips, at, name, beside, lost, backupKills,
          second, timed, hook, fill, recorded, judging, records, told, lastSent, digest, windows,
          status, ran, kept, reader, page

Archive == INSTANCE BatchRetention
  WITH Batches <- Archivable,
       old <- age, todo <- pruning, kills <- prunerKills
Backup == INSTANCE Backups WITH MaxClock <- MaxSecond, kills <- backupKills
Anomaly == INSTANCE Anomalies
  WITH MaxClock <- MaxHalf,
       clock <- second, known <- recorded, todo <- judging
List == INSTANCE Listing WITH Batches <- Stored, Single <- SingleRows

\* Executors append the reviewed text, which is a text, and its error together.
ASSUME ListingAssumption ==
  /\ SingleRows \subseteq Stored
  /\ \A r \in Results :
       /\ r.profile # List!None /\ (r.released => ~r.asked) /\ r.answers \in Seq(STRING) /\ r.llm \in Seq(STRING)
       /\ Len(r.errors) = Len(r.llm) /\ \A i \in 1 .. Len(r.llm) : r.llm[i] # List!None

archiveVars == <<row, age, disk, zip, expired, stage, pruning, cur, snap, purging, shared, prunerKills>>
backupVars == <<clock, zips, at, name, beside, lost, backupKills>>
anomalyVars ==
  <<second, timed, hook, fill, recorded, judging, records, told, lastSent, digest, windows>>
listVars == <<status, ran, kept, reader, page>>
UpkeepVars ==
  <<part, updateVars, archiveVars, backupVars, anomalyVars, listVars>>

UpkeepInit ==
  /\ part \in {"update", "retention", "backup", "anomaly", "list"}
  /\ Init /\ Archive!Init /\ Backup!Init /\ Anomaly!Init /\ List!Init

UpdateStep ==
  /\ part = "update" /\ Next
  /\ UNCHANGED <<part, archiveVars, backupVars, anomalyVars, listVars>>

RetentionStep ==
  /\ part = "retention" /\ Archive!Next
  /\ UNCHANGED <<part, updateVars, backupVars, anomalyVars, listVars>>

BackupStep ==
  /\ part = "backup" /\ Backup!Next
  /\ UNCHANGED <<part, updateVars, archiveVars, anomalyVars, listVars>>

AnomalyStep ==
  /\ part = "anomaly" /\ Anomaly!Next
  /\ UNCHANGED <<part, updateVars, archiveVars, backupVars, listVars>>

ListStep ==
  /\ part = "list" /\ List!Next
  /\ UNCHANGED <<part, updateVars, archiveVars, backupVars, anomalyVars>>

UpkeepNext == UpdateStep \/ RetentionStep \/ BackupStep \/ AnomalyStep \/ ListStep

UpkeepSpec == UpkeepInit /\ [][UpkeepNext]_UpkeepVars
-----------------------------------------------------------------------------
(* The properties of the parts, stated and explained in their modules.  Those *)
(* of SelfUpdate are UpdateIsSafe and what the runs of findings refute.       *)

\* Rows that retention removed are in a readable archive (batch_retention.py).
PrunedStaysArchived == Archive!TypeOK /\ Archive!PrunedIsArchived

\* A backup that was reported is there, and whole (backup.py).
FreshBackupIsKept == Backup!TypeOK /\ Backup!FreshIsKept

\* Slow samples are recorded once by a backfill, and told (anomaly services).
AnomaliesAreTold == Anomaly!AnomaliesAreTold

\* Filters, cards and rows of the page of batches agree (batches.py).
ListIsHonest == part = "list" => List!ListIsHonest
=============================================================================
