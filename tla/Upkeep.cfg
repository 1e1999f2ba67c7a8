\* The parts beside the batches, one per behaviour. Retention and backups are
\* asked for by a user while the loop runs them.
SPECIFICATION UpkeepSpec
CONSTANTS
  Applies = {a1, a2}
  Batches = {b1}
  MaxCommit = 2
  Touches <- FirstTouches
  Archivable = {d1}
  Pruners = {c1, c2}
  Archiving = TRUE
  Runs = {r1, r2}
  Retention = 2
  MaxCount = 1
  Samples = {x1, x2}
  Slow = {x2}
  MinHistory = 1
  Interval = 2
  Stored = {b1, b2}
  SingleRows = {b1}
  Results <- SomeResults
  Default <- SomeDefaults
  MaxSecond = 5
  MaxHalf = 6
  MaxKills = 1
SYMMETRY Alike
INVARIANTS
  
  PrunedStaysArchived
  FreshBackupIsKept
  AnomaliesAreTold
  ListIsHonest
\* A service that has updated, a killed one and a listing with nothing left stop.
CHECK_DEADLOCK FALSE
