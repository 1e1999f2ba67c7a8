\* A page whose connections break and whose buffer overflows, that loads again,
\* a batch that is deleted, a process that is killed; two phones, one by wifi,
\* and a job.
SPECIFICATION RecoverySpec
CONSTANTS
  Total = 4
  BufferSize = 2
  MaxCuts = 2
  MaxReloads = 1
  MaxRestarts = 1
  Phones = {u, w}
  Wifi = {w}
  Jobs = {1}
  Free = Free
  Sample = Sample
INVARIANTS
  PageIsTrue
PROPERTIES
  ViewNeverBack
  EndShows
  WifiComesBack
  CareIsTold
\* Batch and page end, jobs end.
CHECK_DEADLOCK FALSE
