\* An event between the reads of a snapshot.
SPECIFICATION Spec
CONSTANTS
  Total = 1
  BufferSize = 10
  MaxCuts = 0
  MaxReloads = 0
  MaxRestarts = 0
CHECK_DEADLOCK FALSE
INVARIANTS
  SeqIsAbsorbed
