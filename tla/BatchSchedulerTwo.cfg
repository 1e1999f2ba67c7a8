\* Two batches that rerun, replay and delete each other, one I/O error.
SPECIFICATION Spec
CONSTANTS
  x1 = x1
  x2 = x2
  x3 = x3
  Batches = {b1, b2}
  Samples = {x1, x2}
  Kinds <- ApiKinds
  Callbacks = {}
  Concurrency = 1
  MaxFaults = 1
  MaxRestarts = 0
INVARIANTS
  NoOrphanRows
PROPERTIES
  RerunsAreSeparate
