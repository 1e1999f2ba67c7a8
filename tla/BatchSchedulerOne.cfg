\* One batch of every kind of sample, no I/O error; it ends.
SPECIFICATION FairSpec
CONSTANTS
  x1 = x1
  x2 = x2
  x3 = x3
  Batches = {b1}
  Samples = {x1, x2, x3}
  Kinds <- MixedKinds
  Callbacks = {x1, x2}
  Concurrency = 2
  MaxFaults = 0
  MaxRestarts = 1
INVARIANTS
  TypeOK
  EndIsComplete
  ActiveIsOurs
PROPERTIES
  ProgressNeverBack
  NothingAfterEnd
  Settles
