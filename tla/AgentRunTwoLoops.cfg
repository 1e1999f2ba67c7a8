\* An attempt that timed out, and the next one.
SPECIFICATION Spec
CONSTANTS
  Platforms = {"android", "pc"}
  Prompts = 2
  Attempts = 1
  MaxSteps = 3
CHECK_DEADLOCK FALSE
INVARIANTS
  OneLoopDrives
