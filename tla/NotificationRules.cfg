\* Three samples on a phone, streaks of two, and a kill of the process.
SPECIFICATION Spec
CONSTANTS
  Samples = {x1, x2, x3}
  Serials = {d1}
  SerialOf <- OnePhone
  Responses = {r1}
  Empty = Empty
  Threshold = 2
  MaxKills = 1
SYMMETRY Symmetry
INVARIANTS
  StreaksAreSound
\* Every sample is judged once.
CHECK_DEADLOCK FALSE
