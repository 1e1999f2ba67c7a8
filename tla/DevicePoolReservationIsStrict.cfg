\* A docstring sentence that the code does not keep.
SPECIFICATION Spec
CONSTANTS
  Serials = {d1, d2}
  Sessions = {s1, s2}
  Requests = {r1, r2}
  Pools <- NoPools
  MaxSessions = 2
  NoSerial = NoSerial
  NoSession = NoSession
  NoRequest = NoRequest
SYMMETRY Symmetry
PROPERTIES
  ReservationIsStrict
