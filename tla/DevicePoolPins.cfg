\* Two phones, three conversations that share a table of two pins.
SPECIFICATION Spec
CONSTANTS
  Serials = {d1, d2}
  Sessions = {s1, s2, s3}
  Requests = {r1, r2}
  Pools <- WholePool
  MaxSessions = 2
  NoSerial = NoSerial
  NoSession = NoSession
  NoRequest = NoRequest
SYMMETRY Symmetry
INVARIANTS
  TypeOK
  KnownReservationsRespected
  NeverSubstitutes
PROPERTIES
  ReservationsLast
  PinsAreFair
