\* One phone, so that three calls meet in its lock; every call is answered.
SPECIFICATION FairSpec
CONSTANTS
  Serials = {d1}
  Sessions = {}
  Requests = {r1, r2, r3}
  Pools <- NoPools
  MaxSessions = 1
  NoSerial = NoSerial
  NoSession = NoSession
  NoRequest = NoRequest
INVARIANTS
  MutualExclusion
  NoLostWakeup
  QueuesAreExact
PROPERTIES
  ImplementsLease
  PollingEnds
  QueueingEnds
