\* Two phones; the loop and one refresh request.
SPECIFICATION FairSpec
CONSTANTS
  Phones = {d1, d2}
  Plugged = {d1, d2}
  Loop = Loop
  Requests = {r1}
  MaxChanges = 2
  MaxRefreshes = 1
  NoPhone = NoPhone
PROPERTIES
  PoolConverges
  NewsArrive
