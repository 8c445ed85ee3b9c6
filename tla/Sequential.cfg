\* One request at a time, two partitions, restarts of client and layer, and an
\* eviction.
SPECIFICATION Spec
CONSTANTS
  p1 = p1
  p2 = p2
  Partitions = {p1, p2}
  Requests = {q}
  q = q
  r = r
  NoConsumer = NoConsumer
  NoRequest = NoRequest
  Crashed = Crashed
  Backlog = 1
  MaxEnd = 3
  MaxEvictions = 1
  Limits <- ShortLimits
  NilLimit = 2
  MaxCount = 4
  Undecodable <- SecondOfP1
  Poison <- SecondOfP2
  ClientGivesUp = FALSE
  ClientRestarts = TRUE
  ServerCrashes = TRUE
INVARIANTS TypeOK FullRead LimitRespected
PROPERTIES InOrder ImplementsFeed
