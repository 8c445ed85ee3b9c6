\* Are two requests ever polling at the same time?
SPECIFICATION Spec
CONSTANTS
  p1 = p1
  p2 = p2
  Partitions = {p1}
  Requests = {q, r}
  q = q
  r = r
  NoConsumer = NoConsumer
  NoRequest = NoRequest
  Crashed = Crashed
  Backlog = 1
  MaxEnd = 1
  MaxEvictions = 0
  Limits <- SomeLimits
  NilLimit = 1
  MaxCount = 3
  Undecodable <- None
  Poison <- None
  ClientGivesUp = TRUE
  ClientRestarts = TRUE
  ServerCrashes = FALSE
INVARIANT AtMostOneRunning
