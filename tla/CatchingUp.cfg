\* A client that keeps asking reaches the end of the topic.
SPECIFICATION LiveSpec
CONSTANTS
  p1 = p1
  p2 = p2
  Partitions = {p1, p2}
  Requests = {q}
  q = q
  r = r
  NoConsumer = NoConsumer
  NoRequest = NoRequest
  Crashed = Crashed
  Backlog = 1
  MaxEnd = 2
  MaxEvictions = 1
  Limits <- SomeLimits
  NilLimit = 2
  MaxCount = 3
  Undecodable <- None
  Poison <- None
  ClientGivesUp = FALSE
  ClientRestarts = FALSE
  ServerCrashes = FALSE
PROPERTY CaughtUp
