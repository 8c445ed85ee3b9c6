\* Every request ends, also when it is cancelled, thrown out of the group or panics on
\* the third message, and leaves nothing behind.
SPECIFICATION FairSpec
CONSTANTS
  p1 = p1
  p2 = p2
  Partitions = {p1}
  Requests = {q, r}
  q = q
  r = r
  NoConsumer = NoConsumer
  NoRequest = NoRequest
  Crashed = Crashed
  Backlog = 3
  MaxEnd = 3
  MaxEvictions = 1
  Limits <- NoLimit
  NilLimit = 1
  MaxCount = 2
  Undecodable <- None
  Poison <- ThirdOfP1
  ClientGivesUp = TRUE
  ClientRestarts = FALSE
  ServerCrashes = FALSE
INVARIANTS NoLoss MembersAreServed
PROPERTY RequestEnds
