\* Two requests at the same time from a client that gives up and starts over, with
\* crashes, on two partitions (so that tokens are partial) with two messages each
\* (so that one can be skipped).
SPECIFICATION Spec
CONSTANTS
  p1 = p1
  p2 = p2
  Partitions = {p1, p2}
  Requests = {q, r}
  q = q
  r = r
  NoConsumer = NoConsumer
  NoRequest = NoRequest
  Crashed = Crashed
  Backlog = 2
  MaxEnd = 2
  MaxEvictions = 0
  Limits <- OneLimit
  NilLimit = 1
  MaxCount = 2
  Undecodable <- None
  Poison <- None
  ClientGivesUp = TRUE
  ClientRestarts = TRUE
  ServerCrashes = TRUE
INVARIANTS NoLoss CommittedIsRead RegisteredIsLive MembersAreServed
SYMMETRY Symmetry
