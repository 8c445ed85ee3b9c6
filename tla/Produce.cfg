\* Two payloads at a time, a reload and a failing write.
SPECIFICATION Spec
CONSTANTS
  q = q
  r = r
  Requests = {q, r}
  Payloads <- Valid
  BatchSize = 2
  StripProps = TRUE
  Topics = {a, b}
  a = a
  b = b
  NoTopic = NoTopic
  MaxReloads = 1
  MaxFailures = 1
INVARIANTS TypeOK AcceptedIsSent WholeBatches SentInOrder
PROPERTY Answered
