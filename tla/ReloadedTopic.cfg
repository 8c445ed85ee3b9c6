\* Does a request write to the topic its dataset is configured with?
SPECIFICATION Spec
CONSTANTS
  q = q
  r = r
  Requests = {q, r}
  Payloads <- Valid
  BatchSize = 2
  StripProps = FALSE
  Topics = {a, b}
  a = a
  b = b
  NoTopic = NoTopic
  MaxReloads = 1
  MaxFailures = 0
INVARIANT SentToConfigured
