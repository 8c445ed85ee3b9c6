\* Reloads, sources that cannot be read, a broker that fails, and a configuration
\* that ends the process.
SPECIFICATION Spec
CONSTANTS
  empty = empty
  one = one
  two = two
  bare = bare
  t1 = t1
  t2 = t2
  Configs = {empty, one, two, bare}
  Unreadable = Unreadable
  NoConfig = NoConfig
  TopicsOf <- MCTopicsOf
  NoSettings <- Bare
  MaxChanges = 2
  MaxFailures = 1
INVARIANTS TypeOK DigestIsCurrent UpHasConfig NoTopicForgotten
PROPERTIES ConfigConverges TopicsCreated
