\* A reload that is due before the boot has kept what it loaded.
SPECIFICATION Spec
CONSTANTS
  empty = empty
  one = one
  two = two
  bare = bare
  t1 = t1
  t2 = t2
  Configs = {empty, one, bare}
  Unreadable = Unreadable
  NoConfig = NoConfig
  TopicsOf <- MCTopicsOf
  NoSettings <- Bare
  MaxChanges = 1
  MaxFailures = 0
PROPERTY ChangesAreLoaded
