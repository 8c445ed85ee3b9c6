\* Requests while the application starts, with changing keys and a reload.
SPECIFICATION Spec
CONSTANTS
  r1 = r1
  a = a
  b = b
  k1 = k1
  k2 = k2
  Requests = {r1}
  Datasets = {a, b}
  Configs <- MCConfigs
  Keys = {k1, k2}
  NoCertificate <- MCBroken
  Tokens <- MCTokens
  NoToken = NoToken
  MaxReloads = 1
  MaxRotations = 1
  MaxFaults = 1
INVARIANTS TypeOK OnlyAuthorized GoodIsServed  StableIsServed
PROPERTIES KeysLearned
\* The application stops for good when its topics cannot be created.
CHECK_DEADLOCK FALSE
