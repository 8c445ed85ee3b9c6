\* Messages, headers and mappings whose names collide.
SPECIFICATION Spec
CONSTANTS
  Values <- MCValues
  KindOf <- MCKinds
  FieldsOf <- Objs
  ElementsOf <- Arrs
  Depth <- MCDepth
  Numeral <- MCNumerals
  TrueValues = {"true", "1", "2", "3"}
  Messages <- MCMessages
  Headers <- MCHeaders
  MappingLists <- MCMappingLists
  Key = "key"
  Null = "absent"
INVARIANTS EveryFieldWritten NamesArePaths HeadersKept PanicsOnMixed
\* The walk is over when the message is encoded.
CHECK_DEADLOCK FALSE
