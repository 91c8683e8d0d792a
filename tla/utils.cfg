\* Routes, times and hashes.
SPECIFICATION Spec
CONSTANTS
  Byte = {0, 1, 2}
  AddrLen = 2
  MaxHops = 2
  SizeMod = 16
  Addr <- SomeAddr
  NoNode = NoNode
  K = 10
  Day = 4
  IntMod = 20
  LongMod = 10000
  Times <- SomeTimes
  Keys <- SomeKeys
  Follows <- SomeFollows
  Seeds <- SomeSeeds
  HalfXor <- MCHalfXor
INVARIANTS
  IntervalsAdd
  SendingTimeSurvives
  SameIdSameHash
  HashesAgree
PROPERTIES
  ImplementsAbstractRoute
CHECK_DEADLOCK FALSE
