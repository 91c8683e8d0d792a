\* A feed that keeps to the protocol, for two symbols.
SPECIFICATION ConformingSpec
CONSTANTS
  s1 = s1
  s2 = s2
  o0 = o0
  o1 = o1
  o2 = o2
  Symbol = {s1, s2}
  NoSymbol = NoSymbol
  SymbolFile <- TwoSymbols
  OrderId = {o0, o1, o2}
  EmptyId = o0
  Absent = Absent
  Size = {0, 2, 3}
  Unit = 2
  VolumeMod = 3
  Time = {1}
  NoTime = 0
  Price = {1, 2}
  NoBid <- MCNoBid
  NoAsk <- MCNoAsk
  NoOrder = NoOrder
  NoLevel = NoLevel
  NoBook = NoBook
  NoBBO = NoBBO
  NewReplaces = TRUE
  IsPublishing = TRUE
  FullEntry <- TidyFull
  UpdateEntry <- TidyUpdate
  MaxEntries = 2
  MaxResting = 2
INVARIANTS
  PublishedIsCurrent
  StaysUp
  BooksHaveNoGhosts
