\* Ids are fresh and events in time order: the book is the abstract book, its
\* best prices are backed, and no level is stamped ahead of it.
SPECIFICATION TimedSpec
CONSTANTS
  OrderId = {o1, o2, o3}
  Size = {1, 5}
  Unit = 2
  VolumeMod = 3
  Time = {1, 2}
  NoTime = 0
  Price = {1, 2}
  NoBid <- MCNoBid
  NoAsk <- MCNoAsk
  NoOrder = NoOrder
  NoLevel = NoLevel
  MaxResting = 3
SYMMETRY IdSymmetry
INVARIANTS
  FreshIdsLeaveNoGhosts
  BestPriceIsBacked
  LevelsNotAheadOfBook
PROPERTIES
  ImplementsAbstractBook
  ModifyShowsInGetOrder
