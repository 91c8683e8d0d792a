\* From the venue to the subscriber.
SPECIFICATION FeedSpec
CONSTANTS
  s1 = s1
  o0 = o0
  o1 = o1
  o2 = o2
  Symbol = {s1}
  NoSymbol = NoSymbol
  SymbolFile <- OneSymbol
  OrderId = {o0, o1, o2}
  EmptyId = o0
  Absent = Absent
  Size = {0, 2, 4}
  Unit = 2
  VolumeMod = 3
  Time = {1}
  NoTime = 0
  Price = {1, 2}
  NoBid <- MCNoBid
  NoAsk <- MCNoAsk
  NoOrder = NoOrder
  NoLevel = NoLevel
  NoBook = NoBook
  NoBBO = NoBBO
  NewReplaces = FALSE
  IsPublishing = TRUE
  FullEntry <- SomeFull
  UpdateEntry <- SomeUpdates
  MaxEntries = 2
  Quoted = s1
  Quote <- Some
  ResetSeqNo = TRUE
  VenueKeeps = TRUE
  MaxChanges = 2
  MaxOutages = 1
INVARIANTS
  FeedTypeOK
  StaysUp
  BookFollowsVenue
PROPERTIES
  FeedConforms
  HearsVenuePrices
  SubscriberCatchesUp
CHECK_DEADLOCK FALSE
