\* Ids are reused freely: what holds whatever the client does.
SPECIFICATION Spec
CONSTANTS
  OrderId = {o1, o2}
  Size = {1, 5}
  Unit = 2
  VolumeMod = 3
  Time = {1}
  NoTime = 0
  Price = {1, 2}
  NoBid <- MCNoBid
  NoAsk <- MCNoAsk
  NoOrder = NoOrder
  NoLevel = NoLevel
  MaxResting = 3
CONSTRAINT FewResting
INVARIANTS
  TypeOK
  KnownOrdersAreFound
  BookIndexed
  LinkedEntriesAgree
  VolumeIsSum
