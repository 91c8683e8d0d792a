-------------------------------- MODULE Book --------------------------------
(***************************************************************************)
(* The order book (order_book/include/order_book.h,                        *)
(* order_book/src/order_book.cpp): a map from order id to order and, on    *)
(* each side, the price levels the orders rest at.  As in Level, every     *)
(* operator is pure: it maps a book to the book after the call.            *)
(*                                                                         *)
(* The map and the level lists hold shared pointers to order objects, of   *)
(* which only the size is ever changed.  A map entry is "linked" when the  *)
(* object it points to is the one in its level's list, so that a change    *)
(* made through the level is seen through the map.                         *)
(***************************************************************************)
EXTENDS Level

CONSTANTS
  Price,         \* prices
  NoBid, NoAsk,  \* what bestPrice returns for an empty side
  NoOrder,       \* an id the map does not hold, a null porder
  NoLevel        \* a price without a level

(* The sentinels are the least and the greatest 32-bit integer; prices lie *)
(* between them.                                                           *)
ASSUME PriceAssumption == /\ Price \subseteq Int /\ NoBid \in Int /\ NoAsk \in Int
                          /\ \A price \in Price : NoBid < price /\ price < NoAsk

BID    == "BID"
ASK    == "ASK"
NOSIDE == "NO_SIDE"
BookSide == {BID, ASK}
Side     == {BID, ASK, NOSIDE}

Order == [side : BookSide, price : Price, size : Size, linked : BOOLEAN]

ASSUME NullAssumption == /\ NoOrder \notin Order
                         /\ NoLevel \notin LevelType

BookType == [orderMap    : [OrderId -> Order \cup {NoOrder}],
             tree        : [BookSide -> [Price -> LevelType \cup {NoLevel}]],
             evtTime     : Time \cup {NoTime},
             exchSndTime : Time \cup {NoTime}]

NoOrders == [id \in OrderId |-> NoOrder]
NoLevels == [side \in BookSide |-> [price \in Price |-> NoLevel]]

(* The constructor leaves both times uninitialised.                        *)
NewBook == [orderMap |-> NoOrders, tree |-> NoLevels,
            evtTime |-> NoTime, exchSndTime |-> NoTime]

-----------------------------------------------------------------------------
(* Queries.                                                                *)

GetOrder(b, id) == b.orderMap[id]

Prices(b, side) == {price \in Price : b.tree[side][price] # NoLevel}

(* Mutant of BestPrice: both trees are read from the low end.              *)
LowestPrice(b, side) ==
  IF Prices(b, side) = {}
  THEN IF side = BID THEN NoBid ELSE NoAsk
  ELSE CHOOSE best \in Prices(b, side) :
         \A price \in Prices(b, side) : best <= price

(* Bids are read from the high end of the tree, asks from the low end.     *)
BestPrice(b, side) ==
  IF Prices(b, side) = {}
  THEN IF side = BID THEN NoBid ELSE NoAsk
  ELSE CHOOSE best \in Prices(b, side) :
         \A price \in Prices(b, side) :
           IF side = BID THEN price <= best ELSE best <= price

TotalVolumeAtLimit(b, side, price) ==
  IF price \in Prices(b, side) THEN b.tree[side][price].totalVolume ELSE 0

OrderCountAtLimit(b, side, price) ==
  IF price \in Prices(b, side) THEN Len(b.tree[side][price].orders) ELSE 0

BestPriceVolume(b, side) == TotalVolumeAtLimit(b, side, BestPrice(b, side))

-----------------------------------------------------------------------------
(* Operations.  The sending time is stored before anything is looked up,   *)
(* so a call that finds nothing moves it too.                              *)

Sent(b, sndTime) == [b EXCEPT !.exchSndTime = sndTime]

(* A call that finds its order sets one map entry, one level, both times.  *)
Put(b, id, o, side, price, lvl, evtTime, sndTime) ==
  [orderMap |-> [b.orderMap EXCEPT ![id] = o],
   tree |-> [b.tree EXCEPT ![side][price] = lvl],
   evtTime |-> evtTime, exchSndTime |-> sndTime]

(* Mutant of AddAt: the book keeps its old time.                           *)
AddAtUntimed(b, id, side, size, price, evtTime, sndTime) ==
  LET found == b.tree[side][price]
      lvl   == IF found = NoLevel THEN NewLevel ELSE found
  IN  Put(b, id, [side |-> side, price |-> price, size |-> size,
                  linked |-> ~HasOrder(lvl, id)],
          side, price, SetUpdateTime(AddOrder(lvl, id, size), evtTime),
          b.evtTime, sndTime)

(* addBid and addAsk: the level is found or made, takes the order unless   *)
(* it holds the id already, and is stamped; the map entry is overwritten   *)
(* in every case, the result of level::addOrder being ignored.             *)
AddAt(b, id, side, size, price, evtTime, sndTime) ==
  LET found == b.tree[side][price]
      lvl   == IF found = NoLevel THEN NewLevel ELSE found
  IN  Put(b, id,
          [side |-> side, price |-> price, size |-> size,
           linked |-> ~HasOrder(lvl, id)],
          side, price, SetUpdateTime(AddOrder(lvl, id, size), evtTime),
          evtTime, sndTime)

Add(b, id, side, size, price, evtTime, sndTime) ==
  IF side \in BookSide
  THEN AddAt(b, id, side, size, price, evtTime, sndTime)
  ELSE Sent(b, sndTime)

(* The level at which the map says the order rests.                        *)
LevelOf(b, id) == b.tree[b.orderMap[id].side][b.orderMap[id].price]

(* How remove ends: 1, 0, a failed assertion, or an end() iterator used    *)
(* because the ask branch compares with the bid tree's end().              *)
RemoveOutcome(b, id) ==
  IF b.orderMap[id] = NoOrder THEN "unknown"
  ELSE IF LevelOf(b, id) = NoLevel
       THEN IF b.orderMap[id].side = BID THEN "noLevel" ELSE "undefined"
       ELSE IF RemoveOrderOk(LevelOf(b, id), id) THEN "done" ELSE "aborted"

(* Mutants of Remove: the level goes with the order, others at it or not;  *)
(* the order is left at its level.                                         *)
RemoveWithLevel(b, id, evtTime, sndTime) ==
  IF b.orderMap[id] = NoOrder \/ LevelOf(b, id) = NoLevel
  THEN Sent(b, sndTime)
  ELSE Put(b, id, NoOrder, b.orderMap[id].side, b.orderMap[id].price,
           NoLevel, evtTime, sndTime)

RemoveFromMap(b, id, evtTime, sndTime) ==
  IF b.orderMap[id] = NoOrder
  THEN Sent(b, sndTime)
  ELSE [b EXCEPT !.orderMap[id] = NoOrder, !.evtTime = evtTime,
                 !.exchSndTime = sndTime]

Remove(b, id, evtTime, sndTime) ==
  IF b.orderMap[id] = NoOrder \/ LevelOf(b, id) = NoLevel
  THEN Sent(b, sndTime)
  ELSE LET o   == b.orderMap[id]
           lvl == SetUpdateTime(RemoveOrder(LevelOf(b, id), id), evtTime)
       IN  Put(b, id, NoOrder, o.side, o.price,
               IF lvl.orders = <<>> THEN NoLevel ELSE lvl, evtTime, sndTime)

ModifyOutcome(b, id) ==
  IF b.orderMap[id] = NoOrder THEN "unknown"
  ELSE IF LevelOf(b, id) = NoLevel THEN "noLevel" ELSE "done"

(* Mutant of Modify: the level swaps in a changed copy of the order.       *)
ModifyCopy(b, id, size, evtTime, sndTime) ==
  IF b.orderMap[id] = NoOrder \/ LevelOf(b, id) = NoLevel
  THEN Sent(b, sndTime)
  ELSE Put(b, id, b.orderMap[id], b.orderMap[id].side, b.orderMap[id].price,
           SetUpdateTime(ModifyOrder(LevelOf(b, id), id, size), b.evtTime),
           evtTime, sndTime)

(* The level is stamped with the time of the event before this one: the    *)
(* book's own time is assigned after it.                                   *)
Modify(b, id, size, evtTime, sndTime) ==
  IF b.orderMap[id] = NoOrder \/ LevelOf(b, id) = NoLevel
  THEN Sent(b, sndTime)
  ELSE LET o   == b.orderMap[id]
           lvl == SetUpdateTime(ModifyOrder(LevelOf(b, id), id, size), b.evtTime)
       IN  Put(b, id, IF o.linked THEN [o EXCEPT !.size = size] ELSE o,
               o.side, o.price, lvl, evtTime, sndTime)

(* Mutant of Clear: the map is forgotten.                                  *)
ClearTree(b) == [b EXCEPT !.tree = NoLevels]

(* The times survive a clear.                                              *)
Clear(b) == [b EXCEPT !.orderMap = NoOrders, !.tree = NoLevels]

-----------------------------------------------------------------------------
(* What must be true of a book, whoever calls it.                          *)

HasLevel(b, side, price) == b.tree[side][price] # NoLevel

(* A mapped order has a level at its side and price, and is found there.   *)
MapHasLevel(b) ==
  \A id \in OrderId : b.orderMap[id] # NoOrder =>
    LevelOf(b, id) # NoLevel /\ HasOrder(LevelOf(b, id), id)

(* No level is empty: a level's price is a price somebody quotes.          *)
LevelsHoldOrders(b) ==
  \A side \in BookSide, price \in Price :
    HasLevel(b, side, price) => b.tree[side][price].orders # <<>>

(* A level lists an id at most once, so the first match is the only one.   *)
OncePerLevel(b) ==
  \A side \in BookSide, price \in Price :
    HasLevel(b, side, price) => ListsOnce(b.tree[side][price])

(* A level never shows the time its constructor left uninitialised.        *)
LevelsStamped(b) ==
  \A side \in BookSide, price \in Price :
    HasLevel(b, side, price) => /\ b.tree[side][price].timeUpdated # NoTime
                                /\ b.evtTime # NoTime

(* The order a linked map entry points to is the one its level lists.      *)
LinkedAgree(b) ==
  \A id \in OrderId :
    b.orderMap[id] # NoOrder /\ b.orderMap[id].linked =>
      Lists(LevelOf(b, id), id, b.orderMap[id].size)

(* A level's counter and its list tell the same volume.                    *)
VolumesAgree(b) ==
  \A side \in BookSide, price \in Price : HasLevel(b, side, price) =>
    b.tree[side][price].totalVolume =
      Lots(b.tree[side][price].orders) % VolumeMod

Sound(b) == /\ MapHasLevel(b)
            /\ LevelsHoldOrders(b)
            /\ OncePerLevel(b)
            /\ LevelsStamped(b)
            /\ LinkedAgree(b)

(* What is true besides while no id is added that the map already holds:   *)
(* every order at a level is the one the map has for its id, so nothing is *)
(* quoted that no id can cancel.                                           *)
NoGhosts(b) ==
  \A side \in BookSide, price \in Price, id \in OrderId, size \in Size :
    HasLevel(b, side, price) /\ Lists(b.tree[side][price], id, size) =>
      b.orderMap[id] =
        [side |-> side, price |-> price, size |-> size, linked |-> TRUE]
=============================================================================
