----------------------------- MODULE OrderBook -----------------------------
(***************************************************************************)
(* One order book and a client that calls its operations in any order and  *)
(* with any arguments (order_book/src/order_book.cpp).  The operations are *)
(* those of Book; here they become steps, and how the last one ended is    *)
(* kept: 1 ("done"), 0 because the id is unknown or because its level is   *)
(* missing, a failed assertion, or a read through an end() iterator.       *)
(***************************************************************************)
EXTENDS Book

VARIABLES book, outcome

vars == <<book, outcome>>

Outcome == {"none", "done", "noSide", "unknown", "noLevel", "aborted", "undefined"}

Alive == outcome \notin {"aborted", "undefined"}

Init == book = NewBook /\ outcome = "none"

AddStep(id, side, size, price, t, s) ==
  /\ Alive
  /\ book' = Add(book, id, side, size, price, t, s)
  /\ outcome' = IF side \in BookSide THEN "done" ELSE "noSide"

RemoveStep(id, t, s) ==
  /\ Alive
  /\ book' = Remove(book, id, t, s)
  /\ outcome' = RemoveOutcome(book, id)

ModifyStep(id, size, t, s) ==
  /\ Alive
  /\ book' = Modify(book, id, size, t, s)
  /\ outcome' = ModifyOutcome(book, id)

ClearStep ==
  /\ Alive
  /\ book' = Clear(book)
  /\ outcome' = "none"

Next ==
  \E t, s \in Time :
    \/ \E id \in OrderId, side \in Side, size \in Size, price \in Price :
         AddStep(id, side, size, price, t, s)
    \/ \E id \in OrderId : RemoveStep(id, t, s)
    \/ \E id \in OrderId, size \in Size : ModifyStep(id, size, t, s)
    \/ ClearStep

Spec == Init /\ [][Next]_vars

(* A client that adds an id only while the map does not hold it, as the    *)
(* feed handler does when NewReplaces is set.                              *)
FreshNext ==
  \E t, s \in Time :
    \/ \E id \in OrderId, side \in Side, size \in Size, price \in Price :
         /\ GetOrder(book, id) = NoOrder
         /\ AddStep(id, side, size, price, t, s)
    \/ \E id \in OrderId : RemoveStep(id, t, s)
    \/ \E id \in OrderId, size \in Size : ModifyStep(id, size, t, s)
    \/ ClearStep

FreshSpec == Init /\ [][FreshNext]_vars

(* The same client, handing over its events in the order of their times.   *)
TimedSpec ==
  Init /\ [][/\ FreshNext
             /\ book.evtTime = NoTime \/ book.evtTime <= book'.evtTime]_vars

-----------------------------------------------------------------------------
TypeOK == book \in BookType /\ outcome \in Outcome

(* The assertion that an order found in the map is found at its level      *)
(* (order_book.cpp:186, 203) never fails, no iterator is used that was     *)
(* not found, and neither removal nor modification ever gives up on a      *)
(* known id for want of a level, whatever ids the client reuses.           *)
KnownOrdersAreFound == outcome \notin {"aborted", "undefined", "noLevel"}

(* Why: every mapped order rests at a level, no level is empty, and a      *)
(* level holds an id once.  The removal that empties a level erases it     *)
(* (order_book.cpp:191, 208), which is safe only because of the rest.      *)
BookIndexed == MapHasLevel(book) /\ LevelsHoldOrders(book) /\ OncePerLevel(book)

(* While its entry is linked, getOrder and the level show one size.        *)
LinkedEntriesAgree == LinkedAgree(book)

(* A level's volume is the sum of the whole lots of the orders it lists,   *)
(* in the counter's width: additions, removals and modifications, each of  *)
(* which adjusts the counter by itself (limit.cpp:59, 73-75, 111), never   *)
(* drift apart from the list, over wrap-around and dropped fractions.      *)
VolumeIsSum == VolumesAgree(book)

(* With fresh ids, each resting order is the one its id leads to: a quote  *)
(* nobody can cancel never appears.                                        *)
FreshIdsLeaveNoGhosts == NoGhosts(book)

(* With fresh ids, the best price is a price of a known order, none of     *)
(* them is better, and it is the sentinel only when the side has none.     *)
BestPriceIsBacked ==
  \A side \in BookSide :
    LET known == {id \in OrderId : /\ GetOrder(book, id) # NoOrder
                                   /\ GetOrder(book, id).side = side}
        best  == BestPrice(book, side)
    IN  IF known = {}
        THEN best = (IF side = BID THEN NoBid ELSE NoAsk)
        ELSE /\ \E id \in known : GetOrder(book, id).price = best
             /\ \A id \in known :
                  IF side = BID THEN GetOrder(book, id).price <= best
                                ELSE best <= GetOrder(book, id).price

(* No level claims to be newer than the last event the book took.          *)
LevelsNotAheadOfBook ==
  \A side \in BookSide, price \in Price :
    HasLevel(book, side, price) =>
      book.tree[side][price].timeUpdated <= book.evtTime

(* With fresh ids, getOrder shows the new size after a modify that         *)
(* returned 1 (unit_test.cpp:254-258), although modify changes it only     *)
(* through the level: the map's entry must point to the same object.  An   *)
(* id added twice breaks this.                                             *)
ModifyShowsInGetOrder ==
  [][\A id \in OrderId, size \in Size :
       (\E t, s \in Time : ModifyStep(id, size, t, s)) /\ outcome' = "done"
         => GetOrder(book', id).size = size]_vars

-----------------------------------------------------------------------------
(* With fresh ids the book keeps the promise of AbstractBook: the queue at *)
(* a side and price is the list of the level there.                        *)
QueueOf(b) ==
  [side \in BookSide |-> [price \in Price |->
     IF HasLevel(b, side, price) THEN b.tree[side][price].orders ELSE <<>>]]

Abstract == INSTANCE AbstractBook WITH queue <- QueueOf(book)

(* Every call of the book is one step of the queues, or none.              *)
ImplementsAbstractBook == Abstract!Spec
=============================================================================
