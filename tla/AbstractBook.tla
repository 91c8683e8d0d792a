---------------------------- MODULE AbstractBook ----------------------------
(***************************************************************************)
(* What an order book promises (order_book/include/order_book.h): at each  *)
(* side and price a queue of resting orders in arrival order, an order     *)
(* joining at the back, keeping its place when its size changes, and       *)
(* leaving when it is cancelled.  No map, no levels that come and go, no   *)
(* volume counters, no times: those are how OrderBook keeps the promise.   *)
(***************************************************************************)
EXTENDS Integers, Sequences

CONSTANTS OrderId, BookSide, Price, Size

VARIABLE queue

Queues == [BookSide -> [Price -> Seq([id : OrderId, size : Size])]]

AtPlace(id, side, price, i) ==
  i \in DOMAIN queue[side][price] /\ queue[side][price][i].id = id

Rests(id) ==
  \E side \in BookSide, price \in Price :
    \E i \in DOMAIN queue[side][price] : AtPlace(id, side, price, i)

Init == queue = [side \in BookSide |-> [price \in Price |-> <<>>]]

Join(id, side, size, price) ==
  /\ ~Rests(id)
  /\ queue' = [queue EXCEPT ![side][price] =
                 Append(@, [id |-> id, size |-> size])]

Resize(id, size) ==
  \E side \in BookSide, price \in Price :
    \E i \in DOMAIN queue[side][price] :
      /\ AtPlace(id, side, price, i)
      /\ queue' = [queue EXCEPT ![side][price] = [@ EXCEPT ![i].size = size]]

Cancel(id) ==
  \E side \in BookSide, price \in Price :
    \E i \in DOMAIN queue[side][price] :
      /\ AtPlace(id, side, price, i)
      /\ queue' = [queue EXCEPT ![side][price] =
                     [j \in 1 .. Len(@) - 1 |-> IF j < i THEN @[j] ELSE @[j + 1]]]

Empty == queue' = [side \in BookSide |-> [price \in Price |-> <<>>]]

Next ==
  \/ \E id \in OrderId, side \in BookSide, size \in Size, price \in Price :
       Join(id, side, size, price)
  \/ \E id \in OrderId, size \in Size : Resize(id, size)
  \/ \E id \in OrderId : Cancel(id)
  \/ Empty

Spec == Init /\ [][Next]_queue
=============================================================================
