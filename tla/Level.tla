------------------------------- MODULE Level -------------------------------
(***************************************************************************)
(* One price level of an order book (order_book/include/limit.h,           *)
(* order_book/src/limit.cpp): the orders resting at one price in arrival   *)
(* order, their total volume in a fixed-width counter, and the time of the *)
(* event that touched the level last.                                      *)
(*                                                                         *)
(* The operators are pure: each takes the level before a call and returns  *)
(* the level after it, or what the call returns.                           *)
(***************************************************************************)
EXTENDS Integers, Sequences

CONSTANTS
  OrderId,    \* order ids (uint32_t in the code, used only for equality)
  Size,       \* order sizes, in fractions of a lot: the code's double
  Unit,       \* how many of those fractions make one whole lot
  VolumeMod,  \* 2^w, w the width of the level's volume counter
  Time,       \* times an event can carry
  NoTime      \* what an uninitialised timespec holds

ASSUME SizeAssumption   == Size \subseteq Nat
ASSUME UnitAssumption   == Unit \in Nat \ {0}
ASSUME VolumeAssumption == VolumeMod \in Nat \ {0}
ASSUME TimeAssumption   == Time \subseteq Int /\ NoTime \notin Time

(* A resting order as its level sees it; side and price are the level's.   *)
Resting == [id : OrderId, size : Size]

LevelType == [orders : Seq(Resting), totalVolume : 0 .. VolumeMod - 1,
              timeUpdated : Time \cup {NoTime}]

(* The constructor: no orders, no volume, and a time that is never set.    *)
NewLevel == [orders |-> <<>>, totalVolume |-> 0, timeUpdated |-> NoTime]

(* A double passed for a uint32_t: the fraction is dropped and the rest is *)
(* taken modulo the width.                                                 *)
Whole(size) == (size \div Unit) % VolumeMod

(* Mutant of RemoveVolume: the counter does not wrap.                      *)
RemoveVolumeUnwrapped(volume, size) == volume - Whole(size)

(* The whole lots of all the orders in a list.                             *)
LotsUpTo(orders) ==
  LET total[n \in 0 .. Len(orders)] ==
        IF n = 0 THEN 0 ELSE total[n - 1] + Whole(orders[n].size)
  IN  total

Lots(orders) == LotsUpTo(orders)[Len(orders)]

AddVolume(volume, size)    == (volume + Whole(size)) % VolumeMod
RemoveVolume(volume, size) == (volume - Whole(size)) % VolumeMod

HasOrder(l, id) == \E i \in DOMAIN l.orders : l.orders[i].id = id

(* The level lists an order with this id and this size.                    *)
Lists(l, id, size) ==
  \E i \in DOMAIN l.orders : l.orders[i].id = id /\ l.orders[i].size = size

(* No id is listed twice, so the first match of a search is the only one.  *)
ListsOnce(l) ==
  \A i, j \in DOMAIN l.orders : l.orders[i].id = l.orders[j].id => i = j

(* The linear search stops at the first order with the id.                 *)
FindOrder(l, id) ==
  CHOOSE i \in DOMAIN l.orders :
    /\ l.orders[i].id = id
    /\ \A j \in 1 .. i - 1 : l.orders[j].id # id

(* The list without its i-th element.                                      *)
Erase(orders, i) ==
  [j \in 1 .. Len(orders) - 1 |-> IF j < i THEN orders[j] ELSE orders[j + 1]]

SetUpdateTime(l, t) == [l EXCEPT !.timeUpdated = t]

(* Mutants of AddOrder: no test for a duplicate; the order jumps the queue.*)
AddOrderAgain(l, id, size) ==
  [l EXCEPT !.orders = Append(@, [id |-> id, size |-> size]),
            !.totalVolume = AddVolume(@, size)]

AddOrderFirst(l, id, size) ==
  [l EXCEPT !.orders = <<[id |-> id, size |-> size]>> \o @,
            !.totalVolume = AddVolume(@, size)]

(* An id that already rests at the level leaves the level as it was.       *)
AddOrder(l, id, size) ==
  IF HasOrder(l, id)
  THEN l
  ELSE [l EXCEPT !.orders = Append(@, [id |-> id, size |-> size]),
                 !.totalVolume = AddVolume(@, size)]

(* An empty list makes the removal succeed; otherwise the id must be there.*)
RemoveOrderOk(l, id) == l.orders = <<>> \/ HasOrder(l, id)

RemoveOrder(l, id) ==
  IF ~HasOrder(l, id)
  THEN l
  ELSE LET i == FindOrder(l, id)
       IN  [l EXCEPT !.orders = Erase(@, i),
                     !.totalVolume = RemoveVolume(@, l.orders[i].size)]

(* Mutant of ModifyOrder: the volume is left as it was.                    *)
ModifyOrderSilently(l, id, size) ==
  IF ~HasOrder(l, id)
  THEN l
  ELSE [l EXCEPT !.orders[FindOrder(l, id)].size = size]

ModifyOrder(l, id, size) ==
  IF ~HasOrder(l, id)
  THEN l
  ELSE LET i == FindOrder(l, id)
       IN  [l EXCEPT !.orders[i].size = size,
                     !.totalVolume =
                       AddVolume(RemoveVolume(@, l.orders[i].size), size)]
=============================================================================
