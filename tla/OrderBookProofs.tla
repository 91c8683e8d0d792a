-------------------------- MODULE OrderBookProofs --------------------------
(***************************************************************************)
(* Theorems about OrderBook, for every value of the constants.  What one   *)
(* call of the book preserves is shown in BookProofs; here the calls       *)
(* become steps and the facts become invariants.                           *)
(***************************************************************************)
EXTENDS OrderBook, BookProofs

(* The inductive invariant: the book is typed and sound, and no call has   *)
(* ended badly.  KnownOrdersAreFound alone is not inductive: that the next *)
(* removal finds its order follows from the soundness of the book.         *)
IInv == /\ TypeOK
        /\ Sound(book)
        /\ outcome \in {"none", "done", "noSide", "unknown"}

(* A new book satisfies the invariant.                                     *)
LEMMA InitIInv == Init => IInv
BY NewBookSound DEF Init, IInv, TypeOK, Outcome

(* One lemma per call, whatever its arguments: add keeps the book sound,   *)
(* with a live id too.                                                     *)
LEMMA AddStepIInv ==
  ASSUME IInv, NEW id \in OrderId, NEW side \in Side, NEW size \in Size,
         NEW price \in Price, NEW t \in Time, NEW s \in Time,
         AddStep(id, side, size, price, t, s)
  PROVE  IInv'
<1>1. CASE side \in BookSide
  <2>1. book' \in BookType /\ Sound(book')
    BY <1>1, AddSound DEF IInv, TypeOK, AddStep
  <2> QED
    BY <2>1, <1>1 DEF IInv, TypeOK, AddStep, Outcome
<1>2. CASE side \notin BookSide
  <2>1. book' = Sent(book, s)
    BY <1>2 DEF AddStep, Add
  <2>2. book' \in BookType /\ Sound(book')
    BY <2>1, SentSound DEF IInv, TypeOK
  <2> QED
    BY <2>2, <1>2 DEF IInv, TypeOK, AddStep, Outcome
<1> QED
  BY <1>1, <1>2

(* remove either knows the order, and then finds it, or refuses the id.    *)
LEMMA RemoveStepIInv ==
  ASSUME IInv, NEW id \in OrderId, NEW t \in Time, NEW s \in Time,
         RemoveStep(id, t, s)
  PROVE  IInv'
<1>1. /\ book' \in BookType /\ Sound(book')
      /\ outcome' \in {"unknown", "done"}
  BY RemoveSound DEF IInv, TypeOK, RemoveStep
<1> QED
  BY <1>1 DEF IInv, TypeOK, Outcome

(* So does modify.                                                         *)
LEMMA ModifyStepIInv ==
  ASSUME IInv, NEW id \in OrderId, NEW size \in Size, NEW t \in Time, NEW s \in Time,
         ModifyStep(id, size, t, s)
  PROVE  IInv'
<1>1. /\ book' \in BookType /\ Sound(book')
      /\ outcome' \in {"unknown", "done"}
  BY ModifySound DEF IInv, TypeOK, ModifyStep
<1> QED
  BY <1>1 DEF IInv, TypeOK, Outcome

(* clear cannot fail.                                                      *)
LEMMA ClearStepIInv ==
  ASSUME IInv, ClearStep
  PROVE  IInv'
BY ClearSound DEF IInv, TypeOK, ClearStep, Outcome

(* Every call preserves the invariant.                                     *)
LEMMA NextIInv == IInv /\ [Next]_vars => IInv'
<1> SUFFICES ASSUME IInv, [Next]_vars
             PROVE  IInv'
  OBVIOUS
<1>1. ASSUME NEW t \in Time, NEW s \in Time, NEW id \in OrderId, NEW side \in Side,
             NEW size \in Size, NEW price \in Price,
             AddStep(id, side, size, price, t, s)
      PROVE  IInv'
  BY <1>1, AddStepIInv
<1>2. ASSUME NEW t \in Time, NEW s \in Time, NEW id \in OrderId, RemoveStep(id, t, s)
      PROVE  IInv'
  BY <1>2, RemoveStepIInv
<1>3. ASSUME NEW t \in Time, NEW s \in Time, NEW id \in OrderId, NEW size \in Size,
             ModifyStep(id, size, t, s)
      PROVE  IInv'
  BY <1>3, ModifyStepIInv
<1>4. CASE ClearStep
  BY <1>4, ClearStepIInv
<1>5. CASE UNCHANGED vars
  BY <1>5 DEF IInv, TypeOK, vars
<1> QED
  BY <1>1, <1>2, <1>3, <1>4, <1>5 DEF Next

(* The inductive invariant holds for any client.                           *)
THEOREM IndInvariant == Spec => []IInv
<1>1. Init => IInv
  BY InitIInv
<1>2. IInv /\ [Next]_vars => IInv'
  BY NextIInv
<1> QED
  BY <1>1, <1>2, PTL DEF Spec

(* The book and the outcome of its calls have their types.                 *)
THEOREM TypeCorrect == Spec => []TypeOK
<1>1. IInv => TypeOK
  BY DEF IInv
<1> QED
  BY <1>1, IndInvariant, PTL

(* Whatever ids the client reuses, no assertion of remove fails, no end()  *)
(* iterator is used, and no known id is refused.                           *)
THEOREM KnownOrdersFound == Spec => []KnownOrdersAreFound
<1>1. IInv => KnownOrdersAreFound
  BY DEF IInv, KnownOrdersAreFound
<1> QED
  BY <1>1, IndInvariant, PTL

(* The map, the trees and the lists of the levels index one another.       *)
THEOREM AlwaysIndexed == Spec => []BookIndexed
<1>1. IInv => BookIndexed
  BY DEF IInv, BookIndexed, Sound
<1> QED
  BY <1>1, IndInvariant, PTL

(* The counters of the levels follow their lists: with the inductive       *)
(* invariant each call keeps them right.                                   *)
LEMMA VolumesStep ==
  ASSUME IInv, VolumeIsSum, [Next]_vars
  PROVE  VolumeIsSum'
<1> SUFFICES VolumesAgree(book')
  BY DEF VolumeIsSum
<1> USE DEF IInv, TypeOK, VolumeIsSum
<1>1. ASSUME NEW t \in Time, NEW s \in Time, NEW id \in OrderId, NEW side \in Side,
             NEW size \in Size, NEW price \in Price,
             AddStep(id, side, size, price, t, s)
      PROVE  VolumesAgree(book')
  BY <1>1, AddVolumes DEF AddStep
<1>2. ASSUME NEW t \in Time, NEW s \in Time, NEW id \in OrderId, RemoveStep(id, t, s)
      PROVE  VolumesAgree(book')
  BY <1>2, RemoveVolumes DEF RemoveStep
<1>3. ASSUME NEW t \in Time, NEW s \in Time, NEW id \in OrderId, NEW size \in Size,
             ModifyStep(id, size, t, s)
      PROVE  VolumesAgree(book')
  BY <1>3, ModifyVolumes DEF ModifyStep
<1>4. CASE ClearStep
  <2>1. book'.tree = NoLevels
    BY <1>4 DEF ClearStep, Clear, BookType
  <2> QED
    BY <2>1, EmptyVolumes
<1>5. CASE UNCHANGED vars
  BY <1>5 DEF vars
<1> QED
  BY <1>1, <1>2, <1>3, <1>4, <1>5 DEF Next

(* Whatever is added, removed and modified, and however often the counter  *)
(* wraps, a level's volume is the whole lots of the orders it lists.       *)
THEOREM VolumeAlwaysSum == Spec => []VolumeIsSum
<1>1. Init => VolumeIsSum
  <2> SUFFICES ASSUME Init PROVE VolumesAgree(book)
    BY DEF VolumeIsSum
  <2>1. book.tree = NoLevels
    BY DEF Init, NewBook
  <2> QED
    BY <2>1, EmptyVolumes
<1>2. IInv /\ VolumeIsSum /\ [Next]_vars => VolumeIsSum'
  BY VolumesStep
<1> QED
  BY <1>1, <1>2, IndInvariant, PTL DEF Spec

(* A linked map entry and its level agree on the size.                     *)
THEOREM LinkedAlwaysAgree == Spec => []LinkedEntriesAgree
<1>1. IInv => LinkedEntriesAgree
  BY DEF IInv, LinkedEntriesAgree, Sound
<1> QED
  BY <1>1, IndInvariant, PTL

-----------------------------------------------------------------------------
(* Fresh ids.                                                              *)

(* A client with fresh ids is one of the clients of Spec.                  *)
LEMMA FreshIsNext == FreshNext => Next
BY DEF FreshNext, Next

FreshInv == IInv /\ NoGhosts(book)

(* A new book has no ghosts.                                               *)
LEMMA InitFreshInv == Init => FreshInv
<1> SUFFICES ASSUME Init
             PROVE  NoGhosts(book)
  BY InitIInv DEF FreshInv
<1> QED
  BY DEF Init, NewBook, NoLevels, NoGhosts, HasLevel

(* With fresh ids no call makes one.                                       *)
LEMMA NextFreshInv == FreshInv /\ [FreshNext]_vars => FreshInv'
<1> SUFFICES ASSUME FreshInv, [FreshNext]_vars
             PROVE  NoGhosts(book')
  BY NextIInv, FreshIsNext DEF FreshInv
<1> USE DEF FreshInv, IInv, TypeOK
<1>1. ASSUME NEW t \in Time, NEW s \in Time, NEW id \in OrderId, NEW side \in Side,
             NEW size \in Size, NEW price \in Price,
             GetOrder(book, id) = NoOrder, AddStep(id, side, size, price, t, s)
      PROVE  NoGhosts(book')
  <2>1. CASE side \in BookSide
    BY <1>1, <2>1, FreshAddNoGhosts DEF AddStep, GetOrder
  <2>2. CASE side \notin BookSide
    <3>1. book' = Sent(book, s)
      BY <1>1, <2>2 DEF AddStep, Add
    <3> QED
      BY <3>1 DEF Sent, BookType, NoGhosts, HasLevel
  <2> QED
    BY <2>1, <2>2
<1>2. ASSUME NEW t \in Time, NEW s \in Time, NEW id \in OrderId, RemoveStep(id, t, s)
      PROVE  NoGhosts(book')
  BY <1>2, RemoveNoGhosts DEF RemoveStep
<1>3. ASSUME NEW t \in Time, NEW s \in Time, NEW id \in OrderId, NEW size \in Size,
             ModifyStep(id, size, t, s)
      PROVE  NoGhosts(book')
  BY <1>3, ModifyNoGhosts DEF ModifyStep
<1>4. CASE ClearStep
  BY <1>4 DEF ClearStep, Clear, BookType, NoLevels, NoGhosts, HasLevel
<1>5. CASE UNCHANGED vars
  BY <1>5 DEF vars
<1> QED
  BY <1>1, <1>2, <1>3, <1>4, <1>5 DEF FreshNext

(* The invariant with no ghosts holds for a client with fresh ids.         *)
THEOREM FreshIndInvariant == FreshSpec => []FreshInv
<1>1. Init => FreshInv
  BY InitFreshInv
<1>2. FreshInv /\ [FreshNext]_vars => FreshInv'
  BY NextFreshInv
<1> QED
  BY <1>1, <1>2, PTL DEF FreshSpec

(* A client that never adds a live id never leaves an order that no id     *)
(* leads to.                                                               *)
THEOREM NeverGhosts == FreshSpec => []FreshIdsLeaveNoGhosts
<1>1. FreshInv => FreshIdsLeaveNoGhosts
  BY DEF FreshInv, FreshIdsLeaveNoGhosts
<1> QED
  BY <1>1, FreshIndInvariant, PTL

(* With fresh ids the map's entries point to the objects of the levels: an *)
(* order rests where the map has it, and what rests there is no ghost.     *)
LEMMA FreshIsLinked ==
  ASSUME FreshInv, NEW id \in OrderId, book.orderMap[id] # NoOrder
  PROVE  book.orderMap[id].linked
<1>1. book \in BookType /\ Sound(book) /\ NoGhosts(book)
  BY DEF FreshInv, IInv, TypeOK
<1> DEFINE o == book.orderMap[id]
<1>2. /\ o \in Order /\ o.side \in BookSide /\ o.price \in Price
      /\ HasLevel(book, o.side, o.price)
      /\ LevelOf(book, id) \in LevelType
  BY <1>1, MappedOrder
<1>3. PICK size \in Size : Lists(LevelOf(book, id), id, size)
  BY <1>1, <1>2, HasIsLists DEF Sound, MapHasLevel
<1>4. o = [side |-> o.side, price |-> o.price, size |-> size, linked |-> TRUE]
  BY <1>1, <1>2, <1>3 DEF NoGhosts, LevelOf
<1> HIDE DEF o
<1>5. o.linked
  BY <1>4
<1> QED
  BY <1>5 DEF o

(* A change of size shows in the order that the map has.                   *)
LEMMA ModifyShows ==
  ASSUME FreshInv, NEW id \in OrderId, NEW size \in Size, NEW t \in Time, NEW s \in Time,
         ModifyStep(id, size, t, s), outcome' = "done"
  PROVE  GetOrder(book', id).size = size
<1>1. book \in BookType /\ Sound(book)
  BY DEF FreshInv, IInv, TypeOK
<1> DEFINE o == book.orderMap[id]
<1>2. o # NoOrder /\ LevelOf(book, id) # NoLevel
  BY DEF ModifyStep, ModifyOutcome
<1>3. o.linked /\ o \in Order
  BY <1>1, <1>2, FreshIsLinked, MappedOrder
<1>4. book'.orderMap = [book.orderMap EXCEPT ![id] = [o EXCEPT !.size = size]]
  BY <1>2, <1>3 DEF ModifyStep, Modify, Put
<1>5. book'.orderMap[id] = [o EXCEPT !.size = size]
  BY <1>1, <1>4 DEF BookType
<1>6. [o EXCEPT !.size = size].size = size
  BY <1>3 DEF Order
<1> QED
  BY <1>5, <1>6 DEF GetOrder

(* With fresh ids a size that modify was given is the size that getOrder   *)
(* shows, although modify writes it through the level.                     *)
THEOREM ModifyAlwaysShows == FreshSpec => ModifyShowsInGetOrder
<1>1. ASSUME FreshInv
      PROVE  \A id \in OrderId, size \in Size :
               (\E t, s \in Time : ModifyStep(id, size, t, s)) /\ outcome' = "done"
                 => GetOrder(book', id).size = size
  BY <1>1, ModifyShows
<1> QED
  BY <1>1, FreshIndInvariant, PTL DEF ModifyShowsInGetOrder

(* The prices a side has levels for are those of the orders the map knows  *)
(* on that side: a level's first order is in the map, and a mapped order   *)
(* has a level.                                                            *)
LEMMA PricesAreKnown ==
  ASSUME FreshInv, NEW side \in BookSide
  PROVE  /\ \A price \in Prices(book, side) : \E id \in OrderId :
              /\ GetOrder(book, id) # NoOrder
              /\ GetOrder(book, id).side = side /\ GetOrder(book, id).price = price
         /\ \A id \in OrderId :
              GetOrder(book, id) # NoOrder /\ GetOrder(book, id).side = side =>
                GetOrder(book, id).price \in Prices(book, side)
<1>1. ASSUME NEW price \in Prices(book, side)
      PROVE  \E id \in OrderId :
               /\ GetOrder(book, id) # NoOrder
               /\ GetOrder(book, id).side = side /\ GetOrder(book, id).price = price
  <2>1. price \in Price /\ HasLevel(book, side, price)
    BY DEF Prices, HasLevel
  <2> DEFINE l == book.tree[side][price]
             r == l.orders[1]
  <2>2. l \in LevelType /\ l.orders # <<>>
    BY <2>1 DEF FreshInv, IInv, TypeOK, BookType, Sound, LevelsHoldOrders, HasLevel
  <2>3. 1 \in DOMAIN l.orders /\ r \in Resting
    BY <2>2 DEF LevelType
  <2>4. r.id \in OrderId /\ r.size \in Size /\ Lists(l, r.id, r.size)
    BY <2>3 DEF Resting, Lists
  <2> DEFINE o == [side |-> side, price |-> price, size |-> r.size, linked |-> TRUE]
  <2>5. book.orderMap[r.id] = o
    BY <2>1, <2>4 DEF FreshInv, NoGhosts
  <2>6. o \in Order /\ o.side = side /\ o.price = price
    BY <2>1, <2>4 DEF Order
  <2> QED
    BY <2>4, <2>5, <2>6, NullAssumption DEF GetOrder
<1>2. ASSUME NEW id \in OrderId, GetOrder(book, id) # NoOrder,
             GetOrder(book, id).side = side
      PROVE  GetOrder(book, id).price \in Prices(book, side)
  BY <1>2, MappedOrder DEF FreshInv, IInv, TypeOK, GetOrder, Prices, HasLevel
<1> QED
  BY <1>1, <1>2

(* With fresh ids the best price is a live order's, and the best of them.  *)
THEOREM BestPriceBacked == FreshSpec => []BestPriceIsBacked
<1>1. ASSUME FreshInv
      PROVE  BestPriceIsBacked
  <2> SUFFICES ASSUME NEW side \in BookSide
               PROVE  LET known == {id \in OrderId : /\ GetOrder(book, id) # NoOrder
                                                      /\ GetOrder(book, id).side = side}
                          best  == BestPrice(book, side)
                      IN  IF known = {}
                          THEN best = (IF side = BID THEN NoBid ELSE NoAsk)
                          ELSE /\ \E id \in known : GetOrder(book, id).price = best
                               /\ \A id \in known :
                                    IF side = BID THEN GetOrder(book, id).price <= best
                                                  ELSE best <= GetOrder(book, id).price
    BY DEF BestPriceIsBacked
  <2> DEFINE known == {id \in OrderId : /\ GetOrder(book, id) # NoOrder
                                        /\ GetOrder(book, id).side = side}
             quoted == Prices(book, side)
             best == BestPrice(book, side)
  <2>1. /\ \A price \in quoted : \E id \in known : GetOrder(book, id).price = price
        /\ \A id \in known : GetOrder(book, id).price \in quoted
    BY <1>1, PricesAreKnown
  <2>2. /\ quoted = {} => best = (IF side = BID THEN NoBid ELSE NoAsk)
        /\ quoted # {} =>
             /\ best \in quoted
             /\ \A price \in quoted :
                  IF side = BID THEN price <= best ELSE best <= price
    BY BestPriceIsBest
  <2> HIDE DEF known, quoted, best
  <2>3. CASE known = {}
    <3>1. quoted = {}
      BY <2>1, <2>3
    <3> QED
      BY <3>1, <2>2, <2>3 DEF known, best
  <2>4. CASE known # {}
    <3>1. quoted # {}
      BY <2>1, <2>4
    <3>2. \E id \in known : GetOrder(book, id).price = best
      BY <3>1, <2>1, <2>2
    <3>3. \A id \in known : IF side = BID THEN GetOrder(book, id).price <= best
                                          ELSE best <= GetOrder(book, id).price
      BY <3>1, <2>1, <2>2
    <3> QED
      BY <2>4, <3>2, <3>3 DEF known, best
  <2> QED
    BY <2>3, <2>4
<1> QED
  BY <1>1, FreshIndInvariant, PTL

-----------------------------------------------------------------------------
(* Events in the order of their times.                                     *)

TimedInv == IInv /\ LevelsNotAheadOfBook

(* Only the level a call replaces gets another time, and that time is no   *)
(* later than the book's new one.                                          *)
LEMMA PutNotAhead ==
  ASSUME NEW b \in BookType, Sound(b), NEW id, NEW o, NEW side \in BookSide,
         NEW price \in Price, NEW m, NEW t \in Time, NEW s,
         book = b, LevelsNotAheadOfBook, b.evtTime = NoTime \/ b.evtTime <= t,
         m # NoLevel => m.timeUpdated \in Time /\ m.timeUpdated <= t,
         book' = Put(b, id, o, side, price, m, t, s)
  PROVE  LevelsNotAheadOfBook'
<1> SUFFICES ASSUME NEW sd \in BookSide, NEW pr \in Price, HasLevel(book', sd, pr)
             PROVE  book'.tree[sd][pr].timeUpdated <= book'.evtTime
  BY DEF LevelsNotAheadOfBook
<1>1. book'.evtTime = t
  BY DEF Put
<1>2. CASE sd = side /\ pr = price
  <2>1. book'.tree[sd][pr] = m
    BY <1>2 DEF Put, BookType
  <2> QED
    BY <1>1, <2>1 DEF HasLevel
<1>3. CASE ~(sd = side /\ pr = price)
  <2>1. book'.tree[sd][pr] = b.tree[sd][pr]
    BY <1>3 DEF Put, BookType
  <2>2. HasLevel(b, sd, pr)
    BY <2>1 DEF HasLevel
  <2>3. /\ b.tree[sd][pr].timeUpdated <= b.evtTime
        /\ b.tree[sd][pr].timeUpdated \in Time /\ b.evtTime \in Time
    BY <2>2 DEF LevelsNotAheadOfBook, Sound, LevelsStamped, BookType, LevelType, HasLevel
  <2> QED
    BY <1>1, <2>1, <2>3, TimeAssumption
<1> QED
  BY <1>2, <1>3

(* The event is not older than the book.                                   *)
InOrder == book.evtTime = NoTime \/ book.evtTime <= book'.evtTime

(* add stamps the level with the time it gives the book.                   *)
LEMMA AddStepNotAhead ==
  ASSUME TimedInv, InOrder, NEW id \in OrderId, NEW side \in Side, NEW size \in Size,
         NEW price \in Price, NEW t \in Time, NEW s \in Time,
         AddStep(id, side, size, price, t, s)
  PROVE  LevelsNotAheadOfBook'
<1> USE DEF TimedInv, IInv, TypeOK
<1>1. CASE side \in BookSide
  <2> DEFINE found == book.tree[side][price]
             lvl == IF found = NoLevel THEN NewLevel ELSE found
             m == SetUpdateTime(AddOrder(lvl, id, size), t)
             o == [side |-> side, price |-> price, size |-> size,
                   linked |-> ~HasOrder(lvl, id)]
  <2>1. book' = Put(book, id, o, side, price, m, t, s)
    BY <1>1 DEF AddStep, Add, AddAt
  <2>2. lvl \in LevelType
    BY <1>1, NewLevelEmpty DEF BookType
  <2> HIDE DEF lvl
  <2>3. m.timeUpdated = t
    BY <2>2 DEF SetUpdateTime, AddOrder, LevelType
  <2> HIDE DEF m, o
  <2>4. book'.evtTime = t
    BY <2>1 DEF Put
  <2>5. m # NoLevel => m.timeUpdated \in Time /\ m.timeUpdated <= t
    BY <2>3, TimeAssumption
  <2> QED
    BY <1>1, <2>1, <2>4, <2>5, PutNotAhead DEF InOrder
<1>2. CASE side \notin BookSide
  <2>1. book' = Sent(book, s)
    BY <1>2 DEF AddStep, Add
  <2> QED
    BY <2>1 DEF Sent, BookType, LevelsNotAheadOfBook, HasLevel
<1> QED
  BY <1>1, <1>2

(* remove does so too, if it keeps the level.                              *)
LEMMA RemoveStepNotAhead ==
  ASSUME TimedInv, InOrder, NEW id \in OrderId, NEW t \in Time, NEW s \in Time,
         RemoveStep(id, t, s)
  PROVE  LevelsNotAheadOfBook'
<1> USE DEF TimedInv, IInv, TypeOK
<1>1. CASE book.orderMap[id] # NoOrder
  <2> DEFINE o == book.orderMap[id]
             r == RemoveOrder(LevelOf(book, id), id)
             m == SetUpdateTime(r, t)
             n == IF m.orders = <<>> THEN NoLevel ELSE m
  <2>1. /\ o.side \in BookSide /\ o.price \in Price
        /\ LevelOf(book, id) # NoLevel /\ LevelOf(book, id) \in LevelType
        /\ ListsOnce(LevelOf(book, id)) /\ HasOrder(LevelOf(book, id), id)
    BY <1>1, MappedOrder
  <2>2. book' = Put(book, id, NoOrder, o.side, o.price, n, t, s)
    BY <1>1, <2>1 DEF RemoveStep, Remove
  <2>3. r \in LevelType
    BY <2>1, RemoveOrderLists
  <2> HIDE DEF r
  <2>4. m.timeUpdated = t
    BY <2>3 DEF SetUpdateTime, LevelType
  <2> HIDE DEF m
  <2>5. n # NoLevel => n.timeUpdated \in Time /\ n.timeUpdated <= t
    BY <2>4, TimeAssumption
  <2>6. book'.evtTime = t
    BY <2>2 DEF Put
  <2> HIDE DEF n, o
  <2> QED
    BY <2>1, <2>2, <2>5, <2>6, PutNotAhead DEF InOrder
<1>2. CASE book.orderMap[id] = NoOrder
  <2>1. book' = Sent(book, s)
    BY <1>2 DEF RemoveStep, Remove
  <2> QED
    BY <2>1 DEF Sent, BookType, LevelsNotAheadOfBook, HasLevel
<1> QED
  BY <1>1, <1>2

(* modify stamps it with the book's time of before the call.               *)
LEMMA ModifyStepNotAhead ==
  ASSUME TimedInv, InOrder, NEW id \in OrderId, NEW size \in Size, NEW t \in Time,
         NEW s \in Time, ModifyStep(id, size, t, s)
  PROVE  LevelsNotAheadOfBook'
<1> USE DEF TimedInv, IInv, TypeOK
<1>1. CASE book.orderMap[id] # NoOrder
  <2> DEFINE o == book.orderMap[id]
             p == IF o.linked THEN [o EXCEPT !.size = size] ELSE o
             r == ModifyOrder(LevelOf(book, id), id, size)
             m == SetUpdateTime(r, book.evtTime)
  <2>1. /\ o.side \in BookSide /\ o.price \in Price /\ book.evtTime \in Time
        /\ LevelOf(book, id) # NoLevel /\ LevelOf(book, id) \in LevelType
        /\ ListsOnce(LevelOf(book, id)) /\ HasOrder(LevelOf(book, id), id)
    BY <1>1, MappedOrder
  <2>2. book' = Put(book, id, p, o.side, o.price, m, t, s)
    BY <1>1, <2>1 DEF ModifyStep, Modify
  <2>3. r \in LevelType
    BY <2>1, ModifyOrderLists
  <2> HIDE DEF r
  <2>4. m.timeUpdated = book.evtTime
    BY <2>3 DEF SetUpdateTime, LevelType
  <2> HIDE DEF m, p, o
  <2>5. book'.evtTime = t
    BY <2>2 DEF Put
  <2>6. book.evtTime <= t
    BY <2>1, <2>5, TimeAssumption DEF InOrder
  <2>7. m # NoLevel => m.timeUpdated \in Time /\ m.timeUpdated <= t
    BY <2>1, <2>4, <2>6
  <2> QED
    BY <2>1, <2>2, <2>6, <2>7, PutNotAhead
<1>2. CASE book.orderMap[id] = NoOrder
  <2>1. book' = Sent(book, s)
    BY <1>2 DEF ModifyStep, Modify
  <2> QED
    BY <2>1 DEF Sent, BookType, LevelsNotAheadOfBook, HasLevel
<1> QED
  BY <1>1, <1>2

(* Calls in the order of their times keep every level behind the book.     *)
LEMMA TimedStepInv == TimedInv /\ [FreshNext /\ InOrder]_vars => TimedInv'
<1> SUFFICES ASSUME TimedInv, [FreshNext /\ InOrder]_vars
             PROVE  LevelsNotAheadOfBook'
  BY NextIInv, FreshIsNext DEF TimedInv
<1>1. ASSUME InOrder, NEW t \in Time, NEW s \in Time, NEW id \in OrderId,
             NEW side \in Side, NEW size \in Size, NEW price \in Price,
             AddStep(id, side, size, price, t, s)
      PROVE  LevelsNotAheadOfBook'
  BY <1>1, AddStepNotAhead
<1>2. ASSUME InOrder, NEW t \in Time, NEW s \in Time, NEW id \in OrderId,
             RemoveStep(id, t, s)
      PROVE  LevelsNotAheadOfBook'
  BY <1>2, RemoveStepNotAhead
<1>3. ASSUME InOrder, NEW t \in Time, NEW s \in Time, NEW id \in OrderId,
             NEW size \in Size, ModifyStep(id, size, t, s)
      PROVE  LevelsNotAheadOfBook'
  BY <1>3, ModifyStepNotAhead
<1>4. CASE ClearStep
  BY <1>4 DEF TimedInv, IInv, TypeOK, ClearStep, Clear, BookType, NoLevels,
              LevelsNotAheadOfBook, HasLevel
<1>5. CASE UNCHANGED vars
  BY <1>5 DEF TimedInv, vars, LevelsNotAheadOfBook, HasLevel
<1> QED
  BY <1>1, <1>2, <1>3, <1>4, <1>5 DEF FreshNext

(* Although modify stamps a level before the book takes the event's time,  *)
(* events handed over in order never leave a level newer than the book.    *)
THEOREM LevelsNotAhead == TimedSpec => []LevelsNotAheadOfBook
<1>1. Init => TimedInv
  BY InitIInv DEF TimedInv, Init, NewBook, NoLevels, LevelsNotAheadOfBook, HasLevel
<1>2. TimedInv /\ [FreshNext /\ InOrder]_vars => TimedInv'
  BY TimedStepInv
<1>3. TimedInv => LevelsNotAheadOfBook
  BY DEF TimedInv
<1> QED
  BY <1>1, <1>2, <1>3, PTL DEF TimedSpec, InOrder

-----------------------------------------------------------------------------
(* With fresh ids, OrderBook implements AbstractBook.                      *)

QueueAt(l) == IF l = NoLevel THEN <<>> ELSE l.orders

(* Replacing a level replaces one queue.                                   *)
LEMMA QueuePut ==
  ASSUME NEW b \in BookType, NEW id, NEW o, NEW side \in BookSide, NEW price \in Price,
         NEW m, NEW t, NEW s
  PROVE  QueueOf(Put(b, id, o, side, price, m, t, s))
           = [QueueOf(b) EXCEPT ![side][price] = QueueAt(m)]
BY DEF QueueOf, QueueAt, Put, BookType, HasLevel

(* A call that moves only times leaves the queues alone.                   *)
LEMMA QueueSent ==
  ASSUME NEW b \in BookType, NEW s
  PROVE  QueueOf(Sent(b, s)) = QueueOf(b)
BY DEF QueueOf, Sent, BookType, HasLevel

(* An id rests in a queue exactly when a level has it.                     *)
LEMMA QueueRests ==
  ASSUME NEW id \in OrderId, Abstract!Rests(id)
  PROVE  \E side \in BookSide, price \in Price :
           HasLevel(book, side, price) /\ HasOrder(book.tree[side][price], id)
<1>1. PICK side \in BookSide, price \in Price :
        \E i \in DOMAIN QueueOf(book)[side][price] :
          QueueOf(book)[side][price][i].id = id
  BY DEF Abstract!Rests, Abstract!AtPlace
<1>2. QueueOf(book)[side][price] # <<>>
  BY <1>1
<1>3. HasLevel(book, side, price) /\
      QueueOf(book)[side][price] = book.tree[side][price].orders
  BY <1>2 DEF QueueOf
<1> QED
  BY <1>1, <1>3 DEF HasOrder

(* An addition under a fresh id is a Join of AbstractBook.                 *)
LEMMA AddStepJoins ==
  ASSUME FreshInv, NEW id \in OrderId, NEW side \in BookSide, NEW size \in Size,
         NEW price \in Price, NEW t \in Time, NEW s \in Time,
         GetOrder(book, id) = NoOrder, AddStep(id, side, size, price, t, s)
  PROVE  Abstract!Join(id, side, size, price)
<1> DEFINE found == book.tree[side][price]
           lvl == IF found = NoLevel THEN NewLevel ELSE found
           m == SetUpdateTime(AddOrder(lvl, id, size), t)
           o == [side |-> side, price |-> price, size |-> size,
                 linked |-> ~HasOrder(lvl, id)]
<1> USE DEF FreshInv, IInv, TypeOK
<1>1. ~Abstract!Rests(id)
  <2> SUFFICES ASSUME NEW sd \in BookSide, NEW pr \in Price,
                      HasLevel(book, sd, pr), HasOrder(book.tree[sd][pr], id)
               PROVE  FALSE
    BY QueueRests
  <2>1. book.tree[sd][pr] \in LevelType
    BY DEF HasLevel, BookType
  <2>2. PICK z \in Size : Lists(book.tree[sd][pr], id, z)
    BY <2>1, HasIsLists
  <2>3. book.orderMap[id] = [side |-> sd, price |-> pr, size |-> z, linked |-> TRUE]
    BY <2>2 DEF NoGhosts
  <2>4. [side |-> sd, price |-> pr, size |-> z, linked |-> TRUE] \in Order
    BY DEF Order
  <2> QED
    BY <2>3, <2>4, NullAssumption DEF GetOrder
<1>2. lvl \in LevelType /\ lvl.orders = QueueOf(book)[side][price]
  BY NewLevelEmpty DEF BookType, QueueOf, HasLevel, NewLevel
<1>3. ~HasOrder(lvl, id)
  <2>1. ~(\E i \in DOMAIN QueueOf(book)[side][price] :
            QueueOf(book)[side][price][i].id = id)
    BY <1>1 DEF Abstract!Rests, Abstract!AtPlace
  <2> HIDE DEF lvl
  <2> QED
    BY <1>2, <2>1 DEF HasOrder
<1>4. book' = Put(book, id, o, side, price, m, t, s)
  BY DEF AddStep, Add, AddAt
<1> HIDE DEF lvl
<1>5. m \in LevelType /\ m.orders = Append(lvl.orders, [id |-> id, size |-> size])
  <2>1. AddOrder(lvl, id, size).orders = Append(lvl.orders, [id |-> id, size |-> size])
    BY <1>2, <1>3 DEF AddOrder, LevelType
  <2>2. AddOrder(lvl, id, size) \in LevelType
    <3>1. AddVolume(lvl.totalVolume, size) \in 0 .. VolumeMod - 1
      BY <1>2, VolumeInRange DEF LevelType
    <3>2. Append(lvl.orders, [id |-> id, size |-> size]) \in Seq(Resting)
      BY <1>2 DEF LevelType, Resting
    <3> QED
      BY <1>2, <1>3, <3>1, <3>2 DEF AddOrder, LevelType
  <2> QED
    BY <2>1, <2>2, StampKeeps
<1> HIDE DEF m, o
<1>6. QueueAt(m) = Append(QueueOf(book)[side][price], [id |-> id, size |-> size])
  BY <1>2, <1>5, NullAssumption DEF QueueAt
<1>7. QueueOf(book') = [QueueOf(book) EXCEPT ![side][price] = QueueAt(m)]
  BY <1>4, QueuePut
<1> QED
  BY <1>1, <1>6, <1>7 DEF Abstract!Join

(* The removal of a known order is a Cancel, at the order's own place.     *)
LEMMA RemoveStepCancels ==
  ASSUME FreshInv, NEW id \in OrderId, NEW t \in Time, NEW s \in Time,
         RemoveStep(id, t, s), book.orderMap[id] # NoOrder
  PROVE  Abstract!Cancel(id)
<1> DEFINE o == book.orderMap[id]
           lvl == LevelOf(book, id)
           r == RemoveOrder(lvl, id)
           m == SetUpdateTime(r, t)
           n == IF m.orders = <<>> THEN NoLevel ELSE m
           i == FindOrder(lvl, id)
<1> USE DEF FreshInv, IInv, TypeOK
<1>1. /\ o.side \in BookSide /\ o.price \in Price /\ HasLevel(book, o.side, o.price)
      /\ lvl # NoLevel /\ lvl \in LevelType /\ ListsOnce(lvl) /\ HasOrder(lvl, id)
  BY MappedOrder
<1>2. lvl.orders = QueueOf(book)[o.side][o.price]
  BY <1>1 DEF LevelOf, QueueOf, HasLevel
<1>3. book' = Put(book, id, NoOrder, o.side, o.price, n, t, s)
  BY <1>1 DEF RemoveStep, Remove
<1> HIDE DEF lvl
<1>4. i \in DOMAIN lvl.orders /\ lvl.orders[i].id = id
  BY <1>1, FindOrderFinds
<1>5. r \in LevelType /\ r.orders = Erase(lvl.orders, i)
  <2>1. r \in LevelType
    BY <1>1, RemoveOrderLists
  <2>2. r.orders = Erase(lvl.orders, i)
    BY <1>1 DEF RemoveOrder, LevelType
  <2> QED
    BY <2>1, <2>2
<1> HIDE DEF r, i
<1>6. m \in LevelType /\ m.orders = Erase(lvl.orders, i)
  BY <1>5, StampKeeps
<1> HIDE DEF m
<1>7. QueueAt(n) = Erase(lvl.orders, i)
  BY <1>6, NullAssumption DEF QueueAt
<1> HIDE DEF n, o
<1>8. QueueOf(book') = [QueueOf(book) EXCEPT ![o.side][o.price] = QueueAt(n)]
  BY <1>1, <1>3 DEF QueueOf, QueueAt, Put, BookType, HasLevel
<1>9. /\ i \in DOMAIN QueueOf(book)[o.side][o.price]
      /\ Abstract!AtPlace(id, o.side, o.price, i)
  BY <1>2, <1>4 DEF Abstract!AtPlace
<1>10. QueueOf(book') = [QueueOf(book) EXCEPT ![o.side][o.price] =
         [j \in 1 .. Len(@) - 1 |-> IF j < i THEN @[j] ELSE @[j + 1]]]
  BY <1>1, <1>2, <1>7, <1>8 DEF Erase
<1> DEFINE sd == o.side
           pr == o.price
<1>11. /\ sd \in BookSide /\ pr \in Price
       /\ i \in DOMAIN QueueOf(book)[sd][pr]
       /\ Abstract!AtPlace(id, sd, pr, i)
       /\ QueueOf(book)' = [QueueOf(book) EXCEPT ![sd][pr] =
            [j \in 1 .. Len(@) - 1 |-> IF j < i THEN @[j] ELSE @[j + 1]]]
  BY <1>1, <1>9, <1>10
<1> HIDE DEF sd, pr
<1> QED
  BY ONLY <1>11, ZenonT(60) DEF Abstract!Cancel

(* The change of a known order is a Resize, at the order's own place.      *)
LEMMA ModifyStepResizes ==
  ASSUME FreshInv, NEW id \in OrderId, NEW size \in Size, NEW t \in Time, NEW s \in Time,
         ModifyStep(id, size, t, s), book.orderMap[id] # NoOrder
  PROVE  Abstract!Resize(id, size)
<1> DEFINE o == book.orderMap[id]
           p == IF o.linked THEN [o EXCEPT !.size = size] ELSE o
           lvl == LevelOf(book, id)
           r == ModifyOrder(lvl, id, size)
           m == SetUpdateTime(r, book.evtTime)
           i == FindOrder(lvl, id)
<1> USE DEF FreshInv, IInv, TypeOK
<1>1. /\ o.side \in BookSide /\ o.price \in Price /\ HasLevel(book, o.side, o.price)
      /\ lvl # NoLevel /\ lvl \in LevelType /\ ListsOnce(lvl) /\ HasOrder(lvl, id)
      /\ book.evtTime \in Time
  BY MappedOrder
<1>2. lvl.orders = QueueOf(book)[o.side][o.price]
  BY <1>1 DEF LevelOf, QueueOf, HasLevel
<1>3. book' = Put(book, id, p, o.side, o.price, m, t, s)
  BY <1>1 DEF ModifyStep, Modify
<1> HIDE DEF lvl, p
<1>4. i \in DOMAIN lvl.orders /\ lvl.orders[i].id = id
  BY <1>1, FindOrderFinds
<1>5. r \in LevelType /\ r.orders = [lvl.orders EXCEPT ![i].size = size]
  <2>1. r \in LevelType
    BY <1>1, ModifyOrderLists
  <2>2. r.orders = [lvl.orders EXCEPT ![i].size = size]
    BY <1>1 DEF ModifyOrder, LevelType
  <2> QED
    BY <2>1, <2>2
<1> HIDE DEF r, i
<1>6. m \in LevelType /\ m.orders = [lvl.orders EXCEPT ![i].size = size]
  BY <1>1, <1>5, StampKeeps
<1> HIDE DEF m
<1>7. QueueAt(m) = [lvl.orders EXCEPT ![i].size = size]
  BY <1>6, NullAssumption DEF QueueAt
<1> HIDE DEF o
<1>8. QueueOf(book') = [QueueOf(book) EXCEPT ![o.side][o.price] = QueueAt(m)]
  BY <1>1, <1>3 DEF QueueOf, QueueAt, Put, BookType, HasLevel
<1>9. /\ i \in DOMAIN QueueOf(book)[o.side][o.price]
      /\ Abstract!AtPlace(id, o.side, o.price, i)
  BY <1>2, <1>4 DEF Abstract!AtPlace
<1>10. QueueOf(book') = [QueueOf(book) EXCEPT ![o.side][o.price] =
                          [@ EXCEPT ![i].size = size]]
  BY <1>1, <1>2, <1>7, <1>8
<1> QED
  BY <1>1, <1>9, <1>10, ZenonT(60) DEF Abstract!Resize

(* Every call is one step of the queues, or leaves them as they are.       *)
LEMMA StepSimulation ==
  ASSUME FreshInv, [FreshNext]_vars
  PROVE  [Abstract!Next]_(QueueOf(book))
<1> USE DEF FreshInv, IInv, TypeOK
<1>1. ASSUME NEW t \in Time, NEW s \in Time, NEW id \in OrderId, NEW side \in Side,
             NEW size \in Size, NEW price \in Price,
             GetOrder(book, id) = NoOrder, AddStep(id, side, size, price, t, s)
      PROVE  [Abstract!Next]_(QueueOf(book))
  <2>1. CASE side \in BookSide
    BY <1>1, <2>1, AddStepJoins DEF Abstract!Next
  <2>2. CASE side \notin BookSide
    <3>1. book' = Sent(book, s)
      BY <1>1, <2>2 DEF AddStep, Add
    <3> QED
      BY <3>1, QueueSent
  <2> QED
    BY <2>1, <2>2
<1>2. ASSUME NEW t \in Time, NEW s \in Time, NEW id \in OrderId, RemoveStep(id, t, s)
      PROVE  [Abstract!Next]_(QueueOf(book))
  <2>1. CASE book.orderMap[id] # NoOrder
    BY <1>2, <2>1, RemoveStepCancels DEF Abstract!Next
  <2>2. CASE book.orderMap[id] = NoOrder
    BY <1>2, <2>2, QueueSent DEF RemoveStep, Remove
  <2> QED
    BY <2>1, <2>2
<1>3. ASSUME NEW t \in Time, NEW s \in Time, NEW id \in OrderId, NEW size \in Size,
             ModifyStep(id, size, t, s)
      PROVE  [Abstract!Next]_(QueueOf(book))
  <2>1. CASE book.orderMap[id] # NoOrder
    BY <1>3, <2>1, ModifyStepResizes DEF Abstract!Next
  <2>2. CASE book.orderMap[id] = NoOrder
    BY <1>3, <2>2, QueueSent DEF ModifyStep, Modify
  <2> QED
    BY <2>1, <2>2
<1>4. CASE ClearStep
  <2>1. QueueOf(book') = [side \in BookSide |-> [price \in Price |-> <<>>]]
    BY <1>4 DEF ClearStep, Clear, BookType, NoLevels, QueueOf, HasLevel
  <2> QED
    BY <2>1 DEF Abstract!Next, Abstract!Empty
<1>5. CASE UNCHANGED vars
  BY <1>5 DEF vars
<1> QED
  BY <1>1, <1>2, <1>3, <1>4, <1>5 DEF FreshNext

(* A book whose client never adds a live id is the book of queues.         *)
THEOREM Refinement == FreshSpec => ImplementsAbstractBook
<1>1. Init => Abstract!Init
  BY DEF Init, Abstract!Init, NewBook, NoLevels, QueueOf, HasLevel
<1>2. FreshInv /\ [FreshNext]_vars => [Abstract!Next]_(QueueOf(book))
  BY StepSimulation
<1> QED
  BY <1>1, <1>2, FreshIndInvariant, PTL
     DEF FreshSpec, ImplementsAbstractBook, Abstract!Spec
=============================================================================
