----------------------------- MODULE BookProofs -----------------------------
(***************************************************************************)
(* What the operations of Level and Book preserve, for every value of the  *)
(* constants.  The state machines that are built from a book (OrderBook,   *)
(* and the feed handler) take their step proofs from these lemmas.         *)
(***************************************************************************)
EXTENDS Book, WellFoundedInduction, TLAPS

-----------------------------------------------------------------------------
(* Levels.                                                                 *)

(* A volume stays within the counter, whatever is added or taken away.     *)
LEMMA VolumeInRange ==
  ASSUME NEW v \in Int, NEW size \in Size
  PROVE  /\ AddVolume(v, size) \in 0 .. VolumeMod - 1
         /\ RemoveVolume(v, size) \in 0 .. VolumeMod - 1
<1>1. size \in Nat /\ Unit \in Nat \ {0} /\ VolumeMod \in Nat \ {0}
  BY SizeAssumption, UnitAssumption, VolumeAssumption
<1>2. \A x \in Int : x % VolumeMod \in 0 .. VolumeMod - 1
  BY <1>1
<1>3. Whole(size) \in Int
  BY <1>1 DEF Whole
<1> QED
  BY <1>2, <1>3 DEF AddVolume, RemoveVolume

(* Having an order is listing it with some size.                           *)
LEMMA HasIsLists ==
  ASSUME NEW l \in LevelType, NEW id \in OrderId
  PROVE  HasOrder(l, id) <=> \E size \in Size : Lists(l, id, size)
<1>1. \A i \in DOMAIN l.orders : l.orders[i] \in Resting
  BY DEF LevelType
<1> QED
  BY <1>1 DEF HasOrder, Lists, Resting

(* An order that joins a level is listed there and disturbs nobody.        *)
LEMMA AddOrderLists ==
  ASSUME NEW l \in LevelType, ListsOnce(l), NEW id \in OrderId, NEW size \in Size,
         NEW m, m = AddOrder(l, id, size)
  PROVE  /\ m \in LevelType
         /\ ListsOnce(m)
         /\ m.orders # <<>>
         /\ HasOrder(m, id)
         /\ \A x \in OrderId, z \in Size :
              Lists(m, x, z) <=> \/ Lists(l, x, z)
                                 \/ ~HasOrder(l, id) /\ x = id /\ z = size
<1>1. CASE HasOrder(l, id)
  BY <1>1 DEF AddOrder, HasOrder, LevelType
<1>2. CASE ~HasOrder(l, id)
  <2> DEFINE o == [id |-> id, size |-> size]
  <2>1. m.orders = Append(l.orders, o)
    BY <1>2 DEF AddOrder, LevelType
  <2>2. m \in LevelType
    <3>1. AddVolume(l.totalVolume, size) \in 0 .. VolumeMod - 1
      BY VolumeInRange DEF LevelType
    <3>2. Append(l.orders, o) \in Seq(Resting)
      BY DEF LevelType, Resting
    <3> QED
      BY <1>2, <3>1, <3>2 DEF AddOrder, LevelType
  <2>3. /\ Len(m.orders) = Len(l.orders) + 1
        /\ DOMAIN l.orders = 1 .. Len(l.orders)
        /\ DOMAIN m.orders = 1 .. Len(l.orders) + 1
        /\ Len(l.orders) \in Nat
        /\ \A i \in 1 .. Len(l.orders) : m.orders[i] = l.orders[i]
        /\ m.orders[Len(l.orders) + 1] = o
    BY <2>1 DEF LevelType
  <2>4. ListsOnce(m)
    BY <2>3, <1>2, SMTT(30) DEF ListsOnce, HasOrder
  <2>5. m.orders # <<>> /\ HasOrder(m, id)
    BY <2>3 DEF HasOrder
  <2>6. ASSUME NEW x \in OrderId, NEW z \in Size
        PROVE  Lists(m, x, z) <=> Lists(l, x, z) \/ (x = id /\ z = size)
    BY <2>3, SMTT(30) DEF Lists
  <2> QED
    BY <1>2, <2>2, <2>4, <2>5, <2>6
<1> QED
  BY <1>1, <1>2

(* A search that can succeed returns the place of the id.                  *)
LEMMA FindOrderFinds ==
  ASSUME NEW l \in LevelType, ListsOnce(l), NEW id \in OrderId, HasOrder(l, id)
  PROVE  /\ FindOrder(l, id) \in DOMAIN l.orders
         /\ l.orders[FindOrder(l, id)].id = id
<1>1. PICK i \in DOMAIN l.orders : l.orders[i].id = id
  BY DEF HasOrder
<1>2. DOMAIN l.orders = 1 .. Len(l.orders) /\ Len(l.orders) \in Nat
  BY DEF LevelType
<1>3. \A j \in 1 .. i - 1 : j \in DOMAIN l.orders /\ j # i
  BY <1>1, <1>2
<1>4. \A j \in 1 .. i - 1 : l.orders[j].id # id
  BY <1>1, <1>3 DEF ListsOnce
<1> QED
  BY <1>1, <1>4 DEF FindOrder

(* An order that leaves a level takes nobody with it.                      *)
LEMMA RemoveOrderLists ==
  ASSUME NEW l \in LevelType, ListsOnce(l), NEW id \in OrderId, HasOrder(l, id),
         NEW m, m = RemoveOrder(l, id)
  PROVE  /\ m \in LevelType
         /\ ListsOnce(m)
         /\ \A x \in OrderId, z \in Size :
              Lists(m, x, z) <=> Lists(l, x, z) /\ x # id
<1> DEFINE i == FindOrder(l, id)
           n == Len(l.orders)
<1>1. i \in 1 .. n /\ l.orders[i].id = id /\ n \in Nat /\ DOMAIN l.orders = 1 .. n
  BY FindOrderFinds DEF LevelType
<1> HIDE DEF i
<1>2. m.orders = Erase(l.orders, i)
  BY DEF RemoveOrder, LevelType, i
<1>3. /\ DOMAIN m.orders = 1 .. n - 1
      /\ \A j \in 1 .. n - 1 :
           m.orders[j] = IF j < i THEN l.orders[j] ELSE l.orders[j + 1]
  BY <1>1, <1>2 DEF Erase
<1>4. m \in LevelType
  <2>1. \A j \in 1 .. n : l.orders[j] \in Resting
    BY <1>1 DEF LevelType
  <2>2. Erase(l.orders, i) \in Seq(Resting)
    <3>1. n - 1 \in Nat
      BY <1>1
    <3>2. \A j \in 1 .. n - 1 :
            (IF j < i THEN l.orders[j] ELSE l.orders[j + 1]) \in Resting
      BY <1>1, <2>1
    <3>3. Erase(l.orders, i) \in [1 .. n - 1 -> Resting]
      BY <3>2 DEF Erase
    <3> QED
      BY <3>1, <3>3
  <2>3. RemoveVolume(l.totalVolume, l.orders[i].size) \in 0 .. VolumeMod - 1
    BY <1>1, <2>1, VolumeInRange DEF LevelType, Resting
  <2> QED
    BY <2>2, <2>3 DEF RemoveOrder, LevelType, i
<1> DEFINE from(j) == IF j < i THEN j ELSE j + 1
<1>5. \A j \in 1 .. n - 1 : /\ from(j) \in 1 .. n
                           /\ from(j) # i
                           /\ m.orders[j] = l.orders[from(j)]
  BY <1>1, <1>3
<1>6. ListsOnce(m)
  <2> SUFFICES ASSUME NEW p \in 1 .. n - 1, NEW q \in 1 .. n - 1,
                      m.orders[p].id = m.orders[q].id
               PROVE  p = q
    BY <1>3 DEF ListsOnce
  <2>1. l.orders[from(p)].id = l.orders[from(q)].id
    BY <1>5
  <2>2. from(p) \in DOMAIN l.orders /\ from(q) \in DOMAIN l.orders
    BY <1>1, <1>5
  <2>3. from(p) = from(q)
    BY <2>1, <2>2 DEF ListsOnce
  <2> QED
    BY <2>3, <1>1
<1>7. ASSUME NEW x \in OrderId, NEW z \in Size
      PROVE  Lists(m, x, z) <=> Lists(l, x, z) /\ x # id
  <2>1. ASSUME Lists(m, x, z)
        PROVE  Lists(l, x, z) /\ x # id
    <3>1. PICK j \in 1 .. n - 1 : m.orders[j].id = x /\ m.orders[j].size = z
      BY <2>1, <1>3 DEF Lists
    <3>2. /\ from(j) \in DOMAIN l.orders /\ from(j) # i
          /\ l.orders[from(j)].id = x /\ l.orders[from(j)].size = z
      BY <3>1, <1>1, <1>5
    <3>3. Lists(l, x, z)
      BY <3>2 DEF Lists
    <3>4. x # id
      BY <3>2, <1>1 DEF ListsOnce
    <3> QED
      BY <3>3, <3>4
  <2>2. ASSUME Lists(l, x, z), x # id
        PROVE  Lists(m, x, z)
    <3>1. PICK k \in 1 .. n : l.orders[k].id = x /\ l.orders[k].size = z
      BY <2>2, <1>1 DEF Lists
    <3>2. k # i
      BY <3>1, <2>2, <1>1
    <3>3. CASE k < i
      <4>1. k \in 1 .. n - 1 /\ m.orders[k] = l.orders[k]
        BY <3>3, <1>1, <1>3
      <4> QED
        BY <4>1, <3>1, <1>3 DEF Lists
    <3>4. CASE k > i
      <4>1. k - 1 \in 1 .. n - 1 /\ m.orders[k - 1] = l.orders[k]
        BY <3>4, <1>1, <1>3
      <4> QED
        BY <4>1, <3>1, <1>3 DEF Lists
    <3> QED
      BY <3>2, <3>3, <3>4, <1>1
  <2> QED
    BY <2>1, <2>2
<1> QED
  BY <1>4, <1>6, <1>7

(* A change of size changes nothing else, nor anybody's place.             *)
LEMMA ModifyOrderLists ==
  ASSUME NEW l \in LevelType, ListsOnce(l), NEW id \in OrderId, HasOrder(l, id),
         NEW size \in Size, NEW m, m = ModifyOrder(l, id, size)
  PROVE  /\ m \in LevelType
         /\ ListsOnce(m)
         /\ m.orders # <<>>
         /\ \A x \in OrderId, z \in Size :
              Lists(m, x, z) <=> \/ x # id /\ Lists(l, x, z)
                                 \/ x = id /\ z = size
<1> DEFINE i == FindOrder(l, id)
           n == Len(l.orders)
           v == AddVolume(RemoveVolume(l.totalVolume, l.orders[i].size), size)
<1>1. i \in 1 .. n /\ l.orders[i].id = id /\ n \in Nat /\ DOMAIN l.orders = 1 .. n
  BY FindOrderFinds DEF LevelType
<1>2. \A j \in 1 .. n : l.orders[j] \in Resting
  BY <1>1 DEF LevelType
<1>3. v \in 0 .. VolumeMod - 1
  <2>1. RemoveVolume(l.totalVolume, l.orders[i].size) \in Int
    BY <1>1, <1>2, VolumeInRange DEF LevelType, Resting
  <2> QED
    BY <2>1, VolumeInRange
<1> HIDE DEF i, v
<1>4. m = [l EXCEPT !.orders[i].size = size, !.totalVolume = v]
  BY DEF ModifyOrder, i, v
<1>5. m.orders = [l.orders EXCEPT ![i] = [id |-> id, size |-> size]]
  BY <1>1, <1>2, <1>4 DEF LevelType, Resting
<1>6. m \in LevelType
  <2>1. m.orders \in Seq(Resting)
    BY <1>1, <1>5 DEF LevelType, Resting
  <2> QED
    BY <2>1, <1>3, <1>4 DEF LevelType
<1>7. /\ DOMAIN m.orders = 1 .. n
      /\ m.orders[i] = [id |-> id, size |-> size]
      /\ \A j \in 1 .. n : j # i => m.orders[j] = l.orders[j]
  BY <1>1, <1>5
<1>8. ListsOnce(m) /\ m.orders # <<>>
  <2>1. \A j \in 1 .. n : m.orders[j].id = l.orders[j].id
    BY <1>1, <1>7
  <2>2. ListsOnce(m)
    BY <2>1, <1>1, <1>7 DEF ListsOnce
  <2> QED
    BY <2>2, <1>1, <1>7
<1>9. ASSUME NEW x \in OrderId, NEW z \in Size
      PROVE  Lists(m, x, z) <=> \/ x # id /\ Lists(l, x, z)
                                \/ x = id /\ z = size
  <2>1. \A j \in 1 .. n : l.orders[j].id = id => j = i
    BY <1>1 DEF ListsOnce
  <2>2. CASE x = id
    BY <2>1, <2>2, <1>1, <1>7 DEF Lists
  <2>3. CASE x # id
    BY <2>1, <2>3, <1>1, <1>7 DEF Lists
  <2> QED
    BY <2>2, <2>3
<1> QED
  BY <1>6, <1>8, <1>9

-----------------------------------------------------------------------------
(* Books.                                                                  *)

(* A fresh level lists nothing.                                            *)
LEMMA NewLevelEmpty ==
  /\ NewLevel \in LevelType /\ ListsOnce(NewLevel)
  /\ \A x \in OrderId : ~HasOrder(NewLevel, x)
  /\ \A x \in OrderId, z \in Size : ~Lists(NewLevel, x, z)
BY VolumeAssumption DEF NewLevel, LevelType, ListsOnce, HasOrder, Lists

(* Stamping a level changes only its time.                                 *)
LEMMA StampKeeps ==
  ASSUME NEW l \in LevelType, NEW t \in Time \cup {NoTime}
  PROVE  LET m == SetUpdateTime(l, t)
         IN  /\ m \in LevelType
             /\ m.orders = l.orders
             /\ m.timeUpdated = t
             /\ ListsOnce(m) <=> ListsOnce(l)
             /\ \A x \in OrderId : HasOrder(m, x) <=> HasOrder(l, x)
             /\ \A x \in OrderId, z \in Size : Lists(m, x, z) <=> Lists(l, x, z)
<1> DEFINE m == SetUpdateTime(l, t)
<1>1. m \in LevelType /\ m.orders = l.orders /\ m.timeUpdated = t
  BY DEF SetUpdateTime, LevelType
<1> HIDE DEF m
<1>2. /\ ListsOnce(m) <=> ListsOnce(l)
      /\ \A x \in OrderId : HasOrder(m, x) <=> HasOrder(l, x)
      /\ \A x \in OrderId, z \in Size : Lists(m, x, z) <=> Lists(l, x, z)
  BY <1>1 DEF ListsOnce, HasOrder, Lists
<1> QED
  BY <1>1, <1>2 DEF m

(* Replacing one map entry and one level keeps a book sound when the entry *)
(* rests at the level, the level is in order, and every other order that   *)
(* the old level listed is still listed.                                   *)
Fits(b, id, o, side, price, m) ==
  /\ o # NoOrder => /\ o.side = side /\ o.price = price
                    /\ m # NoLevel /\ HasOrder(m, id)
                    /\ o.linked => Lists(m, id, o.size)
  /\ m # NoLevel => m.orders # <<>> /\ ListsOnce(m) /\ m.timeUpdated # NoTime
  /\ HasLevel(b, side, price) =>
       \A x \in OrderId, z \in Size :
         x # id /\ Lists(b.tree[side][price], x, z) => m # NoLevel /\ Lists(m, x, z)

(* Replacing a map entry and its level by ones that fit keeps a book       *)
(* sound.                                                                  *)
LEMMA PutSound ==
  ASSUME NEW b \in BookType, Sound(b), NEW id \in OrderId,
         NEW o \in Order \cup {NoOrder}, NEW side \in BookSide, NEW price \in Price,
         NEW m \in LevelType \cup {NoLevel},
         NEW t \in Time, NEW s \in Time, Fits(b, id, o, side, price, m)
  PROVE  /\ Put(b, id, o, side, price, m, t, s) \in BookType
         /\ Sound(Put(b, id, o, side, price, m, t, s))
<1> DEFINE c == Put(b, id, o, side, price, m, t, s)
<1>1. /\ c \in BookType /\ c.evtTime = t
      /\ c.orderMap[id] = o
      /\ \A x \in OrderId : x # id => c.orderMap[x] = b.orderMap[x]
      /\ c.tree[side][price] = m
      /\ \A sd \in BookSide, pr \in Price :
           sd # side \/ pr # price => c.tree[sd][pr] = b.tree[sd][pr]
  BY DEF Put, BookType
<1> HIDE DEF c
<1>2. ASSUME NEW x \in OrderId, c.orderMap[x] # NoOrder
      PROVE  /\ LevelOf(c, x) # NoLevel
             /\ HasOrder(LevelOf(c, x), x)
             /\ c.orderMap[x].linked => Lists(LevelOf(c, x), x, c.orderMap[x].size)
  <2>1. CASE x = id
    <3>1. LevelOf(c, x) = m
      BY <2>1, <1>1, <1>2 DEF LevelOf, Fits
    <3> QED
      BY <2>1, <3>1, <1>1, <1>2 DEF Fits
  <2>2. CASE x # id
    <3>1. /\ c.orderMap[x] = b.orderMap[x] /\ b.orderMap[x] \in Order
          /\ b.orderMap[x].side \in BookSide /\ b.orderMap[x].price \in Price
          /\ b.orderMap[x].size \in Size
      BY <1>1, <1>2, <2>2 DEF BookType, Order
    <3>2. /\ LevelOf(b, x) # NoLevel /\ HasOrder(LevelOf(b, x), x)
          /\ b.orderMap[x].linked => Lists(LevelOf(b, x), x, b.orderMap[x].size)
      BY <3>1, <1>2 DEF Sound, MapHasLevel, LinkedAgree
    <3>3. CASE b.orderMap[x].side = side /\ b.orderMap[x].price = price
      <4> DEFINE old == b.tree[side][price]
      <4>1. LevelOf(c, x) = m /\ LevelOf(b, x) = old
        BY <3>1, <3>3, <1>1 DEF LevelOf
      <4>2. old \in LevelType /\ HasLevel(b, side, price)
        BY <3>2, <4>1 DEF BookType, HasLevel
      <4>3. /\ \E z \in Size : Lists(old, x, z)
            /\ \A z \in Size : Lists(old, x, z) => m # NoLevel /\ Lists(m, x, z)
        BY <3>2, <4>1, <4>2, <2>2, HasIsLists DEF Fits
      <4>4. m \in LevelType /\ HasOrder(m, x)
        BY <4>3, HasIsLists
      <4> HIDE DEF old
      <4> QED
        BY <4>1, <4>3, <4>4, <3>1, <3>2
    <3>4. CASE b.orderMap[x].side # side \/ b.orderMap[x].price # price
      <4>1. LevelOf(c, x) = LevelOf(b, x)
        BY <3>1, <3>4, <1>1 DEF LevelOf
      <4> QED
        BY <4>1, <3>1, <3>2
    <3> QED
      BY <3>3, <3>4
  <2> QED
    BY <2>1, <2>2
<1>3. MapHasLevel(c) /\ LinkedAgree(c)
  BY <1>2 DEF MapHasLevel, LinkedAgree
<1>4. LevelsHoldOrders(c) /\ OncePerLevel(c)
  BY <1>1 DEF Fits, Sound, LevelsHoldOrders, OncePerLevel, HasLevel
<1>5. LevelsStamped(c)
  BY <1>1, TimeAssumption DEF Fits, Sound, LevelsStamped, HasLevel
<1> QED
  BY <1>1, <1>3, <1>4, <1>5 DEF Sound, c

(* Adding an order, under an id that is new or not, keeps a book sound.    *)
LEMMA AddSound ==
  ASSUME NEW b \in BookType, Sound(b), NEW id \in OrderId, NEW side \in BookSide,
         NEW size \in Size, NEW price \in Price, NEW t \in Time, NEW s \in Time
  PROVE  /\ Add(b, id, side, size, price, t, s) \in BookType
         /\ Sound(Add(b, id, side, size, price, t, s))
<1> DEFINE found == b.tree[side][price]
           lvl == IF found = NoLevel THEN NewLevel ELSE found
           a == AddOrder(lvl, id, size)
           m == SetUpdateTime(a, t)
           o == [side |-> side, price |-> price, size |-> size,
                 linked |-> ~HasOrder(lvl, id)]
<1>1. lvl \in LevelType /\ ListsOnce(lvl)
  BY NewLevelEmpty DEF BookType, Sound, OncePerLevel, HasLevel
<1>2. HasLevel(b, side, price) => lvl = b.tree[side][price]
  BY DEF HasLevel
<1> HIDE DEF lvl
<1>3. /\ a \in LevelType /\ ListsOnce(a) /\ a.orders # <<>> /\ HasOrder(a, id)
      /\ \A x \in OrderId, z \in Size :
           Lists(a, x, z) <=> \/ Lists(lvl, x, z)
                              \/ ~HasOrder(lvl, id) /\ x = id /\ z = size
  BY <1>1, AddOrderLists
<1> HIDE DEF a
<1>4. /\ m \in LevelType /\ ListsOnce(m) /\ m.orders # <<>> /\ HasOrder(m, id)
      /\ m.timeUpdated = t
      /\ \A x \in OrderId, z \in Size :
           Lists(m, x, z) <=> \/ Lists(lvl, x, z)
                              \/ ~HasOrder(lvl, id) /\ x = id /\ z = size
  BY <1>3, StampKeeps
<1>5. Add(b, id, side, size, price, t, s) = Put(b, id, o, side, price, m, t, s)
  BY DEF Add, AddAt, lvl, a
<1> HIDE DEF m
<1>6. /\ o \in Order /\ o.side = side /\ o.price = price /\ o.size = size
      /\ o.linked <=> ~HasOrder(lvl, id)
  BY DEF Order
<1> HIDE DEF o
<1>7. Fits(b, id, o, side, price, m)
  BY <1>2, <1>4, <1>6, NullAssumption, TimeAssumption DEF Fits
<1>8. m \in LevelType \cup {NoLevel} /\ o \in Order \cup {NoOrder}
  BY <1>4, <1>6
<1> QED
  BY <1>5, <1>7, <1>8, PutSound, ZenonT(60)

(* A call that finds nothing moves the sending time and nothing else.      *)
LEMMA SentSound ==
  ASSUME NEW b \in BookType, Sound(b), NEW s \in Time
  PROVE  Sent(b, s) \in BookType /\ Sound(Sent(b, s))
<1>1. /\ Sent(b, s) \in BookType
      /\ Sent(b, s).orderMap = b.orderMap /\ Sent(b, s).tree = b.tree
      /\ Sent(b, s).evtTime = b.evtTime
  BY DEF Sent, BookType
<1> QED
  BY <1>1 DEF Sound, MapHasLevel, LevelsHoldOrders, OncePerLevel, LevelsStamped,
              LinkedAgree, LevelOf, HasLevel

(* A mapped order, its level, and its place there.                         *)
LEMMA MappedOrder ==
  ASSUME NEW b \in BookType, Sound(b), NEW id \in OrderId, b.orderMap[id] # NoOrder
  PROVE  /\ b.orderMap[id] \in Order
         /\ b.orderMap[id].side \in BookSide /\ b.orderMap[id].price \in Price
         /\ HasLevel(b, b.orderMap[id].side, b.orderMap[id].price)
         /\ LevelOf(b, id) # NoLevel
         /\ LevelOf(b, id) \in LevelType
         /\ ListsOnce(LevelOf(b, id))
         /\ HasOrder(LevelOf(b, id), id)
         /\ b.evtTime \in Time
<1>1. /\ b.orderMap[id] \in Order
      /\ b.orderMap[id].side \in BookSide /\ b.orderMap[id].price \in Price
  BY DEF BookType, Order
<1>2. LevelOf(b, id) # NoLevel /\ HasOrder(LevelOf(b, id), id)
  BY DEF Sound, MapHasLevel
<1>3. /\ HasLevel(b, b.orderMap[id].side, b.orderMap[id].price)
      /\ LevelOf(b, id) \in LevelType
  <2>1. HasLevel(b, b.orderMap[id].side, b.orderMap[id].price)
    BY <1>2 DEF HasLevel, LevelOf
  <2>2. LevelOf(b, id) \in LevelType \cup {NoLevel}
    BY <1>1 DEF LevelOf, BookType
  <2> QED
    BY <1>2, <2>1, <2>2
<1>4. ListsOnce(LevelOf(b, id))
  BY <1>1, <1>3 DEF Sound, OncePerLevel, LevelOf
<1>5. b.evtTime \in Time
  BY <1>1, <1>3 DEF Sound, LevelsStamped, BookType
<1> QED
  BY <1>1, <1>2, <1>3, <1>4, <1>5

(* Removing an order keeps a book sound, and a known order is removed.     *)
LEMMA RemoveSound ==
  ASSUME NEW b \in BookType, Sound(b), NEW id \in OrderId,
         NEW t \in Time, NEW s \in Time
  PROVE  /\ Remove(b, id, t, s) \in BookType
         /\ Sound(Remove(b, id, t, s))
         /\ RemoveOutcome(b, id) = IF b.orderMap[id] = NoOrder
                                   THEN "unknown" ELSE "done"
<1>1. CASE b.orderMap[id] = NoOrder
  BY <1>1, SentSound DEF Remove, RemoveOutcome
<1>2. CASE b.orderMap[id] # NoOrder
  <2> DEFINE o == b.orderMap[id]
             lvl == LevelOf(b, id)
             r == RemoveOrder(lvl, id)
             m == SetUpdateTime(r, t)
             n == IF m.orders = <<>> THEN NoLevel ELSE m
  <2>1. /\ o.side \in BookSide /\ o.price \in Price
        /\ lvl # NoLevel /\ lvl \in LevelType /\ ListsOnce(lvl) /\ HasOrder(lvl, id)
    BY <1>2, MappedOrder
  <2>2. lvl = b.tree[o.side][o.price]
    BY DEF LevelOf
  <2> HIDE DEF lvl
  <2>3. /\ r \in LevelType /\ ListsOnce(r)
        /\ \A x \in OrderId, z \in Size : Lists(r, x, z) <=> Lists(lvl, x, z) /\ x # id
    BY <2>1, RemoveOrderLists
  <2> HIDE DEF r
  <2>4. /\ m \in LevelType /\ ListsOnce(m) /\ m.timeUpdated = t
        /\ \A x \in OrderId, z \in Size : Lists(m, x, z) <=> Lists(lvl, x, z) /\ x # id
    BY <2>3, StampKeeps
  <2>5. Remove(b, id, t, s) = Put(b, id, NoOrder, o.side, o.price, n, t, s)
    BY <1>2, <2>1 DEF Remove, lvl, r
  <2> HIDE DEF m
  <2>6. \A x \in OrderId, z \in Size : Lists(m, x, z) => m.orders # <<>>
    BY DEF Lists
  <2>7. n \in LevelType \cup {NoLevel}
    BY <2>4
  <2>8. Fits(b, id, NoOrder, o.side, o.price, n)
    BY <2>2, <2>4, <2>6, NullAssumption, TimeAssumption DEF Fits
  <2>9. RemoveOutcome(b, id) = "done"
    BY <1>2, <2>1 DEF RemoveOutcome, RemoveOrderOk, lvl
  <2> HIDE DEF n
  <2> QED
    BY <1>2, <2>1, <2>5, <2>7, <2>8, <2>9, PutSound
<1> QED
  BY <1>1, <1>2

(* Changing a size keeps a book sound, and a known order is changed.       *)
LEMMA ModifySound ==
  ASSUME NEW b \in BookType, Sound(b), NEW id \in OrderId, NEW size \in Size,
         NEW t \in Time, NEW s \in Time
  PROVE  /\ Modify(b, id, size, t, s) \in BookType
         /\ Sound(Modify(b, id, size, t, s))
         /\ ModifyOutcome(b, id) = IF b.orderMap[id] = NoOrder
                                   THEN "unknown" ELSE "done"
<1>1. CASE b.orderMap[id] = NoOrder
  BY <1>1, SentSound DEF Modify, ModifyOutcome
<1>2. CASE b.orderMap[id] # NoOrder
  <2> DEFINE o == b.orderMap[id]
             p == IF o.linked THEN [o EXCEPT !.size = size] ELSE o
             lvl == LevelOf(b, id)
             r == ModifyOrder(lvl, id, size)
             m == SetUpdateTime(r, b.evtTime)
  <2>1. /\ o \in Order /\ o.side \in BookSide /\ o.price \in Price
        /\ lvl # NoLevel /\ lvl \in LevelType /\ ListsOnce(lvl) /\ HasOrder(lvl, id)
        /\ b.evtTime \in Time
    BY <1>2, MappedOrder
  <2>2. lvl = b.tree[o.side][o.price]
    BY DEF LevelOf
  <2> HIDE DEF lvl
  <2>3. /\ r \in LevelType /\ ListsOnce(r) /\ r.orders # <<>>
        /\ \A x \in OrderId, z \in Size : Lists(r, x, z) <=>
             \/ x # id /\ Lists(lvl, x, z)
             \/ x = id /\ z = size
    BY <2>1, ModifyOrderLists
  <2> HIDE DEF r
  <2>4. /\ m \in LevelType /\ ListsOnce(m) /\ m.orders # <<>>
        /\ m.timeUpdated = b.evtTime
        /\ \A x \in OrderId, z \in Size : Lists(m, x, z) <=>
             \/ x # id /\ Lists(lvl, x, z)
             \/ x = id /\ z = size
    BY <2>1, <2>3, StampKeeps
  <2>5. Modify(b, id, size, t, s) = Put(b, id, p, o.side, o.price, m, t, s)
    BY <1>2, <2>1 DEF Modify, lvl, r
  <2> HIDE DEF m
  <2>6. /\ p \in Order /\ p.side = o.side /\ p.price = o.price
        /\ p.linked => p.size = size
    BY <2>1 DEF Order
  <2> HIDE DEF p
  <2>7. HasOrder(m, id) /\ Lists(m, id, size)
    BY <2>4, HasIsLists
  <2>8. Fits(b, id, p, o.side, o.price, m)
    BY <2>1, <2>2, <2>4, <2>6, <2>7, NullAssumption, TimeAssumption DEF Fits
  <2>9. ModifyOutcome(b, id) = "done"
    BY <1>2, <2>1 DEF ModifyOutcome, lvl
  <2>10. m \in LevelType \cup {NoLevel} /\ p \in Order \cup {NoOrder}
    BY <2>4, <2>6
  <2> QED
    BY <1>2, <2>1, <2>5, <2>8, <2>9, <2>10, PutSound
<1> QED
  BY <1>1, <1>2

(* An emptied book is sound, whatever times it keeps.                      *)
LEMMA EmptySound ==
  ASSUME NEW b \in BookType, b.orderMap = NoOrders, b.tree = NoLevels
  PROVE  Sound(b)
<1>1. /\ \A id \in OrderId : b.orderMap[id] = NoOrder
      /\ \A side \in BookSide, price \in Price : b.tree[side][price] = NoLevel
  BY DEF NoOrders, NoLevels
<1> QED
  BY <1>1 DEF Sound, MapHasLevel, LevelsHoldOrders, OncePerLevel, LevelsStamped,
              LinkedAgree, HasLevel

(* clear leaves a sound book: empty, with the times it had.                *)
LEMMA ClearSound ==
  ASSUME NEW b \in BookType
  PROVE  Clear(b) \in BookType /\ Sound(Clear(b))
<1>1. /\ Clear(b) \in BookType
      /\ Clear(b).orderMap = NoOrders /\ Clear(b).tree = NoLevels
  BY DEF Clear, BookType, NoOrders, NoLevels
<1> QED
  BY <1>1, EmptySound

(* The constructor makes a sound book.                                     *)
LEMMA NewBookSound == NewBook \in BookType /\ Sound(NewBook)
<1>1. /\ NewBook \in BookType
      /\ NewBook.orderMap = NoOrders /\ NewBook.tree = NoLevels
  BY DEF NewBook, BookType, NoOrders, NoLevels
<1> QED
  BY <1>1, EmptySound

-----------------------------------------------------------------------------
(* No ghosts, as long as ids are fresh.                                    *)

(* What a replaced level lists is the replaced entry's order and what it   *)
(* listed before under other ids.                                          *)
ListsOnlyKnown(b, id, o, side, price, m) ==
  \A x \in OrderId, z \in Size : m # NoLevel /\ Lists(m, x, z) =>
    \/ x # id /\ HasLevel(b, side, price) /\ Lists(b.tree[side][price], x, z)
    \/ x = id /\ o = [side |-> side, price |-> price, size |-> z, linked |-> TRUE]

(* Replacing a map entry and its level makes no ghost when the level       *)
(* lists, under the id, only the entry's order.                            *)
LEMMA PutNoGhosts ==
  ASSUME NEW b \in BookType, NoGhosts(b), NEW id \in OrderId,
         NEW o \in Order \cup {NoOrder}, NEW side \in BookSide, NEW price \in Price,
         NEW m \in LevelType \cup {NoLevel}, NEW t \in Time, NEW s \in Time,
         \/ b.orderMap[id] = NoOrder
         \/ b.orderMap[id].side = side /\ b.orderMap[id].price = price,
         ListsOnlyKnown(b, id, o, side, price, m)
  PROVE  NoGhosts(Put(b, id, o, side, price, m, t, s))
<1> DEFINE c == Put(b, id, o, side, price, m, t, s)
<1>1. /\ c.orderMap[id] = o
      /\ \A x \in OrderId : x # id => c.orderMap[x] = b.orderMap[x]
      /\ c.tree[side][price] = m
      /\ \A sd \in BookSide, pr \in Price :
           sd # side \/ pr # price => c.tree[sd][pr] = b.tree[sd][pr]
  BY DEF Put, BookType
<1> HIDE DEF c
<1> SUFFICES ASSUME NEW sd \in BookSide, NEW pr \in Price,
                    NEW x \in OrderId, NEW z \in Size,
                    c.tree[sd][pr] # NoLevel, Lists(c.tree[sd][pr], x, z)
             PROVE  c.orderMap[x] =
                      [side |-> sd, price |-> pr, size |-> z, linked |-> TRUE]
  BY DEF NoGhosts, HasLevel, c
<1>2. ASSUME HasLevel(b, sd, pr), Lists(b.tree[sd][pr], x, z)
      PROVE  b.orderMap[x] = [side |-> sd, price |-> pr, size |-> z, linked |-> TRUE]
  BY <1>2 DEF NoGhosts
<1>3. CASE sd = side /\ pr = price
  <2>1. \/ x # id /\ HasLevel(b, side, price) /\ Lists(b.tree[side][price], x, z)
        \/ x = id /\ o = [side |-> side, price |-> price, size |-> z, linked |-> TRUE]
    BY <1>1, <1>3 DEF ListsOnlyKnown
  <2> QED
    BY <2>1, <1>1, <1>2, <1>3
<1>4. CASE sd # side \/ pr # price
  <2>1. b.orderMap[x] = [side |-> sd, price |-> pr, size |-> z, linked |-> TRUE]
    BY <1>1, <1>2, <1>4 DEF HasLevel
  <2>2. b.orderMap[x] # NoOrder
    <3>1. [side |-> sd, price |-> pr, size |-> z, linked |-> TRUE] \in Order
      BY DEF Order
    <3> QED
      BY <2>1, <3>1, NullAssumption
  <2>3. b.orderMap[x].side = sd /\ b.orderMap[x].price = pr
    BY <2>1
  <2>4. x # id
    BY <2>2, <2>3, <1>4
  <2> QED
    BY <2>1, <2>4, <1>1
<1> QED
  BY <1>3, <1>4

(* An order added under an id the map does not hold.                       *)
LEMMA FreshAddNoGhosts ==
  ASSUME NEW b \in BookType, Sound(b), NoGhosts(b), NEW id \in OrderId,
         b.orderMap[id] = NoOrder, NEW side \in BookSide, NEW size \in Size,
         NEW price \in Price, NEW t \in Time, NEW s \in Time
  PROVE  NoGhosts(Add(b, id, side, size, price, t, s))
<1> DEFINE found == b.tree[side][price]
           lvl == IF found = NoLevel THEN NewLevel ELSE found
           a == AddOrder(lvl, id, size)
           m == SetUpdateTime(a, t)
           o == [side |-> side, price |-> price, size |-> size,
                 linked |-> ~HasOrder(lvl, id)]
<1>1. lvl \in LevelType /\ ListsOnce(lvl)
  BY NewLevelEmpty DEF BookType, Sound, OncePerLevel, HasLevel
<1>2. \A x \in OrderId, z \in Size : Lists(lvl, x, z) =>
        HasLevel(b, side, price) /\ Lists(b.tree[side][price], x, z)
  BY NewLevelEmpty DEF HasLevel
<1>3. ~HasOrder(lvl, id)
  <2>1. \A z \in Size :
          [side |-> side, price |-> price, size |-> z, linked |-> TRUE] # NoOrder
    <3> SUFFICES ASSUME NEW z \in Size
                 PROVE  [side |-> side, price |-> price, size |-> z, linked |-> TRUE]
                          # NoOrder
      OBVIOUS
    <3>1. [side |-> side, price |-> price, size |-> z, linked |-> TRUE] \in Order
      BY DEF Order
    <3> QED
      BY <3>1, NullAssumption
  <2>2. \A z \in Size : ~Lists(lvl, id, z)
    BY <1>2, <2>1 DEF NoGhosts
  <2> HIDE DEF lvl
  <2> QED
    BY <1>1, <2>2, HasIsLists
<1> HIDE DEF lvl
<1>4. /\ a \in LevelType
      /\ \A x \in OrderId, z \in Size :
           Lists(a, x, z) <=> Lists(lvl, x, z) \/ (x = id /\ z = size)
  BY <1>1, <1>3, AddOrderLists
<1> HIDE DEF a
<1>5. /\ m \in LevelType
      /\ \A x \in OrderId, z \in Size :
           Lists(m, x, z) <=> Lists(lvl, x, z) \/ (x = id /\ z = size)
  BY <1>4, StampKeeps
<1>6. Add(b, id, side, size, price, t, s) = Put(b, id, o, side, price, m, t, s)
  BY DEF Add, AddAt, lvl, a
<1> HIDE DEF m
<1>7. /\ o \in Order
      /\ o = [side |-> side, price |-> price, size |-> size, linked |-> TRUE]
  BY <1>3 DEF Order
<1> HIDE DEF o
<1>8. \A z \in Size : ~Lists(lvl, id, z)
  BY <1>1, <1>3, HasIsLists
<1>9. ListsOnlyKnown(b, id, o, side, price, m)
  BY <1>2, <1>5, <1>7, <1>8 DEF ListsOnlyKnown
<1>10. m \in LevelType \cup {NoLevel} /\ o \in Order \cup {NoOrder}
  BY <1>5, <1>7
<1> QED
  BY <1>6, <1>9, <1>10, PutNoGhosts

(* Removal and modification never make a ghost.                            *)
LEMMA RemoveNoGhosts ==
  ASSUME NEW b \in BookType, Sound(b), NoGhosts(b), NEW id \in OrderId,
         NEW t \in Time, NEW s \in Time
  PROVE  NoGhosts(Remove(b, id, t, s))
<1>1. CASE b.orderMap[id] = NoOrder
  BY <1>1 DEF Remove, Sent, BookType, NoGhosts, HasLevel
<1>2. CASE b.orderMap[id] # NoOrder
  <2> DEFINE o == b.orderMap[id]
             lvl == LevelOf(b, id)
             r == RemoveOrder(lvl, id)
             m == SetUpdateTime(r, t)
             n == IF m.orders = <<>> THEN NoLevel ELSE m
  <2>1. /\ o.side \in BookSide /\ o.price \in Price /\ HasLevel(b, o.side, o.price)
        /\ lvl # NoLevel /\ lvl \in LevelType /\ ListsOnce(lvl) /\ HasOrder(lvl, id)
    BY <1>2, MappedOrder
  <2>2. lvl = b.tree[o.side][o.price]
    BY DEF LevelOf
  <2> HIDE DEF lvl
  <2>3. /\ r \in LevelType
        /\ \A x \in OrderId, z \in Size : Lists(r, x, z) <=> Lists(lvl, x, z) /\ x # id
    BY <2>1, RemoveOrderLists
  <2> HIDE DEF r
  <2>4. /\ m \in LevelType
        /\ \A x \in OrderId, z \in Size : Lists(m, x, z) <=> Lists(lvl, x, z) /\ x # id
    BY <2>3, StampKeeps
  <2>5. Remove(b, id, t, s) = Put(b, id, NoOrder, o.side, o.price, n, t, s)
    BY <1>2, <2>1 DEF Remove, lvl, r
  <2> HIDE DEF m
  <2>6. n \in LevelType \cup {NoLevel}
    BY <2>4
  <2>7. ListsOnlyKnown(b, id, NoOrder, o.side, o.price, n)
    BY <2>1, <2>2, <2>4 DEF ListsOnlyKnown
  <2> HIDE DEF n
  <2> QED
    BY <2>1, <2>5, <2>6, <2>7, PutNoGhosts
<1> QED
  BY <1>1, <1>2

(* Nor does a change of size: the map entry of an order that is no ghost   *)
(* is linked, and changes with it.                                         *)
LEMMA ModifyNoGhosts ==
  ASSUME NEW b \in BookType, Sound(b), NoGhosts(b), NEW id \in OrderId,
         NEW size \in Size, NEW t \in Time, NEW s \in Time
  PROVE  NoGhosts(Modify(b, id, size, t, s))
<1>1. CASE b.orderMap[id] = NoOrder
  BY <1>1 DEF Modify, Sent, BookType, NoGhosts, HasLevel
<1>2. CASE b.orderMap[id] # NoOrder
  <2> DEFINE o == b.orderMap[id]
             p == IF o.linked THEN [o EXCEPT !.size = size] ELSE o
             lvl == LevelOf(b, id)
             r == ModifyOrder(lvl, id, size)
             m == SetUpdateTime(r, b.evtTime)
  <2>1. /\ o \in Order /\ o.side \in BookSide /\ o.price \in Price
        /\ HasLevel(b, o.side, o.price)
        /\ lvl # NoLevel /\ lvl \in LevelType /\ ListsOnce(lvl) /\ HasOrder(lvl, id)
        /\ b.evtTime \in Time
    BY <1>2, MappedOrder
  <2>2. lvl = b.tree[o.side][o.price]
    BY DEF LevelOf
  <2> HIDE DEF lvl
  <2>3. PICK y \in Size : Lists(lvl, id, y)
    BY <2>1, HasIsLists
  <2>4. o = [side |-> o.side, price |-> o.price, size |-> y, linked |-> TRUE]
    BY <2>1, <2>2, <2>3 DEF NoGhosts
  <2>5. /\ r \in LevelType
        /\ \A x \in OrderId, z \in Size : Lists(r, x, z) <=>
             \/ x # id /\ Lists(lvl, x, z)
             \/ x = id /\ z = size
    BY <2>1, ModifyOrderLists
  <2> HIDE DEF r
  <2>6. /\ m \in LevelType
        /\ \A x \in OrderId, z \in Size : Lists(m, x, z) <=>
             \/ x # id /\ Lists(lvl, x, z)
             \/ x = id /\ z = size
    BY <2>1, <2>5, StampKeeps
  <2>7. Modify(b, id, size, t, s) = Put(b, id, p, o.side, o.price, m, t, s)
    BY <1>2, <2>1 DEF Modify, lvl, r
  <2> HIDE DEF m
  <2>8. p = [side |-> o.side, price |-> o.price, size |-> size, linked |-> TRUE]
    <3>1. o.linked = TRUE
      BY <2>4
    <3>2. [o EXCEPT !.size = size] =
            [side |-> o.side, price |-> o.price, size |-> size, linked |-> o.linked]
      BY <2>1 DEF Order
    <3> QED
      BY <3>1, <3>2
  <2>9. p \in Order
    BY <2>1, <2>8 DEF Order
  <2> HIDE DEF p
  <2>10. ListsOnlyKnown(b, id, p, o.side, o.price, m)
    BY <2>1, <2>2, <2>6, <2>8 DEF ListsOnlyKnown
  <2>11. m \in LevelType \cup {NoLevel} /\ p \in Order \cup {NoOrder}
    BY <2>6, <2>9
  <2> QED
    BY <2>1, <2>7, <2>10, <2>11, PutNoGhosts
<1> QED
  BY <1>1, <1>2

-----------------------------------------------------------------------------
(* The best price.                                                         *)

(* A set of integers that is not empty and bounded below has a least one.  *)
LEMMA LeastInt ==
  ASSUME NEW low \in Int, NEW S \in SUBSET Int, S # {}, \A x \in S : low < x
  PROVE  \E m \in S : \A x \in S : m <= x
<1> DEFINE Offsets == {n \in Nat : low + n \in S}
           Less == {pair \in Nat \X Nat : pair[1] < pair[2]}
<1>1. PICK x \in S : TRUE
  OBVIOUS
<1>2. x - low \in Offsets
  OBVIOUS
<1>3. PICK n \in Offsets : \A k \in Offsets : ~(<<k, n>> \in Less)
  <2>1. Offsets \subseteq Nat /\ Offsets # {}
    BY <1>2
  <2>2. IsWellFoundedOn(Less, Nat)
    BY NatLessThanWellFounded DEF OpToRel
  <2> HIDE DEF Offsets, Less
  <2> QED
    BY <2>1, <2>2, WFMin
<1>4. ASSUME NEW k \in Offsets
      PROVE  n <= k
  <2>1. ~(<<k, n>> \in Less)
    BY <1>3
  <2>2. n \in Nat /\ k \in Nat
    OBVIOUS
  <2>3. <<k, n>> \in Nat \X Nat
    BY <2>2
  <2>4. ~(k < n)
    BY <2>1, <2>3
  <2> QED
    BY <2>2, <2>4
<1>5. \A y \in S : y - low \in Offsets
  OBVIOUS
<1> QED
  BY <1>4, <1>5

(* And one that is bounded above has a greatest.                           *)
LEMMA GreatestInt ==
  ASSUME NEW high \in Int, NEW S \in SUBSET Int, S # {}, \A x \in S : x < high
  PROVE  \E m \in S : \A x \in S : x <= m
<1> DEFINE N == {-x : x \in S}
<1>1. N \in SUBSET Int /\ N # {} /\ \A y \in N : -high < y
  <2>1. \A y \in N : \E x \in S : y = -x /\ x \in Int /\ x < high
    OBVIOUS
  <2>2. \A y \in N : y \in Int /\ -high < y
    BY <2>1
  <2>3. PICK x \in S : TRUE
    OBVIOUS
  <2>4. -x \in N
    BY <2>3
  <2> QED
    BY <2>2, <2>4
<1>2. -high \in Int
  OBVIOUS
<1>3. PICK m \in N : \A y \in N : m <= y
  <2> HIDE DEF N
  <2> QED
    BY <1>1, <1>2, LeastInt
<1>4. -m \in S
  OBVIOUS
<1>5. ASSUME NEW x \in S
      PROVE  x <= -m
  <2>1. m <= -x
    BY <1>3
  <2> QED
    BY <2>1
<1> QED
  BY <1>4, <1>5

(* The best price of a side is the sentinel when the side is empty, and    *)
(* else the highest bid or the lowest ask there is a level for.            *)
LEMMA BestPriceIsBest ==
  ASSUME NEW b, NEW side \in BookSide
  PROVE  /\ Prices(b, side) = {} =>
              BestPrice(b, side) = (IF side = BID THEN NoBid ELSE NoAsk)
         /\ Prices(b, side) # {} =>
              /\ BestPrice(b, side) \in Prices(b, side)
              /\ \A price \in Prices(b, side) :
                   IF side = BID THEN price <= BestPrice(b, side)
                                 ELSE BestPrice(b, side) <= price
<1>1. CASE Prices(b, side) = {}
  BY <1>1 DEF BestPrice
<1>2. CASE Prices(b, side) # {}
  <2>1. Prices(b, side) \in SUBSET Int
    BY PriceAssumption DEF Prices
  <2>2. NoBid \in Int /\ NoAsk \in Int
        /\ \A price \in Prices(b, side) : NoBid < price /\ price < NoAsk
    BY PriceAssumption DEF Prices
  <2>3. \E best \in Prices(b, side) :
          \A price \in Prices(b, side) :
            IF side = BID THEN price <= best ELSE best <= price
    <3>1. CASE side = BID
      <4>1. \E best \in Prices(b, side) :
              \A price \in Prices(b, side) : price <= best
        BY <1>2, <2>1, <2>2, GreatestInt
      <4> QED
        BY <4>1, <3>1
    <3>2. CASE side # BID
      <4>1. \E best \in Prices(b, side) :
              \A price \in Prices(b, side) : best <= price
        BY <1>2, <2>1, <2>2, LeastInt
      <4> QED
        BY <4>1, <3>2
    <3> QED
      BY <3>1, <3>2
  <2> DEFINE IsBest(best) == \A price \in Prices(b, side) :
                               IF side = BID THEN price <= best ELSE best <= price
  <2>4. BestPrice(b, side) = CHOOSE best \in Prices(b, side) : IsBest(best)
    BY <1>2 DEF BestPrice
  <2>5. \E best \in Prices(b, side) : IsBest(best)
    BY <2>3
  <2>6. BestPrice(b, side) \in Prices(b, side) /\ IsBest(BestPrice(b, side))
    <3> HIDE DEF IsBest
    <3> QED
      BY <2>4, <2>5
  <2> QED
    BY <2>6, <1>2
<1> QED
  BY <1>1, <1>2

-----------------------------------------------------------------------------
(* Volumes.                                                                *)

(* Induction over a set of natural numbers.                                *)
LEMMA NatSetInduction ==
  ASSUME NEW S, 0 \in S, \A n \in Nat : n \in S => n + 1 \in S
  PROVE  Nat \subseteq S
<1> DEFINE Rest == Nat \ S
<1>1. SUFFICES ASSUME Rest # {} PROVE FALSE
  OBVIOUS
<1>2. PICK m \in Rest : \A k \in Rest : m <= k
  <2>1. -1 \in Int /\ Rest \in SUBSET Int /\ \A k \in Rest : -1 < k
    OBVIOUS
  <2> HIDE DEF Rest
  <2> QED
    BY <1>1, <2>1, LeastInt
<1>3. m # 0 /\ m - 1 \in Nat /\ ~(m <= m - 1) /\ (m - 1) + 1 = m
  OBVIOUS
<1>4. m - 1 \in S
  BY <1>2, <1>3
<1> QED
  BY <1>3, <1>4

(* f adds up the whole lots of a list, order by order.                     *)
Runs(f, orders) ==
  /\ f[0] = 0
  /\ \A n \in 1 .. Len(orders) : f[n] = f[n - 1] + Whole(orders[n].size)

LEMMA WholeIsNat ==
  ASSUME NEW size \in Size
  PROVE  Whole(size) \in Nat
<1>1. size \in Nat /\ Unit \in Nat \ {0} /\ VolumeMod \in Nat \ {0}
  BY SizeAssumption, UnitAssumption, VolumeAssumption
<1>2. size \div Unit \in Int
  BY <1>1
<1>3. (size \div Unit) % VolumeMod \in 0 .. VolumeMod - 1
  BY <1>1, <1>2
<1> QED
  BY <1>1, <1>3 DEF Whole

(* g is what LotsUpTo is, up to n.                                         *)
AddsUpTo(g, orders, n) ==
  g = [m \in 0 .. n |-> IF m = 0 THEN 0 ELSE g[m - 1] + Whole(orders[m].size)]

LEMMA AddsUpToExists ==
  ASSUME NEW orders
  PROVE  \A n \in Nat : \E g : AddsUpTo(g, orders, n)
<1> DEFINE S == {n \in Nat : \E g : AddsUpTo(g, orders, n)}
           W(m) == Whole(orders[m].size)
<1>1. 0 \in S
  <2> DEFINE g == [m \in 0 .. 0 |-> 0]
  <2>1. g = [m \in 0 .. 0 |-> IF m = 0 THEN 0 ELSE g[m - 1] + W(m)]
    OBVIOUS
  <2>2. AddsUpTo(g, orders, 0)
    BY <2>1 DEF AddsUpTo
  <2> QED
    BY <2>2
<1>2. ASSUME NEW n \in Nat, n \in S PROVE n + 1 \in S
  <2>1. PICK g : AddsUpTo(g, orders, n)
    BY <1>2
  <2> DEFINE h == [m \in 0 .. n + 1 |-> IF m <= n THEN g[m] ELSE g[n] + W(n + 1)]
  <2>2. \A m \in 0 .. n : g[m] = IF m = 0 THEN 0 ELSE g[m - 1] + W(m)
    BY <2>1 DEF AddsUpTo
  <2> HIDE DEF W
  <2>3. ASSUME NEW m \in 0 .. n + 1
        PROVE  h[m] = IF m = 0 THEN 0 ELSE h[m - 1] + W(m)
    <3>1. CASE m = 0
      BY <3>1, <2>2
    <3>2. CASE m # 0 /\ m <= n
      <4>1. h[m] = g[m] /\ h[m - 1] = g[m - 1]
        BY <3>2
      <4> QED
        BY <4>1, <3>2, <2>2
    <3>3. CASE m = n + 1
      <4>1. h[m - 1] = g[n] /\ h[m] = g[n] + W(n + 1)
        BY <3>3
      <4> QED
        BY <4>1, <3>3
    <3> QED
      BY <3>1, <3>2, <3>3
  <2>4. h = [m \in 0 .. n + 1 |-> h[m]]
    OBVIOUS
  <2> HIDE DEF h
  <2>5. AddsUpTo(h, orders, n + 1)
    BY <2>3, <2>4 DEF AddsUpTo, W
  <2> QED
    BY <2>5
<1> HIDE DEF S
<1>3. Nat \subseteq S
  BY <1>1, <1>2, NatSetInduction
<1> QED
  BY <1>3 DEF S

(* LotsUpTo is what it is defined to be.                                   *)
LEMMA LotsUpToRuns ==
  ASSUME NEW orders \in Seq(Resting)
  PROVE  Runs(LotsUpTo(orders), orders)
<1> DEFINE n == Len(orders)
           Is(f) == f = [m \in 0 .. Len(orders) |->
                           IF m = 0 THEN 0 ELSE f[m - 1] + Whole(orders[m].size)]
<1>1. PICK g : AddsUpTo(g, orders, Len(orders))
  BY AddsUpToExists
<1>2. Is(g)
  BY <1>1 DEF AddsUpTo
<1>3. LotsUpTo(orders) = CHOOSE f : Is(f)
  BY DEF LotsUpTo
<1>4. ASSUME NEW f, Is(f)
      PROVE  Runs(f, orders)
  <2>1. \A m \in 0 .. n : f[m] = IF m = 0 THEN 0 ELSE f[m - 1] + Whole(orders[m].size)
    BY <1>4
  <2>2. 0 \in 0 .. n /\ \A m \in 1 .. n : m \in 0 .. n /\ m # 0
    OBVIOUS
  <2> QED
    BY <2>1, <2>2 DEF Runs
<1> HIDE DEF Is
<1>5. Is(LotsUpTo(orders))
  BY <1>2, <1>3
<1> QED
  BY <1>4, <1>5

(* Two lists that agree up to m have the same lots up to m.                *)
LEMMA RunsAgree ==
  ASSUME NEW a \in Seq(Resting), NEW b \in Seq(Resting), NEW f, NEW g,
         Runs(f, a), Runs(g, b), NEW m \in Nat, m <= Len(a), m <= Len(b),
         \A n \in 1 .. m : Whole(a[n].size) = Whole(b[n].size)
  PROVE  f[m] = g[m]
<1> DEFINE S == {n \in Nat : n <= m => f[n] = g[n]}
<1>1. 0 \in S
  BY DEF Runs
<1>2. ASSUME NEW n \in Nat, n \in S PROVE n + 1 \in S
  <2> SUFFICES ASSUME n + 1 <= m PROVE f[n + 1] = g[n + 1]
    OBVIOUS
  <2>1. /\ n + 1 \in 1 .. m /\ (n + 1) - 1 = n /\ f[n] = g[n]
        /\ n + 1 \in 1 .. Len(a) /\ n + 1 \in 1 .. Len(b)
    BY <1>2
  <2> QED
    BY <2>1 DEF Runs
<1> HIDE DEF S
<1>3. Nat \subseteq S
  BY <1>1, <1>2, NatSetInduction
<1> QED
  BY <1>3 DEF S

(* Every sum on the way is an integer.                                     *)
LEMMA RunsInt ==
  ASSUME NEW a \in Seq(Resting), NEW f, Runs(f, a)
  PROVE  \A n \in 0 .. Len(a) : f[n] \in Int
<1> DEFINE S == {n \in Nat : n <= Len(a) => f[n] \in Int}
<1>1. 0 \in S
  BY DEF Runs
<1>2. ASSUME NEW n \in Nat, n \in S PROVE n + 1 \in S
  <2> SUFFICES ASSUME n + 1 <= Len(a) PROVE f[n + 1] \in Int
    OBVIOUS
  <2>1. n + 1 \in 1 .. Len(a) /\ (n + 1) - 1 = n /\ f[n] \in Int
    BY <1>2
  <2>2. a[n + 1].size \in Size
    <3>1. a[n + 1] \in Resting
      BY <2>1
    <3> QED
      BY <3>1 DEF Resting
  <2> QED
    BY <2>1, <2>2, WholeIsNat DEF Runs
<1> HIDE DEF S
<1>3. Nat \subseteq S
  BY <1>1, <1>2, NatSetInduction
<1> QED
  BY <1>3 DEF S

(* Whatever adds a list up ends at its lots.                               *)
LEMMA LotsIs ==
  ASSUME NEW orders \in Seq(Resting), NEW f, Runs(f, orders)
  PROVE  Lots(orders) = f[Len(orders)]
<1>1. Runs(LotsUpTo(orders), orders)
  BY LotsUpToRuns
<1>2. Len(orders) \in Nat /\ Len(orders) <= Len(orders)
  OBVIOUS
<1> QED
  BY <1>1, <1>2, RunsAgree DEF Lots

LEMMA LotsIsInt ==
  ASSUME NEW orders \in Seq(Resting)
  PROVE  Lots(orders) \in Int
<1>1. Runs(LotsUpTo(orders), orders) /\ Len(orders) \in 0 .. Len(orders)
  BY LotsUpToRuns
<1> QED
  BY <1>1, RunsInt DEF Lots

(* An order that joins adds its lots.                                      *)
LEMMA LotsAppend ==
  ASSUME NEW orders \in Seq(Resting), NEW o \in Resting
  PROVE  Lots(Append(orders, o)) = Lots(orders) + Whole(o.size)
<1> DEFINE n == Len(orders)
           f == LotsUpTo(orders)
           b == Append(orders, o)
           g == LotsUpTo(b)
<1>1. /\ b \in Seq(Resting) /\ Len(b) = n + 1 /\ n \in Nat /\ b[n + 1] = o
      /\ \A k \in 1 .. n : b[k] = orders[k]
  OBVIOUS
<1>2. Runs(f, orders) /\ Runs(g, b)
  BY <1>1, LotsUpToRuns
<1>3. Lots(orders) = f[n] /\ Lots(b) = g[n + 1]
  BY <1>1 DEF Lots
<1> HIDE DEF b, f, g
<1>4. f[n] = g[n]
  <2>1. \A k \in 1 .. n : Whole(orders[k].size) = Whole(b[k].size)
    BY <1>1
  <2>2. n <= Len(orders) /\ n <= Len(b)
    BY <1>1
  <2> QED
    BY <1>1, <1>2, <2>1, <2>2, RunsAgree
<1>5. n + 1 \in 1 .. Len(b) /\ (n + 1) - 1 = n
  BY <1>1
<1>6. g[n + 1] = g[n] + Whole(o.size)
  BY <1>1, <1>2, <1>5 DEF Runs
<1> QED
  BY <1>3, <1>4, <1>6 DEF b

(* An order that leaves takes its lots.                                    *)
LEMMA LotsErase ==
  ASSUME NEW orders \in Seq(Resting), NEW i \in 1 .. Len(orders)
  PROVE  /\ Erase(orders, i) \in Seq(Resting) /\ Len(Erase(orders, i)) = Len(orders) - 1
         /\ Lots(Erase(orders, i)) = Lots(orders) - Whole(orders[i].size)
<1> DEFINE n == Len(orders)
           f == LotsUpTo(orders)
           b == Erase(orders, i)
           W(k) == Whole(orders[k].size)
           g == [k \in 0 .. n - 1 |-> IF k < i THEN f[k] ELSE f[k + 1] - W(i)]
<1>1. n \in Nat /\ n - 1 \in Nat /\ i \in 1 .. n
  OBVIOUS
<1>2. Runs(f, orders) /\ Lots(orders) = f[n]
  BY LotsUpToRuns DEF Lots
<1>3. \A k \in 1 .. n : orders[k] \in Resting
  OBVIOUS
<1>4. /\ b \in Seq(Resting) /\ Len(b) = n - 1
      /\ \A k \in 1 .. n - 1 : b[k] = IF k < i THEN orders[k] ELSE orders[k + 1]
  <2>1. \A k \in 1 .. n - 1 : (IF k < i THEN orders[k] ELSE orders[k + 1]) \in Resting
    BY <1>3
  <2>2. b \in [1 .. n - 1 -> Resting]
    BY <2>1 DEF Erase
  <2>3. b \in Seq(Resting)
    BY <1>1, <2>2
  <2>4. DOMAIN b = 1 .. n - 1
    BY <2>2
  <2>5. Len(b) = n - 1
    BY <1>1, <2>3, <2>4
  <2> QED
    BY <2>3, <2>5 DEF Erase
<1>5. \A k \in 1 .. n : W(k) \in Nat
  BY <1>3, WholeIsNat DEF Resting
<1>6. \A k \in 0 .. n : f[k] \in Int
  BY <1>2, RunsInt
<1>7. \A k \in 1 .. n : f[k] = f[k - 1] + W(k)
  BY <1>2 DEF Runs
<1>8. f[0] = 0
  BY <1>2 DEF Runs
<1>9. \A k \in 1 .. n - 1 : Whole(b[k].size) = IF k < i THEN W(k) ELSE W(k + 1)
  BY <1>4
<1> HIDE DEF b, f, W
<1>10. Runs(g, b)
  <2>1. g[0] = 0
    BY <1>1, <1>8
  <2>2. ASSUME NEW k \in 1 .. n - 1
        PROVE  g[k] = g[k - 1] + Whole(b[k].size)
    <3>1. /\ k \in 0 .. n - 1 /\ k - 1 \in 0 .. n - 1 /\ k \in 1 .. n /\ k + 1 \in 1 .. n
          /\ (k + 1) - 1 = k /\ (k - 1) + 1 = k
      BY <1>1
    <3>2. /\ f[k - 1] \in Int /\ f[k] = f[k - 1] + W(k) /\ f[k + 1] = f[k] + W(k + 1)
          /\ W(k) \in Nat /\ W(k + 1) \in Nat /\ W(i) \in Nat
      BY <3>1, <1>1, <1>5, <1>6, <1>7
    <3>3. CASE k < i
      <4>1. g[k] = f[k] /\ g[k - 1] = f[k - 1]
        BY <3>1, <3>3
      <4> QED
        BY <4>1, <3>2, <3>3, <1>9
    <3>4. CASE k = i
      <4>1. g[k] = f[k + 1] - W(k) /\ g[k - 1] = f[k - 1] /\ Whole(b[k].size) = W(k + 1)
        BY <3>1, <3>4, <1>9
      <4> QED
        BY <4>1, <3>2
    <3>5. CASE k > i
      <4>1. g[k] = f[k + 1] - W(i) /\ g[k - 1] = f[k] - W(i) /\ Whole(b[k].size) = W(k + 1)
        BY <3>1, <3>5, <1>9
      <4> QED
        BY <4>1, <3>2
    <3> QED
      BY <3>3, <3>4, <3>5, <1>1
  <2> QED
    BY <2>1, <2>2, <1>4 DEF Runs
<1>11. Lots(b) = g[n - 1]
  BY <1>4, <1>10, LotsIs
<1>12. g[n - 1] = f[n] - W(i)
  <2>1. n - 1 \in 0 .. n - 1 /\ (n - 1) + 1 = n /\ f[n - 1] \in Int /\ W(i) \in Nat
    BY <1>1, <1>5, <1>6
  <2>2. CASE i = n
    <3>1. g[n - 1] = f[n - 1]
      BY <2>1, <2>2
    <3>2. f[n] = f[n - 1] + W(n)
      BY <1>1, <1>7
    <3> QED
      BY <2>1, <2>2, <3>1, <3>2
  <2>3. CASE i < n
    BY <2>1, <2>3
  <2> QED
    BY <1>1, <2>2, <2>3
<1> QED
  BY <1>2, <1>4, <1>11, <1>12 DEF b, f, W

(* An order that changes exchanges its lots.                               *)
LEMMA LotsExchange ==
  ASSUME NEW orders \in Seq(Resting), NEW i \in 1 .. Len(orders), NEW o \in Resting
  PROVE  Lots([orders EXCEPT ![i] = o]) =
           (Lots(orders) - Whole(orders[i].size)) + Whole(o.size)
<1> DEFINE n == Len(orders)
           f == LotsUpTo(orders)
           b == [orders EXCEPT ![i] = o]
           W(k) == Whole(orders[k].size)
           w == Whole(o.size)
           g == [k \in 0 .. n |-> IF k < i THEN f[k] ELSE (f[k] - W(i)) + w]
<1>1. n \in Nat /\ i \in 1 .. n
  OBVIOUS
<1>2. Runs(f, orders) /\ Lots(orders) = f[n]
  BY LotsUpToRuns DEF Lots
<1>3. \A k \in 1 .. n : orders[k] \in Resting
  OBVIOUS
<1>4. /\ b \in Seq(Resting) /\ Len(b) = n
      /\ \A k \in 1 .. n : b[k] = IF k = i THEN o ELSE orders[k]
  OBVIOUS
<1>5. w \in Nat /\ \A k \in 1 .. n : W(k) \in Nat
  BY <1>3, WholeIsNat DEF Resting
<1>6. \A k \in 0 .. n : f[k] \in Int
  BY <1>2, RunsInt
<1>7. f[0] = 0 /\ \A k \in 1 .. n : f[k] = f[k - 1] + W(k)
  BY <1>2 DEF Runs
<1>8. \A k \in 1 .. n : Whole(b[k].size) = IF k = i THEN w ELSE W(k)
  BY <1>4
<1> HIDE DEF b, f, W, w
<1>9. Runs(g, b)
  <2>1. g[0] = 0
    BY <1>1, <1>7
  <2>2. ASSUME NEW k \in 1 .. n
        PROVE  g[k] = g[k - 1] + Whole(b[k].size)
    <3>1. k \in 0 .. n /\ k - 1 \in 0 .. n
      BY <1>1
    <3>2. /\ f[k - 1] \in Int /\ f[k] = f[k - 1] + W(k)
          /\ W(k) \in Nat /\ W(i) \in Nat /\ w \in Nat
      BY <3>1, <1>1, <1>5, <1>6, <1>7
    <3>3. CASE k < i
      <4>1. g[k] = f[k] /\ g[k - 1] = f[k - 1] /\ Whole(b[k].size) = W(k)
        BY <3>1, <3>3, <1>8
      <4> QED
        BY <4>1, <3>2
    <3>4. CASE k = i
      <4>1. g[k] = (f[k] - W(k)) + w /\ g[k - 1] = f[k - 1] /\ Whole(b[k].size) = w
        BY <3>1, <3>4, <1>8
      <4> QED
        BY <4>1, <3>2
    <3>5. CASE k > i
      <4>1. /\ g[k] = (f[k] - W(i)) + w /\ g[k - 1] = (f[k - 1] - W(i)) + w
            /\ Whole(b[k].size) = W(k)
        BY <3>1, <3>5, <1>8
      <4> QED
        BY <4>1, <3>2, SMTT(30)
    <3> QED
      BY <3>3, <3>4, <3>5, <1>1
  <2> QED
    BY <2>1, <2>2, <1>4 DEF Runs
<1>10. Lots(b) = g[n]
  BY <1>4, <1>9, LotsIs
<1>11. g[n] = (f[n] - W(i)) + w
  BY <1>1
<1> QED
  BY <1>2, <1>10, <1>11 DEF b, f, W, w

(* Two lists of the same orders, each listed once.                         *)
NoRepeats(orders) == \A k, l \in DOMAIN orders : orders[k] = orders[l] => k = l
Within(a, b)      == \A k \in DOMAIN a : \E l \in DOMAIN b : a[k] = b[l]
SameOrders(a, b)  == /\ a \in Seq(Resting) /\ b \in Seq(Resting)
                     /\ NoRepeats(a) /\ NoRepeats(b)
                     /\ Within(a, b) /\ Within(b, a)

(* What is left of a list without its i-th order.                          *)
LEMMA EraseLeaves ==
  ASSUME NEW a \in Seq(Resting), NoRepeats(a), NEW i \in 1 .. Len(a)
  PROVE  /\ Erase(a, i) \in Seq(Resting) /\ Len(Erase(a, i)) = Len(a) - 1
         /\ NoRepeats(Erase(a, i))
         /\ \A k \in DOMAIN Erase(a, i) :
              \E l \in DOMAIN a : l # i /\ Erase(a, i)[k] = a[l]
         /\ \A l \in DOMAIN a :
              l # i => \E k \in DOMAIN Erase(a, i) : Erase(a, i)[k] = a[l]
<1> DEFINE n == Len(a)
           b == Erase(a, i)
           from(k) == IF k < i THEN k ELSE k + 1
           to(l) == IF l < i THEN l ELSE l - 1
<1>1. n \in Nat /\ i \in 1 .. n /\ n - 1 \in Nat /\ DOMAIN a = 1 .. n
  OBVIOUS
<1>2. b \in Seq(Resting) /\ Len(b) = n - 1
  BY LotsErase
<1>3. DOMAIN b = 1 .. n - 1 /\ \A k \in 1 .. n - 1 : b[k] = a[from(k)]
  BY DEF Erase
<1> HIDE DEF b
<1>5. \A k \in 1 .. n - 1 : from(k) \in 1 .. n /\ from(k) # i
  BY <1>1
<1>6. \A l \in 1 .. n : l # i => to(l) \in 1 .. n - 1 /\ from(to(l)) = l
  BY <1>1
<1>7. \A k, l \in 1 .. n - 1 : from(k) = from(l) => k = l
  BY <1>1
<1> HIDE DEF from, to
<1>8. NoRepeats(b)
  BY <1>1, <1>3, <1>5, <1>7 DEF NoRepeats
<1>9. ASSUME NEW l \in DOMAIN a, l # i
      PROVE  \E k \in DOMAIN b : b[k] = a[l]
  <2>1. l \in 1 .. n
    BY <1>1
  <2>2. to(l) \in 1 .. n - 1 /\ from(to(l)) = l
    BY <2>1, <1>6, <1>9
  <2>3. b[to(l)] = a[l] /\ to(l) \in DOMAIN b
    BY <2>2, <1>3
  <2> QED
    BY <2>3
<1>10. ASSUME NEW k \in DOMAIN b
       PROVE  \E l \in DOMAIN a : l # i /\ b[k] = a[l]
  <2>1. k \in 1 .. n - 1
    BY <1>3
  <2>2. from(k) \in DOMAIN a /\ from(k) # i /\ b[k] = a[from(k)]
    BY <2>1, <1>1, <1>3, <1>5
  <2> QED
    BY <2>2
<1> QED
  BY <1>2, <1>8, <1>9, <1>10 DEF b

(* The lots of a list do not depend on its order.                          *)
LEMMA LotsPermute ==
  ASSUME NEW x, NEW y, SameOrders(x, y)
  PROVE  Lots(x) = Lots(y)
<1> DEFINE S == {n \in Nat : \A a, b \in Seq(Resting) :
                   Len(a) = n /\ SameOrders(a, b) => Lots(a) = Lots(b)}
<1>1. 0 \in S
  <2> SUFFICES ASSUME NEW a \in Seq(Resting), NEW b \in Seq(Resting),
                      Len(a) = 0, SameOrders(a, b)
               PROVE  Lots(a) = Lots(b)
    OBVIOUS
  <2>1. DOMAIN a = {} /\ DOMAIN b = 1 .. Len(b) /\ Len(b) \in Nat
    OBVIOUS
  <2>2. DOMAIN b = {}
    BY <2>1 DEF SameOrders, Within
  <2>3. Len(b) = 0
    BY <2>1, <2>2
  <2>4. a = <<>> /\ b = <<>>
    BY <2>3
  <2> QED
    BY <2>4
<1>2. ASSUME NEW n \in Nat, n \in S PROVE n + 1 \in S
  <2> SUFFICES ASSUME NEW a \in Seq(Resting), NEW b \in Seq(Resting),
                      Len(a) = n + 1, SameOrders(a, b)
               PROVE  Lots(a) = Lots(b)
    OBVIOUS
  <2>1. n + 1 \in 1 .. Len(a) /\ DOMAIN a = 1 .. Len(a) /\ DOMAIN b = 1 .. Len(b)
    OBVIOUS
  <2>2. PICK j \in 1 .. Len(b) : a[n + 1] = b[j]
    BY <2>1 DEF SameOrders, Within
  <2> DEFINE c == Erase(a, n + 1)
             d == Erase(b, j)
  <2>3. /\ c \in Seq(Resting) /\ Len(c) = n /\ NoRepeats(c)
        /\ \A k \in DOMAIN c : \E l \in DOMAIN a : l # n + 1 /\ c[k] = a[l]
        /\ \A l \in DOMAIN a : l # n + 1 => \E k \in DOMAIN c : c[k] = a[l]
    <3>1. Len(a) - 1 = n
      OBVIOUS
    <3> QED
      BY <2>1, <3>1, EraseLeaves DEF SameOrders
  <2>4. /\ d \in Seq(Resting) /\ NoRepeats(d)
        /\ \A k \in DOMAIN d : \E l \in DOMAIN b : l # j /\ d[k] = b[l]
        /\ \A l \in DOMAIN b : l # j => \E k \in DOMAIN d : d[k] = b[l]
    BY EraseLeaves DEF SameOrders
  <2>5. /\ Lots(c) = Lots(a) - Whole(a[n + 1].size)
        /\ Lots(d) = Lots(b) - Whole(b[j].size)
    BY <2>1, LotsErase
  <2> HIDE DEF c, d
  <2>6. ASSUME NEW k \in DOMAIN c
        PROVE  \E m \in DOMAIN d : c[k] = d[m]
    <3>1. PICK l \in DOMAIN a : l # n + 1 /\ c[k] = a[l]
      BY <2>3
    <3>2. PICK m \in DOMAIN b : a[l] = b[m]
      BY DEF SameOrders, Within
    <3>3. m # j
      BY <3>1, <3>2, <2>1, <2>2 DEF SameOrders, NoRepeats
    <3> QED
      BY <3>1, <3>2, <3>3, <2>4
  <2>7. ASSUME NEW m \in DOMAIN d
        PROVE  \E k \in DOMAIN c : d[m] = c[k]
    <3>1. PICK l \in DOMAIN b : l # j /\ d[m] = b[l]
      BY <2>4
    <3>2. PICK k \in DOMAIN a : b[l] = a[k]
      BY DEF SameOrders, Within
    <3>3. k # n + 1
      BY <3>1, <3>2, <2>1, <2>2 DEF SameOrders, NoRepeats
    <3> QED
      BY <3>1, <3>2, <3>3, <2>3
  <2>8. SameOrders(c, d)
    BY <2>3, <2>4, <2>6, <2>7 DEF SameOrders, Within
  <2>9. Lots(c) = Lots(d)
    BY <1>2, <2>3, <2>4, <2>8
  <2>10. Lots(a) \in Int /\ Lots(b) \in Int
    BY LotsIsInt
  <2>11. Whole(b[j].size) \in Nat /\ Whole(a[n + 1].size) = Whole(b[j].size)
    <3>1. b[j] \in Resting
      OBVIOUS
    <3>2. b[j].size \in Size
      BY <3>1 DEF Resting
    <3> QED
      BY <3>2, <2>2, WholeIsNat
  <2> QED
    BY <2>5, <2>9, <2>10, <2>11
<1> HIDE DEF S
<1>3. Nat \subseteq S
  BY <1>1, <1>2, NatSetInduction
<1>4. x \in Seq(Resting) /\ y \in Seq(Resting)
  BY DEF SameOrders
<1>5. Len(x) \in Nat
  BY <1>4
<1> QED
  BY <1>3, <1>4, <1>5 DEF S

(* A sum may be reduced before it is added to.                             *)
LEMMA ModAdd ==
  ASSUME NEW a \in Int, NEW c \in Int, NEW n \in Nat \ {0}
  PROVE  ((a % n) + c) % n = (a + c) % n
<1> DEFINE q == a \div n
           r == a % n
           p == (r + c) \div n
           z == (r + c) % n
<1>1. ASSUME NEW x \in Int
      PROVE  x \div n \in Int /\ x % n \in 0 .. n - 1 /\ x = n * (x \div n) + (x % n)
  OBVIOUS
<1>2. ASSUME NEW k \in Int, NEW x \in 0 .. n - 1
      PROVE  (n * k + x) % n = x
  OBVIOUS
<1>3. q \in Int /\ r \in 0 .. n - 1 /\ a = n * q + r
  BY <1>1
<1>4. r + c \in Int
  BY <1>3
<1>5. p \in Int /\ z \in 0 .. n - 1 /\ r + c = n * p + z
  BY <1>1, <1>4
<1> HIDE DEF q, r, p, z
<1>6. n * (p + q) = n * p + n * q /\ p + q \in Int
  BY <1>3, <1>5
<1>7. n * p \in Int /\ n * q \in Int
  BY <1>3, <1>5
<1>8. a + c = n * (p + q) + z
  BY <1>3, <1>5, <1>6, <1>7
<1>9. (a + c) % n = z
  BY <1>2, <1>5, <1>6, <1>8
<1> QED
  BY <1>9 DEF r, z

(* A level whose counter is right.                                         *)
Counted(l) == l.totalVolume = Lots(l.orders) % VolumeMod

LEMMA LotsEmpty == Lots(<<>>) = 0 /\ 0 % VolumeMod = 0
<1>1. Runs([n \in 0 .. 0 |-> 0], <<>>) /\ <<>> \in Seq(Resting) /\ Len(<<>>) = 0
  BY DEF Runs
<1> QED
  BY <1>1, LotsIs, VolumeAssumption

LEMMA NewLevelCounted == Counted(NewLevel)
BY LotsEmpty DEF Counted, NewLevel

(* Adding an order keeps the counter right,                                *)
LEMMA AddOrderCounted ==
  ASSUME NEW l \in LevelType, Counted(l), NEW id \in OrderId, NEW size \in Size
  PROVE  Counted(AddOrder(l, id, size))
<1> DEFINE o == [id |-> id, size |-> size]
           m == AddOrder(l, id, size)
<1>1. CASE HasOrder(l, id)
  BY <1>1 DEF AddOrder
<1>2. CASE ~HasOrder(l, id)
  <2>1. m.orders = Append(l.orders, o) /\ m.totalVolume = AddVolume(l.totalVolume, size)
    BY <1>2 DEF AddOrder, LevelType
  <2>2. l.orders \in Seq(Resting) /\ o \in Resting /\ o.size = size
    BY DEF LevelType, Resting
  <2>3. Lots(m.orders) = Lots(l.orders) + Whole(size)
    BY <2>1, <2>2, LotsAppend
  <2>4. m.totalVolume = ((Lots(l.orders) % VolumeMod) + Whole(size)) % VolumeMod
    BY <2>1 DEF Counted, AddVolume
  <2>5. Lots(l.orders) \in Int /\ Whole(size) \in Int
    BY <2>2, LotsIsInt, WholeIsNat
  <2> HIDE DEF m
  <2>6. m.totalVolume = (Lots(l.orders) + Whole(size)) % VolumeMod
    BY <2>4, <2>5, ModAdd, VolumeAssumption
  <2> QED
    BY <2>3, <2>6 DEF Counted, m
<1> QED
  BY <1>1, <1>2

(* so does removing one,                                                   *)
LEMMA RemoveOrderCounted ==
  ASSUME NEW l \in LevelType, ListsOnce(l), Counted(l), NEW id \in OrderId,
         HasOrder(l, id)
  PROVE  Counted(RemoveOrder(l, id))
<1> DEFINE i == FindOrder(l, id)
           w == Whole(l.orders[i].size)
           m == RemoveOrder(l, id)
<1>1. /\ l.orders \in Seq(Resting) /\ i \in 1 .. Len(l.orders) /\ l.orders[i] \in Resting
      /\ l.orders[i].size \in Size
  <2>1. l.orders \in Seq(Resting) /\ i \in 1 .. Len(l.orders)
    BY FindOrderFinds DEF LevelType
  <2>2. l.orders[i] \in Resting
    BY <2>1
  <2> QED
    BY <2>1, <2>2 DEF Resting
<1> HIDE DEF i
<1>2. /\ m.orders = Erase(l.orders, i)
      /\ m.totalVolume = RemoveVolume(l.totalVolume, l.orders[i].size)
  BY DEF RemoveOrder, LevelType, i
<1>3. Lots(m.orders) = Lots(l.orders) - w
  BY <1>1, <1>2, LotsErase
<1>4. Lots(l.orders) \in Int /\ w \in Nat
  BY <1>1, LotsIsInt, WholeIsNat
<1>5. m.totalVolume = ((Lots(l.orders) % VolumeMod) - w) % VolumeMod
  BY <1>2 DEF Counted, RemoveVolume
<1> HIDE DEF m, w
<1>6. /\ -w \in Int /\ Lots(l.orders) % VolumeMod \in Int
      /\ (Lots(l.orders) % VolumeMod) - w = (Lots(l.orders) % VolumeMod) + (-w)
      /\ Lots(l.orders) - w = Lots(l.orders) + (-w)
  BY <1>4, VolumeAssumption
<1>7. m.totalVolume = (Lots(l.orders) - w) % VolumeMod
  BY <1>4, <1>5, <1>6, ModAdd, VolumeAssumption
<1> QED
  BY <1>3, <1>7 DEF Counted, m

(* and so does changing one, which takes the old size before it adds the   *)
(* new one.                                                                *)
LEMMA ModifyOrderCounted ==
  ASSUME NEW l \in LevelType, ListsOnce(l), Counted(l), NEW id \in OrderId,
         HasOrder(l, id), NEW size \in Size
  PROVE  Counted(ModifyOrder(l, id, size))
<1> DEFINE i == FindOrder(l, id)
           w == Whole(l.orders[i].size)
           m == ModifyOrder(l, id, size)
           o == [id |-> id, size |-> size]
<1>1. /\ l.orders \in Seq(Resting) /\ i \in 1 .. Len(l.orders) /\ l.orders[i] \in Resting
      /\ l.orders[i].size \in Size /\ l.orders[i].id = id /\ o \in Resting /\ o.size = size
  <2>1. l.orders \in Seq(Resting) /\ i \in 1 .. Len(l.orders) /\ l.orders[i].id = id
    BY FindOrderFinds DEF LevelType
  <2>2. l.orders[i] \in Resting
    BY <2>1
  <2> QED
    BY <2>1, <2>2 DEF Resting
<1> HIDE DEF i
<1>2. /\ m.orders = [l.orders EXCEPT ![i].size = size]
      /\ m.totalVolume = AddVolume(RemoveVolume(l.totalVolume, l.orders[i].size), size)
  BY DEF ModifyOrder, LevelType, i
<1>3. m.orders = [l.orders EXCEPT ![i] = o]
  BY <1>1, <1>2 DEF Resting
<1>4. Lots(m.orders) = (Lots(l.orders) - w) + Whole(size)
  BY <1>1, <1>3, LotsExchange
<1>5. Lots(l.orders) \in Int /\ w \in Nat /\ Whole(size) \in Nat
  BY <1>1, LotsIsInt, WholeIsNat
<1>6. m.totalVolume = ((((Lots(l.orders) % VolumeMod) - w) % VolumeMod) + Whole(size)) % VolumeMod
  BY <1>2 DEF Counted, RemoveVolume, AddVolume
<1> HIDE DEF m, w
<1>7. /\ -w \in Int /\ Lots(l.orders) % VolumeMod \in Int
      /\ (Lots(l.orders) % VolumeMod) - w = (Lots(l.orders) % VolumeMod) + (-w)
      /\ Lots(l.orders) - w = Lots(l.orders) + (-w)
      /\ Lots(l.orders) - w \in Int
  BY <1>5, VolumeAssumption
<1>8. ((Lots(l.orders) % VolumeMod) - w) % VolumeMod = (Lots(l.orders) - w) % VolumeMod
  BY <1>5, <1>7, ModAdd, VolumeAssumption
<1>9. m.totalVolume = ((Lots(l.orders) - w) + Whole(size)) % VolumeMod
  BY <1>5, <1>6, <1>7, <1>8, ModAdd, VolumeAssumption
<1> QED
  BY <1>4, <1>9 DEF Counted, m

(* Replacing a level by one whose counter is right keeps the volumes.      *)
LEMMA PutVolumes ==
  ASSUME NEW b \in BookType, VolumesAgree(b), NEW id, NEW o, NEW side \in BookSide,
         NEW price \in Price, NEW m, m # NoLevel => Counted(m), NEW t, NEW s
  PROVE  VolumesAgree(Put(b, id, o, side, price, m, t, s))
<1> DEFINE c == Put(b, id, o, side, price, m, t, s)
<1>1. /\ c.tree[side][price] = m
      /\ \A sd \in BookSide, pr \in Price :
           sd # side \/ pr # price => c.tree[sd][pr] = b.tree[sd][pr]
  BY DEF Put, BookType
<1> HIDE DEF c
<1>2. \A sd \in BookSide, pr \in Price :
        c.tree[sd][pr] # NoLevel => Counted(c.tree[sd][pr])
  BY <1>1 DEF VolumesAgree, HasLevel, Counted
<1> QED
  BY <1>2 DEF VolumesAgree, HasLevel, Counted, c

LEMMA SentVolumes ==
  ASSUME NEW b \in BookType, VolumesAgree(b), NEW s
  PROVE  VolumesAgree(Sent(b, s))
<1>1. Sent(b, s).tree = b.tree
  BY DEF Sent, BookType
<1> QED
  BY <1>1 DEF VolumesAgree, HasLevel

(* A stamp changes neither the counter nor the list.                       *)
LEMMA StampCounted ==
  ASSUME NEW l \in LevelType, Counted(l), NEW t
  PROVE  Counted(SetUpdateTime(l, t))
<1>1. /\ SetUpdateTime(l, t).orders = l.orders
      /\ SetUpdateTime(l, t).totalVolume = l.totalVolume
  BY DEF SetUpdateTime, LevelType
<1> QED
  BY <1>1 DEF Counted

LEMMA AddVolumes ==
  ASSUME NEW b \in BookType, Sound(b), VolumesAgree(b), NEW id \in OrderId, NEW side \in Side,
         NEW size \in Size, NEW price \in Price, NEW t \in Time, NEW s \in Time
  PROVE  VolumesAgree(Add(b, id, side, size, price, t, s))
<1>1. CASE side \notin BookSide
  BY <1>1, SentVolumes DEF Add
<1>2. CASE side \in BookSide
  <2> DEFINE found == b.tree[side][price]
             lvl == IF found = NoLevel THEN NewLevel ELSE found
             a == AddOrder(lvl, id, size)
             m == SetUpdateTime(a, t)
             o == [side |-> side, price |-> price, size |-> size,
                   linked |-> ~HasOrder(lvl, id)]
  <2>1. lvl \in LevelType /\ ListsOnce(lvl) /\ Counted(lvl)
    <3>1. found # NoLevel => found \in LevelType /\ ListsOnce(found) /\ Counted(found)
      BY <1>2 DEF BookType, Sound, OncePerLevel, VolumesAgree, HasLevel, Counted
    <3> HIDE DEF found
    <3> QED
      BY <3>1, NewLevelEmpty, NewLevelCounted
  <2> HIDE DEF lvl
  <2>2. Counted(a)
    BY <2>1, AddOrderCounted
  <2>3. a \in LevelType
    BY <2>1, AddOrderLists
  <2>4. Add(b, id, side, size, price, t, s) = Put(b, id, o, side, price, m, t, s)
    BY <1>2 DEF Add, AddAt, lvl
  <2> HIDE DEF a
  <2>5. Counted(m)
    BY <2>2, <2>3, StampCounted
  <2> HIDE DEF m
  <2> QED
    BY <1>2, <2>4, <2>5, PutVolumes
<1> QED
  BY <1>1, <1>2

(* The level of a mapped order has a right counter.                        *)
LEMMA MappedCounted ==
  ASSUME NEW b \in BookType, Sound(b), VolumesAgree(b), NEW id \in OrderId,
         b.orderMap[id] # NoOrder
  PROVE  Counted(LevelOf(b, id))
<1>1. /\ b.orderMap[id].side \in BookSide /\ b.orderMap[id].price \in Price
      /\ HasLevel(b, b.orderMap[id].side, b.orderMap[id].price)
  BY MappedOrder
<1> QED
  BY <1>1 DEF VolumesAgree, LevelOf, Counted

LEMMA RemoveVolumes ==
  ASSUME NEW b \in BookType, Sound(b), VolumesAgree(b), NEW id \in OrderId,
         NEW t \in Time, NEW s \in Time
  PROVE  VolumesAgree(Remove(b, id, t, s))
<1>1. CASE b.orderMap[id] = NoOrder
  BY <1>1, SentVolumes DEF Remove
<1>2. CASE b.orderMap[id] # NoOrder
  <2> DEFINE o == b.orderMap[id]
             lvl == LevelOf(b, id)
             r == RemoveOrder(lvl, id)
             m == SetUpdateTime(r, t)
             n == IF m.orders = <<>> THEN NoLevel ELSE m
  <2>1. /\ o.side \in BookSide /\ o.price \in Price /\ Counted(lvl)
        /\ lvl # NoLevel /\ lvl \in LevelType /\ ListsOnce(lvl) /\ HasOrder(lvl, id)
    BY <1>2, MappedOrder, MappedCounted
  <2> HIDE DEF lvl
  <2>2. r \in LevelType /\ Counted(r)
    BY <2>1, RemoveOrderLists, RemoveOrderCounted
  <2> HIDE DEF r
  <2>3. Counted(m)
    BY <2>2, StampCounted
  <2>4. Remove(b, id, t, s) = Put(b, id, NoOrder, o.side, o.price, n, t, s)
    BY <1>2, <2>1 DEF Remove, lvl, r
  <2> HIDE DEF m
  <2>5. n # NoLevel => Counted(n)
    BY <2>3
  <2> HIDE DEF n
  <2> QED
    BY <2>1, <2>4, <2>5, PutVolumes
<1> QED
  BY <1>1, <1>2

LEMMA ModifyVolumes ==
  ASSUME NEW b \in BookType, Sound(b), VolumesAgree(b), NEW id \in OrderId,
         NEW size \in Size, NEW t \in Time, NEW s \in Time
  PROVE  VolumesAgree(Modify(b, id, size, t, s))
<1>1. CASE b.orderMap[id] = NoOrder
  BY <1>1, SentVolumes DEF Modify
<1>2. CASE b.orderMap[id] # NoOrder
  <2> DEFINE o == b.orderMap[id]
             p == IF o.linked THEN [o EXCEPT !.size = size] ELSE o
             lvl == LevelOf(b, id)
             r == ModifyOrder(lvl, id, size)
             m == SetUpdateTime(r, b.evtTime)
  <2>1. /\ o.side \in BookSide /\ o.price \in Price /\ Counted(lvl)
        /\ lvl # NoLevel /\ lvl \in LevelType /\ ListsOnce(lvl) /\ HasOrder(lvl, id)
    BY <1>2, MappedOrder, MappedCounted
  <2> HIDE DEF lvl
  <2>2. r \in LevelType /\ Counted(r)
    BY <2>1, ModifyOrderLists, ModifyOrderCounted
  <2> HIDE DEF r
  <2>3. Counted(m)
    BY <2>2, StampCounted
  <2>4. Modify(b, id, size, t, s) = Put(b, id, p, o.side, o.price, m, t, s)
    BY <1>2, <2>1 DEF Modify, lvl, r
  <2> HIDE DEF m, p
  <2> QED
    BY <2>1, <2>3, <2>4, PutVolumes
<1> QED
  BY <1>1, <1>2

(* A book without levels has no volume to be wrong.                        *)
LEMMA EmptyVolumes ==
  ASSUME NEW b, b.tree = NoLevels
  PROVE  VolumesAgree(b)
<1>1. \A side \in BookSide, price \in Price : b.tree[side][price] = NoLevel
  BY DEF NoLevels
<1> QED
  BY <1>1 DEF VolumesAgree, HasLevel
=============================================================================
