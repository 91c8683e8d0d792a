----------------------------- MODULE FeedProofs -----------------------------
(***************************************************************************)
(* Theorems about FeedSystem: for any venue that trades whole lots, any    *)
(* number of orders, changes, breaks and restarts, what reaches the        *)
(* collector keeps to the protocol, its book is the venue's as last told,  *)
(* and a subscriber hears the venue's prices, never an older after a newer *)
(* one.                                                                    *)
(***************************************************************************)
EXTENDS FeedSystem, MDParserProofs, FiniteSetTheorems

(* The ids the venue uses.                                                 *)
Ids == OrderId \ {EmptyId}

(* A book in order, which the empty id has no order in.                    *)
InOrder(b) == /\ b \in BookType /\ Sound(b) /\ NoGhosts(b) /\ VolumesAgree(b)
              /\ b.orderMap[EmptyId] = NoOrder

(* Entries that, one after the other, turn the quotes q into the quotes r. *)
Tells(q, entries, r) ==
  \/ entries = <<>> /\ r = q
  \/ \E c \in Happens(q) : entries = <<c.entry>> /\ r = c.after
  \/ \E c \in Happens(q) : \E d \in Happens(c.after) :
       entries = <<c.entry, d.entry>> /\ r = d.after

(* Entries that add, each under an id of its own, the orders of q that     *)
(* held lacks.                                                             *)
Completes(held, entries, q) ==
  /\ \A k \in DOMAIN entries :
       entries[k].id \in Live(q)
         /\ entries[k] = EntryOf(Absent, entries[k].id, Absent, q[entries[k].id])
  /\ \A k, l \in DOMAIN entries : entries[k].id = entries[l].id => k = l
  /\ \A id \in Ids : held[id] = IF \E k \in DOMAIN entries : entries[k].id = id
                               THEN NoOrder ELSE q[id]

(* A message that says what became of the quotes q.                        *)
Follows(q, m) ==
  /\ Len(m.entries) \in 1 .. MaxEntries
  /\ \/ m.msg = "full" /\ Completes(NoQuotes, m.entries, m.quotes)
     \/ m.msg = "incremental" /\ Tells(q, m.entries, m.quotes)

(* What the collector has in hand: nothing, and then its book is the       *)
(* venue's as last told, or the first message of the feed, and then the    *)
(* entries that are left make its book that.                               *)
InHand ==
  /\ books[Quoted] # NoBook =>
       /\ InOrder(books[Quoted]) /\ QuotesOf(books[Quoted]) \in Quotes
       /\ handler.msg = "none" => QuotesOf(books[Quoted]) = asOf.quotes
  /\ handler.msg # "none" =>
       /\ link = "up" /\ feed # <<>>
       /\ asOf.quotes = feed[1].quotes /\ asOf.version = feed[1].version
       /\ handler.f.symbol = Quoted /\ handler.cur \in {NoSymbol, Quoted}
  /\ handler.msg = "full" => Completes(QuotesOf(books[Quoted]), inbox, asOf.quotes)
  /\ handler.msg = "incremental" => Tells(QuotesOf(books[Quoted]), inbox, asOf.quotes)

(* On a connection, the feed tells of one change of the venue's book after *)
(* the other, up to the last one.                                          *)
Chain ==
  link = "up" =>
    /\ Quoted \in requested /\ books[Quoted] # NoBook
    /\ venue.request # "granted" => feed = <<>> /\ asOf = Nothing
    /\ venue.request = "granted" =>
         /\ \A k \in 2 .. Len(feed) : Follows(feed[k - 1].quotes, feed[k])
         /\ handler.msg = "none" /\ feed # <<>> => Follows(asOf.quotes, feed[1])
         /\ venue.quotes = IF feed = <<>> THEN asOf.quotes ELSE feed[Len(feed)].quotes

(* Versions never go back on their way from the venue to the subscriber.   *)
Ascending(s) == \A k, l \in DOMAIN s : k <= l => s[k].version <= s[l].version

InSequence ==
  /\ Ascending(socket.queue)
  /\ heard.version <= venue.version
  /\ \A k \in DOMAIN socket.queue : /\ heard.version <= socket.queue[k].version
                                    /\ socket.queue[k].version <= venue.version
  /\ link = "up" =>
       /\ Ascending(feed)
       /\ \A l \in DOMAIN feed :
            /\ heard.version <= feed[l].version /\ feed[l].version <= venue.version
            /\ \A k \in DOMAIN socket.queue : socket.queue[k].version <= feed[l].version

(* Every price on its way is the venue's own.                              *)
PricesGenuine ==
  \A k \in DOMAIN socket.queue : socket.queue[k].bbo = VenueBBO(socket.queue[k].quotes)

(* What was published last, if nobody was left out: what the subscriber is *)
(* told last is what the message taken last came to.                       *)
LastTold == IF socket.queue = <<>> THEN heard.bbo ELSE socket.queue[Len(socket.queue)].bbo

NothingMissed ==
  ~socket.missed /\ handler.msg = "none" /\ asOf # Nothing => LastTold = VenueBBO(asOf.quotes)

(* The inductive invariant.                                                *)
FeedInv == FeedTypeOK /\ CInv /\ InHand /\ Chain /\ InSequence /\ PricesGenuine

-----------------------------------------------------------------------------
(* What the calls of a book do to its quotes.                              *)

(* With no ghosts a mapped order is the one its level lists.               *)
LEMMA MappedIsLinked ==
  ASSUME NEW b, InOrder(b), NEW id \in OrderId, b.orderMap[id] # NoOrder
  PROVE  /\ b.orderMap[id] \in Order /\ b.orderMap[id].linked
         /\ HasLevel(b, b.orderMap[id].side, b.orderMap[id].price)
         /\ Lists(LevelOf(b, id), id, b.orderMap[id].size)
<1> DEFINE o == b.orderMap[id]
           lvl == LevelOf(b, id)
<1>1. /\ o \in Order /\ o.side \in BookSide /\ o.price \in Price
      /\ HasLevel(b, o.side, o.price) /\ lvl \in LevelType /\ HasOrder(lvl, id)
  BY MappedOrder DEF InOrder
<1>2. PICK size \in Size : Lists(lvl, id, size)
  BY <1>1, HasIsLists
<1>3. lvl = b.tree[o.side][o.price]
  BY DEF LevelOf
<1>4. o = [side |-> o.side, price |-> o.price, size |-> size, linked |-> TRUE]
  BY <1>1, <1>2, <1>3 DEF InOrder, NoGhosts
<1>5. o.linked /\ o.size = size
  BY <1>4
<1> QED
  BY <1>1, <1>2, <1>5

LEMMA QuotesOfIs ==
  ASSUME NEW b
  PROVE  /\ DOMAIN QuotesOf(b) = Ids
         /\ \A id \in Ids : QuotesOf(b)[id] =
              IF b.orderMap[id] = NoOrder THEN NoOrder
              ELSE [side |-> b.orderMap[id].side, price |-> b.orderMap[id].price,
                    size |-> b.orderMap[id].size]
BY DEF QuotesOf, GetOrder, Ids

(* An order is added: it is quoted from now on.                            *)
LEMMA AddFollows ==
  ASSUME NEW b, InOrder(b), NEW id \in Ids, b.orderMap[id] = NoOrder,
         NEW side \in BookSide, NEW size \in Size, NEW price \in Price,
         NEW t \in Time, NEW s \in Time
  PROVE  LET c == Add(b, id, side, size, price, t, s)
         IN  /\ InOrder(c)
             /\ QuotesOf(c) = [QuotesOf(b) EXCEPT ![id] =
                                 [side |-> side, price |-> price, size |-> size]]
<1> DEFINE c == Add(b, id, side, size, price, t, s)
           quote == [side |-> side, price |-> price, size |-> size]
<1>1. id \in OrderId /\ id # EmptyId /\ side \in Side
  BY DEF Ids, Side, BookSide
<1>2. c \in BookType /\ Sound(c)
  BY <1>1, AddSound DEF InOrder
<1>3. NoGhosts(c)
  BY <1>1, FreshAddNoGhosts DEF InOrder
<1>4. VolumesAgree(c)
  BY <1>1, AddVolumes DEF InOrder
<1> DEFINE found == b.tree[side][price]
           lvl == IF found = NoLevel THEN NewLevel ELSE found
           o == [side |-> side, price |-> price, size |-> size,
                 linked |-> ~HasOrder(lvl, id)]
<1>5. c.orderMap = [b.orderMap EXCEPT ![id] = o]
  BY DEF Add, AddAt, Put
<1>6. o \in Order /\ o.side = side /\ o.price = price /\ o.size = size
  <2>1. (~HasOrder(lvl, id)) \in BOOLEAN
    OBVIOUS
  <2> HIDE DEF lvl
  <2> QED
    BY <2>1 DEF Order
<1> HIDE DEF c, o
<1>7. c.orderMap[id] = o /\ \A x \in OrderId : x # id => c.orderMap[x] = b.orderMap[x]
  BY <1>1, <1>5 DEF InOrder, BookType
<1>8. InOrder(c)
  BY <1>1, <1>2, <1>3, <1>4, <1>7, FieldAssumption DEF InOrder
<1>9. o # NoOrder
  BY <1>6, NullAssumption
<1>10. QuotesOf(c) = [QuotesOf(b) EXCEPT ![id] = quote]
  BY <1>1, <1>6, <1>7, <1>9 DEF QuotesOf, GetOrder, Ids
<1> QED
  BY <1>8, <1>10 DEF c

(* An order is removed: it is quoted no more.                              *)
LEMMA RemoveFollows ==
  ASSUME NEW b, InOrder(b), NEW id \in Ids, NEW t \in Time, NEW s \in Time
  PROVE  LET c == Remove(b, id, t, s)
         IN  /\ InOrder(c) /\ c.orderMap[id] = NoOrder
             /\ QuotesOf(c) = [QuotesOf(b) EXCEPT ![id] = NoOrder]
<1> DEFINE c == Remove(b, id, t, s)
<1>1. id \in OrderId /\ id # EmptyId
  BY DEF Ids
<1>2. c \in BookType /\ Sound(c) /\ NoGhosts(c) /\ VolumesAgree(c)
  BY <1>1, RemoveSound, RemoveNoGhosts, RemoveVolumes DEF InOrder
<1>3. \A x \in OrderId : c.orderMap[x] = IF x = id THEN NoOrder ELSE b.orderMap[x]
  BY <1>1, RemoveForgets DEF InOrder
<1> HIDE DEF c
<1>4. InOrder(c) /\ c.orderMap[id] = NoOrder
  BY <1>1, <1>2, <1>3, FieldAssumption DEF InOrder
<1>5. QuotesOf(c) = [QuotesOf(b) EXCEPT ![id] = NoOrder]
  BY <1>1, <1>3 DEF QuotesOf, GetOrder, Ids
<1> QED
  BY <1>4, <1>5 DEF c

(* An order is changed: its quote shows the new size.                      *)
LEMMA ModifyFollows ==
  ASSUME NEW b, InOrder(b), NEW id \in Ids, b.orderMap[id] # NoOrder,
         NEW size \in Size, NEW t \in Time, NEW s \in Time
  PROVE  LET c == Modify(b, id, size, t, s)
         IN  /\ InOrder(c)
             /\ QuotesOf(c) = [QuotesOf(b) EXCEPT ![id] =
                  [side |-> b.orderMap[id].side, price |-> b.orderMap[id].price,
                   size |-> size]]
<1> DEFINE c == Modify(b, id, size, t, s)
           o == b.orderMap[id]
<1>1. id \in OrderId /\ id # EmptyId
  BY DEF Ids
<1>2. c \in BookType /\ Sound(c) /\ NoGhosts(c) /\ VolumesAgree(c)
  BY <1>1, ModifySound, ModifyNoGhosts, ModifyVolumes DEF InOrder
<1>3. o \in Order /\ o.linked /\ LevelOf(b, id) # NoLevel
  BY <1>1, MappedIsLinked, MappedOrder DEF InOrder
<1>4. c.orderMap = [b.orderMap EXCEPT ![id] = [o EXCEPT !.size = size]]
  BY <1>3 DEF Modify, Put
<1>5. /\ \A x \in OrderId : x # id => c.orderMap[x] = b.orderMap[x]
      /\ c.orderMap[id] = [o EXCEPT !.size = size]
  BY <1>1, <1>4 DEF InOrder, BookType
<1> HIDE DEF c
<1>6. [o EXCEPT !.size = size] \in Order
  BY <1>3 DEF Order
<1>7. InOrder(c) /\ c.orderMap[id] # NoOrder
  BY <1>1, <1>2, <1>5, <1>6, FieldAssumption, NullAssumption DEF InOrder
<1>8. /\ c.orderMap[id].side = o.side /\ c.orderMap[id].price = o.price
      /\ c.orderMap[id].size = size
  BY <1>3, <1>5 DEF Order
<1>9. QuotesOf(c) = [QuotesOf(b) EXCEPT ![id] =
                       [side |-> o.side, price |-> o.price, size |-> size]]
  BY <1>1, <1>5, <1>7, <1>8 DEF QuotesOf, GetOrder, Ids
<1> QED
  BY <1>7, <1>9 DEF c

(* A book that holds no orders quotes nothing.                             *)
LEMMA EmptyFollows ==
  ASSUME NEW b \in BookType, b.orderMap = NoOrders, b.tree = NoLevels
  PROVE  InOrder(b) /\ QuotesOf(b) = NoQuotes
<1>1. \A id \in OrderId : b.orderMap[id] = NoOrder
  BY DEF NoOrders
<1>2. NoGhosts(b)
  BY DEF NoGhosts, HasLevel, NoLevels
<1>3. QuotesOf(b) = NoQuotes
  BY <1>1 DEF QuotesOf, NoQuotes, GetOrder
<1> QED
  BY <1>1, <1>2, <1>3, EmptySound, EmptyVolumes, FieldAssumption DEF InOrder

LEMMA NewBookFollows ==
  /\ InOrder(NewBook) /\ QuotesOf(NewBook) = NoQuotes
  /\ \A b \in BookType : InOrder(Clear(b)) /\ QuotesOf(Clear(b)) = NoQuotes
<1>1. NewBook \in BookType /\ NewBook.orderMap = NoOrders /\ NewBook.tree = NoLevels
  BY NewBookSound DEF NewBook
<1>2. ASSUME NEW b \in BookType
      PROVE  InOrder(Clear(b)) /\ QuotesOf(Clear(b)) = NoQuotes
  <2>1. /\ Clear(b) \in BookType
        /\ Clear(b).orderMap = NoOrders /\ Clear(b).tree = NoLevels
    BY ClearSound DEF Clear, BookType
  <2> QED
    BY <2>1, EmptyFollows
<1> QED
  BY <1>1, <1>2, EmptyFollows

-----------------------------------------------------------------------------
(* The bid and offer of a book are those of its quotes.                    *)

(* A finite set made a sequence lists each element once.                   *)
LEMMA SetToSeqLists ==
  ASSUME NEW S, IsFiniteSet(S)
  PROVE  LET s == Seqs!SetToSeq(S)
         IN  /\ s \in Seq(S) /\ Len(s) = Cardinality(S) /\ Cardinality(S) \in Nat
             /\ \A k, l \in DOMAIN s : s[k] = s[l] => k = l
             /\ \A x \in S : \E k \in DOMAIN s : s[k] = x
<1> DEFINE n == Cardinality(S)
           s == Seqs!SetToSeq(S)
           Once(f) == \A k, l \in DOMAIN f : f[k] = f[l] => k = l
<1>1. n \in Nat /\ ExistsBijection(1 .. n, S)
  BY FS_CardinalityType
<1>2. PICK g \in [1 .. n -> S] : Once(g)
  BY <1>1 DEF ExistsBijection, Bijection, Injection, IsInjective
<1>10. Seqs!Cardinality(S) = Cardinality(S)
  BY DEF Seqs!Cardinality, Cardinality
<1>3. s = CHOOSE f \in [1 .. n -> S] : Once(f)
  BY <1>10 DEF Seqs!SetToSeq, Seqs!IsInjective
<1> HIDE DEF Once
<1>4. s \in [1 .. n -> S] /\ Once(s)
  BY <1>2, <1>3
<1> HIDE DEF s
<1>5. s \in Injection(1 .. n, S)
  BY <1>4 DEF Injection, IsInjective, Once
<1>6. Cardinality(1 .. n) = n /\ IsFiniteSet(1 .. n)
  BY <1>1, FS_Interval
<1>7. s \in Surjection(1 .. n, S)
  BY <1>5, <1>6, FS_Injection
<1>8. \A x \in S : \E k \in 1 .. n : s[k] = x
  BY <1>7 DEF Surjection
<1>9. s \in Seq(S) /\ Len(s) = n /\ DOMAIN s = 1 .. n
  BY <1>1, <1>4
<1> QED
  BY <1>1, <1>4, <1>8, <1>9 DEF s, Once

(* What a book quotes is what rests at its levels.                         *)
LEMMA QuotedAtLevels ==
  ASSUME NEW b, InOrder(b), NEW side \in BookSide, NEW price \in Price
  PROVE  LET q == QuotesOf(b)
         IN  /\ \A id \in Live(q) : /\ b.orderMap[id] # NoOrder
                                    /\ q[id].side = b.orderMap[id].side
                                    /\ q[id].price = b.orderMap[id].price
                                    /\ q[id].size = b.orderMap[id].size
             /\ \A id \in OrderId, size \in Size :
                  HasLevel(b, side, price) /\ Lists(b.tree[side][price], id, size) <=>
                    /\ id \in Live(q)
                    /\ q[id] = [side |-> side, price |-> price, size |-> size]
<1> DEFINE q == QuotesOf(b)
<1>1. DOMAIN q = Ids /\ Ids \subseteq OrderId
  BY QuotesOfIs DEF Ids
<1>2. ASSUME NEW id \in Ids, b.orderMap[id] # NoOrder
      PROVE  /\ id \in Live(q)
             /\ q[id] = [side |-> b.orderMap[id].side, price |-> b.orderMap[id].price,
                         size |-> b.orderMap[id].size]
  <2>1. b.orderMap[id] \in Order
    BY <1>1, <1>2, MappedIsLinked
  <2> DEFINE quote == [side |-> b.orderMap[id].side, price |-> b.orderMap[id].price,
                       size |-> b.orderMap[id].size]
  <2>2. quote # NoOrder
    BY <2>1, FeedAssumption DEF Order
  <2>3. q[id] = quote
    BY <1>2, QuotesOfIs
  <2> HIDE DEF q, quote
  <2>4. id \in Live(q)
    BY <2>2, <2>3, <1>1 DEF Live
  <2> QED
    BY <2>3, <2>4 DEF quote
<1>3. \A id \in Live(q) : id \in Ids /\ b.orderMap[id] # NoOrder
  BY <1>1, QuotesOfIs DEF Live
<1> HIDE DEF q
<1>4. ASSUME NEW id \in Live(q)
      PROVE  /\ b.orderMap[id] # NoOrder
             /\ q[id].side = b.orderMap[id].side
             /\ q[id].price = b.orderMap[id].price
             /\ q[id].size = b.orderMap[id].size
  <2>1. q[id] = [side |-> b.orderMap[id].side, price |-> b.orderMap[id].price,
                 size |-> b.orderMap[id].size]
    BY <1>2, <1>3
  <2> QED
    BY <2>1, <1>3
<1>5. ASSUME NEW id \in OrderId, NEW size \in Size,
             HasLevel(b, side, price), Lists(b.tree[side][price], id, size)
      PROVE  id \in Live(q) /\ q[id] = [side |-> side, price |-> price, size |-> size]
  <2> DEFINE o == [side |-> side, price |-> price, size |-> size, linked |-> TRUE]
  <2>1. b.orderMap[id] = o
    BY <1>5 DEF InOrder, NoGhosts
  <2>2. o \in Order /\ o.side = side /\ o.price = price /\ o.size = size
    BY DEF Order
  <2> HIDE DEF o
  <2>3. b.orderMap[id] # NoOrder
    BY <2>1, <2>2, NullAssumption
  <2>4. id \in Ids
    BY <2>3 DEF InOrder, Ids
  <2> QED
    BY <2>1, <2>2, <2>3, <2>4, <1>2
<1>6. ASSUME NEW id \in Live(q), NEW size \in Size,
             q[id] = [side |-> side, price |-> price, size |-> size]
      PROVE  HasLevel(b, side, price) /\ Lists(b.tree[side][price], id, size)
  <2>1. id \in OrderId /\ b.orderMap[id] # NoOrder
    BY <1>1, <1>3
  <2>2. /\ b.orderMap[id].side = side /\ b.orderMap[id].price = price
        /\ b.orderMap[id].size = size
    <3>1. q[id].side = side /\ q[id].price = price /\ q[id].size = size
      BY <1>6
    <3> QED
      BY <3>1, <1>4
  <2> QED
    BY <2>1, <2>2, MappedIsLinked DEF LevelOf
<1> QED
  BY <1>4, <1>5, <1>6 DEF q

(* Its levels are where it has offers.                                     *)
LEMMA PricesOffered ==
  ASSUME NEW b, InOrder(b), NEW side \in BookSide
  PROVE  Prices(b, side) = Offered(QuotesOf(b), side)
<1> DEFINE q == QuotesOf(b)
<1>1. ASSUME NEW price \in Prices(b, side)
      PROVE  price \in Offered(q, side)
  <2> DEFINE lvl == b.tree[side][price]
  <2>1. price \in Price /\ HasLevel(b, side, price)
    BY DEF Prices, HasLevel
  <2>2. lvl \in LevelType /\ lvl.orders # <<>>
    BY <2>1 DEF InOrder, BookType, Sound, LevelsHoldOrders, HasLevel
  <2>3. 1 \in DOMAIN lvl.orders /\ lvl.orders[1] \in Resting
    BY <2>2 DEF LevelType
  <2> DEFINE id == lvl.orders[1].id
             size == lvl.orders[1].size
  <2>4. id \in OrderId /\ size \in Size /\ Lists(lvl, id, size)
    BY <2>3 DEF Resting, Lists
  <2>5. id \in Live(q) /\ q[id] = [side |-> side, price |-> price, size |-> size]
    <3> HIDE DEF id, size
    <3> QED
      BY <2>1, <2>4, QuotedAtLevels
  <2> HIDE DEF id, size, q
  <2>6. q[id].side = side /\ q[id].price = price
    BY <2>5
  <2> QED
    BY <2>5, <2>6 DEF Offered
<1>2. ASSUME NEW price \in Offered(q, side)
      PROVE  price \in Prices(b, side)
  <2>1. PICK id \in Live(q) : q[id].side = side /\ price = q[id].price
    BY DEF Offered
  <2>2. id \in OrderId /\ b.orderMap[id] # NoOrder
    <3>1. id \in OrderId
      BY QuotesOfIs DEF Live, Ids
    <3> QED
      BY <3>1, PriceAssumption, QuotesOfIs DEF Live, Ids
  <2>3. b.orderMap[id].side = side /\ b.orderMap[id].price = price
    <3>1. id \in Ids
      BY QuotesOfIs DEF Live
    <3>2. q[id] = [side |-> b.orderMap[id].side, price |-> b.orderMap[id].price,
                   size |-> b.orderMap[id].size]
      BY <3>1, <2>2, QuotesOfIs
    <3> HIDE DEF q
    <3> QED
      BY <3>2, <2>1
  <2>4. b.orderMap[id] \in Order /\ HasLevel(b, side, price)
    BY <2>2, <2>3, MappedIsLinked
  <2> QED
    BY <2>3, <2>4 DEF Prices, HasLevel, Order
<1> QED
  BY <1>1, <1>2

(* The least element of a set is its minimum.                              *)
LEMMA MinIs ==
  ASSUME NEW S \in SUBSET Int, NEW m \in S, \A x \in S : m <= x
  PROVE  Min(S) = m
<1> DEFINE Bottom(x) == \A y \in S : x =< y
<1>1. Bottom(m)
  OBVIOUS
<1>2. Min(S) = CHOOSE x \in S : Bottom(x)
  BY DEF Min
<1>3. Min(S) \in S /\ Bottom(Min(S))
  <2> HIDE DEF Bottom
  <2> QED
    BY <1>1, <1>2
<1>4. Min(S) \in Int /\ Min(S) =< m
  BY <1>3
<1>5. m <= Min(S)
  BY <1>3
<1> HIDE DEF Bottom
<1> QED
  BY <1>4, <1>5

(* The best price is the best offer, or the sentinel.                      *)
LEMMA BestIsOffered ==
  ASSUME NEW b, InOrder(b)
  PROVE  /\ BestPrice(b, BID) = Max(Offered(QuotesOf(b), BID) \cup {NoBid})
         /\ BestPrice(b, ASK) = Min(Offered(QuotesOf(b), ASK) \cup {NoAsk})
<1>1. ASSUME NEW side \in BookSide
      PROVE  /\ Prices(b, side) = Offered(QuotesOf(b), side)
             /\ Prices(b, side) \in SUBSET Price
  BY PricesOffered DEF Prices
<1>2. /\ Price \subseteq Int /\ NoBid \in Int /\ NoAsk \in Int
      /\ \A price \in Price : NoBid < price /\ price < NoAsk
  BY PriceAssumption
<1>3. BID \in BookSide /\ ASK \in BookSide /\ ASK # BID
  BY DEF BookSide, BID, ASK
<1>4. BestPrice(b, BID) = Max(Prices(b, BID) \cup {NoBid})
  <2> DEFINE S == Prices(b, BID) \cup {NoBid}
             m == BestPrice(b, BID)
  <2>1. m \in S /\ \A x \in S : x <= m
    <3>1. CASE Prices(b, BID) = {}
      <4>1. m = NoBid
        BY <3>1, <1>3, BestPriceIsBest
      <4> HIDE DEF m
      <4> QED
        BY <3>1, <4>1, <1>2
    <3>2. CASE Prices(b, BID) # {}
      <4>1. m \in Prices(b, BID) /\ \A x \in Prices(b, BID) : x <= m
        BY <3>2, <1>3, BestPriceIsBest
      <4>2. m \in Price
        BY <4>1, <1>1, <1>3
      <4> HIDE DEF m
      <4>3. NoBid <= m
        BY <4>2, <1>2
      <4> QED
        BY <4>1, <4>3
    <3> QED
      BY <3>1, <3>2
  <2>2. S \in SUBSET Int
    BY <1>1, <1>2, <1>3
  <2> HIDE DEF m, S
  <2>3. Max(S) = m
    BY <2>1, <2>2, MaxIs
  <2> QED
    BY <2>3 DEF m, S
<1>5. BestPrice(b, ASK) = Min(Prices(b, ASK) \cup {NoAsk})
  <2> DEFINE S == Prices(b, ASK) \cup {NoAsk}
             m == BestPrice(b, ASK)
  <2>1. m \in S /\ \A x \in S : m <= x
    <3>1. CASE Prices(b, ASK) = {}
      <4>1. m = NoAsk
        BY <3>1, <1>3, BestPriceIsBest
      <4> HIDE DEF m
      <4> QED
        BY <3>1, <4>1, <1>2
    <3>2. CASE Prices(b, ASK) # {}
      <4>1. m \in Prices(b, ASK) /\ \A x \in Prices(b, ASK) : m <= x
        BY <3>2, <1>3, BestPriceIsBest
      <4>2. m \in Price
        BY <4>1, <1>1, <1>3
      <4> HIDE DEF m
      <4>3. m <= NoAsk
        BY <4>2, <1>2
      <4> QED
        BY <4>1, <4>3
    <3> QED
      BY <3>1, <3>2
  <2>2. S \in SUBSET Int
    BY <1>1, <1>2, <1>3
  <2> HIDE DEF m, S
  <2>3. Min(S) = m
    BY <2>1, <2>2, MinIs
  <2> QED
    BY <2>3 DEF m, S
<1> QED
  BY <1>1, <1>3, <1>4, <1>5

(* A level lists what rests there.                                         *)
LEMMA LevelLists ==
  ASSUME NEW b, InOrder(b), NEW side \in BookSide, NEW price \in Price,
         HasLevel(b, side, price)
  PROVE  SameOrders(b.tree[side][price].orders,
                    Seqs!SetToSeq(RestingAt(QuotesOf(b), side, price)))
<1> DEFINE q == QuotesOf(b)
           R == RestingAt(q, side, price)
           a == b.tree[side][price].orders
           s == Seqs!SetToSeq(R)
<1>1. b.tree[side][price] \in LevelType /\ ListsOnce(b.tree[side][price])
  BY DEF InOrder, BookType, Sound, OncePerLevel, HasLevel
<1>2. a \in Seq(Resting) /\ NoRepeats(a)
  BY <1>1 DEF LevelType, ListsOnce, NoRepeats
<1>3. ASSUME NEW k \in DOMAIN a
      PROVE  a[k] \in R
  <2>1. a[k] \in Resting
    BY <1>2
  <2> DEFINE id == a[k].id
             size == a[k].size
  <2>2. id \in OrderId /\ size \in Size /\ a[k] = [id |-> id, size |-> size]
    BY <2>1 DEF Resting
  <2>3. Lists(b.tree[side][price], id, size)
    BY DEF Lists
  <2>4. id \in Live(q) /\ q[id] = [side |-> side, price |-> price, size |-> size]
    <3> HIDE DEF id, size
    <3> QED
      BY <2>2, <2>3, QuotedAtLevels
  <2> HIDE DEF id, size, q, a
  <2>5. q[id].side = side /\ q[id].price = price /\ q[id].size = size
    BY <2>4
  <2> QED
    BY <2>2, <2>4, <2>5 DEF RestingAt
<1>4. ASSUME NEW r \in R
      PROVE  \E k \in DOMAIN a : a[k] = r
  <2>1. PICK id \in Live(q) : /\ q[id].side = side /\ q[id].price = price
                              /\ r = [id |-> id, size |-> q[id].size]
    BY DEF RestingAt
  <2>2. id \in Ids /\ b.orderMap[id] # NoOrder /\ id \in OrderId
    BY QuotesOfIs DEF Live, Ids
  <2>3. q[id].size \in Size /\ q[id] = [side |-> side, price |-> price, size |-> q[id].size]
    <3>1. b.orderMap[id] \in Order
      BY <2>2, MappedIsLinked
    <3>2. q[id] = [side |-> b.orderMap[id].side, price |-> b.orderMap[id].price,
                   size |-> b.orderMap[id].size]
      BY <2>2, QuotesOfIs
    <3> HIDE DEF q
    <3> QED
      BY <3>1, <3>2, <2>1 DEF Order
  <2>4. Lists(b.tree[side][price], id, q[id].size)
    BY <2>2, <2>3, QuotedAtLevels
  <2>5. PICK k \in DOMAIN a : a[k].id = id /\ a[k].size = q[id].size
    BY <2>4 DEF Lists
  <2>6. a[k] \in Resting
    BY <1>2
  <2> HIDE DEF a, q
  <2> QED
    BY <2>1, <2>5, <2>6 DEF Resting
<1> HIDE DEF a, R
<1>5. IsFiniteSet(R)
  <2>1. DOMAIN a = 1 .. Len(a) /\ Len(a) \in Nat
    BY <1>2
  <2>2. a \in [1 .. Len(a) -> R]
    BY <1>2, <1>3, <2>1
  <2>3. a \in Surjection(1 .. Len(a), R)
    BY <1>4, <2>1, <2>2 DEF Surjection
  <2> QED
    BY <2>1, <2>3, FS_NatSurjection DEF ExistsSurjection
<1>6. /\ s \in Seq(R) /\ \A k, l \in DOMAIN s : s[k] = s[l] => k = l
      /\ \A x \in R : \E k \in DOMAIN s : s[k] = x
  BY <1>5, SetToSeqLists
<1> HIDE DEF s
<1>7. R \subseteq Resting
  BY <1>2, <1>4
<1>8. s \in Seq(Resting)
  BY <1>6, <1>7
<1>9. \A k \in DOMAIN s : s[k] \in R
  BY <1>6
<1> QED
  BY <1>2, <1>3, <1>4, <1>6, <1>8, <1>9 DEF SameOrders, NoRepeats, Within, R, a, s

(* The volume of a level is the volume of what rests there.                *)
LEMMA VolumeIsOffered ==
  ASSUME NEW b, InOrder(b), NEW side \in BookSide, NEW price
  PROVE  TotalVolumeAtLimit(b, side, price) = Volume(QuotesOf(b), side, price)
<1> DEFINE q == QuotesOf(b)
<1>1. CASE price \in Prices(b, side)
  <2>1. price \in Price /\ HasLevel(b, side, price)
    BY <1>1 DEF Prices, HasLevel
  <2>2. TotalVolumeAtLimit(b, side, price) = Lots(b.tree[side][price].orders) % VolumeMod
    BY <1>1, <2>1 DEF TotalVolumeAtLimit, InOrder, VolumesAgree
  <2>3. Lots(b.tree[side][price].orders) = Lots(Seqs!SetToSeq(RestingAt(q, side, price)))
    BY <2>1, LevelLists, LotsPermute
  <2> QED
    BY <2>2, <2>3 DEF Volume
<1>2. CASE price \notin Prices(b, side)
  <2>1. price \notin Offered(q, side)
    BY <1>2, PricesOffered
  <2>2. RestingAt(q, side, price) = {}
    BY <2>1 DEF RestingAt, Offered
  <2>3. IsFiniteSet({}) /\ Cardinality({}) = 0
    BY FS_EmptySet
  <2> DEFINE s == Seqs!SetToSeq({})
  <2>4. s \in Seq({}) /\ Len(s) = 0
    BY <2>3, SetToSeqLists
  <2>5. s = <<>>
    <3> HIDE DEF s
    <3> QED
      BY <2>4
  <2>6. Volume(q, side, price) = 0
    BY <2>2, <2>5, LotsEmpty DEF Volume
  <2> QED
    BY <1>2, <2>6 DEF TotalVolumeAtLimit
<1> QED
  BY <1>1, <1>2

(* So what the collector publishes of a book is what its quotes come to.   *)
LEMMA BBOFollows ==
  ASSUME NEW b, InOrder(b)
  PROVE  BBO(b) = VenueBBO(QuotesOf(b))
<1>1. BID \in BookSide /\ ASK \in BookSide
  BY DEF BookSide
<1> QED
  BY <1>1, BestIsOffered, VolumeIsOffered DEF BBO, VenueBBO, BestPriceVolume

-----------------------------------------------------------------------------
(* What the venue says of its book.                                        *)

LEMMA QuoteIs ==
  ASSUME NEW quote \in Quote
  PROVE  /\ quote.side \in BookSide /\ quote.price \in Price /\ quote.size \in Size
         /\ quote = [side |-> quote.side, price |-> quote.price, size |-> quote.size]
         /\ quote # NoOrder /\ NoOrder \notin Quote
<1>1. quote \in [side : BookSide, price : Price, size : Size \ {0}]
  BY FeedAssumption
<1>2. Size \ {0} \subseteq Size
  OBVIOUS
<1>3. \A p \in Quote : p \in [side : BookSide, price : Price, size : Size]
  BY FeedAssumption
<1> QED
  BY <1>1, <1>2, <1>3, FeedAssumption

(* An entry says which order and what of it.                               *)
LEMMA EntryIs ==
  ASSUME NEW action, NEW id, NEW refId, NEW quote \in Quote
  PROVE  LET e == EntryOf(action, id, refId, quote)
         IN  /\ e.action = action /\ e.id = id /\ e.refId = refId
             /\ e.quoteId = Absent /\ e.symbol = Absent
             /\ e.px = quote.price /\ e.size = quote.size
             /\ Char2Side(e.type) = quote.side /\ e.type \in EntryType
             /\ e.type # Absent /\ e.px # Absent /\ e.size # Absent
<1> DEFINE e == EntryOf(action, id, refId, quote)
           type == IF quote.side = BID THEN "0" ELSE "1"
<1>1. quote.side \in BookSide /\ quote.price \in Price /\ quote.size \in Size
  BY QuoteIs
<1>2. type \in EntryType /\ type # Absent /\ Char2Side(type) = quote.side
  <2>1. type \in EntryType
    BY DEF EntryType
  <2>2. type # Absent
    BY <2>1, FieldAssumption
  <2> QED
    BY <1>1, <2>1, <2>2 DEF Char2Side, BookSide
<1>3. /\ e.action = action /\ e.id = id /\ e.refId = refId
      /\ e.quoteId = Absent /\ e.symbol = Absent
      /\ e.px = quote.price /\ e.size = quote.size /\ e.type = type
  BY DEF EntryOf
<1> HIDE DEF e, type
<1>4. e.px # Absent /\ e.size # Absent
  BY <1>1, <1>3, FieldAssumption
<1> QED
  BY <1>2, <1>3, <1>4 DEF e

LEMMA LiveQuote ==
  ASSUME NEW q \in Quotes
  PROVE  /\ DOMAIN q = Ids
         /\ \A id \in Live(q) : id \in Ids /\ q[id] \in Quote
         /\ \A id \in Ids : id \in Live(q) <=> q[id] # NoOrder
BY DEF Quotes, Live, Ids

LEMMA UnusedIs ==
  ASSUME NEW q \in Quotes, NEW id \in Unused(q)
  PROVE  id \in Ids /\ id \notin Live(q) /\ q[id] = NoOrder
<1>1. Live(q) \subseteq DOMAIN q
  BY DEF Live
<1>2. Live(q) # DOMAIN q /\ id = CHOOSE x \in DOMAIN q : x \notin Live(q)
  BY DEF Unused
<1>3. id \in DOMAIN q /\ id \notin Live(q)
  BY <1>1, <1>2
<1> QED
  BY <1>3, LiveQuote

(* What may happen to an order.                                            *)
Places(q, c) ==
  \E id \in Ids, quote \in Quote :
    /\ q[id] = NoOrder
    /\ c.entry = EntryOf("NEW", id, Absent, quote)
    /\ c.after = [q EXCEPT ![id] = quote]

Resizes(q, c) ==
  \E id \in Ids, quote \in Quote :
    /\ q[id] \in Quote /\ quote.side = q[id].side /\ quote.price = q[id].price
    /\ c.entry = EntryOf("CHANGE", id, Absent, quote)
    /\ c.after = [q EXCEPT ![id] = quote]

Renames(q, c) ==
  \E new \in Ids, old \in Ids, quote \in Quote :
    /\ q[old] \in Quote /\ q[new] = NoOrder
    /\ c.entry = EntryOf("CHANGE", new, old, quote)
    /\ c.after = [q EXCEPT ![old] = NoOrder, ![new] = quote]

Cancels(q, c) ==
  \E id \in Ids :
    /\ q[id] \in Quote
    /\ c.entry = EntryOf("DELETE", id, Absent, q[id])
    /\ c.after = [q EXCEPT ![id] = NoOrder]

LEMMA HappensIs ==
  ASSUME NEW q \in Quotes, NEW c \in Happens(q)
  PROVE  Places(q, c) \/ Resizes(q, c) \/ Renames(q, c) \/ Cancels(q, c)
<1>1. CASE c \in Placed(q)
  <2>1. PICK id \in Unused(q), quote \in Quote :
          c = [entry |-> EntryOf("NEW", id, Absent, quote), after |-> [q EXCEPT ![id] = quote]]
    BY <1>1 DEF Placed
  <2> QED
    BY <2>1, UnusedIs DEF Places
<1>2. CASE c \in Resized(q)
  <2>1. PICK id \in Live(q), quote \in Quote :
          /\ quote.side = q[id].side /\ quote.price = q[id].price
          /\ c = [entry |-> EntryOf("CHANGE", id, Absent, quote),
                  after |-> [q EXCEPT ![id] = quote]]
    BY <1>2 DEF Resized
  <2> QED
    BY <2>1, LiveQuote DEF Resizes
<1>3. CASE c \in Renamed(q)
  <2>1. PICK old \in Live(q), new \in Unused(q), quote \in Quote :
          c = [entry |-> EntryOf("CHANGE", new, old, quote),
               after |-> [q EXCEPT ![old] = NoOrder, ![new] = quote]]
    BY <1>3 DEF Renamed
  <2> QED
    BY <2>1, LiveQuote, UnusedIs DEF Renames
<1>4. CASE c \in Cancelled(q)
  <2>1. PICK id \in Live(q) :
          c = [entry |-> EntryOf("DELETE", id, Absent, q[id]),
               after |-> [q EXCEPT ![id] = NoOrder]]
    BY <1>4 DEF Cancelled
  <2> QED
    BY <2>1, LiveQuote DEF Cancels
<1> QED
  BY <1>1, <1>2, <1>3, <1>4 DEF Happens

(* It leaves the venue a book, and is told with an entry of an update.     *)
LEMMA HappensTyped ==
  ASSUME Follower, NEW q \in Quotes, NEW c \in Happens(q)
  PROVE  c.after \in Quotes /\ c.entry \in UpdateEntry
<1>1. DOMAIN NoQuotes = Ids
  BY DEF NoQuotes, Ids
<1>2. /\ \A action \in {"NEW", "CHANGE", "DELETE"}, id \in Ids, quote \in Quote :
           EntryOf(action, id, Absent, quote) \in UpdateEntry
      /\ \A new \in Ids, old \in Ids, quote \in Quote :
           EntryOf("CHANGE", new, old, quote) \in UpdateEntry
  BY <1>1 DEF Follower, ChangeEntries
<1>3. \A id \in Ids, quote \in Quote \cup {NoOrder} : [q EXCEPT ![id] = quote] \in Quotes
  BY DEF Quotes, Ids
<1>4. ASSUME NEW id \in Ids, NEW quote \in Quote,
             NEW after \in {quote, NoOrder}, NEW action \in {"NEW", "CHANGE", "DELETE"},
             c.entry = EntryOf(action, id, Absent, quote),
             c.after = [q EXCEPT ![id] = after]
      PROVE  c.after \in Quotes /\ c.entry \in UpdateEntry
  BY <1>2, <1>3, <1>4
<1>5. ASSUME NEW new \in Ids, NEW old \in Ids, NEW quote \in Quote,
             c.entry = EntryOf("CHANGE", new, old, quote),
             c.after = [q EXCEPT ![old] = NoOrder, ![new] = quote]
      PROVE  c.after \in Quotes /\ c.entry \in UpdateEntry
  <2> DEFINE r == [q EXCEPT ![old] = NoOrder]
  <2>1. r \in Quotes /\ c.after = [r EXCEPT ![new] = quote]
    BY <1>3, <1>5
  <2> HIDE DEF r
  <2>2. c.after \in Quotes
    BY <2>1 DEF Quotes, Ids
  <2> QED
    BY <1>2, <1>5, <2>2
<1>6. Places(q, c) \/ Resizes(q, c) => c.after \in Quotes /\ c.entry \in UpdateEntry
  BY <1>4 DEF Places, Resizes
<1>7. Renames(q, c) => c.after \in Quotes /\ c.entry \in UpdateEntry
  BY <1>5 DEF Renames
<1>8. Cancels(q, c) => c.after \in Quotes /\ c.entry \in UpdateEntry
  BY <1>4 DEF Cancels
<1> QED
  BY <1>6, <1>7, <1>8, HappensIs

(* A message for a change tells what becomes of the venue's book.          *)
LEMMA BatchTells ==
  ASSUME Follower, NEW q \in Quotes, NEW batch \in Batches(q)
  PROVE  /\ Tells(q, batch.entries, batch.after)
         /\ batch.after \in Quotes /\ batch.entries \in Seq(Entry)
         /\ Len(batch.entries) \in 1 .. MaxEntries
<1>1. ASSUME NEW c \in Happens(q), batch = [entries |-> <<c.entry>>, after |-> c.after]
      PROVE  /\ Tells(q, batch.entries, batch.after)
             /\ batch.after \in Quotes /\ batch.entries \in Seq(Entry)
             /\ Len(batch.entries) = 1
  <2>1. batch.entries = <<c.entry>> /\ batch.after = c.after
    BY <1>1
  <2>2. c.entry \in Entry /\ c.after \in Quotes
    BY HappensTyped, EntryAssumption
  <2> QED
    BY <2>1, <2>2 DEF Tells
<1>2. ASSUME NEW c \in Happens(q), NEW d \in Happens(c.after),
             batch = [entries |-> <<c.entry, d.entry>>, after |-> d.after]
      PROVE  /\ Tells(q, batch.entries, batch.after)
             /\ batch.after \in Quotes /\ batch.entries \in Seq(Entry)
             /\ Len(batch.entries) = 2
  <2>1. batch.entries = <<c.entry, d.entry>> /\ batch.after = d.after
    BY <1>2
  <2>2. c.entry \in Entry /\ c.after \in Quotes
    BY HappensTyped, EntryAssumption
  <2>3. d.entry \in Entry /\ d.after \in Quotes
    BY <2>2, HappensTyped, EntryAssumption
  <2> QED
    BY <2>1, <2>2, <2>3 DEF Tells
<1>3. 1 \in 1 .. MaxEntries /\ 2 \in 1 .. MaxEntries
  BY EntryAssumption DEF Follower
<1> QED
  BY <1>1, <1>2, <1>3 DEF Batches

(* A snapshot lists each order the venue has once.                         *)
LEMMA SnapshotCompletes ==
  ASSUME Follower, NEW q \in Quotes, Live(q) # {}
  PROVE  /\ Completes(NoQuotes, Snapshot(q), q)
         /\ Snapshot(q) \in Seq(Entry) /\ Len(Snapshot(q)) \in 1 .. MaxEntries
<1> DEFINE ids == Seqs!SetToSeq(Live(q))
           n == Len(ids)
<1>1. Live(q) \subseteq Ids /\ IsFiniteSet(OrderId) /\ Ids \subseteq OrderId
  BY LiveQuote DEF Follower, Ids
<1>2. IsFiniteSet(Ids)
  BY <1>1, FS_Subset
<1>3. /\ IsFiniteSet(Live(q)) /\ Cardinality(Live(q)) <= Cardinality(Ids)
      /\ Cardinality(Ids) \in Nat /\ Cardinality(Ids) <= MaxEntries
  BY <1>1, <1>2, FS_Subset, FS_CardinalityType DEF Follower, Ids
<1>4. /\ ids \in Seq(Live(q)) /\ n = Cardinality(Live(q)) /\ Cardinality(Live(q)) \in Nat
      /\ \A k, l \in DOMAIN ids : ids[k] = ids[l] => k = l
      /\ \A x \in Live(q) : \E k \in DOMAIN ids : ids[k] = x
  BY <1>3, SetToSeqLists
<1>5. Snapshot(q) = [k \in DOMAIN ids |-> EntryOf(Absent, ids[k], Absent, q[ids[k]])]
  BY DEF Snapshot
<1> HIDE DEF ids
<1>6. DOMAIN ids = 1 .. n /\ n \in Nat
  BY <1>4
<1>7. ASSUME NEW k \in DOMAIN ids
      PROVE  /\ ids[k] \in Live(q) /\ ids[k] \in Ids /\ q[ids[k]] \in Quote
             /\ Snapshot(q)[k] = EntryOf(Absent, ids[k], Absent, q[ids[k]])
             /\ Snapshot(q)[k].id = ids[k] /\ Snapshot(q)[k] \in Entry
  <2>1. ids[k] \in Live(q)
    BY <1>4
  <2>2. ids[k] \in Ids /\ q[ids[k]] \in Quote
    BY <2>1, LiveQuote
  <2>3. Snapshot(q)[k] = EntryOf(Absent, ids[k], Absent, q[ids[k]])
    BY <1>5
  <2>4. Snapshot(q)[k].id = ids[k]
    BY <2>2, <2>3, EntryIs
  <2>5. Snapshot(q)[k] \in SnapshotEntries
    BY <2>2, <2>3 DEF SnapshotEntries, NoQuotes, Ids
  <2>6. Snapshot(q)[k] \in Entry
    BY <2>5, EntryAssumption DEF Follower
  <2> QED
    BY <2>1, <2>2, <2>3, <2>4, <2>6
<1>8. DOMAIN Snapshot(q) = 1 .. n
  BY <1>5, <1>6
<1>9. Snapshot(q) \in Seq(Entry) /\ Len(Snapshot(q)) = n
  <2> DEFINE entry(k) == EntryOf(Absent, ids[k], Absent, q[ids[k]])
  <2>1. Snapshot(q) = [k \in 1 .. n |-> entry(k)]
    BY <1>5, <1>6
  <2>2. \A k \in 1 .. n : entry(k) \in Entry
    BY <1>6, <1>7
  <2> HIDE DEF entry
  <2> QED
    BY <1>6, <2>1, <2>2
<1>10. n \in 1 .. MaxEntries
  <2>1. n # 0
    BY <1>4, <1>6
  <2> QED
    BY <1>3, <1>4, <2>1, EntryAssumption
<1>11. Completes(NoQuotes, Snapshot(q), q)
  <2>1. ASSUME NEW id \in Ids
        PROVE  NoQuotes[id] = IF \E k \in 1 .. n : Snapshot(q)[k].id = id
                              THEN NoOrder ELSE q[id]
    <3>1. NoQuotes[id] = NoOrder
      BY DEF NoQuotes, Ids
    <3>2. id \in Live(q) => \E k \in 1 .. n : Snapshot(q)[k].id = id
      BY <1>4, <1>6, <1>7
    <3> QED
      BY <3>1, <3>2, LiveQuote
  <2>2. \A k, l \in 1 .. n : Snapshot(q)[k].id = Snapshot(q)[l].id => k = l
    BY <1>4, <1>6, <1>7
  <2> QED
    BY <1>6, <1>7, <1>8, <2>1, <2>2 DEF Completes
<1> QED
  BY <1>9, <1>10, <1>11

-----------------------------------------------------------------------------
(* What the collector makes of it.                                         *)

(* The symbol quoted has a book from the first logon on, and is asked for. *)
LEMMA QuotedIs == Quoted \in Symbol /\ Quoted # NoSymbol /\ Quoted \in Requested
<1>1. PICK i \in DOMAIN SymbolFile :
        Quoted = SymbolFile[i] /\ \A j \in 1 .. i : SymbolFile[j] # NoSymbol
  BY FeedAssumption DEF Booked
<1>2. i \in 1 .. i
  BY <1>1, SymbolAssumption
<1>3. Quoted # NoSymbol /\ SymbolFile[i] \in Symbol \cup {NoSymbol}
  BY <1>1, <1>2, SymbolAssumption
<1> QED
  BY <1>1, <1>3 DEF Requested

(* Quoted or not is mapped or not.                                         *)
LEMMA QuotedIsMapped ==
  ASSUME NEW b, InOrder(b), NEW id \in Ids
  PROVE  /\ QuotesOf(b)[id] = NoOrder <=> b.orderMap[id] = NoOrder
         /\ QuotesOf(b)[id] # NoOrder =>
              /\ QuotesOf(b)[id].side = b.orderMap[id].side
              /\ QuotesOf(b)[id].price = b.orderMap[id].price
<1> DEFINE o == b.orderMap[id]
           quote == [side |-> o.side, price |-> o.price, size |-> o.size]
<1>1. QuotesOf(b)[id] = IF o = NoOrder THEN NoOrder ELSE quote
  BY QuotesOfIs
<1>2. o # NoOrder => o \in Order
  BY MappedIsLinked DEF Ids
<1>3. o \in Order => quote # NoOrder
  BY FeedAssumption DEF Order
<1>4. quote.side = o.side /\ quote.price = o.price
  OBVIOUS
<1> HIDE DEF o, quote
<1> QED
  BY <1>1, <1>2, <1>3, <1>4 DEF o

(* An incremental refresh is under way, and the book is in order.          *)
Updating ==
  /\ CInv /\ handler.msg = "incremental" /\ handler.f.symbol = Quoted
  /\ InOrder(books[Quoted])

(* The step read one entry, and the book quotes r.                         *)
Applied(r) ==
  /\ handler'.msg = handler.msg /\ handler'.left = handler.left - 1
  /\ handler'.f.symbol = Quoted /\ handler'.cur = Quoted
  /\ InOrder(books'[Quoted]) /\ QuotesOf(books'[Quoted]) = r

LEMMA UpdatingIs ==
  ASSUME Updating
  PROVE  /\ GetBook(Quoted) = books[Quoted] /\ books[Quoted] # NoBook
         /\ books[Quoted] \in BookType /\ Found(Quoted) = Quoted
         /\ handler.f \in Fields
BY QuotedIs, NoBookAssumption DEF Updating, InOrder, GetBook, Found, CInv, PInv, TypeOK

(* The fields of an update are those of its entry.                         *)
LEMMA UpdateReads ==
  ASSUME Updating, NEW action \in {"NEW", "CHANGE", "DELETE"}, NEW id \in Ids,
         NEW refId, NEW quote \in Quote
  PROVE  LET e == EntryOf(action, id, refId, quote)
             f == ReadUpdate(handler.f, e)
         IN  /\ f.action = action /\ f.id = id /\ f.symbol = Quoted
             /\ f.px = quote.price /\ f.size = quote.size
             /\ Char2Side(f.type) = quote.side
             /\ Convertible(f)
<1> DEFINE e == EntryOf(action, id, refId, quote)
           f == ReadUpdate(handler.f, e)
<1>1. /\ e.action = action /\ e.id = id /\ e.symbol = Absent
      /\ e.px = quote.price /\ e.size = quote.size
      /\ Char2Side(e.type) = quote.side /\ e.type # Absent
      /\ e.px # Absent /\ e.size # Absent
  BY EntryIs
<1>2. handler.f \in Fields /\ handler.f.symbol = Quoted
  BY UpdatingIs DEF Updating
<1>3. id # Absent /\ action # Absent
  BY FieldAssumption DEF Ids, Action
<1> HIDE DEF e
<1>4. /\ f.action = action /\ f.id = id /\ f.symbol = Quoted
      /\ f.px = quote.price /\ f.size = quote.size /\ f.type = e.type
  BY <1>1, <1>2, <1>3 DEF ReadUpdate, Keep, Fields
<1> HIDE DEF f
<1>5. Convertible(f)
  BY <1>1, <1>3, <1>4 DEF Convertible
<1> QED
  BY <1>1, <1>4, <1>5 DEF e, f

(* After an entry the handler is ready for the next.                       *)
LEMMA EntryApplied ==
  ASSUME Updating, NEW f, f.symbol = Quoted, EntryRead(f),
         NEW b, InOrder(b), SetBook(Quoted, b)
  PROVE  Applied(QuotesOf(b))
<1>1. /\ books \in [Symbol -> BookType \cup {NoBook}] /\ Quoted \in Symbol
      /\ handler \in [msg : {"none", "full", "incremental"}, left : 0 .. MaxEntries,
                      f : Fields, cur : Symbol \cup {NoSymbol}]
  BY QuotedIs DEF Updating, CInv, PInv, TypeOK
<1>2. books'[Quoted] = b
  BY <1>1 DEF SetBook
<1>3. handler' = [handler EXCEPT !.left = @ - 1, !.f = f, !.cur = Quoted]
  BY UpdatingIs DEF EntryRead
<1>4. /\ handler'.msg = handler.msg /\ handler'.left = handler.left - 1
      /\ handler'.f.symbol = Quoted /\ handler'.cur = Quoted
  BY <1>1, <1>3
<1> QED
  BY <1>2, <1>4 DEF Applied

(* A new order.                                                            *)
LEMMA PlacedApplied ==
  ASSUME Follower, Updating, NEW id \in Ids, NEW quote \in Quote,
         NEW e, e = EntryOf("NEW", id, Absent, quote),
         QuotesOf(books[Quoted])[id] = NoOrder,
         NEW t \in Time, NEW s \in Time, ApplyUpdate(e, t, s)
  PROVE  /\ ConformingUpdate(e)
         /\ Applied([QuotesOf(books[Quoted]) EXCEPT ![id] = quote])
<1> DEFINE f == ReadUpdate(handler.f, e)
           b == books[Quoted]
           q == QuotesOf(b)
<1>1. /\ f.action = "NEW" /\ f.id = id /\ f.symbol = Quoted
      /\ f.px = quote.price /\ f.size = quote.size
      /\ Char2Side(f.type) = quote.side /\ Convertible(f)
  BY UpdateReads
<1>2. /\ e.symbol = Absent /\ e.refId = Absent
  BY EntryIs
<1>3. GetBook(Quoted) = b /\ b # NoBook
  BY UpdatingIs
<1>4. InOrder(b) /\ b.orderMap[id] = NoOrder
  BY QuotedIsMapped DEF Updating
<1>5. /\ quote.side \in BookSide /\ quote.price \in Price /\ quote.size \in Size
      /\ Truncate(quote.size) = quote.size
      /\ quote = [side |-> quote.side, price |-> quote.price, size |-> quote.size]
  BY QuoteIs DEF Follower
<1> HIDE DEF f, b
<1>6. ConformingUpdate(e)
  BY <1>1, <1>2, <1>3, <1>4 DEF ConformingUpdate, f, GetOrder
<1>7. NewEntry(e, t, s)
  BY <1>1, <1>3 DEF ApplyUpdate, SkipEntry, RejectEntry, RenameEntry, ChangeEntry,
                    DeleteEntry, OtherEntry, Applies, f
<1>8. EntryRead(f)
  BY <1>7 DEF NewEntry, Applies, f
<1>9. \/ SetBook(Quoted, AddEntry(b, f, t, s))
      \/ SetBook(Quoted, AddEntry(Remove(b, id, t, s), f, t, s))
  BY <1>1, <1>3, <1>7 DEF NewEntry, f
<1>10. ASSUME NEW m, InOrder(m), m.orderMap[id] = NoOrder
       PROVE  /\ InOrder(AddEntry(m, f, t, s))
              /\ QuotesOf(AddEntry(m, f, t, s)) = [QuotesOf(m) EXCEPT ![id] = quote]
  BY <1>1, <1>5, <1>10, AddFollows DEF AddEntry
<1> DEFINE r == Remove(b, id, t, s)
<1>11. /\ InOrder(r) /\ r.orderMap[id] = NoOrder
       /\ QuotesOf(r) = [q EXCEPT ![id] = NoOrder]
  BY <1>4, RemoveFollows
<1>12. [QuotesOf(r) EXCEPT ![id] = quote] = [q EXCEPT ![id] = quote]
  BY <1>11, QuotesOfIs
<1> HIDE DEF r, q
<1>13. CASE SetBook(Quoted, AddEntry(b, f, t, s))
  <2>1. /\ InOrder(AddEntry(b, f, t, s))
        /\ QuotesOf(AddEntry(b, f, t, s)) = [q EXCEPT ![id] = quote]
    BY <1>4, <1>10 DEF q
  <2>2. Applied(QuotesOf(AddEntry(b, f, t, s)))
    BY <1>1, <1>8, <1>13, <2>1, EntryApplied
  <2> QED
    BY <1>6, <2>1, <2>2 DEF q, b
<1>14. CASE SetBook(Quoted, AddEntry(r, f, t, s))
  <2>1. /\ InOrder(AddEntry(r, f, t, s))
        /\ QuotesOf(AddEntry(r, f, t, s)) = [q EXCEPT ![id] = quote]
    BY <1>10, <1>11, <1>12
  <2>2. Applied(QuotesOf(AddEntry(r, f, t, s)))
    BY <1>1, <1>8, <1>14, <2>1, EntryApplied
  <2> QED
    BY <1>6, <2>1, <2>2 DEF q, b
<1> QED
  BY <1>9, <1>13, <1>14 DEF r

(* An order of another size.                                               *)
LEMMA ResizedApplied ==
  ASSUME Follower, Updating, NEW id \in Ids, NEW quote \in Quote,
         NEW e, e = EntryOf("CHANGE", id, Absent, quote),
         QuotesOf(books[Quoted])[id] # NoOrder,
         quote.side = QuotesOf(books[Quoted])[id].side,
         quote.price = QuotesOf(books[Quoted])[id].price,
         NEW t \in Time, NEW s \in Time, ApplyUpdate(e, t, s)
  PROVE  /\ ConformingUpdate(e)
         /\ Applied([QuotesOf(books[Quoted]) EXCEPT ![id] = quote])
<1> DEFINE f == ReadUpdate(handler.f, e)
           b == books[Quoted]
           q == QuotesOf(b)
<1>1. /\ f.action = "CHANGE" /\ f.id = id /\ f.symbol = Quoted
      /\ f.size = quote.size /\ Convertible(f)
  BY UpdateReads
<1>2. /\ e.symbol = Absent /\ e.refId = Absent
  BY EntryIs
<1>3. GetBook(Quoted) = b /\ b # NoBook
  BY UpdatingIs
<1>4. /\ InOrder(b) /\ b.orderMap[id] # NoOrder
      /\ quote.side = b.orderMap[id].side /\ quote.price = b.orderMap[id].price
  BY QuotedIsMapped DEF Updating
<1>5. /\ quote.size \in Size /\ Truncate(quote.size) = quote.size
      /\ quote = [side |-> quote.side, price |-> quote.price, size |-> quote.size]
  BY QuoteIs DEF Follower
<1> HIDE DEF f, b
<1>6. ConformingUpdate(e)
  BY <1>1, <1>2, <1>3, <1>4 DEF ConformingUpdate, f, GetOrder
<1>7. ChangeEntry(e, t, s)
  BY <1>1, <1>2, <1>3 DEF ApplyUpdate, SkipEntry, RejectEntry, NewEntry, RenameEntry,
                          DeleteEntry, OtherEntry, Applies, f
<1>8. EntryRead(f)
  BY <1>7 DEF ChangeEntry, Applies, f
<1> DEFINE m == Modify(b, id, quote.size, t, s)
<1>9. SetBook(Quoted, m)
  BY <1>1, <1>3, <1>4, <1>5, <1>7 DEF ChangeEntry, GetOrder, f
<1>10. InOrder(m) /\ QuotesOf(m) = [q EXCEPT ![id] = quote]
  BY <1>4, <1>5, ModifyFollows
<1> HIDE DEF m, q
<1>11. Applied(QuotesOf(m))
  BY <1>1, <1>8, <1>9, <1>10, EntryApplied
<1> QED
  BY <1>6, <1>10, <1>11 DEF q, b

(* An order of a new name, side, price or size as well.                    *)
LEMMA RenamedApplied ==
  ASSUME Follower, Updating, NEW new \in Ids, NEW old \in Ids, NEW quote \in Quote,
         NEW e, e = EntryOf("CHANGE", new, old, quote),
         QuotesOf(books[Quoted])[old] # NoOrder,
         QuotesOf(books[Quoted])[new] = NoOrder,
         NEW t \in Time, NEW s \in Time, ApplyUpdate(e, t, s)
  PROVE  /\ ConformingUpdate(e)
         /\ Applied([QuotesOf(books[Quoted]) EXCEPT ![old] = NoOrder, ![new] = quote])
<1> DEFINE f == ReadUpdate(handler.f, e)
           b == books[Quoted]
           q == QuotesOf(b)
           r == Remove(b, old, t, s)
           a == AddEntry(r, f, t, s)
<1>1. /\ f.action = "CHANGE" /\ f.id = new /\ f.symbol = Quoted
      /\ f.px = quote.price /\ f.size = quote.size
      /\ Char2Side(f.type) = quote.side /\ Convertible(f)
  BY UpdateReads
<1>2. e.symbol = Absent /\ e.refId = old /\ old # Absent /\ old # new
  BY EntryIs, FieldAssumption DEF Ids
<1>3. GetBook(Quoted) = b /\ b # NoBook
  BY UpdatingIs
<1>4. InOrder(b) /\ b.orderMap[new] = NoOrder /\ q[new] = NoOrder
  BY QuotedIsMapped DEF Updating
<1>5. /\ quote.side \in BookSide /\ quote.price \in Price /\ quote.size \in Size
      /\ Truncate(quote.size) = quote.size
      /\ quote = [side |-> quote.side, price |-> quote.price, size |-> quote.size]
  BY QuoteIs DEF Follower
<1> HIDE DEF f, b
<1>6. ConformingUpdate(e)
  BY <1>1, <1>2, <1>3, <1>4 DEF ConformingUpdate, f, GetOrder
<1>7. RenameEntry(e, t, s)
  BY <1>1, <1>2, <1>3 DEF ApplyUpdate, SkipEntry, RejectEntry, NewEntry, ChangeEntry,
                          DeleteEntry, OtherEntry, Applies, f
<1>8. EntryRead(f)
  BY <1>7 DEF RenameEntry, Applies, f
<1>9. SetBook(Quoted, a)
  BY <1>1, <1>2, <1>3, <1>7 DEF RenameEntry, f
<1>10. /\ InOrder(r) /\ QuotesOf(r) = [q EXCEPT ![old] = NoOrder]
  BY <1>4, RemoveFollows
<1>11. QuotesOf(r)[new] = NoOrder
  BY <1>2, <1>4, <1>10, QuotesOfIs
<1> HIDE DEF r
<1>12. r.orderMap[new] = NoOrder
  BY <1>10, <1>11, QuotedIsMapped
<1>13. InOrder(a) /\ QuotesOf(a) = [QuotesOf(r) EXCEPT ![new] = quote]
  BY <1>1, <1>5, <1>10, <1>12, AddFollows DEF AddEntry
<1> HIDE DEF a, q
<1>14. Applied(QuotesOf(a))
  BY <1>1, <1>8, <1>9, <1>13, EntryApplied
<1>15. QuotesOf(a) = [q EXCEPT ![old] = NoOrder, ![new] = quote]
  <2>1. [[q EXCEPT ![old] = NoOrder] EXCEPT ![new] = quote]
          = [q EXCEPT ![old] = NoOrder, ![new] = quote]
    OBVIOUS
  <2> QED
    BY <1>10, <1>13, <2>1
<1> QED
  BY <1>6, <1>14, <1>15 DEF q, b

(* An order no more.                                                       *)
LEMMA CancelledApplied ==
  ASSUME Follower, Updating, NEW id \in Ids, NEW quote \in Quote,
         NEW e, e = EntryOf("DELETE", id, Absent, quote),
         QuotesOf(books[Quoted])[id] # NoOrder,
         NEW t \in Time, NEW s \in Time, ApplyUpdate(e, t, s)
  PROVE  /\ ConformingUpdate(e)
         /\ Applied([QuotesOf(books[Quoted]) EXCEPT ![id] = NoOrder])
<1> DEFINE f == ReadUpdate(handler.f, e)
           b == books[Quoted]
           q == QuotesOf(b)
           r == Remove(b, id, t, s)
<1>1. /\ f.action = "DELETE" /\ f.id = id /\ f.symbol = Quoted /\ Convertible(f)
  BY UpdateReads
<1>2. e.symbol = Absent /\ id \in OrderId
  BY EntryIs DEF Ids
<1>3. GetBook(Quoted) = b /\ b # NoBook
  BY UpdatingIs
<1>4. InOrder(b) /\ b.orderMap[id] # NoOrder
  BY QuotedIsMapped DEF Updating
<1> HIDE DEF f, b
<1>6. ConformingUpdate(e)
  BY <1>1, <1>2, <1>3, <1>4 DEF ConformingUpdate, f, GetOrder
<1>7. DeleteEntry(e, t, s)
  BY <1>1, <1>3 DEF ApplyUpdate, SkipEntry, RejectEntry, NewEntry, RenameEntry,
                    ChangeEntry, OtherEntry, Applies, f
<1>8. EntryRead(f)
  BY <1>7 DEF DeleteEntry, Applies, f
<1>9. SetBook(Quoted, r)
  BY <1>1, <1>3, <1>4, <1>7 DEF DeleteEntry, GetOrder, f
<1>10. InOrder(r) /\ QuotesOf(r) = [q EXCEPT ![id] = NoOrder]
  BY <1>4, RemoveFollows
<1> HIDE DEF r, q
<1>11. Applied(QuotesOf(r))
  BY <1>1, <1>8, <1>9, <1>10, EntryApplied
<1> QED
  BY <1>6, <1>10, <1>11 DEF q, b

(* Each entry of an incremental refresh that tells of the venue's orders   *)
(* is one that keeps to the protocol, and does to the book what happened   *)
(* to the orders.                                                          *)
LEMMA HappensApplied ==
  ASSUME Follower, Updating, NEW q \in Quotes, q = QuotesOf(books[Quoted]),
         NEW c \in Happens(q), NEW t \in Time, NEW s \in Time,
         ApplyUpdate(c.entry, t, s)
  PROVE  ConformingUpdate(c.entry) /\ Applied(c.after)
<1>1. ASSUME NEW id \in Ids, q[id] \in Quote
      PROVE  q[id] # NoOrder
  BY <1>1, QuoteIs
<1>2. CASE Places(q, c)
  BY <1>2, PlacedApplied DEF Places
<1>3. CASE Resizes(q, c)
  BY <1>1, <1>3, ResizedApplied DEF Resizes
<1>4. CASE Renames(q, c)
  BY <1>1, <1>4, RenamedApplied DEF Renames
<1>5. CASE Cancels(q, c)
  BY <1>1, <1>5, CancelledApplied DEF Cancels
<1> QED
  BY <1>2, <1>3, <1>4, <1>5, HappensIs

(* A full refresh is under way, and its book is in order.                  *)
Filling ==
  /\ CInv /\ handler.msg = "full" /\ handler.f.symbol = Quoted /\ handler.cur = Quoted
  /\ InOrder(books[Quoted])

(* Each entry of a snapshot that tells of an order not yet in the book is  *)
(* one that keeps to the protocol, and adds the order.                     *)
LEMMA SnapshotApplied ==
  ASSUME Follower, Filling, NEW id \in Ids, NEW quote \in Quote,
         NEW e, e = EntryOf(Absent, id, Absent, quote),
         QuotesOf(books[Quoted])[id] = NoOrder,
         NEW t \in Time, NEW s \in Time, FullAdd(e, t, s)
  PROVE  /\ ConformingFull(e)
         /\ Applied([QuotesOf(books[Quoted]) EXCEPT ![id] = quote])
<1> DEFINE f == ReadFull(handler.f, e)
           b == books[Quoted]
           q == QuotesOf(b)
           a == Add(b, id, quote.side, quote.size, quote.price, t, s)
<1>1. /\ e.id = id /\ e.symbol = Absent /\ e.px = quote.price /\ e.size = quote.size
      /\ Char2Side(e.type) = quote.side /\ e.type # Absent
      /\ e.px # Absent /\ e.size # Absent
  BY EntryIs
<1>2. /\ handler \in [msg : {"none", "full", "incremental"}, left : 0 .. MaxEntries,
                      f : Fields, cur : Symbol \cup {NoSymbol}]
      /\ books \in [Symbol -> BookType \cup {NoBook}]
  BY DEF Filling, CInv, PInv, TypeOK
<1>3. id # Absent /\ id # EmptyId
  BY FieldAssumption DEF Ids
<1>4. /\ FullId(f) = id /\ f.symbol = Quoted
      /\ f.px = quote.price /\ f.size = quote.size /\ f.type = e.type
  <2>1. handler.f \in Fields /\ handler.f.symbol = Quoted
    BY <1>2 DEF Filling
  <2>2. /\ f.id = id /\ f.symbol = Quoted
        /\ f.px = quote.price /\ f.size = quote.size /\ f.type = e.type
    BY <1>1, <1>3, <2>1 DEF ReadFull, Keep, Fields
  <2> QED
    BY <1>3, <2>2 DEF FullId
<1>5. /\ quote.side \in BookSide /\ quote.price \in Price /\ quote.size \in Size
      /\ Truncate(quote.size) = quote.size
      /\ quote = [side |-> quote.side, price |-> quote.price, size |-> quote.size]
  BY QuoteIs DEF Follower
<1>6. InOrder(b) /\ b.orderMap[id] = NoOrder
  BY QuotedIsMapped DEF Filling
<1> HIDE DEF f
<1>7. ConformingFull(e)
  BY <1>1, <1>4, <1>6, QuotedIs DEF ConformingFull, Filling, GetOrder, f
<1>8. /\ books' = [books EXCEPT ![Quoted] = a]
      /\ handler' = [handler EXCEPT !.left = @ - 1, !.f = f]
  BY <1>1, <1>2, <1>4, <1>5, QuotedIs DEF FullAdd, Filling, f
<1> HIDE DEF b
<1>9. InOrder(a) /\ QuotesOf(a) = [q EXCEPT ![id] = quote]
  BY <1>5, <1>6, AddFollows
<1> HIDE DEF a
<1>10. books'[Quoted] = a
  BY <1>2, <1>8, QuotedIs
<1>11. /\ handler'.msg = handler.msg /\ handler'.left = handler.left - 1
       /\ handler'.f.symbol = Quoted /\ handler'.cur = Quoted
  BY <1>2, <1>4, <1>8 DEF Filling
<1> QED
  BY <1>7, <1>9, <1>10, <1>11 DEF Applied, b

-----------------------------------------------------------------------------
(* What is left of a message when an entry has been read, or all have.     *)
LEMMA CompletesTail ==
  ASSUME NEW q \in Quotes, NEW held, DOMAIN held = Ids,
         NEW entries \in Seq(Entry), entries # <<>>, Completes(held, entries, q)
  PROVE  LET id == Head(entries).id
         IN  /\ id \in Ids /\ q[id] \in Quote /\ held[id] = NoOrder
             /\ Head(entries) = EntryOf(Absent, id, Absent, q[id])
             /\ Completes([held EXCEPT ![id] = q[id]], Tail(entries), q)
<1> DEFINE id == Head(entries).id
           rest == Tail(entries)
           more == [held EXCEPT ![id] = q[id]]
<1>1. /\ DOMAIN entries = 1 .. Len(entries) /\ Len(entries) \in Nat /\ Len(entries) >= 1
      /\ Head(entries) = entries[1] /\ 1 \in DOMAIN entries
  OBVIOUS
<1>2. /\ DOMAIN rest = 1 .. Len(entries) - 1
      /\ \A k \in DOMAIN rest : rest[k] = entries[k + 1] /\ k + 1 \in DOMAIN entries
  BY <1>1
<1>3. /\ \A k \in DOMAIN entries :
           entries[k].id \in Live(q)
             /\ entries[k] = EntryOf(Absent, entries[k].id, Absent, q[entries[k].id])
      /\ \A k, l \in DOMAIN entries : entries[k].id = entries[l].id => k = l
      /\ \A x \in Ids : held[x] = IF \E k \in DOMAIN entries : entries[k].id = x
                                  THEN NoOrder ELSE q[x]
  BY DEF Completes
<1>4. id \in Live(q) /\ Head(entries) = EntryOf(Absent, id, Absent, q[id])
  BY <1>1, <1>3
<1>5. id \in Ids /\ q[id] \in Quote
  BY <1>4, LiveQuote
<1>6. held[id] = NoOrder
  BY <1>1, <1>3, <1>5
<1>7. ASSUME NEW x \in Ids
      PROVE  more[x] = IF \E k \in DOMAIN rest : rest[k].id = x THEN NoOrder ELSE q[x]
  <2>1. CASE x = id
    <3>1. more[x] = q[x]
      BY <2>1
    <3>2. ~\E k \in DOMAIN rest : rest[k].id = x
      <4> SUFFICES ASSUME NEW k \in DOMAIN rest, rest[k].id = x
                   PROVE  FALSE
        OBVIOUS
      <4>1. k + 1 \in DOMAIN entries /\ entries[k + 1].id = entries[1].id
        BY <1>1, <1>2, <2>1
      <4>2. k \in Nat /\ k >= 1
        BY <1>1, <1>2
      <4>3. k + 1 = 1
        BY <1>1, <1>3, <4>1
      <4> QED
        BY <4>2, <4>3
    <3> QED
      BY <3>1, <3>2
  <2>2. CASE x # id
    <3>1. more[x] = held[x]
      BY <2>2
    <3>2. ASSUME NEW k \in DOMAIN entries, entries[k].id = x
          PROVE  \E l \in DOMAIN rest : rest[l].id = x
      <4>1. k # 1 /\ k \in 1 .. Len(entries)
        BY <1>1, <2>2, <3>2
      <4>2. k - 1 \in DOMAIN rest /\ rest[k - 1] = entries[k]
        BY <1>1, <1>2, <4>1
      <4> QED
        BY <3>2, <4>2
    <3>3. (\E k \in DOMAIN entries : entries[k].id = x)
            <=> (\E l \in DOMAIN rest : rest[l].id = x)
      BY <1>2, <3>2
    <3> HIDE DEF more, rest, id
    <3> QED
      BY <1>3, <3>1, <3>3
  <2> QED
    BY <2>1, <2>2
<1>8. \A k, l \in DOMAIN rest : rest[k].id = rest[l].id => k = l
  <2> SUFFICES ASSUME NEW k \in DOMAIN rest, NEW l \in DOMAIN rest, rest[k].id = rest[l].id
               PROVE  k = l
    OBVIOUS
  <2>1. k + 1 = l + 1
    BY <1>2, <1>3
  <2>2. k \in Int /\ l \in Int
    BY <1>1, <1>2
  <2> QED
    BY <2>1, <2>2
<1>9. \A k \in DOMAIN rest :
        rest[k].id \in Live(q)
          /\ rest[k] = EntryOf(Absent, rest[k].id, Absent, q[rest[k].id])
  BY <1>2, <1>3
<1>10. Completes(more, rest, q)
  BY <1>7, <1>8, <1>9 DEF Completes
<1> QED
  BY <1>4, <1>5, <1>6, <1>10

LEMMA CompletesDone ==
  ASSUME NEW q \in Quotes, NEW b, Completes(QuotesOf(b), <<>>, q)
  PROVE  QuotesOf(b) = q
<1> DEFINE held == QuotesOf(b)
<1>1. held = [id \in Ids |-> held[id]] /\ q = [id \in Ids |-> q[id]]
  BY DEF QuotesOf, Ids, Quotes
<1>2. \A id \in Ids : held[id] = q[id]
  BY DEF Completes
<1> HIDE DEF held
<1> QED
  BY <1>1, <1>2 DEF held

LEMMA TellsTail ==
  ASSUME NEW q, NEW r, NEW entries, entries # <<>>, Tells(q, entries, r)
  PROVE  \E c \in Happens(q) :
           Head(entries) = c.entry /\ Tells(c.after, Tail(entries), r)
<1>1. CASE \E c \in Happens(q) : entries = <<c.entry>> /\ r = c.after
  <2>1. PICK c \in Happens(q) : entries = <<c.entry>> /\ r = c.after
    BY <1>1
  <2>2. Head(entries) = c.entry /\ Tail(entries) = <<>>
    BY <2>1
  <2> QED
    BY <2>1, <2>2 DEF Tells
<1>2. CASE \E c \in Happens(q) : \E d \in Happens(c.after) :
             entries = <<c.entry, d.entry>> /\ r = d.after
  <2>1. PICK c \in Happens(q) : \E d \in Happens(c.after) :
          entries = <<c.entry, d.entry>> /\ r = d.after
    BY <1>2
  <2>2. PICK d \in Happens(c.after) : entries = <<c.entry, d.entry>> /\ r = d.after
    BY <2>1
  <2>3. Head(entries) = c.entry /\ Tail(entries) = <<d.entry>>
    BY <2>2
  <2>4. Tells(c.after, Tail(entries), r)
    BY <2>2, <2>3 DEF Tells
  <2> QED
    BY <2>3, <2>4
<1> QED
  BY <1>1, <1>2 DEF Tells

LEMMA TellsDone ==
  ASSUME NEW q, NEW r, Tells(q, <<>>, r)
  PROVE  r = q
<1>1. ASSUME NEW x, NEW y
      PROVE  <<>> # <<x>> /\ <<>> # <<x, y>>
  OBVIOUS
<1> QED
  BY <1>1 DEF Tells

(* Versions in order stay in order when one is taken or a newer one added. *)
LEMMA AscendingTail ==
  ASSUME NEW S, NEW s \in Seq(S), s # <<>>, Ascending(s)
  PROVE  /\ Ascending(Tail(s))
         /\ \A k \in DOMAIN Tail(s) : /\ k + 1 \in DOMAIN s /\ Tail(s)[k] = s[k + 1]
                                      /\ s[1].version <= Tail(s)[k].version
<1>1. /\ DOMAIN s = 1 .. Len(s) /\ Len(s) \in Nat /\ Len(s) >= 1
      /\ DOMAIN Tail(s) = 1 .. Len(s) - 1
  OBVIOUS
<1>2. ASSUME NEW k \in DOMAIN Tail(s)
      PROVE  k + 1 \in DOMAIN s /\ Tail(s)[k] = s[k + 1] /\ k \in Int /\ 1 <= k + 1
  BY <1>1
<1>3. ASSUME NEW k \in DOMAIN s, NEW l \in DOMAIN s, k <= l
      PROVE  s[k].version <= s[l].version
  BY <1>3 DEF Ascending
<1>4. ASSUME NEW k \in DOMAIN Tail(s), NEW l \in DOMAIN Tail(s), k <= l
      PROVE  Tail(s)[k].version <= Tail(s)[l].version
  <2>1. k + 1 <= l + 1
    BY <1>2, <1>4
  <2> QED
    BY <1>2, <1>3, <2>1
<1>5. 1 \in DOMAIN s
  BY <1>1
<1> QED
  BY <1>2, <1>3, <1>4, <1>5 DEF Ascending

LEMMA AscendingAppend ==
  ASSUME NEW S, NEW s \in Seq(S), Ascending(s), NEW m, m.version \in Int,
         \A k \in DOMAIN s : s[k].version <= m.version
  PROVE  Ascending(Append(s, m))
<1> DEFINE n == Len(s)
           a == Append(s, m)
<1>1. DOMAIN s = 1 .. n /\ n \in Nat /\ DOMAIN a = 1 .. n + 1
  OBVIOUS
<1>2. a[n + 1] = m /\ \A k \in 1 .. n : a[k] = s[k]
  OBVIOUS
<1> HIDE DEF a
<1>3. ASSUME NEW k \in DOMAIN a, NEW l \in DOMAIN a, k <= l
      PROVE  a[k].version <= a[l].version
  <2>1. CASE l \in 1 .. n
    <3>1. k \in 1 .. n
      BY <1>1, <1>3, <2>1
    <3> QED
      BY <1>1, <1>2, <1>3, <2>1, <3>1 DEF Ascending
  <2>2. CASE l = n + 1 /\ k \in 1 .. n
    BY <1>1, <1>2, <2>2
  <2>3. CASE l = n + 1 /\ k = n + 1
    BY <1>2, <2>3
  <2> QED
    BY <1>1, <2>1, <2>2, <2>3
<1> QED
  BY <1>3 DEF Ascending, a

-----------------------------------------------------------------------------
(* One lemma per action.                                                   *)

LEMMA InitCInv == Init => CInv
BY InitPInv DEF Init, CInv, BooksHaveNoGhosts, RequestedHaveBooks, HandlerHasBook, NoMessage, StaysUp

LEMMA NoQuotesTyped == NoQuotes \in Quotes /\ Nothing.quotes = NoQuotes /\ Nothing.version = 0
BY DEF NoQuotes, Quotes, Nothing

(* What is on its way to the subscriber.                                   *)
Update == [bbo : BBOType, quotes : Quotes, version : 0 .. MaxChanges]
SocketType == [bound : BOOLEAN, joined : BOOLEAN, missed : BOOLEAN, queue : Seq(Update)]

LEMMA NewSocketTyped ==
  ASSUME NEW s \in NewSocket
  PROVE  s \in SocketType /\ s.queue = <<>>
<1>1. <<>> \in Seq(Update) /\ FALSE \in BOOLEAN
  OBVIOUS
<1> QED
  BY <1>1 DEF NewSocket, SocketType

LEMMA FeedInitInv == FeedInit => FeedInv
<1> SUFFICES ASSUME FeedInit
             PROVE  FeedInv
  OBVIOUS
<1>1. CInv
  BY InitCInv DEF FeedInit
<1>2. /\ venue = [quotes |-> NoQuotes, version |-> 0, request |-> "none"]
      /\ link = "down" /\ feed = <<>> /\ inbox = <<>>
      /\ asOf = [quotes |-> NoQuotes, version |-> 0] /\ handler = NoMessage
      /\ heard = [bbo |-> NoBBO, version |-> 0] /\ outages = 0
      /\ books = [symbol \in Symbol |-> NoBook]
  BY DEF FeedInit, Init, Nothing
<1>3. /\ socket \in NewSocket /\ socket.queue = <<>> /\ socket \in SocketType
  BY NewSocketTyped DEF FeedInit
<1>4. FeedTypeOK
  <2>1. TypeOK
    BY <1>1 DEF CInv, PInv
  <2>2. 0 \in 0 .. MaxChanges /\ 0 \in 0 .. MaxOutages
    BY FeedAssumption
  <2>3. Len(inbox) = handler.left
    BY <1>2 DEF NoMessage
  <2> QED
    BY <1>2, <1>3, <2>1, <2>2, <2>3, NoQuotesTyped DEF FeedTypeOK, SocketType, Update
<1>5. InHand
  BY <1>2, QuotedIs DEF InHand, NoMessage
<1>6. Chain
  BY <1>2 DEF Chain
<1>7. InSequence
  BY <1>2, <1>3 DEF InSequence, Ascending
<1>8. PricesGenuine
  BY <1>3 DEF PricesGenuine
<1> QED
  BY <1>1, <1>4, <1>5, <1>6, <1>7, <1>8 DEF FeedInv

(* A subscriber comes, goes, or hears something.                           *)
LEMMA SubscriberInv ==
  ASSUME FeedInv, Join \/ Leave \/ Hear
  PROVE  FeedInv'
<1> DEFINE queue == socket.queue
<1>1. UNCHANGED <<vars, venue, link, feed, inbox, asOf, outages>>
  BY DEF Join, Leave, Hear
<1>2. CInv'
  BY <1>1, ConformingStepCInv, FeedAssumption DEF FeedInv
<1>3. InHand' /\ Chain'
  BY <1>1 DEF FeedInv, InHand, Chain, vars
<1>4. /\ socket \in SocketType
      /\ heard \in [bbo : BBOType \cup {NoBBO}, version : 0 .. MaxChanges]
      /\ queue \in Seq(Update)
  BY DEF FeedInv, FeedTypeOK, SocketType, Update
<1>5. /\ Ascending(queue) /\ heard.version <= venue.version
      /\ \A k \in DOMAIN queue : /\ heard.version <= queue[k].version
                                 /\ queue[k].version <= venue.version
                                 /\ queue[k].bbo = VenueBBO(queue[k].quotes)
  BY DEF FeedInv, InSequence, PricesGenuine
<1>6. link = "up" =>
        /\ Ascending(feed)
        /\ \A l \in DOMAIN feed :
             /\ heard.version <= feed[l].version /\ feed[l].version <= venue.version
             /\ \A k \in DOMAIN queue : queue[k].version <= feed[l].version
  BY DEF FeedInv, InSequence
<1>7. /\ socket' \in SocketType
      /\ \/ queue' \in {queue, <<>>} /\ heard' = heard
         \/ /\ queue # <<>> /\ queue' = Tail(queue)
            /\ heard' = [bbo |-> queue[1].bbo, version |-> queue[1].version]
  <2>1. CASE Join
    BY <1>4, <2>1 DEF Join, SocketType
  <2>2. CASE Leave
    <3>1. <<>> \in Seq(Update) /\ (socket.missed \/ queue # <<>>) \in BOOLEAN
      OBVIOUS
    <3>2. socket' = [socket EXCEPT !.joined = FALSE, !.queue = <<>>,
                                   !.missed = (socket.missed \/ queue # <<>>)]
      BY <1>4, <2>2 DEF Leave, SocketType
    <3>3. heard' = heard
      BY <2>2 DEF Leave
    <3> QED
      BY <1>4, <3>1, <3>2, <3>3 DEF SocketType
  <2>3. CASE Hear
    <3>1. queue # <<>> /\ Head(queue) = queue[1] /\ Tail(queue) \in Seq(Update)
      BY <1>4, <2>3 DEF Hear
    <3>2. socket' = [socket EXCEPT !.queue = Tail(queue)]
      BY <1>4, <2>3 DEF Hear, SocketType
    <3>3. heard' = [bbo |-> queue[1].bbo, version |-> queue[1].version]
      BY <2>3, <3>1 DEF Hear
    <3> QED
      BY <1>4, <3>1, <3>2, <3>3 DEF SocketType
  <2> QED
    BY <2>1, <2>2, <2>3
<1>8. CASE queue' \in {queue, <<>>} /\ heard' = heard
  <2>1. FeedTypeOK'
    BY <1>1, <1>2, <1>4, <1>7, <1>8 DEF FeedInv, FeedTypeOK, CInv, PInv, vars, SocketType, Update
  <2>2. InSequence' /\ PricesGenuine'
    BY <1>1, <1>5, <1>6, <1>8 DEF InSequence, PricesGenuine, Ascending
  <2> QED
    BY <1>2, <1>3, <2>1, <2>2 DEF FeedInv
<1>9. CASE /\ queue # <<>> /\ queue' = Tail(queue)
           /\ heard' = [bbo |-> queue[1].bbo, version |-> queue[1].version]
  <2>1. 1 \in DOMAIN queue /\ queue[1] \in Update
    BY <1>4, <1>9
  <2>2. /\ queue[1].bbo \in BBOType \cup {NoBBO} /\ queue[1].version \in 0 .. MaxChanges
    BY <2>1 DEF Update
  <2>3. FeedTypeOK'
    BY <1>1, <1>2, <1>7, <1>9, <2>2 DEF FeedInv, FeedTypeOK, CInv, PInv, vars, SocketType, Update
  <2>4. /\ Ascending(Tail(queue))
        /\ \A k \in DOMAIN Tail(queue) : /\ k + 1 \in DOMAIN queue
                                         /\ Tail(queue)[k] = queue[k + 1]
                                         /\ queue[1].version <= Tail(queue)[k].version
    BY <1>4, <1>5, <1>9, AscendingTail
  <2>5. heard'.version = queue[1].version
    BY <1>9
  <2>6. /\ Ascending(queue')
        /\ \A k \in DOMAIN queue' : /\ heard'.version <= queue'[k].version
                                    /\ queue'[k].version <= venue.version
                                    /\ queue'[k].bbo = VenueBBO(queue'[k].quotes)
    BY <1>5, <1>9, <2>4, <2>5
  <2>7. heard'.version <= venue.version
    BY <1>5, <2>1, <2>5
  <2>8. link = "up" =>
          \A l \in DOMAIN feed :
            /\ heard'.version <= feed[l].version
            /\ \A k \in DOMAIN queue' : queue'[k].version <= feed[l].version
    BY <1>6, <1>9, <2>1, <2>4, <2>5
  <2>9. InSequence' /\ PricesGenuine'
    BY <1>1, <1>6, <2>6, <2>7, <2>8 DEF InSequence, PricesGenuine, Ascending
  <2> QED
    BY <1>2, <1>3, <2>3, <2>9 DEF FeedInv
<1> QED
  BY <1>7, <1>8, <1>9

(* The connection is lost.                                                 *)
LEMMA BreakInv ==
  ASSUME FeedInv, Break
  PROVE  FeedInv'
<1>1. /\ UNCHANGED <<vars, feed, inbox, asOf, socket, heard>> /\ link' = "down" /\ Ready
      /\ outages' = outages + 1 /\ outages < MaxOutages
      /\ venue' = [venue EXCEPT !.request = "none"]
  BY DEF Break
<1>2. CInv'
  BY <1>1, ConformingStepCInv, FeedAssumption DEF FeedInv
<1>3. /\ venue' \in [quotes : Quotes, version : 0 .. MaxChanges,
                     request : {"none", "sent", "granted", "rejected"}]
      /\ venue'.version = venue.version
  BY <1>1 DEF FeedInv, FeedTypeOK
<1>4. outages' \in 0 .. MaxOutages
  BY <1>1, FeedAssumption DEF FeedInv, FeedTypeOK
<1>5. FeedTypeOK'
  BY <1>1, <1>2, <1>3, <1>4 DEF FeedInv, FeedTypeOK, CInv, PInv, vars
<1>6. InHand'
  BY <1>1 DEF FeedInv, InHand, vars, Ready
<1>7. Chain'
  BY <1>1 DEF Chain
<1>8. InSequence' /\ PricesGenuine'
  BY <1>1, <1>3 DEF FeedInv, InSequence, PricesGenuine, Ascending
<1> QED
  BY <1>2, <1>5, <1>6, <1>7, <1>8 DEF FeedInv

(* The collector is started again: it has no books and no message.         *)
LEMMA RestartInv ==
  ASSUME FeedInv, Restart
  PROVE  FeedInv'
<1>1. Init'
  BY DEF Restart, Init
<1>2. CInv'
  BY <1>1, InitCInv, PTL
<1>3. /\ link' = "down" /\ inbox' = <<>> /\ feed' = feed /\ heard' = heard
      /\ asOf' = [quotes |-> NoQuotes, version |-> 0] /\ handler' = NoMessage
      /\ venue' = [venue EXCEPT !.request = "none"]
      /\ outages' = outages + 1 /\ outages < MaxOutages
      /\ books' = [symbol \in Symbol |-> NoBook]
  BY DEF Restart, Nothing
<1>4. socket' \in NewSocket /\ socket'.queue = <<>> /\ socket' \in SocketType
  BY NewSocketTyped DEF Restart
<1>5. /\ venue' \in [quotes : Quotes, version : 0 .. MaxChanges,
                     request : {"none", "sent", "granted", "rejected"}]
      /\ venue'.version = venue.version
  BY <1>3 DEF FeedInv, FeedTypeOK
<1>6. outages' \in 0 .. MaxOutages
  BY <1>3, FeedAssumption DEF FeedInv, FeedTypeOK
<1>7. FeedTypeOK'
  <2>1. TypeOK'
    BY <1>2 DEF CInv, PInv
  <2>2. 0 \in 0 .. MaxChanges
    BY FeedAssumption
  <2>3. inbox' \in Seq(Entry) /\ Len(inbox') = handler'.left
    BY <1>3 DEF NoMessage
  <2> QED
    BY <1>3, <1>4, <1>5, <1>6, <2>1, <2>2, <2>3, NoQuotesTyped
       DEF FeedInv, FeedTypeOK, SocketType, Update
<1>8. InHand'
  BY <1>3, QuotedIs DEF InHand, NoMessage
<1>9. Chain'
  BY <1>3 DEF Chain
<1>10. InSequence' /\ PricesGenuine'
  BY <1>3, <1>4, <1>5 DEF FeedInv, InSequence, PricesGenuine, Ascending
<1> QED
  BY <1>2, <1>7, <1>8, <1>9, <1>10 DEF FeedInv

(* A logon: new books, and nothing old to come.                            *)
LEMMA LogOnInv ==
  ASSUME Follower, FeedInv, LogOn
  PROVE  FeedInv' /\ ConformingNext
<1>1. /\ link' = "up" /\ OnLogon /\ asOf' = [quotes |-> NoQuotes, version |-> 0]
      /\ venue' = [venue EXCEPT !.request = "sent"]
      /\ UNCHANGED <<inbox, socket, heard, outages>>
  BY DEF LogOn, Nothing
<1>2. feed' = <<>>
  BY DEF LogOn, Untaken, Follower
<1>3. ConformingNext
  BY <1>1 DEF ConformingNext
<1>4. CInv'
  BY <1>3, ConformingStepCInv, FeedAssumption DEF FeedInv
<1>5. handler' = handler /\ handler.msg = "none" /\ requested' = Requested
  BY <1>1 DEF OnLogon, Ready
<1>6. books'[Quoted] = NewBook
  BY <1>1, QuotedIs, FeedAssumption DEF OnLogon
<1>7. /\ venue' \in [quotes : Quotes, version : 0 .. MaxChanges,
                     request : {"none", "sent", "granted", "rejected"}]
      /\ venue'.version = venue.version /\ venue'.request = "sent"
  BY <1>1 DEF FeedInv, FeedTypeOK
<1>8. FeedTypeOK'
  <2>1. TypeOK'
    BY <1>4 DEF CInv, PInv
  <2>2. 0 \in 0 .. MaxChanges
    BY FeedAssumption
  <2> QED
    BY <1>1, <1>2, <1>5, <1>7, <2>1, <2>2, NoQuotesTyped DEF FeedInv, FeedTypeOK
<1>9. InHand'
  BY <1>1, <1>5, <1>6, NewBookFollows, NoQuotesTyped DEF InHand
<1>10. NewBook # NoBook
  BY NewBookSound, NoBookAssumption
<1>11. Chain'
  BY <1>1, <1>2, <1>5, <1>6, <1>7, <1>10, QuotedIs DEF Chain, Nothing
<1>12. InSequence' /\ PricesGenuine'
  BY <1>1, <1>2, <1>7 DEF FeedInv, InSequence, PricesGenuine, Ascending
<1> QED
  BY <1>3, <1>4, <1>8, <1>9, <1>11, <1>12 DEF FeedInv

(* The venue says something, or does something without a word: what the    *)
(* collector has in hand stays.                                            *)
LEMMA ToldKeeps ==
  ASSUME FeedInv, UNCHANGED <<vars, link, inbox, asOf, socket, heard, outages>>,
         venue' \in [quotes : Quotes, version : 0 .. MaxChanges,
                     request : {"none", "sent", "granted", "rejected"}],
         venue.version <= venue'.version,
         feed' = feed \/ \E m \in Message : m.version = venue'.version /\ feed' = Append(feed, m)
  PROVE  FeedTypeOK' /\ CInv' /\ InHand' /\ InSequence' /\ PricesGenuine'
<1>1. CInv'
  BY ConformingStepCInv, FeedAssumption DEF FeedInv
<1>2. feed \in Seq(Message) /\ feed' \in Seq(Message)
  <2>1. feed \in Seq(Message)
    BY DEF FeedInv, FeedTypeOK
  <2>2. \A m \in Message : Append(feed, m) \in Seq(Message)
    BY <2>1
  <2> QED
    BY <2>1, <2>2
<1>3. FeedTypeOK'
  BY <1>1, <1>2 DEF FeedInv, FeedTypeOK, CInv, PInv, vars
<1>4. feed # <<>> => feed' # <<>> /\ feed'[1] = feed[1]
  BY <1>2
<1>5. InHand'
  BY <1>4 DEF FeedInv, InHand, vars
<1>6. PricesGenuine'
  BY DEF FeedInv, PricesGenuine
<1>7. /\ venue.version \in Int /\ venue'.version \in Int /\ heard.version \in Int
      /\ \A k \in DOMAIN socket.queue : socket.queue[k].version \in Int
      /\ \A k \in DOMAIN feed : feed[k].version \in Int
  <2>1. /\ venue.version \in 0 .. MaxChanges /\ heard.version \in 0 .. MaxChanges
        /\ feed \in Seq(Message) /\ socket.queue \in Seq(Update)
    BY DEF FeedInv, FeedTypeOK, Update
  <2>2. venue'.version \in 0 .. MaxChanges
    OBVIOUS
  <2>3. \A k \in DOMAIN socket.queue : socket.queue[k] \in Update
    BY <2>1
  <2>4. \A k \in DOMAIN feed : feed[k] \in Message
    BY <2>1
  <2> QED
    BY <2>1, <2>2, <2>3, <2>4 DEF Update, Message
<1>8. /\ heard.version <= venue'.version
      /\ \A k \in DOMAIN socket.queue : /\ heard.version <= socket.queue[k].version
                                        /\ socket.queue[k].version <= venue'.version
  BY <1>7 DEF FeedInv, InSequence
<1>9. ASSUME link = "up"
      PROVE  /\ Ascending(feed)
             /\ \A l \in DOMAIN feed :
                  /\ heard.version <= feed[l].version
                  /\ feed[l].version <= venue'.version
                  /\ \A k \in DOMAIN socket.queue : socket.queue[k].version <= feed[l].version
  <2>1. /\ Ascending(feed)
        /\ \A l \in DOMAIN feed :
             /\ heard.version <= feed[l].version
             /\ feed[l].version <= venue.version
             /\ \A k \in DOMAIN socket.queue : socket.queue[k].version <= feed[l].version
    BY <1>9 DEF FeedInv, InSequence
  <2> QED
    BY <1>7, <2>1
<1>10. ASSUME link = "up", NEW m \in Message, m.version = venue'.version,
              feed' = Append(feed, m)
       PROVE  /\ Ascending(feed')
              /\ \A l \in DOMAIN feed' :
                   /\ heard.version <= feed'[l].version
                   /\ feed'[l].version <= venue'.version
                   /\ \A k \in DOMAIN socket.queue : socket.queue[k].version <= feed'[l].version
  <2>1. Ascending(feed')
    BY <1>2, <1>7, <1>9, <1>10, AscendingAppend
  <2>2. ASSUME NEW l \in DOMAIN feed'
        PROVE  (l \in DOMAIN feed /\ feed'[l] = feed[l]) \/ feed'[l] = m
    BY <1>2, <1>10, <2>2
  <2> QED
    BY <1>7, <1>8, <1>9, <1>10, <2>1, <2>2
<1>11. link = "up" => /\ Ascending(feed')
                      /\ \A l \in DOMAIN feed' :
                           /\ heard.version <= feed'[l].version
                           /\ feed'[l].version <= venue'.version
                           /\ \A k \in DOMAIN socket.queue :
                                socket.queue[k].version <= feed'[l].version
  BY <1>9, <1>10
<1>12. InSequence'
  BY <1>8, <1>11 DEF FeedInv, InSequence, Ascending
<1> QED
  BY <1>1, <1>3, <1>5, <1>6, <1>12

(* A message that follows what is last in the feed, or in the book.        *)
LEMMA ChainAppend ==
  ASSUME FeedInv, UNCHANGED <<vars, link, asOf>>, link = "up",
         NEW m, feed' = Append(feed, m),
         venue'.request = "granted", venue'.quotes = m.quotes,
         Follows(IF feed = <<>> THEN asOf.quotes ELSE feed[Len(feed)].quotes, m),
         \A k \in 2 .. Len(feed) : Follows(feed[k - 1].quotes, feed[k]),
         handler.msg = "none" /\ feed # <<>> => Follows(asOf.quotes, feed[1])
  PROVE  Chain'
<1> DEFINE n == Len(feed)
<1>1. feed \in Seq(Message)
  BY DEF FeedInv, FeedTypeOK
<1>2. /\ n \in Nat /\ Len(feed') = n + 1 /\ feed' # <<>> /\ feed'[n + 1] = m
      /\ \A k \in 1 .. n : feed'[k] = feed[k]
      /\ feed = <<>> <=> n = 0
  BY <1>1
<1>3. ASSUME NEW k \in 2 .. n + 1
      PROVE  Follows(feed'[k - 1].quotes, feed'[k])
  <2>1. CASE k = n + 1
    <3>1. feed # <<>> /\ n \in 1 .. n /\ k - 1 = n
      BY <1>2, <1>3, <2>1
    <3> QED
      BY <1>2, <2>1, <3>1
  <2>2. CASE k # n + 1
    <3>1. k \in 2 .. n /\ k \in 1 .. n /\ k - 1 \in 1 .. n
      BY <1>2, <1>3, <2>2
    <3> QED
      BY <1>2, <3>1
  <2> QED
    BY <2>1, <2>2
<1>4. handler.msg = "none" => Follows(asOf.quotes, feed'[1])
  <2>1. CASE feed = <<>>
    BY <1>2, <2>1
  <2>2. CASE feed # <<>>
    <3>1. feed'[1] = feed[1]
      BY <1>2, <2>2
    <3> QED
      BY <2>2, <3>1
  <2> QED
    BY <2>1, <2>2
<1>5. Quoted \in requested /\ books[Quoted] # NoBook
  BY DEF FeedInv, Chain
<1>6. venue'.quotes = feed'[Len(feed')].quotes
  BY <1>2
<1> QED
  BY <1>2, <1>3, <1>4, <1>5, <1>6 DEF Chain, vars

LEMMA GrantInv ==
  ASSUME Follower, FeedInv, Grant
  PROVE  FeedInv'
<1> DEFINE q == venue.quotes
           m == Told("full", Snapshot(q), q, venue.version)
<1>1. /\ link = "up" /\ venue.request = "sent"
      /\ venue' = [venue EXCEPT !.request = "granted"]
      /\ feed' = IF Live(q) = {} THEN feed ELSE Append(feed, m)
      /\ UNCHANGED <<vars, link, inbox, asOf, socket, heard, outages>>
  BY DEF Grant
<1>2. /\ venue \in [quotes : Quotes, version : 0 .. MaxChanges,
                    request : {"none", "sent", "granted", "rejected"}]
      /\ venue.version \in Int
  BY DEF FeedInv, FeedTypeOK
<1>3. /\ venue' \in [quotes : Quotes, version : 0 .. MaxChanges,
                     request : {"none", "sent", "granted", "rejected"}]
      /\ venue'.version = venue.version /\ venue'.quotes = q
      /\ venue'.request = "granted" /\ q \in Quotes
  BY <1>1, <1>2
<1>4. /\ feed = <<>> /\ asOf.quotes = NoQuotes
      /\ Quoted \in requested /\ books[Quoted] # NoBook
  BY <1>1, NoQuotesTyped DEF FeedInv, Chain
<1>5. CASE Live(q) = {}
  <2>1. q = NoQuotes
    <3>1. \A id \in Ids : q[id] = NoOrder
      BY <1>3, <1>5, LiveQuote
    <3> HIDE DEF q
    <3>2. q = [id \in Ids |-> q[id]]
      BY <1>3 DEF Quotes, Ids
    <3> QED
      BY <3>1, <3>2 DEF NoQuotes, Ids
  <2>2. feed' = <<>>
    BY <1>1, <1>4, <1>5
  <2> HIDE DEF q
  <2>3. Chain'
    BY <1>1, <1>3, <1>4, <2>1, <2>2 DEF Chain, vars
  <2>4. FeedTypeOK' /\ CInv' /\ InHand' /\ InSequence' /\ PricesGenuine'
    BY <1>1, <1>2, <1>3, <1>4, <2>2, ToldKeeps
  <2> QED
    BY <2>3, <2>4 DEF FeedInv
<1>6. CASE Live(q) # {}
  <2>1. /\ Completes(NoQuotes, Snapshot(q), q)
        /\ Snapshot(q) \in Seq(Entry) /\ Len(Snapshot(q)) \in 1 .. MaxEntries
    BY <1>3, <1>6, SnapshotCompletes
  <2>2. /\ m.msg = "full" /\ m.entries = Snapshot(q) /\ m.quotes = q
        /\ m.version = venue.version
    BY DEF Told
  <2>3. m \in Message
    BY <1>2, <1>3, <2>1 DEF Message, Told
  <2>4. feed' = Append(feed, m)
    BY <1>1, <1>6
  <2> HIDE DEF m, q
  <2>5. FeedTypeOK' /\ CInv' /\ InHand' /\ InSequence' /\ PricesGenuine'
    BY <1>1, <1>2, <1>3, <2>2, <2>3, <2>4, ToldKeeps
  <2>6. Follows(asOf.quotes, m)
    BY <2>1, <2>2 DEF Follows
  <2>7. \A k \in 2 .. Len(feed) : Follows(feed[k - 1].quotes, feed[k])
    BY <1>4
  <2>8. Chain'
    BY <1>1, <1>3, <1>4, <2>2, <2>4, <2>6, <2>7, ChainAppend
  <2> QED
    BY <2>5, <2>8 DEF FeedInv
<1> QED
  BY <1>5, <1>6

LEMMA RejectInv ==
  ASSUME FeedInv, Reject
  PROVE  FeedInv'
<1>1. /\ link = "up" /\ venue.request = "sent"
      /\ venue' = [venue EXCEPT !.request = "rejected"]
      /\ UNCHANGED <<vars, link, feed, inbox, asOf, socket, heard, outages>>
  BY DEF Reject
<1>2. /\ venue' \in [quotes : Quotes, version : 0 .. MaxChanges,
                     request : {"none", "sent", "granted", "rejected"}]
      /\ venue'.version = venue.version /\ venue.version \in Int
      /\ venue'.request = "rejected"
  <2>1. venue \in [quotes : Quotes, version : 0 .. MaxChanges,
                   request : {"none", "sent", "granted", "rejected"}]
    BY DEF FeedInv, FeedTypeOK
  <2>2. venue.version \in 0 .. MaxChanges
    BY <2>1
  <2> QED
    BY <1>1, <2>1, <2>2
<1>3. FeedTypeOK' /\ CInv' /\ InHand' /\ InSequence' /\ PricesGenuine'
  BY <1>1, <1>2, ToldKeeps
<1>4. Chain'
  BY <1>1, <1>2 DEF FeedInv, Chain, vars
<1> QED
  BY <1>3, <1>4 DEF FeedInv

(* The venue's book changes.                                               *)
LEMMA ChangeInv ==
  ASSUME Follower, FeedInv, Change
  PROVE  FeedInv'
<1>1. PICK batch \in Batches(venue.quotes) :
        /\ venue' = [venue EXCEPT !.quotes = batch.after, !.version = @ + 1]
        /\ feed' = IF link = "down" \/ venue.request # "granted" THEN feed
                   ELSE Append(feed, Told("incremental", batch.entries, batch.after,
                                          venue.version + 1))
  BY DEF Change
<1>2. /\ venue.version < MaxChanges
      /\ UNCHANGED <<vars, link, inbox, asOf, socket, heard, outages>>
  BY DEF Change
<1>3. /\ venue \in [quotes : Quotes, version : 0 .. MaxChanges,
                    request : {"none", "sent", "granted", "rejected"}]
      /\ link \in {"up", "down"} /\ feed \in Seq(Message)
  BY DEF FeedInv, FeedTypeOK
<1>4. /\ Tells(venue.quotes, batch.entries, batch.after)
      /\ batch.after \in Quotes /\ batch.entries \in Seq(Entry)
      /\ Len(batch.entries) \in 1 .. MaxEntries
  BY <1>3, BatchTells
<1>5. venue.version + 1 \in 0 .. MaxChanges /\ venue.version <= venue.version + 1
  BY <1>2, <1>3, FeedAssumption
<1>6. /\ venue' \in [quotes : Quotes, version : 0 .. MaxChanges,
                     request : {"none", "sent", "granted", "rejected"}]
      /\ venue'.version = venue.version + 1 /\ venue'.quotes = batch.after
      /\ venue'.request = venue.request
  BY <1>1, <1>3, <1>4, <1>5
<1>7. CASE link = "down" \/ venue.request # "granted"
  <2>1. feed' = feed
    BY <1>1, <1>7
  <2>2. FeedTypeOK' /\ CInv' /\ InHand' /\ InSequence' /\ PricesGenuine'
    BY <1>2, <1>5, <1>6, <2>1, ToldKeeps
  <2>3. Chain'
    BY <1>2, <1>6, <1>7, <2>1 DEF FeedInv, Chain, vars
  <2> QED
    BY <2>2, <2>3 DEF FeedInv
<1>8. CASE link = "up" /\ venue.request = "granted"
  <2> DEFINE m == Told("incremental", batch.entries, batch.after, venue.version + 1)
  <2>1. feed' = Append(feed, m)
    BY <1>1, <1>8
  <2>2. /\ m.msg = "incremental" /\ m.entries = batch.entries /\ m.quotes = batch.after
        /\ m.version = venue.version + 1
    BY DEF Told
  <2>3. m \in Message
    BY <1>4, <1>5 DEF Message, Told
  <2> HIDE DEF m
  <2>4. FeedTypeOK' /\ CInv' /\ InHand' /\ InSequence' /\ PricesGenuine'
    BY <1>2, <1>5, <1>6, <2>1, <2>2, <2>3, ToldKeeps
  <2>5. /\ \A k \in 2 .. Len(feed) : Follows(feed[k - 1].quotes, feed[k])
        /\ handler.msg = "none" /\ feed # <<>> => Follows(asOf.quotes, feed[1])
        /\ venue.quotes = IF feed = <<>> THEN asOf.quotes ELSE feed[Len(feed)].quotes
    BY <1>8 DEF FeedInv, Chain
  <2>6. Follows(venue.quotes, m)
    BY <1>4, <2>2 DEF Follows
  <2>7. Chain'
    BY <1>2, <1>6, <1>8, <2>1, <2>2, <2>5, <2>6, ChainAppend
  <2> QED
    BY <2>4, <2>7 DEF FeedInv
<1> QED
  BY <1>3, <1>7, <1>8

(* The collector is handed the next message.                               *)
LEMMA TakeInv ==
  ASSUME FeedInv, Take
  PROVE  FeedInv' /\ ConformingNext
<1> DEFINE m == feed[1]
           n == Len(m.entries)
           b == books[Quoted]
<1>1. /\ feed \in Seq(Message) /\ feed # <<>> /\ 1 \in DOMAIN feed /\ Head(feed) = m
      /\ m \in Message
  BY DEF Take, FeedInv, FeedTypeOK
<1>2. /\ link = "up"
      /\ \/ m.msg = "full" /\ FullRefresh(Quoted, n)
         \/ m.msg = "incremental" /\ Incremental(Quoted, n)
      /\ inbox' = m.entries
      /\ asOf' = [quotes |-> m.quotes, version |-> m.version]
      /\ UNCHANGED <<venue, link, feed, socket, heard, outages>>
  BY <1>1 DEF Take
<1>3. /\ m.msg \in {"full", "incremental"} /\ m.entries \in Seq(Entry)
      /\ m.quotes \in Quotes /\ m.version \in 0 .. MaxChanges
  BY <1>1 DEF Message
<1>4. handler.msg = "none" /\ requested' = requested
  BY <1>2 DEF FullRefresh, Incremental, Ready
<1>5. /\ venue.request = "granted" /\ Quoted \in requested /\ b # NoBook
      /\ Follows(asOf.quotes, m)
  BY <1>1, <1>2, <1>4 DEF FeedInv, Chain
<1>6. InOrder(b) /\ QuotesOf(b) \in Quotes /\ QuotesOf(b) = asOf.quotes
  BY <1>4, <1>5 DEF FeedInv, InHand
<1>7. /\ n \in 1 .. MaxEntries
      /\ m.msg = "full" => Completes(NoQuotes, m.entries, m.quotes)
      /\ m.msg = "incremental" => Tells(QuotesOf(b), m.entries, m.quotes)
  BY <1>5, <1>6 DEF Follows
<1>8. GetBook(Quoted) = b /\ Found(Quoted) = Quoted /\ Quoted \in Symbol
  BY <1>5, QuotedIs DEF GetBook, Found
<1> HIDE DEF m, n, b
<1>9. ConformingNext
  BY <1>2, <1>5, <1>7, <1>8 DEF ConformingNext
<1>10. CInv'
  BY <1>9, ConformingStepCInv, FeedAssumption DEF FeedInv
<1>11. /\ handler'.msg = m.msg /\ handler'.left = n /\ handler'.f.symbol = Quoted
       /\ handler'.cur \in {NoSymbol, Quoted}
  <2> DEFINE fields == [NoFields EXCEPT !.symbol = Quoted]
  <2>1. fields.symbol = Quoted
    BY DEF NoFields
  <2>2. n > 0
    BY <1>7, EntryAssumption
  <2>3. PICK cur \in {NoSymbol, Quoted} :
          handler' = [msg |-> m.msg, left |-> n, cur |-> cur, f |-> fields]
    BY <1>2, <1>8, <2>2 DEF FullRefresh, Incremental
  <2> HIDE DEF fields
  <2> QED
    BY <2>1, <2>3
<1>12. /\ InOrder(books'[Quoted]) /\ QuotesOf(books'[Quoted]) \in Quotes
       /\ m.msg = "full" => QuotesOf(books'[Quoted]) = NoQuotes
       /\ m.msg = "incremental" => books'[Quoted] = b
  <2>1. CASE m.msg = "full" /\ FullRefresh(Quoted, n)
    <3>1. n > 0 /\ Quoted # NoSymbol
      BY <1>7, EntryAssumption, QuotedIs
    <3>2. books \in [Symbol -> BookType \cup {NoBook}]
      BY DEF FeedInv, FeedTypeOK, TypeOK
    <3>3. books'[Quoted] = Clear(b)
      BY <1>8, <2>1, <3>1, <3>2 DEF FullRefresh, b
    <3>4. b \in BookType
      BY <1>6 DEF InOrder
    <3> QED
      BY <2>1, <3>3, <3>4, NewBookFollows, NoQuotesTyped
  <2>2. CASE m.msg = "incremental" /\ Incremental(Quoted, n)
    <3>1. books' = books
      BY <2>2 DEF Incremental
    <3> QED
      BY <1>6, <2>2, <3>1 DEF b
  <2> QED
    BY <1>2, <2>1, <2>2
<1>13. books'[Quoted] # NoBook
  BY <1>12, NoBookAssumption DEF InOrder
<1>14. asOf'.quotes = m.quotes /\ asOf'.version = m.version
  BY <1>2
<1>15. FeedTypeOK'
  <2>1. TypeOK'
    BY <1>10 DEF CInv, PInv
  <2>2. inbox' \in Seq(Entry) /\ Len(inbox') = handler'.left
    BY <1>2, <1>3, <1>11 DEF n
  <2>3. asOf' \in [quotes : Quotes, version : 0 .. MaxChanges]
    BY <1>2, <1>3
  <2> QED
    BY <1>2, <2>1, <2>2, <2>3 DEF FeedInv, FeedTypeOK
<1>16. InHand'
  <2>1. handler'.msg = "full" => Completes(QuotesOf(books'[Quoted]), inbox', asOf'.quotes)
    BY <1>2, <1>7, <1>11, <1>12, <1>14
  <2>2. handler'.msg = "incremental" => Tells(QuotesOf(books'[Quoted]), inbox', asOf'.quotes)
    BY <1>2, <1>7, <1>11, <1>12, <1>14
  <2>3. handler'.msg # "none"
    BY <1>3, <1>11
  <2> QED
    BY <1>1, <1>2, <1>11, <1>12, <1>14, <2>1, <2>2, <2>3 DEF InHand, m
<1>17. Chain'
  <2>1. handler'.msg # "none"
    BY <1>3, <1>11
  <2> QED
    BY <1>1, <1>2, <1>4, <1>5, <1>13, <2>1 DEF FeedInv, Chain
<1>18. InSequence' /\ PricesGenuine'
  BY <1>2 DEF FeedInv, InSequence, PricesGenuine, Ascending
<1> QED
  BY <1>9, <1>10, <1>15, <1>16, <1>17, <1>18 DEF FeedInv

(* An entry has been read that brings the book to the quotes r.            *)
LEMMA EntryInv ==
  ASSUME FeedInv, CInv', NEW r \in Quotes, Applied(r),
         handler.msg # "none", inbox # <<>>, inbox' = Tail(inbox),
         UNCHANGED <<venue, link, feed, asOf, socket, heard, outages, requested>>,
         handler.msg = "full" => Completes(r, Tail(inbox), asOf.quotes),
         handler.msg = "incremental" => Tells(r, Tail(inbox), asOf.quotes)
  PROVE  FeedInv'
<1>1. /\ handler'.msg = handler.msg /\ handler'.left = handler.left - 1
      /\ handler'.f.symbol = Quoted /\ handler'.cur = Quoted
      /\ InOrder(books'[Quoted]) /\ QuotesOf(books'[Quoted]) = r
  BY DEF Applied
<1>2. books'[Quoted] # NoBook
  BY <1>1, NoBookAssumption DEF InOrder
<1>3. inbox' \in Seq(Entry) /\ Len(inbox') = handler'.left
  <2>1. inbox \in Seq(Entry) /\ Len(inbox) = handler.left
    BY DEF FeedInv, FeedTypeOK
  <2>2. Tail(inbox) \in Seq(Entry) /\ Len(Tail(inbox)) = Len(inbox) - 1
    BY <2>1
  <2> QED
    BY <1>1, <2>1, <2>2
<1>4. FeedTypeOK'
  BY <1>3 DEF FeedInv, FeedTypeOK, CInv, PInv
<1>5. InHand'
  BY <1>1, <1>2 DEF FeedInv, InHand
<1>6. Chain'
  BY <1>1, <1>2 DEF FeedInv, Chain
<1>7. InSequence' /\ PricesGenuine'
  BY DEF FeedInv, InSequence, PricesGenuine, Ascending
<1> QED
  BY <1>4, <1>5, <1>6, <1>7 DEF FeedInv

(* The collector reads an entry.                                           *)
LEMMA ReadInv ==
  ASSUME Follower, FeedInv, Read
  PROVE  FeedInv' /\ ConformingNext /\ handler'.msg # "none"
<1> DEFINE b == books[Quoted]
           q == asOf.quotes
           e == Head(inbox)
<1>1. PICK t \in Time, s \in Time :
        \/ handler.msg = "full" /\ FullAdd(e, t, s)
        \/ handler.msg = "incremental" /\ ApplyUpdate(e, t, s)
  BY DEF Read
<1>2. /\ inbox # <<>> /\ inbox' = Tail(inbox)
      /\ UNCHANGED <<venue, link, feed, asOf, socket, heard, outages>>
  BY DEF Read
<1>3. /\ inbox \in Seq(Entry) /\ q \in Quotes
  BY DEF FeedInv, FeedTypeOK
<1>4. handler.msg # "none"
  BY <1>1
<1>5. /\ link = "up" /\ handler.f.symbol = Quoted /\ handler.cur \in {NoSymbol, Quoted}
  BY <1>4 DEF FeedInv, InHand
<1>6. InOrder(b) /\ QuotesOf(b) \in Quotes
  BY <1>5 DEF FeedInv, Chain, InHand
<1> HIDE DEF q, e
<1>7. CASE handler.msg = "full" /\ FullAdd(e, t, s)
  <2> DEFINE held == QuotesOf(b)
             id == e.id
             r == [held EXCEPT ![id] = q[id]]
  <2>1. Completes(held, inbox, q)
    BY <1>7 DEF FeedInv, InHand, q
  <2>2. DOMAIN held = Ids /\ held \in Quotes
    BY <1>6, QuotesOfIs
  <2> HIDE DEF held
  <2>3. /\ id \in Ids /\ q[id] \in Quote /\ held[id] = NoOrder
        /\ e = EntryOf(Absent, id, Absent, q[id])
        /\ Completes(r, Tail(inbox), q)
    BY <1>2, <1>3, <2>1, <2>2, CompletesTail DEF e
  <2> HIDE DEF id
  <2>4. Filling
    BY <1>5, <1>6, <1>7 DEF Filling, FeedInv, CInv, HandlerHasBook
  <2>5. ConformingFull(e) /\ Applied(r)
    BY <1>7, <2>3, <2>4, SnapshotApplied DEF held
  <2>6. e \in FullEntry
    BY <2>3 DEF Follower, SnapshotEntries, NoQuotes, Ids
  <2>7. ConformingNext
    BY <1>7, <2>5, <2>6 DEF ConformingNext
  <2>8. CInv'
    BY <2>7, ConformingStepCInv, FeedAssumption DEF FeedInv
  <2>9. r \in Quotes
    BY <2>2, <2>3 DEF Quotes, Ids
  <2>10. requested' = requested
    BY <1>7 DEF FullAdd, InFull
  <2> HIDE DEF r
  <2>11. FeedInv'
    BY <1>2, <1>7, <2>3, <2>5, <2>8, <2>9, <2>10, EntryInv DEF q
  <2> QED
    BY <1>4, <2>5, <2>7, <2>11 DEF Applied
<1>8. CASE handler.msg = "incremental" /\ ApplyUpdate(e, t, s)
  <2> DEFINE p == QuotesOf(b)
  <2>1. Tells(p, inbox, q)
    BY <1>8 DEF FeedInv, InHand, q
  <2>2. p \in Quotes
    BY <1>6
  <2>3. PICK c \in Happens(p) : e = c.entry /\ Tells(c.after, Tail(inbox), q)
    BY <1>2, <2>1, TellsTail DEF e
  <2>4. Updating
    BY <1>5, <1>6, <1>8 DEF Updating, FeedInv
  <2>5. ConformingUpdate(e) /\ Applied(c.after)
    BY <1>8, <2>2, <2>3, <2>4, HappensApplied
  <2>6. c.after \in Quotes /\ e \in UpdateEntry
    BY <2>2, <2>3, HappensTyped
  <2>7. ConformingNext
    BY <1>8, <2>5, <2>6 DEF ConformingNext
  <2>8. CInv'
    BY <2>7, ConformingStepCInv, FeedAssumption DEF FeedInv
  <2>9. requested' = requested
    BY <1>8 DEF ApplyUpdate, SkipEntry, RejectEntry, NewEntry, RenameEntry, ChangeEntry,
                DeleteEntry, OtherEntry, Applies, InUpdate
  <2>10. FeedInv'
    BY <1>2, <1>8, <2>3, <2>5, <2>6, <2>8, <2>9, EntryInv DEF q
  <2> QED
    BY <1>4, <2>5, <2>7, <2>10 DEF Applied
<1> QED
  BY <1>1, <1>7, <1>8

(* A message is done with: its BBO goes to whoever is there.               *)
LEMMA PublishInv ==
  ASSUME FeedInv, Publish
  PROVE  /\ FeedInv' /\ ConformingNext
         /\ ~socket'.missed =>
              /\ socket'.queue # <<>>
              /\ socket'.queue[Len(socket'.queue)].bbo = VenueBBO(asOf.quotes)
<1> DEFINE b == books[Quoted]
           q == asOf.quotes
           queue == socket.queue
           reaches == IsPublishing /\ socket.bound /\ socket.joined
           message == [bbo |-> published'[Quoted], quotes |-> q, version |-> asOf.version]
<1>1. /\ FullDone \/ IncrementalDone
      /\ socket' = [socket EXCEPT !.queue = IF reaches THEN Append(queue, message) ELSE queue,
                                  !.missed = ~reaches]
      /\ feed' = Tail(feed)
      /\ UNCHANGED <<venue, link, inbox, asOf, heard, outages>>
  <2>1. socket \in SocketType
    BY DEF FeedInv, FeedTypeOK, SocketType, Update
  <2> QED
    BY <2>1 DEF Publish, BroadcastBBOBook, SocketType
<1>2. /\ handler.msg \in {"full", "incremental"} /\ handler.left = 0
      /\ handler' = NoMessage /\ handler'.msg = "none" /\ handler'.left = 0
      /\ books' = books /\ requested' = requested
  BY <1>1 DEF FullDone, IncrementalDone, NoMessage
<1>3. ConformingNext
  BY <1>1 DEF ConformingNext
<1>4. CInv'
  BY <1>3, ConformingStepCInv, FeedAssumption DEF FeedInv
<1>5. /\ link = "up" /\ feed # <<>>
      /\ q = feed[1].quotes /\ asOf.version = feed[1].version
      /\ handler.f.symbol = Quoted /\ handler.cur \in {NoSymbol, Quoted}
  BY <1>2 DEF FeedInv, InHand
<1>6. /\ inbox \in Seq(Entry) /\ feed \in Seq(Message) /\ socket \in SocketType
      /\ q \in Quotes /\ asOf.version \in 0 .. MaxChanges
      /\ Len(inbox) = 0
  BY <1>2 DEF FeedInv, FeedTypeOK, SocketType, Update
<1>7. inbox = <<>>
  BY <1>6
<1>8. b # NoBook /\ InOrder(b)
  BY <1>5 DEF FeedInv, Chain, InHand
<1>9. QuotesOf(b) = q
  <2>1. CASE handler.msg = "full"
    <3>1. Completes(QuotesOf(b), <<>>, q)
      BY <1>7, <2>1 DEF FeedInv, InHand
    <3> QED
      BY <1>6, <3>1, CompletesDone
  <2>2. CASE handler.msg = "incremental"
    <3>1. Tells(QuotesOf(b), <<>>, q)
      BY <1>7, <2>2 DEF FeedInv, InHand
    <3> QED
      BY <3>1, TellsDone
  <2> QED
    BY <1>2, <2>1, <2>2
<1>10. handler.cur = Quoted
  BY <1>2, <1>5 DEF FeedInv, CInv, HandlerHasBook
<1>11. IsPublishing => published'[Quoted] = VenueBBO(q) /\ VenueBBO(q) \in BBOType
  <2>1. published \in [Symbol -> BBOType \cup {NoBBO}]
    BY DEF FeedInv, FeedTypeOK, TypeOK
  <2>2. IsPublishing => published'[Quoted] = BBO(b)
    BY <1>1, <1>5, <1>10, <2>1, QuotedIs DEF FullDone, IncrementalDone
  <2>3. BBO(b) \in BBOType
    BY <1>8, BBOTyped DEF InOrder
  <2>4. BBO(b) = VenueBBO(q)
    BY <1>8, <1>9, BBOFollows
  <2> QED
    BY <2>2, <2>3, <2>4
<1>12. IsPublishing => message \in Update
  BY <1>6, <1>11 DEF Update
<1>13. /\ message.bbo = published'[Quoted] /\ message.quotes = q
       /\ message.version = asOf.version
  OBVIOUS
<1> HIDE DEF b, q, message
<1>14. queue \in Seq(Update) /\ (~reaches) \in BOOLEAN
  BY <1>6 DEF SocketType
<1>15. /\ socket' \in SocketType
       /\ \/ socket'.queue = queue /\ socket'.missed
          \/ IsPublishing /\ socket'.queue = Append(queue, message)
  <2>1. CASE reaches
    <3>1. Append(queue, message) \in Seq(Update)
      BY <1>12, <1>14, <2>1
    <3>2. socket' = [socket EXCEPT !.queue = Append(queue, message), !.missed = ~reaches]
      BY <1>1, <2>1
    <3> QED
      BY <1>6, <1>14, <2>1, <3>1, <3>2 DEF SocketType
  <2>2. CASE ~reaches
    <3>1. socket' = [socket EXCEPT !.queue = queue, !.missed = ~reaches]
      BY <1>1, <2>2
    <3> HIDE DEF reaches
    <3>2. socket' = [socket EXCEPT !.queue = queue, !.missed = TRUE]
      BY <2>2, <3>1
    <3>3. socket'.queue = queue /\ socket'.missed = TRUE
      BY <1>6, <3>2 DEF SocketType
    <3>4. socket' \in SocketType
      BY <1>6, <3>2 DEF SocketType
    <3> QED
      BY <3>3, <3>4
  <2> QED
    BY <2>1, <2>2
<1>16. FeedTypeOK'
  <2>1. TypeOK'
    BY <1>4 DEF CInv, PInv
  <2>2. Tail(feed) \in Seq(Message)
    BY <1>5, <1>6
  <2> QED
    BY <1>1, <1>2, <1>6, <1>15, <2>1, <2>2 DEF FeedInv, FeedTypeOK, SocketType, Update
<1>17. InHand'
  BY <1>1, <1>2, <1>9 DEF FeedInv, InHand, b, q
<1> DEFINE n == Len(feed)
<1>18. /\ n \in Nat /\ n >= 1 /\ Len(Tail(feed)) = n - 1
       /\ \A k \in 1 .. n - 1 : Tail(feed)[k] = feed[k + 1]
       /\ Tail(feed) = <<>> <=> n = 1
  <2>1. feed \in Seq(Message) /\ feed # <<>>
    BY <1>5, <1>6
  <2>2. /\ n \in Nat /\ n >= 1 /\ Len(Tail(feed)) = n - 1 /\ Tail(feed) \in Seq(Message)
        /\ \A k \in 1 .. n - 1 : Tail(feed)[k] = feed[k + 1]
    BY <2>1
  <2> DEFINE rest == Tail(feed)
  <2>3. rest = <<>> <=> Len(rest) = 0
    <3>1. rest \in Seq(Message)
      BY <2>2
    <3> HIDE DEF rest
    <3> QED
      BY <3>1
  <2> QED
    BY <2>2, <2>3
<1>19. Chain'
  <2>1. ASSUME venue.request = "granted"
        PROVE  /\ \A k \in 2 .. n : Follows(feed[k - 1].quotes, feed[k])
               /\ venue.quotes = feed[n].quotes
    BY <1>5, <2>1 DEF FeedInv, Chain
  <2>2. venue.request = "granted"
    BY <1>5 DEF FeedInv, Chain
  <2>3. ASSUME NEW k \in 2 .. n - 1
        PROVE  Follows(Tail(feed)[k - 1].quotes, Tail(feed)[k])
    <3>1. /\ k \in 1 .. n - 1 /\ k - 1 \in 1 .. n - 1 /\ k + 1 \in 2 .. n
          /\ (k - 1) + 1 = k /\ (k + 1) - 1 = k
      BY <1>18
    <3> QED
      BY <1>18, <2>1, <2>2, <3>1
  <2>4. Tail(feed) # <<>> => Follows(q, Tail(feed)[1])
    <3> SUFFICES ASSUME Tail(feed) # <<>>
                 PROVE  Follows(q, Tail(feed)[1])
      OBVIOUS
    <3>1. 1 \in 1 .. n - 1 /\ 2 \in 2 .. n /\ 2 - 1 = 1 /\ 1 + 1 = 2
      BY <1>18
    <3>2. Tail(feed)[1] = feed[2]
      BY <1>18, <3>1
    <3>3. Follows(feed[1].quotes, feed[2])
      BY <2>1, <2>2, <3>1
    <3> QED
      BY <1>5, <3>2, <3>3
  <2>5. venue.quotes = IF Tail(feed) = <<>> THEN q ELSE Tail(feed)[Len(Tail(feed))].quotes
    <3>1. CASE n = 1
      BY <1>5, <1>18, <2>1, <2>2, <3>1
    <3>2. CASE n # 1
      <4>1. n - 1 \in 1 .. n - 1 /\ (n - 1) + 1 = n
        BY <1>18, <3>2
      <4>2. Tail(feed)[n - 1] = feed[n]
        BY <1>18, <4>1
      <4> QED
        BY <1>18, <2>1, <2>2, <3>2, <4>2
    <3> QED
      BY <3>1, <3>2
  <2>6. Quoted \in requested /\ books[Quoted] # NoBook
    BY <1>8, <1>5 DEF FeedInv, Chain
  <2> HIDE DEF n
  <2> QED
    BY <1>1, <1>2, <1>18, <2>2, <2>3, <2>4, <2>5, <2>6 DEF Chain, q
<1>20. /\ Ascending(queue) /\ heard.version <= venue.version
       /\ \A k \in DOMAIN queue : /\ heard.version <= queue[k].version
                                  /\ queue[k].version <= venue.version
                                  /\ queue[k].bbo = VenueBBO(queue[k].quotes)
       /\ Ascending(feed)
       /\ \A l \in DOMAIN feed :
            /\ heard.version <= feed[l].version /\ feed[l].version <= venue.version
            /\ \A k \in DOMAIN queue : queue[k].version <= feed[l].version
  BY <1>5 DEF FeedInv, InSequence, PricesGenuine
<1>21. /\ 1 \in DOMAIN feed /\ message.version = feed[1].version
       /\ message.version \in Int
  BY <1>5, <1>6, <1>13, <1>18
<1>22. /\ Ascending(Tail(feed))
       /\ \A k \in DOMAIN Tail(feed) : /\ k + 1 \in DOMAIN feed
                                       /\ Tail(feed)[k] = feed[k + 1]
                                       /\ message.version <= Tail(feed)[k].version
  BY <1>5, <1>6, <1>20, <1>21, AscendingTail
<1>23. /\ heard.version <= message.version /\ message.version <= venue.version
       /\ \A k \in DOMAIN queue : queue[k].version <= message.version
  BY <1>20, <1>21
<1>24. ASSUME NEW k \in DOMAIN (socket'.queue)
       PROVE  \/ k \in DOMAIN queue /\ socket'.queue[k] = queue[k]
              \/ IsPublishing /\ socket'.queue[k] = message
  BY <1>14, <1>15, <1>24
<1>25. Ascending(socket'.queue)
  BY <1>14, <1>15, <1>20, <1>21, <1>23, AscendingAppend
<1>26. \A k \in DOMAIN (socket'.queue) :
         /\ heard.version <= socket'.queue[k].version
         /\ socket'.queue[k].version <= venue.version
         /\ socket'.queue[k].bbo = VenueBBO(socket'.queue[k].quotes)
         /\ \A l \in DOMAIN Tail(feed) : socket'.queue[k].version <= Tail(feed)[l].version
  BY <1>11, <1>13, <1>20, <1>22, <1>23, <1>24
<1>27. InSequence' /\ PricesGenuine'
  BY <1>1, <1>20, <1>22, <1>25, <1>26 DEF InSequence, PricesGenuine, Ascending
<1>28. ASSUME ~socket'.missed
       PROVE  /\ socket'.queue # <<>>
              /\ socket'.queue[Len(socket'.queue)].bbo = VenueBBO(asOf.quotes)
  <2>1. IsPublishing /\ socket'.queue = Append(queue, message)
    BY <1>15, <1>28
  <2>2. /\ Append(queue, message) # <<>>
        /\ Append(queue, message)[Len(Append(queue, message))] = message
    BY <1>14
  <2> QED
    BY <1>11, <1>13, <2>1, <2>2 DEF q
<1> QED
  BY <1>3, <1>4, <1>16, <1>17, <1>19, <1>27, <1>28 DEF FeedInv

-----------------------------------------------------------------------------
(* Every step preserves the invariant, and what the collector is made to   *)
(* do keeps to the protocol.                                               *)
LEMMA FeedStep ==
  ASSUME Follower, FeedInv, [FeedNext]_feedVars
  PROVE  FeedInv' /\ [Restart \/ ConformingNext]_vars
<1>1. CASE LogOn
  BY <1>1, LogOnInv
<1>2. CASE Grant
  BY <1>2, GrantInv DEF Grant
<1>3. CASE Reject
  BY <1>3, RejectInv DEF Reject
<1>4. CASE Change
  BY <1>4, ChangeInv DEF Change
<1>5. CASE Break
  BY <1>5, BreakInv DEF Break
<1>6. CASE Restart
  BY <1>6, RestartInv
<1>7. CASE Take
  BY <1>7, TakeInv
<1>8. CASE Read
  BY <1>8, ReadInv
<1>9. CASE Publish
  BY <1>9, PublishInv
<1>10. CASE Join \/ Leave \/ Hear
  BY <1>10, SubscriberInv DEF Join, Leave, Hear
<1>11. CASE UNCHANGED feedVars
  <2>1. UNCHANGED <<vars, venue, link, feed, inbox, asOf, socket, heard, outages>>
    BY <1>11 DEF feedVars
  <2>2. CInv'
    BY <2>1, ConformingStepCInv, FeedAssumption DEF FeedInv
  <2>3. FeedTypeOK'
    BY <2>1, <2>2 DEF FeedInv, FeedTypeOK, CInv, PInv, vars
  <2>4. InHand' /\ Chain' /\ InSequence' /\ PricesGenuine'
    BY <2>1 DEF FeedInv, InHand, Chain, InSequence, PricesGenuine, Ascending, vars
  <2> QED
    BY <2>1, <2>2, <2>3, <2>4 DEF FeedInv
<1> QED
  BY <1>1, <1>2, <1>3, <1>4, <1>5, <1>6, <1>7, <1>8, <1>9, <1>10, <1>11 DEF FeedNext

(* The inductive invariant holds.                                          *)
THEOREM FeedIndInvariant ==
  ASSUME Follower
  PROVE  FeedSpec => []FeedInv
<1>1. FeedInit => FeedInv
  BY FeedInitInv
<1>2. FeedInv /\ [FeedNext]_feedVars => FeedInv'
  BY FeedStep
<1> QED
  BY <1>1, <1>2, PTL DEF FeedSpec

(* The state of venue, connection, collector and subscriber has its type.  *)
THEOREM FeedTypeCorrect ==
  ASSUME Follower
  PROVE  FeedSpec => []FeedTypeOK
<1>1. FeedInv => FeedTypeOK
  BY DEF FeedInv
<1> QED
  BY <1>1, FeedIndInvariant, PTL

(* What reaches the collector keeps to the protocol, over breaks, logons   *)
(* and restarts in the middle of a message.                                *)
THEOREM FeedAlwaysConforms ==
  ASSUME Follower
  PROVE  FeedSpec => FeedConforms
<1>1. FeedInv /\ [FeedNext]_feedVars => [Restart \/ ConformingNext]_vars
  BY FeedStep
<1> QED
  BY <1>1, FeedIndInvariant, PTL DEF FeedSpec, FeedConforms

(* So nothing the venue sends stops the collector, as long as it was given *)
(* a socket to publish on.                                                 *)
THEOREM FeedStaysUp ==
  ASSUME Follower, IsPublishing
  PROVE  FeedSpec => []StaysUp
<1>1. FeedInv => StaysUp
  BY DEF FeedInv, CInv
<1> QED
  BY <1>1, FeedIndInvariant, PTL

(* Between messages the collector's book is the venue's as last told.      *)
THEOREM BookAlwaysFollows ==
  ASSUME Follower
  PROVE  FeedSpec => []BookFollowsVenue
<1>1. FeedInv => BookFollowsVenue
  BY DEF FeedInv, InHand, BookFollowsVenue, Ready
<1> QED
  BY <1>1, FeedIndInvariant, PTL

(* A subscriber hears the venue's prices, and none older than the last.    *)
THEOREM AlwaysHearsVenuePrices ==
  ASSUME Follower
  PROVE  FeedSpec => HearsVenuePrices
<1> DEFINE Hears == Hear => /\ heard'.bbo = VenueBBO(Head(socket.queue).quotes)
                            /\ heard'.version >= heard.version
<1>1. ASSUME FeedInv, Hear
      PROVE  /\ heard'.bbo = VenueBBO(Head(socket.queue).quotes)
             /\ heard'.version >= heard.version
  <2>1. socket.queue \in Seq(Update) /\ socket.queue # <<>>
    BY <1>1 DEF Hear, FeedInv, FeedTypeOK, Update
  <2>2. 1 \in DOMAIN socket.queue /\ Head(socket.queue) = socket.queue[1]
    BY <2>1
  <2>3. /\ heard'.bbo = socket.queue[1].bbo
        /\ heard'.version = socket.queue[1].version
    BY <1>1, <2>2 DEF Hear
  <2>4. /\ socket.queue[1].bbo = VenueBBO(socket.queue[1].quotes)
        /\ heard.version <= socket.queue[1].version
    BY <1>1, <2>2 DEF FeedInv, PricesGenuine, InSequence
  <2>5. heard.version \in Int /\ socket.queue[1].version \in Int
    <3>1. socket.queue[1] \in Update
      BY <2>1, <2>2
    <3>2. heard.version \in 0 .. MaxChanges
      BY <1>1 DEF FeedInv, FeedTypeOK
    <3> QED
      BY <3>1, <3>2 DEF Update
  <2> QED
    BY <2>2, <2>3, <2>4, <2>5
<1>2. FeedInv => [Hears]_feedVars
  BY <1>1
<1> QED
  BY <1>2, FeedIndInvariant, PTL DEF HearsVenuePrices

-----------------------------------------------------------------------------
(* What is left of SubscriberCatchesUp when fairness is taken away: with   *)
(* nothing under way, a subscriber without an excuse has the venue's       *)
(* prices.                                                                 *)
Settled ==
  feed = <<>> /\ socket.queue = <<>> => Excused \/ heard.bbo = VenueBBO(venue.quotes)

(* A subscriber that comes or goes misses what is on its way, or nothing.  *)
LEMMA SubscriberMisses ==
  ASSUME FeedInv, NothingMissed, Join \/ Leave \/ Hear
  PROVE  NothingMissed'
<1> DEFINE queue == socket.queue
<1>1. UNCHANGED <<handler, asOf>>
  BY DEF Join, Leave, Hear, vars
<1>2. socket \in SocketType /\ queue \in Seq(Update)
  BY DEF FeedInv, FeedTypeOK, SocketType, Update
<1>3. CASE Join
  <2>1. socket'.missed = socket.missed /\ socket'.queue = queue /\ heard' = heard
    BY <1>2, <1>3 DEF Join, SocketType
  <2> QED
    BY <1>1, <2>1 DEF NothingMissed, LastTold
<1>4. CASE Leave
  <2>1. /\ socket'.missed = (socket.missed \/ queue # <<>>)
        /\ socket'.queue = <<>> /\ heard' = heard
    BY <1>2, <1>4 DEF Leave, SocketType
  <2> QED
    BY <1>1, <2>1 DEF NothingMissed, LastTold
<1>5. CASE Hear
  <2>1. queue # <<>> /\ Head(queue) = queue[1]
    BY <1>2, <1>5 DEF Hear
  <2>2. /\ socket'.missed = socket.missed /\ socket'.queue = Tail(queue)
        /\ heard'.bbo = queue[1].bbo
    BY <1>2, <1>5, <2>1 DEF Hear, SocketType
  <2> DEFINE n == Len(queue)
             rest == Tail(queue)
  <2>3. /\ n \in Nat /\ n >= 1 /\ Len(rest) = n - 1
        /\ \A k \in 1 .. n - 1 : rest[k] = queue[k + 1]
    BY <1>2, <2>1
  <2>4. rest \in Seq(Update)
    BY <1>2, <2>1
  <2> HIDE DEF rest
  <2>5. rest = <<>> <=> Len(rest) = 0
    BY <2>4
  <2> HIDE DEF n
  <2>6. rest = <<>> <=> n = 1
    BY <2>3, <2>5
  <2>7. ASSUME rest # <<>>
        PROVE  rest[Len(rest)] = queue[n]
    <3>1. n - 1 \in 1 .. n - 1 /\ (n - 1) + 1 = n
      BY <2>3, <2>6, <2>7
    <3> QED
      BY <2>3, <3>1
  <2>8. LastTold' = LastTold
    <3>1. LastTold = queue[n].bbo
      BY <2>1 DEF LastTold, n
    <3>2. LastTold' = IF rest = <<>> THEN queue[1].bbo ELSE rest[Len(rest)].bbo
      BY <2>2 DEF LastTold, rest
    <3> QED
      BY <2>6, <2>7, <3>1, <3>2
  <2> QED
    BY <1>1, <2>2, <2>8 DEF NothingMissed
<1> QED
  BY <1>3, <1>4, <1>5

LEMMA MissesStep ==
  ASSUME Follower, FeedInv, NothingMissed, [FeedNext]_feedVars
  PROVE  NothingMissed'
<1>1. CASE LogOn \/ Restart
  BY <1>1 DEF LogOn, Restart, NothingMissed
<1>2. CASE Grant \/ Reject \/ Change \/ Break \/ UNCHANGED feedVars
  BY <1>2 DEF Grant, Reject, Change, Break, feedVars, vars, NothingMissed, LastTold
<1>3. CASE Take
  <2>1. handler'.msg # "none"
    BY <1>3 DEF Take, FullRefresh, Incremental
  <2> QED
    BY <2>1 DEF NothingMissed
<1>4. CASE Read
  BY <1>4, ReadInv DEF NothingMissed
<1>5. CASE Publish
  <2>1. asOf' = asOf /\ heard' = heard
    BY <1>5 DEF Publish
  <2> QED
    BY <1>5, <2>1, PublishInv DEF NothingMissed, LastTold
<1>6. CASE Join \/ Leave \/ Hear
  BY <1>6, SubscriberMisses
<1> QED
  BY <1>1, <1>2, <1>3, <1>4, <1>5, <1>6 DEF FeedNext

(* With nothing under way nobody without an excuse is behind.              *)
THEOREM SettledIsCurrent ==
  ASSUME Follower
  PROVE  FeedSpec => []Settled
<1>1. FeedInit => NothingMissed
  BY DEF FeedInit, NothingMissed
<1>2. FeedInv /\ NothingMissed /\ [FeedNext]_feedVars => NothingMissed'
  BY MissesStep
<1>3. FeedInv /\ NothingMissed => Settled
  <2> SUFFICES ASSUME FeedInv, NothingMissed, feed = <<>>, socket.queue = <<>>, ~Excused
               PROVE  heard.bbo = VenueBBO(venue.quotes)
    BY DEF Settled
  <2>1. link # "down" /\ venue.request = "granted" /\ asOf # Nothing /\ ~socket.missed
    BY DEF Excused
  <2>2. link = "up"
    BY <2>1 DEF FeedInv, FeedTypeOK
  <2>3. handler.msg = "none" /\ venue.quotes = asOf.quotes
    BY <2>1, <2>2 DEF FeedInv, InHand, Chain
  <2> QED
    BY <2>1, <2>3 DEF NothingMissed, LastTold
<1> QED
  BY <1>1, <1>2, <1>3, FeedIndInvariant, PTL DEF FeedSpec

=============================================================================
