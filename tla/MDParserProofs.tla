--------------------------- MODULE MDParserProofs ---------------------------
(***************************************************************************)
(* Theorems about MDParser, for every value of the constants: for any      *)
(* number of symbols, messages of any length, and any entries.             *)
(***************************************************************************)
EXTENDS SnapshotHistory, BookProofs

(* The book a handler works on is there: no logon runs while a message is  *)
(* handled.                                                                *)
CurrentIsThere == handler.cur # NoSymbol => books[handler.cur] # NoBook

(* The inductive invariant.  That no assertion of a book fails follows     *)
(* from the soundness of the books, and that a BBO has its type from the   *)
(* book's being there.                                                     *)
PInv == /\ TypeOK
        /\ BooksSound
        /\ BookAssertionsHold
        /\ CurrentIsThere

-----------------------------------------------------------------------------
(* Lemmas about the helpers.                                               *)

(* Reading an entry leaves the handler's variables well typed: what is     *)
(* omitted keeps its value.                                                *)
LEMMA ReadTypes ==
  ASSUME NEW f \in Fields, NEW e \in Entry
  PROVE  ReadFull(f, e) \in Fields /\ ReadUpdate(f, e) \in Fields
<1>1. /\ Keep(e.action, f.action) \in Action \cup {Absent}
      /\ Keep(e.type, f.type) \in EntryType \cup {Absent}
      /\ Keep(e.id, f.id) \in OrderId /\ Keep(e.quoteId, f.quoteId) \in OrderId
      /\ Keep(e.symbol, f.symbol) \in Symbol \cup {NoSymbol}
      /\ Keep(e.px, f.px) \in Price \cup {Absent}
      /\ Keep(e.size, f.size) \in Size \cup {Absent}
      /\ Keep(e.size, 0) \in Size \cup {Absent}
  BY FieldAssumption DEF Fields, Entry, Keep
<1>2. ReadFull(f, e) \in Fields
  BY <1>1 DEF ReadFull, Fields
<1>3. ReadUpdate(f, e) \in Fields
  BY <1>1 DEF ReadUpdate, Fields
<1> QED
  BY <1>2, <1>3

(* The BBO of a typed book has its type.                                   *)
LEMMA BBOTyped ==
  ASSUME NEW b \in BookType
  PROVE  BBO(b) \in BBOType
<1>1. ASSUME NEW side \in BookSide
      PROVE  BestPriceVolume(b, side) \in 0 .. VolumeMod - 1
  <2> DEFINE price == BestPrice(b, side)
  <2>1. CASE price \in Prices(b, side)
    <3>1. price \in Price /\ b.tree[side][price] # NoLevel
      BY <2>1 DEF Prices
    <3> HIDE DEF price
    <3>2. b.tree[side][price] \in LevelType
      BY <3>1 DEF BookType
    <3> QED
      BY <2>1, <3>2 DEF price, BestPriceVolume, TotalVolumeAtLimit, LevelType
  <2>2. CASE price \notin Prices(b, side)
    BY <2>2, VolumeAssumption DEF BestPriceVolume, TotalVolumeAtLimit
  <2> QED
    BY <2>1, <2>2
<1>2. BID \in BookSide /\ ASK \in BookSide /\ BID # ASK
  BY DEF BookSide, BID, ASK
<1>3. \A side \in BookSide :
        BestPrice(b, side) \in Price \cup {IF side = BID THEN NoBid ELSE NoAsk}
  <2> SUFFICES ASSUME NEW side \in BookSide
               PROVE  BestPrice(b, side) \in
                        Price \cup {IF side = BID THEN NoBid ELSE NoAsk}
    OBVIOUS
  <2>1. Prices(b, side) \subseteq Price
    BY DEF Prices
  <2> QED
    BY <2>1, BestPriceIsBest
<1>4. /\ BestPrice(b, BID) \in Price \cup {NoBid}
      /\ BestPrice(b, ASK) \in Price \cup {NoAsk}
  BY <1>2, <1>3
<1>5. /\ BestPriceVolume(b, BID) \in 0 .. VolumeMod - 1
      /\ BestPriceVolume(b, ASK) \in 0 .. VolumeMod - 1
  BY <1>1, <1>2
<1> QED
  BY <1>4, <1>5 DEF BBO, BBOType

(* An addition of any side keeps a book sound: of no side, it adds nothing.*)
LEMMA AddAnySound ==
  ASSUME NEW b \in BookType, Sound(b), NEW id \in OrderId, NEW type,
         NEW size \in Size, NEW price \in Price, NEW t \in Time, NEW s \in Time
  PROVE  /\ Add(b, id, Char2Side(type), size, price, t, s) \in BookType
         /\ Sound(Add(b, id, Char2Side(type), size, price, t, s))
<1>1. CASE Char2Side(type) \in BookSide
  BY <1>1, AddSound
<1>2. CASE Char2Side(type) \notin BookSide
  BY <1>2, SentSound DEF Add
<1> QED
  BY <1>1, <1>2

(* A symbol whose book is found is a symbol, and its book is sound.        *)
LEMMA FoundBook ==
  ASSUME TypeOK, BooksSound, NEW symbol, GetBook(symbol) # NoBook
  PROVE  /\ symbol \in Symbol /\ symbol # NoSymbol
         /\ GetBook(symbol) = books[symbol]
         /\ books[symbol] \in BookType /\ Sound(books[symbol])
BY SymbolAssumption DEF GetBook, TypeOK, BooksSound

(* Storing a sound book keeps the books sound, and no book disappears.     *)
LEMMA SetBookKeeps ==
  ASSUME PInv, NEW symbol \in Symbol, NEW b \in BookType, Sound(b),
         books' = [books EXCEPT ![symbol] = b]
  PROVE  /\ books' \in [Symbol -> BookType \cup {NoBook}]
         /\ BooksSound'
         /\ \A x \in Symbol : books[x] # NoBook => books'[x] # NoBook
BY NoBookAssumption DEF PInv, TypeOK, BooksSound

(* No book disappears.                                                     *)
BooksStay == \A x \in Symbol : books[x] # NoBook => books'[x] # NoBook

-----------------------------------------------------------------------------
(* One lemma per handler.                                                  *)

(* Before the first logon there are no books and no message.               *)
LEMMA InitPInv == Init => PInv
BY SymbolAssumption, EntryAssumption, FieldAssumption
   DEF Init, PInv, TypeOK, BooksSound, BookAssertionsHold, CurrentIsThere,
       NoMessage, NoFields, Fields

(* New books are sound, and no message is being handled.                   *)
LEMMA OnLogonPInv ==
  ASSUME PInv, OnLogon
  PROVE  PInv'
<1>1. /\ books' \in [Symbol -> BookType \cup {NoBook}]
      /\ BooksSound'
  BY NewBookSound DEF PInv, TypeOK, BooksSound, OnLogon
<1>2. requested' \subseteq Symbol
  BY SymbolAssumption DEF OnLogon, Requested
<1>3. handler' = handler /\ published' = published /\ status' = status
  BY DEF OnLogon
<1>4. handler.cur # NoSymbol => books'[handler.cur] # NoBook
  BY NewBookSound, NoBookAssumption DEF PInv, TypeOK, CurrentIsThere, OnLogon
<1> QED
  BY <1>1, <1>2, <1>3, <1>4 DEF PInv, TypeOK, BookAssertionsHold, CurrentIsThere

(* A message starts with no fields and the book of its symbol, if any.     *)
LEMMA StartPInv ==
  ASSUME PInv, NEW symbol \in Symbol \cup {NoSymbol}, NEW n \in 0 .. MaxEntries,
         FullRefresh(symbol, n) \/ Incremental(symbol, n)
  PROVE  PInv'
<1> DEFINE f0 == [NoFields EXCEPT !.symbol = symbol]
<1>1. f0 \in Fields
  BY FieldAssumption DEF NoFields, Fields
<1> HIDE DEF f0
<1>2. CASE FullRefresh(symbol, n)
  <2> DEFINE cur == IF n > 0 THEN Found(symbol) ELSE NoSymbol
  <2>1. cur \in Symbol \cup {NoSymbol}
    BY DEF Found
  <2>2. cur # NoSymbol =>
          cur \in Symbol /\ books[cur] \in BookType /\ Sound(books[cur])
    BY FoundBook DEF Found, PInv
  <2>3. /\ handler' = [msg |-> "full", left |-> n, cur |-> cur, f |-> f0]
        /\ books' = IF cur = NoSymbol THEN books
                    ELSE [books EXCEPT ![cur] = Clear(@)]
        /\ UNCHANGED <<requested, published, status>>
    BY <1>2 DEF FullRefresh, f0
  <2> HIDE DEF cur
  <2>4. /\ books' \in [Symbol -> BookType \cup {NoBook}] /\ BooksSound'
        /\ \A x \in Symbol : books[x] # NoBook => books'[x] # NoBook
    <3>1. CASE cur = NoSymbol
      BY <3>1, <2>3 DEF PInv, TypeOK, BooksSound
    <3>2. CASE cur # NoSymbol
      <4>1. Clear(books[cur]) \in BookType /\ Sound(Clear(books[cur]))
        BY <3>2, <2>2, ClearSound
      <4>2. books' = [books EXCEPT ![cur] = Clear(books[cur])]
        BY <3>2, <2>2, <2>3 DEF PInv, TypeOK
      <4> QED
        BY <3>2, <2>2, <4>1, <4>2, SetBookKeeps
    <3> QED
      BY <3>1, <3>2
  <2>5. handler' \in [msg : {"none", "full", "incremental"}, left : 0 .. MaxEntries,
                      f : Fields, cur : Symbol \cup {NoSymbol}]
    BY <1>1, <2>1, <2>3
  <2>6. handler'.cur = cur
    BY <2>3
  <2>7. cur # NoSymbol => books[cur] # NoBook
    BY <2>2, NoBookAssumption
  <2>8. requested' = requested /\ published' = published /\ status' = status
    BY <2>3
  <2> QED
    BY <2>2, <2>4, <2>5, <2>6, <2>7, <2>8
       DEF PInv, TypeOK, BookAssertionsHold, CurrentIsThere
<1>3. CASE Incremental(symbol, n)
  <2>1. /\ handler' = [msg |-> "incremental", left |-> n, cur |-> NoSymbol, f |-> f0]
        /\ UNCHANGED <<books, requested, published, status>>
    BY <1>3 DEF Incremental, f0
  <2>2. /\ handler' \in [msg : {"none", "full", "incremental"}, left : 0 .. MaxEntries,
                         f : Fields, cur : Symbol \cup {NoSymbol}]
        /\ handler'.cur = NoSymbol
    BY <1>1, <2>1
  <2> QED
    BY <2>1, <2>2 DEF PInv, TypeOK, BooksSound, BookAssertionsHold, CurrentIsThere
<1> QED
  BY <1>2, <1>3

(* However a message ends before its last entry, only the handler changes. *)
LEMMA AbandonPInv ==
  ASSUME PInv, handler' = NoMessage, UNCHANGED <<books, requested, published, status>>
  PROVE  PInv' /\ BooksStay
<1>1. /\ NoMessage \in [msg : {"none", "full", "incremental"}, left : 0 .. MaxEntries,
                        f : Fields, cur : Symbol \cup {NoSymbol}]
      /\ NoMessage.cur = NoSymbol
  BY EntryAssumption, FieldAssumption DEF NoMessage, NoFields, Fields
<1> QED
  BY <1>1 DEF PInv, TypeOK, BooksSound, BookAssertionsHold, CurrentIsThere, BooksStay

(* A step of a loop that works on a book and is still counting down.       *)
LEMMA FullAddPInv ==
  ASSUME PInv, NEW e \in FullEntry, NEW t \in Time, NEW s \in Time, FullAdd(e, t, s)
  PROVE  PInv'
<1> DEFINE f == ReadFull(handler.f, e)
<1>1. f \in Fields
  BY ReadTypes, EntryAssumption DEF PInv, TypeOK
<1>2. /\ Absent \notin {f.type, f.px, f.size} /\ handler.left > 0
      /\ handler' = [handler EXCEPT !.left = @ - 1, !.f = f]
      /\ UNCHANGED <<requested, published>>
  BY DEF FullAdd, InFull
<1>3. /\ handler' \in [msg : {"none", "full", "incremental"}, left : 0 .. MaxEntries,
                       f : Fields, cur : Symbol \cup {NoSymbol}]
      /\ handler'.cur = handler.cur
  <2>1. handler.left - 1 \in 0 .. MaxEntries
    BY <1>2, EntryAssumption DEF PInv, TypeOK
  <2> HIDE DEF f
  <2> QED
    BY <1>1, <1>2, <2>1 DEF PInv, TypeOK
<1>4. CASE handler.cur = NoSymbol
  <2>1. status' = "nullBook" /\ books' = books
    BY <1>4 DEF FullAdd
  <2> QED
    BY <1>2, <1>3, <1>4, <2>1
       DEF PInv, TypeOK, BooksSound, BookAssertionsHold, CurrentIsThere
<1>5. CASE handler.cur # NoSymbol
  <2> DEFINE b == books[handler.cur]
             a == Add(b, FullId(f), Char2Side(f.type), Truncate(f.size), f.px, t, s)
  <2>1. handler.cur \in Symbol /\ b \in BookType /\ Sound(b)
    BY <1>5 DEF PInv, TypeOK, CurrentIsThere, BooksSound
  <2>2. FullId(f) \in OrderId /\ f.size \in Size /\ f.px \in Price
    BY <1>1, <1>2 DEF FullId, Fields
  <2>3. Truncate(f.size) \in Size
    BY <2>2, FieldAssumption
  <2>4. books' = [books EXCEPT ![handler.cur] = a] /\ status' = status
    BY <1>5, <2>1 DEF FullAdd, PInv, TypeOK
  <2> HIDE DEF f
  <2>5. a \in BookType /\ Sound(a)
    BY <2>1, <2>2, <2>3, AddAnySound
  <2> HIDE DEF a
  <2>6. /\ books' \in [Symbol -> BookType \cup {NoBook}] /\ BooksSound'
        /\ \A x \in Symbol : books[x] # NoBook => books'[x] # NoBook
    BY <2>1, <2>4, <2>5, SetBookKeeps
  <2> QED
    BY <1>2, <1>3, <2>1, <2>4, <2>6
       DEF PInv, TypeOK, BookAssertionsHold, CurrentIsThere
<1> QED
  BY <1>4, <1>5

(* At the end of a message a BBO is published, or nothing is.              *)
LEMMA DonePInv ==
  ASSUME PInv, FullDone \/ IncrementalDone
  PROVE  PInv'
<1>1. handler' = NoMessage /\ UNCHANGED <<books, requested>>
  BY DEF FullDone, IncrementalDone
<1>2. /\ NoMessage \in [msg : {"none", "full", "incremental"}, left : 0 .. MaxEntries,
                        f : Fields, cur : Symbol \cup {NoSymbol}]
      /\ NoMessage.cur = NoSymbol
  BY EntryAssumption, FieldAssumption DEF NoMessage, NoFields, Fields
<1>3. status' \in {"up", "nullBook", "badSocket", status}
  BY DEF FullDone, IncrementalDone
<1>4. published' \in [Symbol -> BBOType \cup {NoBBO}]
  <2>1. CASE handler.cur = NoSymbol
    BY <2>1 DEF FullDone, IncrementalDone, PInv, TypeOK
  <2>2. CASE handler.cur # NoSymbol
    <3>1. handler.cur \in Symbol /\ books[handler.cur] \in BookType
      BY <2>2 DEF PInv, TypeOK, CurrentIsThere
    <3>2. BBO(books[handler.cur]) \in BBOType
      BY <3>1, BBOTyped
    <3> QED
      BY <2>2, <3>2 DEF FullDone, IncrementalDone, PInv, TypeOK
  <2> QED
    BY <2>1, <2>2
<1> QED
  BY <1>1, <1>2, <1>3, <1>4
     DEF PInv, TypeOK, BooksSound, BookAssertionsHold, CurrentIsThere

-----------------------------------------------------------------------------
(* The entries of an incremental refresh.                                  *)

(* After an entry the handler is typed and points to a book or to none.    *)
LEMMA EntryReadKeeps ==
  ASSUME PInv, handler.left > 0, NEW f \in Fields, EntryRead(f)
  PROVE  /\ handler' \in [msg : {"none", "full", "incremental"}, left : 0 .. MaxEntries,
                          f : Fields, cur : Symbol \cup {NoSymbol}]
         /\ handler'.cur # NoSymbol => /\ handler'.cur \in Symbol
                                       /\ books[handler'.cur] # NoBook
<1>1. Found(f.symbol) \in Symbol \cup {NoSymbol}
  BY DEF Found, Fields
<1>2. Found(f.symbol) # NoSymbol =>
        Found(f.symbol) \in Symbol /\ books[Found(f.symbol)] # NoBook
  BY FoundBook DEF Found, PInv, GetBook
<1>3. handler' = [handler EXCEPT !.left = @ - 1, !.f = f, !.cur = Found(f.symbol)]
  BY DEF EntryRead
<1>4. handler'.cur = Found(f.symbol)
  BY <1>3 DEF PInv, TypeOK
<1>5. handler.left - 1 \in 0 .. MaxEntries
  BY EntryAssumption DEF PInv, TypeOK
<1> QED
  BY <1>1, <1>2, <1>3, <1>4, <1>5 DEF PInv, TypeOK

(* An entry that leaves the books alone.                                   *)
LEMMA IdleEntryPInv ==
  ASSUME PInv, handler.left > 0, NEW f \in Fields, EntryRead(f),
         UNCHANGED <<books, requested, published>>,
         status' \in {"up", "aborted", status}
  PROVE  PInv' /\ BooksStay
BY EntryReadKeeps DEF PInv, TypeOK, BooksSound, BookAssertionsHold, CurrentIsThere, BooksStay

(* An entry that changes one book, from sound to sound.                    *)
LEMMA BookEntryPInv ==
  ASSUME PInv, handler.left > 0, NEW f \in Fields, EntryRead(f),
         UNCHANGED <<requested, published>>, status' \in {"up", status},
         NEW symbol \in Symbol, NEW b \in BookType, Sound(b), SetBook(symbol, b)
  PROVE  PInv' /\ BooksStay
<1>1. /\ books' \in [Symbol -> BookType \cup {NoBook}] /\ BooksSound'
      /\ \A x \in Symbol : books[x] # NoBook => books'[x] # NoBook
  BY SetBookKeeps DEF SetBook
<1> QED
  BY <1>1, EntryReadKeeps DEF PInv, TypeOK, BookAssertionsHold, CurrentIsThere, BooksStay

(* What an entry that applies finds: a sound book and convertible fields.  *)
LEMMA AppliesTo ==
  ASSUME PInv, NEW e \in UpdateEntry, NEW f, f = ReadUpdate(handler.f, e),
         NEW action, Applies(f, action)
  PROVE  /\ f \in Fields /\ f.id \in OrderId
         /\ f.symbol \in Symbol
         /\ GetBook(f.symbol) \in BookType /\ Sound(GetBook(f.symbol))
         /\ EntryRead(f) /\ handler.left > 0 /\ UNCHANGED <<requested, published>>
         /\ action \in {"NEW", "CHANGE"} => f.px \in Price
<1>1. f \in Fields
  BY ReadTypes, EntryAssumption DEF PInv, TypeOK
<1>2. GetBook(f.symbol) # NoBook
  BY DEF Applies
<1>3. /\ f.symbol \in Symbol /\ GetBook(f.symbol) = books[f.symbol]
      /\ books[f.symbol] \in BookType /\ Sound(books[f.symbol])
  BY <1>2, FoundBook DEF PInv
<1> QED
  BY <1>1, <1>3 DEF Applies, InUpdate, Convertible, Fields

(* The size of an update is never missing, and stays a size when truncated.*)
LEMMA UpdateSize ==
  ASSUME PInv, NEW e \in UpdateEntry, NEW f, f = ReadUpdate(handler.f, e)
  PROVE  Truncate(f.size) \in Size
<1>1. e \in Entry /\ handler.f \in Fields
  BY EntryAssumption DEF PInv, TypeOK
<1>2. f.size \in Size
  BY <1>1, FieldAssumption DEF ReadUpdate, Keep, Fields, Entry
<1> QED
  BY <1>2, FieldAssumption

(* A removal before an addition: both books are sound, nothing asserts.    *)
LEMMA ReplaceSound ==
  ASSUME PInv, NEW e \in UpdateEntry, NEW f, f = ReadUpdate(handler.f, e),
         NEW action \in {"NEW", "CHANGE"}, Applies(f, action),
         NEW id \in OrderId, NEW t \in Time, NEW s \in Time
  PROVE  LET b == GetBook(f.symbol)
         IN  /\ AddEntry(Remove(b, id, t, s), f, t, s) \in BookType
             /\ Sound(AddEntry(Remove(b, id, t, s), f, t, s))
             /\ AfterRemove(b, id) => status' = "up"
<1> DEFINE b == GetBook(f.symbol)
           r == Remove(b, id, t, s)
<1>1. /\ f.id \in OrderId /\ f.px \in Price /\ b \in BookType /\ Sound(b)
  BY AppliesTo
<1>2. Truncate(f.size) \in Size
  BY UpdateSize
<1>3. /\ r \in BookType /\ Sound(r)
      /\ RemoveOutcome(b, id) \in {"unknown", "done"}
  BY <1>1, RemoveSound
<1> HIDE DEF b, r
<1>4. /\ AddEntry(r, f, t, s) \in BookType
      /\ Sound(AddEntry(r, f, t, s))
  BY <1>1, <1>2, <1>3, AddAnySound DEF AddEntry
<1>5. AfterRemove(b, id) => status' = "up"
  BY <1>3 DEF AfterRemove
<1> QED
  BY <1>4, <1>5 DEF b, r

(* NEW, with and without the removal that NewReplaces asks for.            *)
LEMMA NewEntryPInv ==
  ASSUME PInv, NEW e \in UpdateEntry, NEW t \in Time, NEW s \in Time, NewEntry(e, t, s)
  PROVE  PInv' /\ BooksStay
<1> DEFINE f == ReadUpdate(handler.f, e)
           b == GetBook(f.symbol)
<1>1. Applies(f, "NEW")
  BY DEF NewEntry
<1>2. /\ f \in Fields /\ f.id \in OrderId /\ f.px \in Price /\ f.symbol \in Symbol
      /\ b \in BookType /\ Sound(b)
      /\ EntryRead(f) /\ handler.left > 0 /\ UNCHANGED <<requested, published>>
  BY <1>1, AppliesTo
<1>3. CASE NewReplaces
  <2>1. AfterRemove(b, f.id) /\ SetBook(f.symbol, AddEntry(Remove(b, f.id, t, s), f, t, s))
    BY <1>3 DEF NewEntry
  <2>2. /\ AddEntry(Remove(b, f.id, t, s), f, t, s) \in BookType
        /\ Sound(AddEntry(Remove(b, f.id, t, s), f, t, s))
        /\ status' = "up"
    BY <1>1, <1>2, <2>1, ReplaceSound
  <2> HIDE DEF f, b
  <2> QED
    BY <1>2, <2>1, <2>2, BookEntryPInv
<1>4. CASE ~NewReplaces
  <2>1. UNCHANGED status /\ SetBook(f.symbol, AddEntry(b, f, t, s))
    BY <1>4 DEF NewEntry
  <2>2. Truncate(f.size) \in Size
    BY UpdateSize
  <2> HIDE DEF f, b
  <2>3. AddEntry(b, f, t, s) \in BookType /\ Sound(AddEntry(b, f, t, s))
    BY <1>2, <2>2, AddAnySound DEF AddEntry
  <2> QED
    BY <1>2, <2>1, <2>3, BookEntryPInv
<1> QED
  BY <1>3, <1>4

(* CHANGE with MDEntryRefID: an unguarded removal, then an addition.       *)
LEMMA RenameEntryPInv ==
  ASSUME PInv, NEW e \in UpdateEntry, NEW t \in Time, NEW s \in Time,
         RenameEntry(e, t, s)
  PROVE  PInv' /\ BooksStay
<1> DEFINE f == ReadUpdate(handler.f, e)
           b == GetBook(f.symbol)
           a == AddEntry(Remove(b, e.refId, t, s), f, t, s)
<1>1. /\ Applies(f, "CHANGE") /\ e.refId \in OrderId
      /\ AfterRemove(b, e.refId) /\ SetBook(f.symbol, a)
  BY EntryAssumption DEF RenameEntry, Entry
<1>2. /\ f \in Fields /\ f.symbol \in Symbol
      /\ EntryRead(f) /\ handler.left > 0 /\ UNCHANGED <<requested, published>>
  BY <1>1, AppliesTo
<1>3. a \in BookType /\ Sound(a) /\ status' = "up"
  BY <1>1, ReplaceSound
<1> HIDE DEF f, a
<1> QED
  BY <1>1, <1>2, <1>3, BookEntryPInv

(* CHANGE without it: a modify, or nothing for an unknown order.           *)
LEMMA ChangeEntryPInv ==
  ASSUME PInv, NEW e \in UpdateEntry, NEW t \in Time, NEW s \in Time,
         ChangeEntry(e, t, s)
  PROVE  PInv' /\ BooksStay
<1> DEFINE f == ReadUpdate(handler.f, e)
           b == GetBook(f.symbol)
           a == Modify(b, f.id, Truncate(f.size), t, s)
<1>1. Applies(f, "CHANGE") /\ UNCHANGED status
  BY DEF ChangeEntry
<1>2. /\ f \in Fields /\ f.id \in OrderId /\ f.symbol \in Symbol
      /\ b \in BookType /\ Sound(b)
      /\ EntryRead(f) /\ handler.left > 0 /\ UNCHANGED <<requested, published>>
  BY <1>1, AppliesTo
<1>3. Truncate(f.size) \in Size
  BY UpdateSize
<1>4. books' = books \/ SetBook(f.symbol, a)
  BY DEF ChangeEntry
<1> HIDE DEF f, b
<1>5. a \in BookType /\ Sound(a)
  BY <1>2, <1>3, ModifySound
<1> HIDE DEF a
<1> QED
  BY <1>1, <1>2, <1>4, <1>5, BookEntryPInv, IdleEntryPInv

(* DELETE: a removal, or the handler's own assertion.                      *)
LEMMA DeleteEntryPInv ==
  ASSUME PInv, NEW e \in UpdateEntry, NEW t \in Time, NEW s \in Time,
         DeleteEntry(e, t, s)
  PROVE  PInv' /\ BooksStay
<1> DEFINE f == ReadUpdate(handler.f, e)
           b == GetBook(f.symbol)
           a == Remove(b, f.id, t, s)
<1>1. Applies(f, "DELETE")
  BY DEF DeleteEntry
<1>2. /\ f \in Fields /\ f.id \in OrderId /\ f.symbol \in Symbol
      /\ b \in BookType /\ Sound(b)
      /\ EntryRead(f) /\ handler.left > 0 /\ UNCHANGED <<requested, published>>
  BY <1>1, AppliesTo
<1>3. \/ status' = "aborted" /\ books' = books
      \/ AfterRemove(b, f.id) /\ SetBook(f.symbol, a)
  BY DEF DeleteEntry
<1> HIDE DEF f, b
<1>4. /\ a \in BookType /\ Sound(a)
      /\ RemoveOutcome(b, f.id) \in {"unknown", "done"}
  BY <1>2, RemoveSound
<1>5. AfterRemove(b, f.id) => status' = "up"
  BY <1>4 DEF AfterRemove
<1> HIDE DEF a
<1> QED
  BY <1>2, <1>3, <1>4, <1>5, BookEntryPInv, IdleEntryPInv

(* Any entry of an incremental refresh, applied, skipped or rejected.      *)
LEMMA ApplyUpdatePInv ==
  ASSUME PInv, NEW e \in UpdateEntry, NEW t \in Time, NEW s \in Time,
         ApplyUpdate(e, t, s)
  PROVE  PInv' /\ BooksStay
<1> DEFINE f == ReadUpdate(handler.f, e)
<1>1. f \in Fields
  BY ReadTypes, EntryAssumption DEF PInv, TypeOK
<1>2. CASE SkipEntry(e)
  <2>1. /\ EntryRead(f) /\ handler.left > 0
        /\ UNCHANGED <<books, requested, published, status>>
    BY <1>2 DEF SkipEntry, InUpdate
  <2> HIDE DEF f
  <2> QED
    BY <1>1, <2>1, IdleEntryPInv
<1>3. CASE RejectEntry(e)
  BY <1>3, AbandonPInv DEF RejectEntry, InUpdate
<1>4. CASE OtherEntry(e)
  <2>1. /\ EntryRead(f) /\ handler.left > 0 /\ status' = "aborted"
        /\ UNCHANGED <<books, requested, published>>
    BY <1>4 DEF OtherEntry, Applies, InUpdate
  <2> HIDE DEF f
  <2> QED
    BY <1>1, <2>1, IdleEntryPInv
<1> QED
  BY <1>2, <1>3, <1>4, NewEntryPInv, RenameEntryPInv, ChangeEntryPInv, DeleteEntryPInv
     DEF ApplyUpdate

-----------------------------------------------------------------------------
(* Every step of any feed preserves the invariant.                         *)
LEMMA NextPInv == PInv /\ [Next]_vars => PInv'
<1> SUFFICES ASSUME PInv, [Next]_vars
             PROVE  PInv'
  OBVIOUS
<1>1. CASE OnLogon
  BY <1>1, OnLogonPInv
<1>2. CASE Start
  BY <1>2, StartPInv DEF Start
<1>3. ASSUME NEW e \in FullEntry, FullReject(e)
      PROVE  PInv'
  BY <1>3, AbandonPInv DEF FullReject, InFull
<1>4. ASSUME NEW e \in FullEntry, NEW t \in Time, NEW s \in Time, FullAdd(e, t, s)
      PROVE  PInv'
  BY <1>4, FullAddPInv
<1>5. CASE FullDone \/ IncrementalDone
  BY <1>5, DonePInv
<1>6. CASE EntryMissing
  BY <1>6, AbandonPInv DEF EntryMissing
<1>7. ASSUME NEW e \in UpdateEntry, NEW t \in Time, NEW s \in Time, ApplyUpdate(e, t, s)
      PROVE  PInv'
  BY <1>7, ApplyUpdatePInv
<1>8. CASE UNCHANGED vars
  BY <1>8 DEF vars, PInv, TypeOK, BooksSound, BookAssertionsHold, CurrentIsThere
<1> QED
  BY <1>1, <1>2, <1>3, <1>4, <1>5, <1>6, <1>7, <1>8 DEF Next

(* The inductive invariant holds for any feed.                             *)
THEOREM ParserIndInvariant == Spec => []PInv
<1>1. Init => PInv
  BY InitPInv
<1>2. PInv /\ [Next]_vars => PInv'
  BY NextPInv
<1> QED
  BY <1>1, <1>2, PTL DEF Spec

(* The application's state has its type, BBOs included.                    *)
THEOREM ParserTypeCorrect == Spec => []TypeOK
<1>1. PInv => TypeOK
  BY DEF PInv
<1> QED
  BY <1>1, ParserIndInvariant, PTL

(* Whatever the venue sends, the books stay sound, in the middle of a      *)
(* message too.                                                            *)
THEOREM AlwaysSound == Spec => []BooksSound
<1>1. PInv => BooksSound
  BY DEF PInv
<1> QED
  BY <1>1, ParserIndInvariant, PTL

(* No message makes an assertion of a book fail.                           *)
THEOREM AssertionsHold == Spec => []BookAssertionsHold
<1>1. PInv => BookAssertionsHold
  BY DEF PInv
<1> QED
  BY <1>1, ParserIndInvariant, PTL
-----------------------------------------------------------------------------
(* A feed that keeps to the protocol.                                      *)

(* The message in progress has a book: a full refresh from its start, an   *)
(* incremental one at its end.                                             *)
HandlerHasBook ==
  /\ handler.msg = "full" => handler.cur # NoSymbol
  /\ handler.msg = "incremental" /\ handler.left = 0 => handler.cur # NoSymbol

(* What was requested has a book, and messages are of what was requested.  *)
RequestedHaveBooks ==
  /\ \A symbol \in requested : books[symbol] # NoBook
  /\ handler.msg # "none" => handler.f.symbol \in requested

CInv == /\ PInv
        /\ BooksHaveNoGhosts
        /\ RequestedHaveBooks
        /\ HandlerHasBook
        /\ IsPublishing => StaysUp

(* Such a feed is one of the feeds of Spec.                                *)
LEMMA ConformingIsNext ==
  ASSUME TypeOK, ConformingNext
  PROVE  Next
<1>1. \A symbol \in requested : symbol \in Symbol
  BY DEF TypeOK
<1>2. \A n \in 1 .. MaxEntries : n \in 0 .. MaxEntries
  BY EntryAssumption
<1> QED
  BY <1>1, <1>2 DEF ConformingNext, Next, Start

(* A removal forgets one id and no other.                                  *)
LEMMA RemoveForgets ==
  ASSUME NEW b \in BookType, Sound(b), NEW id \in OrderId, NEW t \in Time,
         NEW s \in Time, NEW x \in OrderId
  PROVE  Remove(b, id, t, s).orderMap[x] =
           IF x = id THEN NoOrder ELSE b.orderMap[x]
<1>1. CASE b.orderMap[id] = NoOrder
  BY <1>1 DEF Remove, Sent, BookType
<1>2. CASE b.orderMap[id] # NoOrder
  <2>1. LevelOf(b, id) # NoLevel
    BY <1>2, MappedOrder
  <2>2. Remove(b, id, t, s).orderMap = [b.orderMap EXCEPT ![id] = NoOrder]
    BY <1>2, <2>1 DEF Remove, Put
  <2> QED
    BY <2>2 DEF BookType
<1> QED
  BY <1>1, <1>2

(* An addition under a free id makes no ghost, whatever its side.          *)
LEMMA AddAnyNoGhosts ==
  ASSUME NEW b \in BookType, Sound(b), NoGhosts(b), NEW id \in OrderId,
         b.orderMap[id] = NoOrder, NEW type, NEW size \in Size, NEW price \in Price,
         NEW t \in Time, NEW s \in Time
  PROVE  NoGhosts(Add(b, id, Char2Side(type), size, price, t, s))
<1>1. CASE Char2Side(type) \in BookSide
  BY <1>1, FreshAddNoGhosts
<1>2. CASE Char2Side(type) \notin BookSide
  <2>1. Add(b, id, Char2Side(type), size, price, t, s) = Sent(b, s)
    BY <1>2 DEF Add
  <2> QED
    BY <2>1 DEF Sent, BookType, NoGhosts, HasLevel
<1> QED
  BY <1>1, <1>2

(* An empty book has no ghosts.                                            *)
LEMMA EmptyNoGhosts ==
  /\ NoGhosts(NewBook)
  /\ \A b \in BookType : NoGhosts(Clear(b))
BY DEF NewBook, Clear, BookType, NoLevels, NoGhosts, HasLevel

(* Replacing an order: remove one id, then add another that is free, or    *)
(* the one removed.                                                        *)
LEMMA ReplaceNoGhosts ==
  ASSUME NEW b \in BookType, Sound(b), NoGhosts(b), NEW gone \in OrderId,
         NEW f, f.id \in OrderId, f.px \in Price, Truncate(f.size) \in Size,
         f.id = gone \/ b.orderMap[f.id] = NoOrder, NEW t \in Time, NEW s \in Time
  PROVE  NoGhosts(AddEntry(Remove(b, gone, t, s), f, t, s))
<1> DEFINE r == Remove(b, gone, t, s)
<1>1. r \in BookType /\ Sound(r) /\ NoGhosts(r)
  BY RemoveSound, RemoveNoGhosts
<1>2. r.orderMap[f.id] = NoOrder
  BY RemoveForgets
<1> HIDE DEF r
<1>3. NoGhosts(AddEntry(r, f, t, s))
  BY <1>1, <1>2, AddAnyNoGhosts DEF AddEntry
<1> QED
  BY <1>3 DEF r

(* Changing one book to one without ghosts.                                *)
LEMMA SetNoGhosts ==
  ASSUME TypeOK, BooksHaveNoGhosts, NEW symbol \in Symbol, NEW b, NoGhosts(b),
         books' = [books EXCEPT ![symbol] = b]
  PROVE  BooksHaveNoGhosts'
BY DEF TypeOK, BooksHaveNoGhosts

(* A step that keeps what was requested, and does not take away a book,    *)
(* and a message that is of what it was of before.                         *)
LEMMA KeepsRequested ==
  ASSUME CInv, requested' = requested, BooksStay,
         handler'.msg = "none" \/ handler'.f.symbol \in requested
  PROVE  RequestedHaveBooks'
BY DEF CInv, PInv, TypeOK, RequestedHaveBooks, BooksStay

(* An entry that names no symbol leaves the message's.                     *)
LEMMA ReadKeepsSymbol ==
  ASSUME NEW f \in Fields, NEW e \in Entry, e.symbol = Absent
  PROVE  ReadFull(f, e).symbol = f.symbol /\ ReadUpdate(f, e).symbol = f.symbol
BY DEF ReadFull, ReadUpdate, Keep, Fields

(* An entry of a conforming snapshot adds an order under a free id.        *)
LEMMA ConformingFullAddCInv ==
  ASSUME CInv, NEW e \in FullEntry, NEW t \in Time, NEW s \in Time,
         ConformingFull(e), FullAdd(e, t, s)
  PROVE  BooksHaveNoGhosts' /\ RequestedHaveBooks' /\ HandlerHasBook' /\ status' = status
<1> DEFINE f == ReadFull(handler.f, e)
           b == books[handler.cur]
           a == Add(b, FullId(f), Char2Side(f.type), Truncate(f.size), f.px, t, s)
<1>1. /\ handler.cur # NoSymbol /\ handler.cur \in Symbol
      /\ b \in BookType /\ Sound(b) /\ NoGhosts(b)
  BY DEF FullAdd, InFull, HandlerHasBook, CInv, PInv, TypeOK, CurrentIsThere, BooksSound,
         BooksHaveNoGhosts
<1>2. f \in Fields
  BY ReadTypes, EntryAssumption DEF CInv, PInv, TypeOK
<1>3. Absent \notin {f.type, f.px, f.size} /\ b.orderMap[FullId(f)] = NoOrder
  BY <1>1 DEF ConformingFull, GetOrder
<1>4. FullId(f) \in OrderId /\ f.px \in Price /\ Truncate(f.size) \in Size
  BY <1>2, <1>3, FieldAssumption DEF FullId, Fields
<1>5. /\ books' = [books EXCEPT ![handler.cur] = a] /\ status' = status
      /\ handler.msg = "full" /\ handler' = [handler EXCEPT !.left = @ - 1, !.f = f]
      /\ requested' = requested /\ f.symbol = handler.f.symbol
  BY <1>1, ReadKeepsSymbol, EntryAssumption DEF ConformingFull, FullAdd, InFull, CInv, PInv, TypeOK
<1> HIDE DEF f, b
<1>6. NoGhosts(a) /\ a \in BookType
  BY <1>1, <1>3, <1>4, AddAnyNoGhosts, AddAnySound
<1> HIDE DEF a
<1>7. BooksHaveNoGhosts'
  BY <1>1, <1>5, <1>6, SetNoGhosts DEF CInv, PInv
<1>8. handler'.msg = "full" /\ handler'.cur = handler.cur /\ handler'.f = f
  BY <1>5 DEF CInv, PInv, TypeOK
<1>9. RequestedHaveBooks'
  <2>1. a # NoBook
    BY <1>6, NoBookAssumption
  <2>2. BooksStay
    BY <1>1, <1>5, <2>1 DEF CInv, PInv, TypeOK, BooksStay
  <2>3. handler.f.symbol \in requested
    BY <1>5 DEF CInv, RequestedHaveBooks
  <2> QED
    BY <1>5, <1>8, <2>2, <2>3, KeepsRequested
<1> QED
  BY <1>1, <1>5, <1>7, <1>8, <1>9 DEF HandlerHasBook

(* The symbol of a conforming entry is the message's, and has a book.      *)
LEMMA BookOfMessage ==
  ASSUME CInv, NEW e \in UpdateEntry, ConformingUpdate(e), NEW f,
         f = ReadUpdate(handler.f, e), handler.msg = "incremental"
  PROVE  /\ GetBook(f.symbol) # NoBook /\ f.symbol \in Symbol
         /\ f.symbol = handler.f.symbol /\ f.symbol \in requested
<1>1. f.symbol = handler.f.symbol
  BY ReadKeepsSymbol, EntryAssumption DEF ConformingUpdate, CInv, PInv, TypeOK
<1>2. f.symbol \in requested /\ f.symbol \in Symbol /\ books[f.symbol] # NoBook
  BY <1>1 DEF CInv, PInv, TypeOK, RequestedHaveBooks
<1> QED
  BY <1>1, <1>2 DEF GetBook

(* What a conforming entry finds, and that its book stays the current one. *)
LEMMA ConformingEntry ==
  ASSUME CInv, NEW e \in UpdateEntry, ConformingUpdate(e), NEW f,
         f = ReadUpdate(handler.f, e), handler.msg = "incremental", EntryRead(f)
  PROVE  /\ f.symbol \in Symbol /\ GetBook(f.symbol) = books[f.symbol]
         /\ GetBook(f.symbol) \in BookType
         /\ Sound(GetBook(f.symbol)) /\ NoGhosts(GetBook(f.symbol))
         /\ HandlerHasBook'
<1>1. GetBook(f.symbol) # NoBook
  BY BookOfMessage
<1>2. /\ f.symbol \in Symbol /\ f.symbol # NoSymbol /\ GetBook(f.symbol) = books[f.symbol]
      /\ books[f.symbol] \in BookType /\ Sound(books[f.symbol])
  BY <1>1, FoundBook DEF CInv, PInv
<1>3. NoGhosts(books[f.symbol])
  BY <1>1, <1>2 DEF CInv, BooksHaveNoGhosts
<1>4. handler'.cur = f.symbol /\ handler'.msg = "incremental"
  BY <1>1 DEF EntryRead, Found, CInv, PInv, TypeOK
<1> QED
  BY <1>2, <1>3, <1>4 DEF HandlerHasBook

(* A conforming update is applied to its book, frees an id before it takes *)
(* it, and meets no assertion.                                             *)
LEMMA ConformingUpdateCInv ==
  ASSUME CInv, NEW e \in UpdateEntry, NEW t \in Time, NEW s \in Time,
         ConformingUpdate(e), ApplyUpdate(e, t, s)
  PROVE  BooksHaveNoGhosts' /\ RequestedHaveBooks' /\ HandlerHasBook' /\ status' \in {"up", status}
<1> DEFINE f == ReadUpdate(handler.f, e)
           b == GetBook(f.symbol)
<1>0. handler.msg = "incremental"
  BY DEF ApplyUpdate, SkipEntry, RejectEntry, NewEntry, RenameEntry, ChangeEntry, DeleteEntry,
         OtherEntry, Applies, InUpdate
<1>1. b # NoBook /\ Convertible(f) /\ f.action # "OTHER"
  BY <1>0, BookOfMessage DEF ConformingUpdate
<1>r. RequestedHaveBooks'
  <2>1. BooksStay
    BY ApplyUpdatePInv DEF CInv
  <2>2. requested' = requested /\ (handler' = NoMessage \/ EntryRead(f))
    BY DEF ApplyUpdate, SkipEntry, RejectEntry, NewEntry, RenameEntry, ChangeEntry, DeleteEntry,
           OtherEntry, Applies, InUpdate
  <2>3. f.symbol \in requested
    BY <1>0, BookOfMessage
  <2> HIDE DEF f
  <2>4. handler'.msg = "none" \/ handler'.f = f
    <3>1. CASE handler' = NoMessage
      BY <3>1 DEF NoMessage
    <3>2. CASE EntryRead(f)
      <4>1. handler' = [handler EXCEPT !.left = @ - 1, !.f = f, !.cur = Found(f.symbol)]
        BY <3>2 DEF EntryRead
      <4> QED
        BY <4>1 DEF CInv, PInv, TypeOK
    <3> QED
      BY <2>2, <3>1, <3>2
  <2> QED
    BY <2>1, <2>2, <2>3, <2>4, KeepsRequested
<1>2. f.id \in OrderId /\ Truncate(f.size) \in Size
  <2>1. f \in Fields
    BY ReadTypes, EntryAssumption DEF CInv, PInv, TypeOK
  <2> QED
    BY <2>1, UpdateSize DEF Fields, CInv
<1>3. ASSUME NEW action, Applies(f, action)
      PROVE  /\ f.symbol \in Symbol /\ b \in BookType /\ Sound(b) /\ NoGhosts(b)
             /\ HandlerHasBook' /\ f.action = action
             /\ action \in {"NEW", "CHANGE"} => f.px \in Price
  BY <1>3, ConformingEntry, AppliesTo DEF Applies, InUpdate, CInv
<1>4. \A m : NoGhosts(m) /\ SetBook(f.symbol, m) /\ f.symbol \in Symbol
               => BooksHaveNoGhosts'
  BY SetNoGhosts DEF SetBook, CInv, PInv
<1>5. ASSUME NEW id \in OrderId, b \in BookType, Sound(b), AfterRemove(b, id)
      PROVE  status' = "up"
  <2>1. RemoveOutcome(b, id) \in {"unknown", "done"}
    BY <1>5, RemoveSound
  <2> QED
    BY <1>5, <2>1 DEF AfterRemove
<1>6. CASE NewEntry(e, t, s)
  <2>1. /\ f.symbol \in Symbol /\ b \in BookType /\ Sound(b) /\ NoGhosts(b)
        /\ HandlerHasBook' /\ f.action = "NEW" /\ f.px \in Price
    BY <1>3, <1>6 DEF NewEntry
  <2>2. CASE NewReplaces
    <3>1. /\ AfterRemove(b, f.id)
          /\ SetBook(f.symbol, AddEntry(Remove(b, f.id, t, s), f, t, s))
      BY <1>6, <2>2 DEF NewEntry
    <3>2. status' = "up"
      BY <1>2, <1>5, <2>1, <3>1
    <3> HIDE DEF f, b
    <3>3. NoGhosts(AddEntry(Remove(b, f.id, t, s), f, t, s))
      BY <1>2, <2>1, ReplaceNoGhosts
    <3> QED
      BY <1>r, <1>4, <2>1, <3>1, <3>2, <3>3
  <2>3. CASE ~NewReplaces
    <3>1. SetBook(f.symbol, AddEntry(b, f, t, s)) /\ status' = status
      BY <1>6, <2>3 DEF NewEntry
    <3>2. b.orderMap[f.id] = NoOrder
      BY <1>1, <1>2, <2>1, <2>3 DEF ConformingUpdate, GetOrder
    <3> HIDE DEF f, b
    <3>3. NoGhosts(AddEntry(b, f, t, s))
      BY <1>2, <2>1, <3>2, AddAnyNoGhosts DEF AddEntry
    <3> QED
      BY <1>r, <1>4, <2>1, <3>1, <3>3
  <2> QED
    BY <2>2, <2>3
<1>7. CASE RenameEntry(e, t, s)
  <2>1. /\ f.symbol \in Symbol /\ b \in BookType /\ Sound(b) /\ NoGhosts(b)
        /\ HandlerHasBook' /\ f.action = "CHANGE" /\ f.px \in Price
    BY <1>3, <1>7 DEF RenameEntry
  <2>2. /\ e.refId \in OrderId /\ e.refId # Absent
        /\ AfterRemove(b, e.refId)
        /\ SetBook(f.symbol, AddEntry(Remove(b, e.refId, t, s), f, t, s))
    BY <1>7, EntryAssumption DEF RenameEntry, Entry
  <2>3. f.id = e.refId \/ b.orderMap[f.id] = NoOrder
    BY <1>1, <1>2, <2>1, <2>2 DEF ConformingUpdate, GetOrder
  <2>4. status' = "up"
    BY <1>5, <2>1, <2>2
  <2> HIDE DEF f, b
  <2>5. NoGhosts(AddEntry(Remove(b, e.refId, t, s), f, t, s))
    BY <1>2, <2>1, <2>2, <2>3, ReplaceNoGhosts
  <2> QED
    BY <1>r, <1>4, <2>1, <2>2, <2>4, <2>5
<1>8. CASE ChangeEntry(e, t, s)
  <2>1. /\ f.symbol \in Symbol /\ b \in BookType /\ Sound(b) /\ NoGhosts(b)
        /\ HandlerHasBook'
    BY <1>3, <1>8 DEF ChangeEntry
  <2>2. /\ \/ books' = books
           \/ SetBook(f.symbol, Modify(b, f.id, Truncate(f.size), t, s))
        /\ status' = status
    BY <1>8 DEF ChangeEntry
  <2> HIDE DEF f, b
  <2>3. NoGhosts(Modify(b, f.id, Truncate(f.size), t, s))
    BY <1>2, <2>1, ModifyNoGhosts
  <2> QED
    BY <1>r, <1>4, <2>1, <2>2, <2>3 DEF CInv, BooksHaveNoGhosts
<1>9. CASE DeleteEntry(e, t, s)
  <2>1. /\ f.symbol \in Symbol /\ b \in BookType /\ Sound(b) /\ NoGhosts(b)
        /\ HandlerHasBook' /\ f.action = "DELETE"
    BY <1>3, <1>9 DEF DeleteEntry
  <2>2. AfterRemove(b, f.id) /\ SetBook(f.symbol, Remove(b, f.id, t, s))
    BY <1>1, <1>9, <2>1 DEF DeleteEntry, ConformingUpdate
  <2>3. status' = "up"
    BY <1>2, <1>5, <2>1, <2>2
  <2> HIDE DEF f, b
  <2>4. NoGhosts(Remove(b, f.id, t, s))
    BY <1>2, <2>1, RemoveNoGhosts
  <2> QED
    BY <1>r, <1>4, <2>1, <2>2, <2>3, <2>4
<1>10. ~SkipEntry(e) /\ ~RejectEntry(e) /\ ~OtherEntry(e)
  BY <1>1 DEF SkipEntry, RejectEntry, OtherEntry, Applies
<1> QED
  BY <1>r, <1>6, <1>7, <1>8, <1>9, <1>10 DEF ApplyUpdate

(* Every step of a conforming feed preserves the stronger invariant.       *)
LEMMA ConformingStepCInv ==
  ASSUME TidyFile
  PROVE  CInv /\ [ConformingNext]_vars => CInv'
<1> SUFFICES ASSUME CInv, [ConformingNext]_vars
             PROVE  /\ BooksHaveNoGhosts' /\ RequestedHaveBooks' /\ HandlerHasBook'
                    /\ IsPublishing => StaysUp'
  BY NextPInv, ConformingIsNext DEF CInv, PInv
<1>1. CASE OnLogon
  <2>1. /\ books' = [symbol \in Symbol |-> IF symbol \in Booked THEN NewBook ELSE books[symbol]]
        /\ requested' = Requested /\ handler.msg = "none"
        /\ UNCHANGED <<handler, status>>
    BY <1>1 DEF OnLogon, Ready
  <2>2. BooksHaveNoGhosts' /\ HandlerHasBook' /\ (IsPublishing => StaysUp')
    BY <2>1, EmptyNoGhosts
       DEF CInv, PInv, TypeOK, BooksHaveNoGhosts, HandlerHasBook, StaysUp
  <2>3. NewBook # NoBook
    BY NewBookSound, NoBookAssumption
  <2>4. RequestedHaveBooks'
    <3>1. Requested \subseteq Symbol /\ \A symbol \in Requested : symbol \in Booked
      BY SymbolAssumption DEF TidyFile, Requested
    <3> QED
      BY <2>1, <2>3, <3>1 DEF RequestedHaveBooks
  <2> QED
    BY <2>2, <2>4
<1>2. ASSUME NEW symbol \in requested, NEW n \in 1 .. MaxEntries, FullRefresh(symbol, n)
      PROVE  /\ BooksHaveNoGhosts' /\ RequestedHaveBooks' /\ HandlerHasBook'
             /\ IsPublishing => StaysUp'
  <2>0. GetBook(symbol) # NoBook
    BY DEF CInv, PInv, TypeOK, RequestedHaveBooks, GetBook
  <2>1. symbol \in Symbol /\ symbol # NoSymbol /\ books[symbol] \in BookType
    BY <2>0, FoundBook DEF CInv, PInv
  <2>2. n > 0 /\ Found(symbol) = symbol
    BY <2>0 DEF Found
  <2>3. /\ books' = [books EXCEPT ![symbol] = Clear(books[symbol])]
        /\ handler'.cur = symbol /\ handler'.msg = "full"
        /\ status' = status /\ requested' = requested
    BY <1>2, <2>1, <2>2 DEF FullRefresh, CInv, PInv, TypeOK
  <2>4. BooksHaveNoGhosts'
    BY <2>1, <2>3, EmptyNoGhosts, SetNoGhosts DEF CInv, PInv
  <2>5. BooksStay
    <3>1. Clear(books[symbol]) # NoBook
      BY <2>1, ClearSound, NoBookAssumption
    <3> QED
      BY <2>1, <2>3, <3>1 DEF BooksStay, CInv, PInv, TypeOK
  <2>6. handler'.f.symbol = symbol
    BY <1>2 DEF FullRefresh, NoFields
  <2>7. RequestedHaveBooks'
    BY <2>3, <2>5, <2>6, KeepsRequested
  <2> QED
    BY <2>1, <2>3, <2>4, <2>7 DEF HandlerHasBook, CInv, StaysUp
<1>3. ASSUME NEW symbol \in requested, NEW n \in 1 .. MaxEntries, Incremental(symbol, n)
      PROVE  /\ BooksHaveNoGhosts' /\ RequestedHaveBooks' /\ HandlerHasBook'
             /\ IsPublishing => StaysUp'
  <2>1. /\ handler'.msg = "incremental" /\ handler'.left = n /\ n # 0
        /\ books' = books /\ status' = status /\ requested' = requested
    BY <1>3 DEF Incremental
  <2>2. handler'.f.symbol = symbol
    BY <1>3 DEF Incremental, NoFields
  <2>3. RequestedHaveBooks'
    BY <2>1, <2>2, KeepsRequested DEF BooksStay
  <2> QED
    BY <2>1, <2>3 DEF CInv, BooksHaveNoGhosts, HandlerHasBook, StaysUp
<1>4. ASSUME NEW e \in FullEntry, NEW t \in Time, NEW s \in Time,
             ConformingFull(e), FullAdd(e, t, s)
      PROVE  /\ BooksHaveNoGhosts' /\ RequestedHaveBooks' /\ HandlerHasBook'
             /\ IsPublishing => StaysUp'
  BY <1>4, ConformingFullAddCInv DEF CInv, StaysUp
<1>5. ASSUME NEW e \in UpdateEntry, NEW t \in Time, NEW s \in Time,
             ConformingUpdate(e), ApplyUpdate(e, t, s)
      PROVE  /\ BooksHaveNoGhosts' /\ RequestedHaveBooks' /\ HandlerHasBook'
             /\ IsPublishing => StaysUp'
  BY <1>5, ConformingUpdateCInv DEF CInv, StaysUp
<1>6. CASE FullDone \/ IncrementalDone
  <2>1. /\ handler' = NoMessage /\ books' = books /\ requested' = requested
        /\ handler.cur # NoSymbol
    BY <1>6 DEF FullDone, IncrementalDone, CInv, HandlerHasBook
  <2>2. IsPublishing => status' = status
    BY <1>6, <2>1 DEF FullDone, IncrementalDone
  <2> QED
    BY <2>1, <2>2
       DEF CInv, BooksHaveNoGhosts, RequestedHaveBooks, HandlerHasBook, NoMessage, StaysUp
<1>7. CASE UNCHANGED vars
  BY <1>7 DEF vars, CInv, BooksHaveNoGhosts, RequestedHaveBooks, HandlerHasBook, StaysUp
<1> QED
  BY <1>1, <1>2, <1>3, <1>4, <1>5, <1>6, <1>7 DEF ConformingNext

(* The stronger invariant holds for a conforming feed.                     *)
THEOREM ConformingIndInvariant ==
  ASSUME TidyFile
  PROVE  ConformingSpec => []CInv
<1>1. Init => CInv
  BY InitPInv
     DEF Init, CInv, BooksHaveNoGhosts, RequestedHaveBooks, HandlerHasBook, NoMessage, StaysUp
<1>2. CInv /\ [ConformingNext]_vars => CInv'
  BY ConformingStepCInv
<1> QED
  BY <1>1, <1>2, PTL DEF ConformingSpec

(* A feed that keeps to the protocol leaves no order in a book that its id *)
(* does not lead to.                                                       *)
THEOREM ConformingNoGhosts ==
  ASSUME TidyFile
  PROVE  ConformingSpec => []BooksHaveNoGhosts
<1>1. CInv => BooksHaveNoGhosts
  BY DEF CInv
<1> QED
  BY <1>1, ConformingIndInvariant, PTL

(* Nor can it stop the process, as long as the application was given a     *)
(* socket to publish on.                                                   *)
THEOREM ConformingStaysUp ==
  ASSUME IsPublishing, TidyFile
  PROVE  ConformingSpec => []StaysUp
<1>1. CInv => StaysUp
  BY DEF CInv
<1> QED
  BY <1>1, ConformingIndInvariant, PTL
-----------------------------------------------------------------------------
(* What subscribers hold.  While a message is handled only its symbol may  *)
(* be out of date, and the book in hand is that symbol's.                  *)
Current(symbol) ==
  books[symbol] # NoBook /\ books[symbol].evtTime # NoTime =>
    published[symbol] = BBO(books[symbol])

OthersCurrent ==
  /\ handler.cur # NoSymbol => handler.cur = handler.f.symbol
  /\ IsPublishing =>
       \A symbol \in Symbol :
         (handler.msg # "none" => symbol # handler.f.symbol) => Current(symbol)

(* A step within a message that changes no book but its symbol's.          *)
LEMMA WithinMessage ==
  ASSUME OthersCurrent, handler.msg # "none",
         handler'.msg # "none", handler'.f.symbol = handler.f.symbol,
         handler'.cur \in {NoSymbol, handler.f.symbol}, published' = published,
         \A x \in Symbol : x # handler.f.symbol => books'[x] = books[x]
  PROVE  OthersCurrent'
BY DEF OthersCurrent, Current

(* A message begins.                                                       *)
LEMMA StartCurrent ==
  ASSUME CInv, OthersCurrent, NEW symbol \in requested, NEW n \in 1 .. MaxEntries,
         FullRefresh(symbol, n) \/ Incremental(symbol, n)
  PROVE  OthersCurrent'
<1>1. handler.msg = "none" /\ published' = published
  BY DEF FullRefresh, Incremental, Ready
<1>2. /\ handler'.msg # "none" /\ handler'.cur \in {NoSymbol, symbol}
      /\ handler'.f.symbol = symbol
  <2>1. [NoFields EXCEPT !.symbol = symbol].symbol = symbol
    BY DEF NoFields
  <2>2. Found(symbol) = symbol
    BY DEF Found, GetBook, CInv, PInv, TypeOK, RequestedHaveBooks
  <2> DEFINE fields == [NoFields EXCEPT !.symbol = symbol]
  <2>3. PICK msg \in {"full", "incremental"}, cur \in {NoSymbol, symbol} :
          handler' = [msg |-> msg, left |-> n, cur |-> cur, f |-> fields]
    BY <2>2 DEF FullRefresh, Incremental
  <2>4. fields.symbol = symbol
    BY <2>1
  <2> HIDE DEF fields
  <2> QED
    BY <2>3, <2>4
<1>3. \A x \in Symbol : x # symbol => books'[x] = books[x]
  <2>1. books' = books \/ books' = [books EXCEPT ![symbol] = Clear(books[symbol])]
    BY DEF FullRefresh, Incremental, Found
  <2> QED
    BY <2>1 DEF CInv, PInv, TypeOK
<1>4. ASSUME IsPublishing, NEW x \in Symbol, x # symbol
      PROVE  Current(x)'
  <2>1. Current(x)
    BY <1>1, <1>4 DEF OthersCurrent
  <2>2. books'[x] = books[x]
    BY <1>3, <1>4
  <2> QED
    BY <1>1, <2>1, <2>2 DEF Current
<1>5. handler'.cur # NoSymbol => handler'.cur = handler'.f.symbol
  BY <1>2
<1>6. ASSUME IsPublishing, NEW x \in Symbol,
             handler'.msg # "none" => x # handler'.f.symbol
      PROVE  Current(x)'
  <2>1. x # symbol
    BY <1>2, <1>6
  <2> QED
    BY <1>4, <1>6, <2>1
<1> QED
  BY <1>5, <1>6 DEF OthersCurrent

LEMMA FullAddCurrent ==
  ASSUME CInv, OthersCurrent, NEW e \in FullEntry, NEW t \in Time, NEW s \in Time,
         ConformingFull(e), FullAdd(e, t, s)
  PROVE  OthersCurrent'
<1> DEFINE f == ReadFull(handler.f, e)
<1>1. handler.cur # NoSymbol /\ e.symbol = Absent
  BY DEF ConformingFull, FullAdd, InFull, CInv, HandlerHasBook
<1>2. handler.cur = handler.f.symbol
  BY <1>1 DEF OthersCurrent
<1>3. handler.f \in Fields /\ e \in Entry
  BY EntryAssumption DEF CInv, PInv, TypeOK
<1>4. f.symbol = handler.f.symbol
  BY <1>1, <1>3, ReadKeepsSymbol
<1> HIDE DEF f
<1>5. /\ handler.msg = "full" /\ published' = published
      /\ handler' = [handler EXCEPT !.left = @ - 1, !.f = f]
  BY DEF FullAdd, InFull, f
<1>6. handler'.msg = "full" /\ handler'.cur = handler.cur /\ handler'.f = f
  BY <1>5 DEF CInv, PInv, TypeOK
<1>7. \A x \in Symbol : x # handler.f.symbol => books'[x] = books[x]
  BY <1>1, <1>2 DEF FullAdd, CInv, PInv, TypeOK
<1> QED
  BY <1>2, <1>4, <1>5, <1>6, <1>7, WithinMessage

LEMMA UpdateCurrent ==
  ASSUME CInv, OthersCurrent, NEW e \in UpdateEntry, NEW t \in Time, NEW s \in Time,
         ConformingUpdate(e), ApplyUpdate(e, t, s)
  PROVE  OthersCurrent'
<1> DEFINE f == ReadUpdate(handler.f, e)
<1>0. handler.msg = "incremental"
  BY DEF ApplyUpdate, SkipEntry, RejectEntry, NewEntry, RenameEntry, ChangeEntry, DeleteEntry,
         OtherEntry, Applies, InUpdate
<1>1. e.symbol = Absent /\ GetBook(f.symbol) # NoBook /\ Convertible(f)
  BY <1>0, BookOfMessage DEF ConformingUpdate
<1>2. handler.f \in Fields /\ e \in Entry
  BY EntryAssumption DEF CInv, PInv, TypeOK
<1>3. f.symbol = handler.f.symbol
  BY <1>1, <1>2, ReadKeepsSymbol
<1>4. f.symbol \in Symbol
  BY <1>1, FoundBook DEF CInv, PInv
<1>5. /\ handler.msg = "incremental" /\ published' = published /\ EntryRead(f)
      /\ books' = books \/ \E b : SetBook(f.symbol, b)
  <2>1. ~SkipEntry(e) /\ ~RejectEntry(e)
    BY <1>1 DEF SkipEntry, RejectEntry
  <2>2. CASE NewEntry(e, t, s)
    BY <2>2 DEF NewEntry, Applies, InUpdate
  <2>3. CASE RenameEntry(e, t, s)
    BY <2>3 DEF RenameEntry, Applies, InUpdate
  <2>4. CASE ChangeEntry(e, t, s)
    BY <2>4 DEF ChangeEntry, Applies, InUpdate
  <2>5. CASE DeleteEntry(e, t, s)
    BY <2>5 DEF DeleteEntry, Applies, InUpdate
  <2>6. CASE OtherEntry(e)
    BY <2>6 DEF OtherEntry, Applies, InUpdate
  <2> QED
    BY <2>1, <2>2, <2>3, <2>4, <2>5, <2>6 DEF ApplyUpdate
<1> HIDE DEF f
<1>6. /\ handler'.msg = "incremental" /\ handler'.f = f
      /\ handler'.cur \in {NoSymbol, f.symbol}
  BY <1>5 DEF EntryRead, Found, CInv, PInv, TypeOK
<1>7. \A x \in Symbol : x # handler.f.symbol => books'[x] = books[x]
  BY <1>3, <1>4, <1>5 DEF SetBook, CInv, PInv, TypeOK
<1> QED
  BY <1>3, <1>5, <1>6, <1>7, WithinMessage

(* A message ends, and its symbol's BBO is published.                      *)
LEMMA DoneCurrent ==
  ASSUME CInv, OthersCurrent, FullDone \/ IncrementalDone
  PROVE  OthersCurrent'
<1>1. handler' = NoMessage /\ books' = books /\ handler.cur # NoSymbol
  BY DEF FullDone, IncrementalDone, CInv, HandlerHasBook
<1>2. handler.cur = handler.f.symbol /\ handler.cur \in Symbol
  BY <1>1 DEF OthersCurrent, CInv, PInv, TypeOK
<1>3. IsPublishing =>
        published' = [published EXCEPT ![handler.f.symbol] = BBO(books[handler.cur])]
  BY <1>1 DEF FullDone, IncrementalDone
<1>4. handler.msg # "none"
  BY DEF FullDone, IncrementalDone
<1>5. ASSUME IsPublishing, NEW symbol \in Symbol
      PROVE  Current(symbol)'
  <2>1. CASE symbol = handler.f.symbol
    <3>1. published'[symbol] = BBO(books[symbol])
      BY <1>2, <1>3, <1>5, <2>1 DEF CInv, PInv, TypeOK
    <3>2. BBO(books[symbol])' = BBO(books'[symbol])
      BY <1>1
    <3> QED
      BY <1>1, <3>1 DEF Current, BBO
  <2>2. CASE symbol # handler.f.symbol
    <3>1. published'[symbol] = published[symbol]
      BY <1>3, <1>5, <2>2 DEF CInv, PInv, TypeOK
    <3>2. Current(symbol)
      BY <1>4, <1>5, <2>2 DEF OthersCurrent
    <3> QED
      BY <1>1, <3>1, <3>2 DEF Current
  <2> QED
    BY <2>1, <2>2
<1> QED
  BY <1>1, <1>5 DEF OthersCurrent, NoMessage

(* Between messages of a conforming feed, what was published last for a    *)
(* symbol is what its book shows.                                          *)
THEOREM ConformingPublished ==
  ASSUME TidyFile
  PROVE  ConformingSpec => []PublishedIsCurrent
<1>1. Init => OthersCurrent
  BY DEF Init, OthersCurrent, NoMessage, Current
<1>2. CInv /\ OthersCurrent /\ [ConformingNext]_vars => OthersCurrent'
  <2> SUFFICES ASSUME CInv, OthersCurrent, [ConformingNext]_vars
               PROVE  OthersCurrent'
    OBVIOUS
  <2>1. CASE OnLogon
    <3>1. /\ handler.msg = "none" /\ handler' = handler /\ published' = published
          /\ books' = [symbol \in Symbol |-> IF symbol \in Booked THEN NewBook
                                             ELSE books[symbol]]
      BY <2>1 DEF OnLogon, Ready
    <3>2. NewBook.evtTime = NoTime
      BY DEF NewBook
    <3> QED
      BY <3>1, <3>2 DEF OthersCurrent, Current
  <2>2. ASSUME NEW symbol \in requested, NEW n \in 1 .. MaxEntries,
               FullRefresh(symbol, n) \/ Incremental(symbol, n)
        PROVE  OthersCurrent'
    BY <2>2, StartCurrent
  <2>3. CASE FullDone \/ IncrementalDone
    BY <2>3, DoneCurrent
  <2>4. CASE UNCHANGED vars
    BY <2>4 DEF vars, OthersCurrent, Current
  <2> QED
    BY <2>1, <2>2, <2>3, <2>4, FullAddCurrent, UpdateCurrent DEF ConformingNext
<1>3. OthersCurrent => PublishedIsCurrent
  BY DEF OthersCurrent, PublishedIsCurrent, Current, Ready
<1> QED
  BY <1>1, <1>2, <1>3, ConformingIndInvariant, PTL DEF ConformingSpec

-----------------------------------------------------------------------------
(* What a full refresh leaves in a book, whatever came before it.          *)

GroupField == {"id", "quoteId", "type", "px", "size"}

(* The handler's variables are what the entries so far said last.          *)
FieldsAsSaid ==
  LET n == Len(seen)
  IN  /\ handler.f.id = Said(n, "id", EmptyId)
      /\ handler.f.quoteId = Said(n, "quoteId", EmptyId)
      /\ handler.f.type = Said(n, "type", Absent)
      /\ handler.f.px = Said(n, "px", Absent)
      /\ handler.f.size = Said(n, "size", Absent)

HistoryInv == /\ PInv
              /\ seen \in Seq(FullEntry)
              /\ handler.msg = "full" => FieldsAsSaid
              /\ handler.msg # "full" => seen = <<>>
              /\ SnapshotDecides

(* The greatest element of a set is its maximum.                           *)
LEMMA MaxIs ==
  ASSUME NEW S \in SUBSET Int, NEW n \in S, \A m \in S : m <= n
  PROVE  Max(S) = n
<1>1. \A x, y \in S : (\A m \in S : x >= m) /\ (\A m \in S : y >= m) => x = y
  OBVIOUS
<1>2. \A m \in S : n >= m
  OBVIOUS
<1> QED
  BY <1>1, <1>2 DEF Max

(* A set of numbers up to a bound has its maximum in it.                   *)
LEMMA MaxOfUpTo ==
  ASSUME NEW k \in Nat, NEW S \in SUBSET (1 .. k), S # {}
  PROVE  Max(S) \in S
<1>1. S \in SUBSET Int /\ k + 1 \in Int /\ \A m \in S : m < k + 1
  OBVIOUS
<1>2. PICK n \in S : \A m \in S : m <= n
  BY <1>1, GreatestInt
<1> QED
  BY <1>1, <1>2, MaxIs

(* A new entry leaves what the others said, and itself says what it gives  *)
(* or else what the entry before it said.                                  *)
LEMMA SaidByAppended ==
  ASSUME seen \in Seq(FullEntry), NEW e \in FullEntry, seen' = Append(seen, e),
         NEW n \in Nat, n = Len(seen), NEW field \in GroupField, NEW other
  PROVE  /\ \A k \in 1 .. n : Said(k, field, other)' = Said(k, field, other)
         /\ Said(n + 1, field, other)' = Keep(e[field], Said(n, field, other))
<1> DEFINE given(k) == {j \in 1 .. k : seen[j][field] # Absent}
           after(k) == {j \in 1 .. k : seen'[j][field] # Absent}
<1>1. /\ seen'[n + 1] = e
      /\ \A j \in 1 .. n : seen'[j] = seen[j]
  OBVIOUS
<1>2. \A k \in 0 .. n : after(k) = given(k)
  BY <1>1
<1>3. /\ \A k \in Nat : /\ given(k) \in SUBSET (1 .. k)
                        /\ given(k) # {} => Max(given(k)) \in given(k)
  <2> SUFFICES ASSUME NEW k \in Nat
               PROVE  /\ given(k) \in SUBSET (1 .. k)
                      /\ given(k) # {} => Max(given(k)) \in given(k)
    OBVIOUS
  <2>1. given(k) \in SUBSET (1 .. k)
    OBVIOUS
  <2> HIDE DEF given
  <2> QED
    BY <2>1, MaxOfUpTo
<1>4. \A k \in Nat :
        /\ Said(k, field, other) = IF given(k) = {} THEN other ELSE seen[Max(given(k))][field]
        /\ Said(k, field, other)' = IF after(k) = {} THEN other ELSE seen'[Max(after(k))][field]
  BY DEF Said
<1>5. \A k \in 0 .. n : given(k) # {} => Max(given(k)) \in 1 .. n
  BY <1>3
<1>6. after(n + 1) = given(n) \cup (IF e[field] = Absent THEN {} ELSE {n + 1})
  BY <1>1, <1>2
<1> HIDE DEF given, after
<1>7. ASSUME NEW k \in 1 .. n
      PROVE  Said(k, field, other)' = Said(k, field, other)
  BY <1>1, <1>2, <1>4, <1>5
<1>8. CASE e[field] # Absent
  <2>1. /\ after(n + 1) \in SUBSET Int /\ n + 1 \in after(n + 1)
        /\ \A m \in after(n + 1) : m <= n + 1
    BY <1>3, <1>6, <1>8
  <2>2. Max(after(n + 1)) = n + 1
    BY <2>1, MaxIs
  <2>3. Said(n + 1, field, other)' = e[field]
    BY <1>1, <1>4, <2>1, <2>2
  <2> QED
    BY <1>7, <1>8, <2>3 DEF Keep
<1>9. CASE e[field] = Absent
  <2>1. after(n + 1) = given(n)
    BY <1>6, <1>9
  <2>2. Said(n + 1, field, other)' = Said(n, field, other)
    BY <1>1, <1>4, <1>5, <2>1
  <2> QED
    BY <1>7, <1>9, <2>2 DEF Keep
<1> QED
  BY <1>8, <1>9
(* An addition shows under its id, changes no other entry of the map, and  *)
(* puts nothing else into a level; of no side, it does nothing.            *)
LEMMA AddTells ==
  ASSUME NEW b \in BookType, Sound(b), NEW id \in OrderId, NEW side,
         NEW size \in Size, NEW price \in Price, NEW t \in Time, NEW s \in Time,
         NEW c, c = Add(b, id, side, size, price, t, s)
  PROVE  /\ side \in BookSide => Shows(GetOrder(c, id), [side |-> side, price |-> price,
                                                         size |-> size])
         /\ \A x \in OrderId : x # id \/ side \notin BookSide => GetOrder(c, x) = GetOrder(b, x)
         /\ \A sd \in BookSide, pr \in Price, x \in OrderId : RestsAt(c, sd, pr, x) =>
              \/ RestsAt(b, sd, pr, x)
              \/ sd = side /\ pr = price /\ x = id
<1>1. CASE side \notin BookSide
  <2>1. c.orderMap = b.orderMap /\ c.tree = b.tree
    BY <1>1 DEF Add, Sent, BookType
  <2> QED
    BY <1>1, <2>1 DEF GetOrder, RestsAt, HasLevel
<1>2. CASE side \in BookSide
  <2> DEFINE lvl == IF b.tree[side][price] = NoLevel THEN NewLevel ELSE b.tree[side][price]
             a == AddOrder(lvl, id, size)
             m == SetUpdateTime(a, t)
             o == [side |-> side, price |-> price, size |-> size, linked |-> ~HasOrder(lvl, id)]
  <2>1. lvl \in LevelType /\ ListsOnce(lvl)
    BY <1>2, NewLevelEmpty DEF BookType, Sound, OncePerLevel, HasLevel
  <2>2. \A x \in OrderId : HasOrder(lvl, x) => RestsAt(b, side, price, x)
    BY <1>2, NewLevelEmpty DEF RestsAt, HasLevel
  <2>3. c = Put(b, id, o, side, price, m, t, s)
    BY <1>2 DEF Add, AddAt
  <2> HIDE DEF lvl
  <2>4. o \in Order /\ o.side = side /\ o.price = price /\ o.size = size
    BY <1>2 DEF Order
  <2>5. /\ a \in LevelType
        /\ \A x \in OrderId, z \in Size : Lists(a, x, z) => Lists(lvl, x, z) \/ x = id
    BY <2>1, AddOrderLists
  <2> HIDE DEF a, o
  <2>6. /\ m \in LevelType
        /\ \A x \in OrderId : HasOrder(m, x) => HasOrder(lvl, x) \/ x = id
    BY <2>1, <2>5, StampKeeps, HasIsLists
  <2> HIDE DEF m
  <2>7. /\ c.orderMap[id] = o
        /\ \A x \in OrderId : x # id => c.orderMap[x] = b.orderMap[x]
        /\ c.tree[side][price] = m
        /\ \A sd \in BookSide, pr \in Price :
             sd # side \/ pr # price => c.tree[sd][pr] = b.tree[sd][pr]
    BY <1>2, <2>3 DEF Put, BookType
  <2>8. ASSUME NEW sd \in BookSide, NEW pr \in Price, NEW x \in OrderId, RestsAt(c, sd, pr, x)
        PROVE  RestsAt(b, sd, pr, x) \/ (sd = side /\ pr = price /\ x = id)
    <3>1. CASE sd # side \/ pr # price
      BY <2>7, <2>8, <3>1 DEF RestsAt, HasLevel
    <3>2. CASE sd = side /\ pr = price
      BY <2>2, <2>6, <2>7, <2>8, <3>2 DEF RestsAt, HasLevel
    <3> QED
      BY <3>1, <3>2
  <2> QED
    BY <1>2, <2>4, <2>7, <2>8, NullAssumption DEF Shows, GetOrder
<1> QED
  BY <1>1, <1>2

(* The entry read last says what the handler's variables hold.             *)
LEMMA LastSays ==
  ASSUME HistoryInv, handler.msg = "full", NEW e \in FullEntry, seen' = Append(seen, e),
         handler'.f = ReadFull(handler.f, e), NEW n \in Nat, n = Len(seen)
  PROVE  /\ FieldsAsSaid'
         /\ \A k \in 1 .. n : SaidId(k)' = SaidId(k) /\ SaidOrder(k)' = SaidOrder(k)
         /\ SaidId(n + 1)' = FullId(ReadFull(handler.f, e))
         /\ SaidOrder(n + 1)' = LET f == ReadFull(handler.f, e)
                                IN  [side |-> Char2Side(f.type), price |-> f.px,
                                     size |-> Truncate(f.size)]
<1> DEFINE f == ReadFull(handler.f, e)
<1>1. /\ f.id = Keep(e.id, handler.f.id) /\ f.quoteId = Keep(e.quoteId, handler.f.quoteId)
      /\ f.type = Keep(e.type, handler.f.type) /\ f.px = Keep(e.px, handler.f.px)
      /\ f.size = Keep(e.size, handler.f.size)
  BY DEF ReadFull, HistoryInv, PInv, TypeOK, Fields
<1>2. seen \in Seq(FullEntry) /\ FieldsAsSaid
  BY DEF HistoryInv
<1>3. /\ \A k \in 1 .. n : Said(k, "id", EmptyId)' = Said(k, "id", EmptyId)
      /\ Said(n + 1, "id", EmptyId)' = f.id
  BY <1>1, <1>2, SaidByAppended DEF GroupField, FieldsAsSaid
<1>4. /\ \A k \in 1 .. n : Said(k, "quoteId", EmptyId)' = Said(k, "quoteId", EmptyId)
      /\ Said(n + 1, "quoteId", EmptyId)' = f.quoteId
  BY <1>1, <1>2, SaidByAppended DEF GroupField, FieldsAsSaid
<1>5. /\ \A k \in 1 .. n : Said(k, "type", Absent)' = Said(k, "type", Absent)
      /\ Said(n + 1, "type", Absent)' = f.type
  BY <1>1, <1>2, SaidByAppended DEF GroupField, FieldsAsSaid
<1>6. /\ \A k \in 1 .. n : Said(k, "px", Absent)' = Said(k, "px", Absent)
      /\ Said(n + 1, "px", Absent)' = f.px
  BY <1>1, <1>2, SaidByAppended DEF GroupField, FieldsAsSaid
<1>7. /\ \A k \in 1 .. n : Said(k, "size", Absent)' = Said(k, "size", Absent)
      /\ Said(n + 1, "size", Absent)' = f.size
  BY <1>1, <1>2, SaidByAppended DEF GroupField, FieldsAsSaid
<1>8. Len(seen') = n + 1
  BY <1>2
<1> HIDE DEF f
<1>9. handler'.f = f
  BY DEF f
<1>10. FieldsAsSaid'
  BY <1>3, <1>4, <1>5, <1>6, <1>7, <1>8, <1>9 DEF FieldsAsSaid
<1>11. \A k \in 1 .. n : SaidId(k)' = SaidId(k) /\ SaidOrder(k)' = SaidOrder(k)
  BY <1>3, <1>4, <1>5, <1>6, <1>7 DEF SaidId, SaidOrder
<1>12. SaidId(n + 1)' = FullId(f)
  BY <1>3, <1>4 DEF SaidId, FullId
<1>13. SaidOrder(n + 1)' = [side |-> Char2Side(f.type), price |-> f.px, size |-> Truncate(f.size)]
  BY <1>5, <1>6, <1>7 DEF SaidOrder
<1> QED
  BY <1>10, <1>11, <1>12, <1>13 DEF f
(* An entry added to the book keeps what the entries before it left there. *)
LEMMA FullAddDecides ==
  ASSUME HistoryInv, NEW e \in FullEntry, NEW t \in Time, NEW s \in Time,
         FullAdd(e, t, s), seen' = Append(seen, e)
  PROVE  HistoryInv'
<1> DEFINE f == ReadFull(handler.f, e)
           n == Len(seen)
           said == [side |-> Char2Side(f.type), price |-> f.px, size |-> Truncate(f.size)]
<1>1. PInv /\ seen \in Seq(FullEntry) /\ FieldsAsSaid /\ handler.msg = "full" /\ SnapshotDecides
  BY DEF HistoryInv, FullAdd, InFull
<1>2. PInv' /\ seen' \in Seq(FullEntry)
  BY <1>1, FullAddPInv
<1>3. /\ Absent \notin {f.type, f.px, f.size}
      /\ handler'.msg = "full" /\ handler'.cur = handler.cur /\ handler'.f = f
  BY <1>1 DEF FullAdd, InFull, PInv, TypeOK
<1>4. f \in Fields
  BY <1>1, ReadTypes, EntryAssumption DEF PInv, TypeOK
<1>5. FullId(f) \in OrderId /\ f.px \in Price /\ Truncate(f.size) \in Size
  BY <1>3, <1>4, FieldAssumption DEF FullId, Fields
<1>6. PICK last \in Nat : last = n
  BY <1>1
<1>7. /\ FieldsAsSaid'
      /\ \A k \in 1 .. last : SaidId(k)' = SaidId(k) /\ SaidOrder(k)' = SaidOrder(k)
      /\ SaidId(last + 1)' = FullId(f) /\ SaidOrder(last + 1)' = said
  BY <1>1, <1>3, <1>6, LastSays
<1>8. DOMAIN seen = 1 .. last /\ DOMAIN seen' = 1 .. last + 1
  BY <1>1, <1>6
<1> HIDE DEF f, n, said
<1>9. \A id \in OrderId :
        /\ Naming(id) \subseteq 1 .. last
        /\ Naming(id)' = Naming(id) \cup (IF FullId(f) = id /\ said.side \in BookSide
                                          THEN {last + 1} ELSE {})
  BY <1>7, <1>8 DEF Naming
<1>10. ASSUME handler.cur # NoSymbol
       PROVE  SnapshotDecides'
  <2> DEFINE b == books[handler.cur]
             c == books'[handler.cur]
  <2>1. handler.cur \in Symbol /\ b \in BookType /\ Sound(b)
    BY <1>1, <1>10 DEF PInv, TypeOK, CurrentIsThere, BooksSound
  <2>2. c = Add(b, FullId(f), said.side, said.size, said.price, t, s)
    BY <1>1, <1>10, <2>1 DEF FullAdd, PInv, TypeOK, f, said
  <2>3. /\ said.size \in Size /\ said.price \in Price
        /\ said = [side |-> said.side, price |-> said.price, size |-> said.size]
    BY <1>5 DEF said
  <2> HIDE DEF b, c
  <2>4. /\ said.side \in BookSide => Shows(GetOrder(c, FullId(f)), said)
        /\ \A x \in OrderId : x # FullId(f) \/ said.side \notin BookSide =>
             GetOrder(c, x) = GetOrder(b, x)
        /\ \A sd \in BookSide, pr \in Price, x \in OrderId : RestsAt(c, sd, pr, x) =>
             \/ RestsAt(b, sd, pr, x)
             \/ sd = said.side /\ pr = said.price /\ x = FullId(f)
    BY <1>5, <2>1, <2>2, <2>3, AddTells
  <2>5. ASSUME NEW id \in OrderId
        PROVE  /\ Naming(id) = {} => GetOrder(b, id) = NoOrder
               /\ Naming(id) # {} => Shows(GetOrder(b, id), SaidOrder(Max(Naming(id))))
               /\ \A side \in BookSide, price \in Price : RestsAt(b, side, price, id) =>
                    \E k \in Naming(id) : SaidOrder(k).side = side /\ SaidOrder(k).price = price
    BY <1>1, <1>10, <2>5 DEF SnapshotDecides, b
  <2>6. ASSUME NEW id \in OrderId, FullId(f) # id \/ said.side \notin BookSide
        PROVE  /\ Naming(id)' = {} => GetOrder(c, id) = NoOrder
               /\ Naming(id)' # {} => Shows(GetOrder(c, id), SaidOrder(Max(Naming(id)))')
               /\ \A side \in BookSide, price \in Price : RestsAt(c, side, price, id) =>
                    \E k \in Naming(id)' : SaidOrder(k)'.side = side /\ SaidOrder(k)'.price = price
    <3>1. Naming(id)' = Naming(id) /\ GetOrder(c, id) = GetOrder(b, id)
      BY <1>9, <2>4, <2>6
    <3>2. Naming(id) # {} => Max(Naming(id)) \in 1 .. last
      BY <1>6, <1>9, MaxOfUpTo
    <3>3. ASSUME Naming(id) # {}
          PROVE  SaidOrder(Max(Naming(id)))' = SaidOrder(Max(Naming(id)))
      <4>1. PICK k \in 1 .. last : k = Max(Naming(id))
        BY <3>2, <3>3
      <4> QED
        BY <1>7, <3>1, <4>1
    <3>4. \A k \in Naming(id) : SaidOrder(k)' = SaidOrder(k)
      BY <1>7, <1>9
    <3> QED
      BY <2>4, <2>5, <2>6, <3>1, <3>3, <3>4
  <2>7. ASSUME NEW id \in OrderId, FullId(f) = id, said.side \in BookSide
        PROVE  /\ Naming(id)' = {} => GetOrder(c, id) = NoOrder
               /\ Naming(id)' # {} => Shows(GetOrder(c, id), SaidOrder(Max(Naming(id)))')
               /\ \A side \in BookSide, price \in Price : RestsAt(c, side, price, id) =>
                    \E k \in Naming(id)' : SaidOrder(k)'.side = side /\ SaidOrder(k)'.price = price
    <3>1. Naming(id)' = Naming(id) \cup {last + 1} /\ Naming(id) \subseteq 1 .. last
      BY <1>9, <2>7
    <3>2. Max(Naming(id)') = last + 1
      <4>1. \A S \in SUBSET (1 .. last) : /\ S \cup {last + 1} \in SUBSET Int
                                         /\ \A m \in S \cup {last + 1} : m <= last + 1
        OBVIOUS
      <4>2. \A S \in SUBSET (1 .. last) : Max(S \cup {last + 1}) = last + 1
        BY <4>1, MaxIs
      <4> QED
        BY <3>1, <4>2
    <3>3. SaidOrder(Max(Naming(id)))' = said
      BY <1>7, <3>2
    <3>4. \A k \in Naming(id) : SaidOrder(k)' = SaidOrder(k)
      BY <1>7, <1>9
    <3> QED
      BY <1>7, <2>4, <2>5, <2>7, <3>1, <3>3, <3>4
  <2> QED
    BY <1>3, <2>6, <2>7 DEF SnapshotDecides, c
<1> QED
  BY <1>2, <1>3, <1>7, <1>10 DEF HistoryInv, SnapshotDecides
(* The history constrains nothing: its steps are those of the application. *)
LEMMA HistoryStep ==
  HistoryInv /\ [HistoryNext]_historyVars => HistoryInv'
<1> SUFFICES ASSUME HistoryInv, [HistoryNext]_historyVars
             PROVE  HistoryInv'
  OBVIOUS
<1>1. PInv /\ [Next]_vars
  BY DEF HistoryInv, HistoryNext, historyVars, Next
<1>2. PInv'
  BY <1>1, NextPInv
<1>3. ASSUME seen' = <<>>, handler'.msg # "full"
      PROVE  HistoryInv'
  BY <1>2, <1>3 DEF HistoryInv, SnapshotDecides
<1>4. NoMessage.msg = "none"
  BY DEF NoMessage
<1>5. ASSUME NEW symbol \in Symbol \cup {NoSymbol}, NEW m \in 0 .. MaxEntries,
             FullRefresh(symbol, m), UNCHANGED seen
      PROVE  HistoryInv'
  <2> DEFINE cur == IF m > 0 THEN Found(symbol) ELSE NoSymbol
  <2>1. /\ handler'.msg = "full" /\ handler'.cur = cur
        /\ handler'.f = [NoFields EXCEPT !.symbol = symbol] /\ seen' = <<>>
    BY <1>5 DEF FullRefresh, Ready, HistoryInv
  <2>2. Len(<<>>) = 0 /\ \A field, other : Said(0, field, other)' = other
    BY DEF Said
  <2>3. FieldsAsSaid'
    BY <2>1, <2>2 DEF FieldsAsSaid, NoFields
  <2>4. ASSUME cur # NoSymbol
        PROVE  SnapshotDecides'
    <3>1. cur \in Symbol /\ books[cur] \in BookType
      BY <1>1, <2>4, FoundBook DEF Found, PInv
    <3>2. books'[cur] = Clear(books[cur])
      BY <1>1, <1>5, <2>4, <3>1 DEF FullRefresh, PInv, TypeOK
    <3>3. \A id \in OrderId : GetOrder(books'[cur], id) = NoOrder
      BY <3>1, <3>2 DEF Clear, GetOrder, NoOrders, BookType
    <3>4. \A side \in BookSide, price \in Price, id \in OrderId :
            ~RestsAt(books'[cur], side, price, id)
      BY <3>1, <3>2 DEF Clear, RestsAt, HasLevel, NoLevels, BookType
    <3>5. \A id \in OrderId : Naming(id)' = {}
      BY <2>1 DEF Naming
    <3> HIDE DEF cur
    <3> QED
      BY <2>1, <3>3, <3>4, <3>5 DEF SnapshotDecides
  <2>5. SnapshotDecides'
    BY <2>1, <2>4 DEF SnapshotDecides
  <2>6. seen' \in Seq(FullEntry)
    BY <2>1
  <2> QED
    BY <1>2, <2>1, <2>3, <2>5, <2>6 DEF HistoryInv
<1>6. ASSUME NEW symbol \in Symbol \cup {NoSymbol}, NEW m \in 0 .. MaxEntries,
             Incremental(symbol, m), UNCHANGED seen
      PROVE  HistoryInv'
  <2>1. seen' = <<>> /\ handler'.msg # "full"
    BY <1>6 DEF Incremental, Ready, HistoryInv
  <2> QED
    BY <1>3, <2>1
<1>7. CASE OnLogon /\ UNCHANGED seen
  <2>1. seen' = <<>> /\ handler'.msg # "full"
    BY <1>7 DEF OnLogon, Ready, HistoryInv
  <2> QED
    BY <1>3, <2>1
<1>8. CASE IncrementalDone /\ UNCHANGED seen
  <2>1. seen' = <<>> /\ handler'.msg # "full"
    BY <1>4, <1>8 DEF IncrementalDone, HistoryInv
  <2> QED
    BY <1>3, <2>1
<1>9. ASSUME NEW e \in UpdateEntry, NEW t \in Time, NEW s \in Time,
             ApplyUpdate(e, t, s), UNCHANGED seen
      PROVE  HistoryInv'
  <2>1. handler.msg = "incremental"
    BY <1>9 DEF ApplyUpdate, SkipEntry, RejectEntry, NewEntry, RenameEntry, ChangeEntry,
                DeleteEntry, OtherEntry, Applies, InUpdate
  <2>2. \/ handler' = NoMessage
        \/ \E f : EntryRead(f)
    BY <1>9 DEF ApplyUpdate, SkipEntry, RejectEntry, NewEntry, RenameEntry, ChangeEntry,
                DeleteEntry, OtherEntry, Applies
  <2>3. handler'.msg # "full"
    BY <1>1, <1>4, <2>1, <2>2 DEF EntryRead, PInv, TypeOK
  <2> QED
    BY <1>3, <1>9, <2>1, <2>3 DEF HistoryInv
<1>10. ASSUME NEW e \in FullEntry, NEW t \in Time, NEW s \in Time,
              FullAdd(e, t, s), seen' = Append(seen, e)
       PROVE  HistoryInv'
  BY <1>10, FullAddDecides
<1>11. ASSUME FullDone \/ EntryMissing \/ \E e \in FullEntry : FullReject(e), seen' = <<>>
       PROVE  HistoryInv'
  BY <1>3, <1>4, <1>11 DEF FullDone, EntryMissing, FullReject
<1>12. CASE UNCHANGED historyVars
  <2>1. seen' = seen /\ handler' = handler /\ books' = books
    BY <1>12 DEF historyVars, vars
  <2>2. FieldsAsSaid => FieldsAsSaid'
    BY <2>1 DEF FieldsAsSaid, Said
  <2>3. SnapshotDecides'
    <3>1. \A k, field, other : Said(k, field, other)' = Said(k, field, other)
      BY <2>1 DEF Said
    <3>2. \A k : SaidId(k)' = SaidId(k) /\ SaidOrder(k)' = SaidOrder(k)
      BY <3>1 DEF SaidId, SaidOrder
    <3>3. \A id : Naming(id)' = Naming(id)
      BY <2>1, <3>2 DEF Naming
    <3>4. \A id : SaidOrder(Max(Naming(id)))' = SaidOrder(Max(Naming(id)))
      BY <3>2, <3>3
    <3> QED
      BY <2>1, <3>2, <3>3, <3>4 DEF HistoryInv, SnapshotDecides
  <2> QED
    BY <1>2, <2>1, <2>2, <2>3 DEF HistoryInv
<1> QED
  BY <1>5, <1>6, <1>7, <1>8, <1>9, <1>10, <1>11, <1>12 DEF HistoryNext, Start

(* Whatever the venue sends, and whatever it left half done before, during *)
(* a full refresh the book is what the entries of that message say.        *)
THEOREM SnapshotAlwaysDecides == HistorySpec => []SnapshotDecides
<1>1. HistoryInit => HistoryInv
  BY InitPInv DEF HistoryInit, Init, NoMessage, HistoryInv, SnapshotDecides
<1>2. HistoryInv /\ [HistoryNext]_historyVars => HistoryInv'
  BY HistoryStep
<1>3. HistoryInv => SnapshotDecides
  BY DEF HistoryInv
<1> QED
  BY <1>1, <1>2, <1>3, PTL DEF HistorySpec
=============================================================================
