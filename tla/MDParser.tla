------------------------------ MODULE MDParser ------------------------------
(***************************************************************************)
(* The FIX application of the market-data collector                        *)
(* (market_data/fix/src/md_parser_qf.cpp): it keeps one order book per     *)
(* symbol, makes the books anew at every logon, applies full refreshes     *)
(* (35=W) and incremental refreshes (35=X) to them entry by entry, and     *)
(* publishes the best bid and offer after each message.                    *)
(*                                                                         *)
(* The FIX engine runs its callbacks one at a time on the session's        *)
(* thread.  One iteration of a handler's loop over the entries of a        *)
(* message is one step, so that what a message does when it stops half way *)
(* is visible.  The messages here are arbitrary: any symbol, any number of *)
(* entries, entries that omit fields.                                      *)
(***************************************************************************)
EXTENDS Book

CONSTANTS
  Symbol,        \* the symbols of instruments
  NoSymbol,      \* the empty string as a symbol
  SymbolFile,    \* the lines of the symbol file, blank ones included
  EmptyId,       \* the key of the empty string as an entry id
  Absent,        \* a field that no message has set
  NewReplaces,   \* NewReplaces=Y
  IsPublishing,  \* PublishPrices=Y
  FullEntry,     \* the entries full refreshes are made of
  UpdateEntry,   \* the entries incremental refreshes are made of
  MaxEntries,    \* bound: entries in one message
  NoBook,        \* a null order_book pointer
  NoBBO          \* a symbol nothing was published for

Action    == {"NEW", "CHANGE", "DELETE", "OTHER"}
EntryType == {"0", "1", "2"}

(* The fields of a repeating group, or what the handler's variables hold.  *)
Entry == [action  : Action \cup {Absent},  type    : EntryType \cup {Absent},
          id      : OrderId \cup {Absent}, quoteId : OrderId \cup {Absent},
          refId   : OrderId \cup {Absent}, symbol  : Symbol \cup {Absent},
          px      : Price \cup {Absent},   size    : Size \cup {Absent}]

Fields == [action : Action \cup {Absent}, type : EntryType \cup {Absent},
           id : OrderId, quoteId : OrderId, symbol : Symbol \cup {NoSymbol},
           px : Price \cup {Absent}, size : Size \cup {Absent}]

(* A double passed through an unsigned int loses its fraction.             *)
Truncate(size) == (size \div Unit) * Unit

ASSUME SymbolAssumption == /\ NoSymbol \notin Symbol
                           /\ SymbolFile \in Seq(Symbol \cup {NoSymbol})
ASSUME FieldAssumption  == /\ EmptyId \in OrderId
                           /\ Absent \notin OrderId \cup Price \cup Size
                           /\ Absent \notin Symbol \cup {NoSymbol} \cup Action \cup EntryType
                           /\ 0 \in Size
                           /\ \A size \in Size : Truncate(size) \in Size
ASSUME ConfigAssumption == NewReplaces \in BOOLEAN /\ IsPublishing \in BOOLEAN
ASSUME EntryAssumption  == /\ FullEntry \subseteq Entry /\ UpdateEntry \subseteq Entry
                           /\ MaxEntries \in Nat
ASSUME NoBookAssumption == NoBook \notin BookType

VARIABLES
  books,      \* _symbolToBook
  requested,  \* the symbols of the market data requests of the last logon
  handler,    \* the message being handled
  published,  \* the last BBO broadcast for each symbol
  status      \* "up", or how the process ended

vars == <<books, requested, handler, published, status>>

-----------------------------------------------------------------------------
(* The symbol file may have blank lines; reading it yields one after the   *)
(* last symbol in any case.  run() makes books up to the first blank line  *)
(* and requests every symbol that is not blank.  Mutant: the loop tests the *)
(* line after the one it makes a book for.                                 *)
BookedOneLess == {SymbolFile[i] : i \in {k \in DOMAIN SymbolFile :
                   k + 1 \in DOMAIN SymbolFile
                     /\ \A j \in 1 .. k + 1 : SymbolFile[j] # NoSymbol}}

Booked == {SymbolFile[i] : i \in {k \in DOMAIN SymbolFile :
                                    \A j \in 1 .. k : SymbolFile[j] # NoSymbol}}
Requested == {SymbolFile[i] : i \in DOMAIN SymbolFile} \ {NoSymbol}

(* No blank line comes before a symbol.                                    *)
TidyFile == Requested \subseteq Booked

GetBook(symbol) == IF symbol \in Symbol THEN books[symbol] ELSE NoBook

(* The symbol whose book a lookup finds, or NoSymbol when it finds NULL.   *)
Found(symbol) == IF GetBook(symbol) = NoBook THEN NoSymbol ELSE symbol

BBO(b) == [bid |-> BestPrice(b, BID), bidSize |-> BestPriceVolume(b, BID),
           ask |-> BestPrice(b, ASK), askSize |-> BestPriceVolume(b, ASK)]

BBOType == [bid : Price \cup {NoBid}, bidSize : 0 .. VolumeMod - 1,
            ask : Price \cup {NoAsk}, askSize : 0 .. VolumeMod - 1]

Char2Side(type) == CASE type = "0" -> BID [] type = "1" -> ASK [] OTHER -> NOSIDE

(* The handler's variables are made once per message, and an entry that    *)
(* omits a field leaves them as the entry before it set them.              *)
NoFields == [action |-> Absent, type |-> Absent, id |-> EmptyId, quoteId |-> EmptyId,
             symbol |-> NoSymbol, px |-> Absent, size |-> Absent]

Keep(new, old) == IF new = Absent THEN old ELSE new

(* Mutant of ReadFull: the entry id is made anew for each entry.           *)
ReadFullNewId(f, e) ==
  [f EXCEPT !.symbol = Keep(e.symbol, @), !.type = Keep(e.type, @),
            !.id = Keep(e.id, EmptyId), !.quoteId = Keep(e.quoteId, @),
            !.px = Keep(e.px, @), !.size = Keep(e.size, @)]

ReadFull(f, e) ==
  [f EXCEPT !.symbol = Keep(e.symbol, @), !.type = Keep(e.type, @),
            !.id = Keep(e.id, @), !.quoteId = Keep(e.quoteId, @),
            !.px = Keep(e.px, @), !.size = Keep(e.size, @)]

(* Here a size that is omitted is zero.                                    *)
ReadUpdate(f, e) ==
  [f EXCEPT !.action = Keep(e.action, @), !.type = Keep(e.type, @),
            !.id = Keep(e.id, @), !.symbol = Keep(e.symbol, @),
            !.px = Keep(e.px, @), !.size = Keep(e.size, 0)]

NoMessage == [msg |-> "none", left |-> 0, f |-> NoFields, cur |-> NoSymbol]

Ready == status = "up" /\ handler.msg = "none"

Init == /\ books = [symbol \in Symbol |-> NoBook]
        /\ requested = {}
        /\ handler = NoMessage
        /\ published = [symbol \in Symbol |-> NoBBO]
        /\ status = "up"

-----------------------------------------------------------------------------
(* Mutant of OnLogon: a symbol that has a book keeps it.                   *)
OnLogonKeepsBooks ==
  /\ Ready
  /\ books' = [symbol \in Symbol |->
                IF symbol \in Booked /\ books[symbol] = NoBook THEN NewBook
                ELSE books[symbol]]
  /\ requested' = Requested
  /\ UNCHANGED <<handler, published, status>>

(* onLogon runs run(): the old books are not deleted, only forgotten.      *)
OnLogon ==
  /\ Ready
  /\ books' = [symbol \in Symbol |-> IF symbol \in Booked THEN NewBook
                                     ELSE books[symbol]]
  /\ requested' = Requested
  /\ UNCHANGED <<handler, published, status>>

(* Mutant of FullRefresh: the book is not cleared.                         *)
FullRefreshKeepsBook(symbol, n) ==
  /\ Ready
  /\ handler' = [msg |-> "full", left |-> n, cur |-> IF n > 0 THEN Found(symbol) ELSE NoSymbol,
                 f |-> [NoFields EXCEPT !.symbol = symbol]]
  /\ UNCHANGED <<books, requested, published, status>>

(* Full refresh: the book is looked up and cleared only if there are       *)
(* entries.                                                                *)
FullRefresh(symbol, n) ==
  LET cur == IF n > 0 THEN Found(symbol) ELSE NoSymbol
  IN  /\ Ready
      /\ handler' = [msg |-> "full", left |-> n, cur |-> cur,
                     f |-> [NoFields EXCEPT !.symbol = symbol]]
      /\ books' = IF cur = NoSymbol THEN books
                  ELSE [books EXCEPT ![cur] = Clear(@)]
      /\ UNCHANGED <<requested, published, status>>

InFull == /\ status = "up" /\ handler.msg = "full" /\ handler.left > 0
          /\ UNCHANGED <<requested, published>>

(* A field never set has no value to convert: the engine rejects the       *)
(* message, and what its earlier entries did stays done.                   *)
FullReject(e) ==
  LET f == ReadFull(handler.f, e)
  IN  /\ InFull
      /\ Absent \in {f.type, f.px, f.size}
      /\ handler' = NoMessage
      /\ UNCHANGED <<books, status>>

(* The entry id, or when it is empty the quote's, is the order's id.       *)
FullId(f) == IF f.id = EmptyId THEN f.quoteId ELSE f.id

(* The book is the one found for the message's symbol, whatever symbol the *)
(* entry names.                                                            *)
FullAdd(e, t, s) ==
  LET f == ReadFull(handler.f, e)
  IN  /\ InFull
      /\ Absent \notin {f.type, f.px, f.size}
      /\ handler' = [handler EXCEPT !.left = @ - 1, !.f = f]
      /\ IF handler.cur = NoSymbol
         THEN status' = "nullBook" /\ UNCHANGED books
         ELSE /\ books' = [books EXCEPT ![handler.cur] =
                   Add(@, FullId(f), Char2Side(f.type), Truncate(f.size), f.px, t, s)]
              /\ UNCHANGED status

(* The BBO is broadcast, under the symbol read last, whether or not the    *)
(* application was given a socket: without one the pointer is garbage.     *)
FullDone ==
  /\ status = "up" /\ handler.msg = "full" /\ handler.left = 0
  /\ handler' = NoMessage
  /\ \/ /\ handler.cur = NoSymbol
        /\ status' = "nullBook" /\ UNCHANGED published
     \/ /\ handler.cur # NoSymbol /\ IsPublishing
        /\ published' = [published EXCEPT ![handler.f.symbol] = BBO(books[handler.cur])]
        /\ UNCHANGED status
     \/ /\ handler.cur # NoSymbol /\ ~IsPublishing
        /\ status' \in {"up", "badSocket"} /\ UNCHANGED published
  /\ UNCHANGED <<books, requested>>

(* A message with fewer entries than it announces is rejected as well.     *)
EntryMissing ==
  /\ status = "up" /\ handler.left > 0
  /\ handler' = NoMessage
  /\ UNCHANGED <<books, requested, published, status>>

-----------------------------------------------------------------------------
(* Incremental refresh: the symbol may be given once or in the entries.    *)
Incremental(symbol, n) ==
  /\ Ready
  /\ handler' = [msg |-> "incremental", left |-> n, cur |-> NoSymbol,
                 f |-> [NoFields EXCEPT !.symbol = symbol]]
  /\ UNCHANGED <<books, requested, published, status>>

InUpdate == /\ status = "up" /\ handler.msg = "incremental" /\ handler.left > 0
            /\ UNCHANGED <<requested, published>>

(* Mutants of EntryRead: the index runs past the last entry; the book is   *)
(* not looked up for each entry.                                           *)
EntryReadPastEnd(f) ==
  handler' = [handler EXCEPT !.left = @ - 2, !.f = f, !.cur = Found(f.symbol)]

EntryReadOnly(f) == handler' = [handler EXCEPT !.left = @ - 1, !.f = f]

(* After an entry the book pointer is what the entry's lookup returned.    *)
EntryRead(f) ==
  handler' = [handler EXCEPT !.left = @ - 1, !.f = f, !.cur = Found(f.symbol)]

SkipEntry(e) ==
  LET f == ReadUpdate(handler.f, e)
  IN  /\ InUpdate
      /\ GetBook(f.symbol) = NoBook
      /\ EntryRead(f)
      /\ UNCHANGED <<books, status>>

Convertible(f) == /\ f.type # Absent /\ f.action # Absent
                  /\ f.action \in {"NEW", "CHANGE"} => f.px # Absent

RejectEntry(e) ==
  LET f == ReadUpdate(handler.f, e)
  IN  /\ InUpdate
      /\ GetBook(f.symbol) # NoBook /\ ~Convertible(f)
      /\ handler' = NoMessage
      /\ UNCHANGED <<books, status>>

(* An entry with this action for a book that is there.                     *)
Applies(f, action) ==
  InUpdate /\ GetBook(f.symbol) # NoBook /\ Convertible(f) /\ f.action = action
    /\ EntryRead(f)

SetBook(symbol, b) == books' = [books EXCEPT ![symbol] = b]

(* How the process fares when the book's own remove asserts.               *)
AfterRemove(b, id) ==
  status' = IF RemoveOutcome(b, id) \in {"aborted", "undefined"}
            THEN "bookAborted" ELSE "up"

AddEntry(b, f, t, s) ==
  Add(b, f.id, Char2Side(f.type), Truncate(f.size), f.px, t, s)

(* Mutant of NewEntry: NewReplaces has no effect.                          *)
NewEntryAdds(e, t, s) ==
  LET f == ReadUpdate(handler.f, e)
  IN  /\ Applies(f, "NEW")
      /\ SetBook(f.symbol, AddEntry(GetBook(f.symbol), f, t, s))
      /\ UNCHANGED status

NewEntry(e, t, s) ==
  LET f == ReadUpdate(handler.f, e)
      b == GetBook(f.symbol)
  IN  /\ Applies(f, "NEW")
      /\ IF NewReplaces
         THEN /\ AfterRemove(b, f.id)
              /\ SetBook(f.symbol, AddEntry(Remove(b, f.id, t, s), f, t, s))
         ELSE /\ UNCHANGED status
              /\ SetBook(f.symbol, AddEntry(b, f, t, s))

(* A change with MDEntryRefID removes that order and adds this one.        *)
RenameEntry(e, t, s) ==
  LET f == ReadUpdate(handler.f, e)
      b == GetBook(f.symbol)
  IN  /\ Applies(f, "CHANGE") /\ e.refId # Absent
      /\ AfterRemove(b, e.refId)
      /\ SetBook(f.symbol, AddEntry(Remove(b, e.refId, t, s), f, t, s))

(* A change without it changes the size, and only the size, if the order   *)
(* is known.                                                               *)
ChangeEntry(e, t, s) ==
  LET f == ReadUpdate(handler.f, e)
      b == GetBook(f.symbol)
  IN  /\ Applies(f, "CHANGE") /\ e.refId = Absent
      /\ IF GetOrder(b, f.id) = NoOrder
         THEN UNCHANGED books
         ELSE SetBook(f.symbol, Modify(b, f.id, Truncate(f.size), t, s))
      /\ UNCHANGED status

DeleteEntry(e, t, s) ==
  LET f == ReadUpdate(handler.f, e)
      b == GetBook(f.symbol)
  IN  /\ Applies(f, "DELETE")
      /\ IF GetOrder(b, f.id) = NoOrder
         THEN status' = "aborted" /\ UNCHANGED books
         ELSE AfterRemove(b, f.id) /\ SetBook(f.symbol, Remove(b, f.id, t, s))

OtherEntry(e) ==
  LET f == ReadUpdate(handler.f, e)
  IN  /\ Applies(f, "OTHER")
      /\ status' = "aborted"
      /\ UNCHANGED books

(* Mutant of IncrementalDone: nothing is broadcast.                        *)
IncrementalDoneQuietly ==
  /\ status = "up" /\ handler.msg = "incremental" /\ handler.left = 0
  /\ handler' = NoMessage
  /\ UNCHANGED <<books, requested, published, status>>

(* Only the book of the last entry is read and published.                  *)
IncrementalDone ==
  /\ status = "up" /\ handler.msg = "incremental" /\ handler.left = 0
  /\ handler' = NoMessage
  /\ IF handler.cur = NoSymbol
     THEN status' = "nullBook" /\ UNCHANGED published
     ELSE /\ published' = IF IsPublishing
               THEN [published EXCEPT ![handler.f.symbol] = BBO(books[handler.cur])]
               ELSE published
          /\ UNCHANGED status
  /\ UNCHANGED <<books, requested>>

ApplyUpdate(e, t, s) ==
  \/ SkipEntry(e)
  \/ RejectEntry(e)
  \/ NewEntry(e, t, s)
  \/ RenameEntry(e, t, s)
  \/ ChangeEntry(e, t, s)
  \/ DeleteEntry(e, t, s)
  \/ OtherEntry(e)

Start == \E symbol \in Symbol \cup {NoSymbol}, n \in 0 .. MaxEntries :
           FullRefresh(symbol, n) \/ Incremental(symbol, n)

Next ==
  \/ OnLogon
  \/ Start
  \/ \E e \in FullEntry : FullReject(e) \/ \E t, s \in Time : FullAdd(e, t, s)
  \/ FullDone
  \/ EntryMissing
  \/ \E e \in UpdateEntry, t, s \in Time : ApplyUpdate(e, t, s)
  \/ IncrementalDone

Spec == Init /\ [][Next]_vars

(* A feed that keeps to the protocol: messages about a symbol that was     *)
(* requested, with at least one entry, all of that symbol; entries that    *)
(* leave no field unset; ids that name one order at a time, so that a      *)
(* snapshot lists an id once and a rename takes a free id or the renamed   *)
(* one; and no deletion of an order the book does not have.  Whether there *)
(* is a book for the symbol is the application's business.                 *)
ConformingFull(e) ==
  LET f == ReadFull(handler.f, e)
  IN  /\ e.symbol = Absent
      /\ Absent \notin {f.type, f.px, f.size}
      /\ handler.cur # NoSymbol => GetOrder(books[handler.cur], FullId(f)) = NoOrder

ConformingUpdate(e) ==
  LET f     == ReadUpdate(handler.f, e)
      b     == GetBook(f.symbol)
      known == {id \in OrderId : GetOrder(b, id) # NoOrder}
  IN  /\ e.symbol = Absent
      /\ Convertible(f) /\ f.action # "OTHER"
      /\ b # NoBook =>
           /\ f.action = "NEW" => NewReplaces \/ f.id \notin known
           /\ f.action = "CHANGE" /\ e.refId # Absent => f.id \notin known \ {e.refId}
           /\ f.action = "DELETE" => f.id \in known

ConformingNext ==
  \/ OnLogon
  \/ \E symbol \in requested, n \in 1 .. MaxEntries :
       FullRefresh(symbol, n) \/ Incremental(symbol, n)
  \/ \E e \in FullEntry, t, s \in Time : ConformingFull(e) /\ FullAdd(e, t, s)
  \/ FullDone
  \/ \E e \in UpdateEntry, t, s \in Time : ConformingUpdate(e) /\ ApplyUpdate(e, t, s)
  \/ IncrementalDone

ConformingSpec == Init /\ [][ConformingNext]_vars

-----------------------------------------------------------------------------
TypeOK ==
  /\ books \in [Symbol -> BookType \cup {NoBook}]
  /\ requested \subseteq Symbol
  /\ handler \in [msg : {"none", "full", "incremental"}, left : 0 .. MaxEntries,
                  f : Fields, cur : Symbol \cup {NoSymbol}]
  /\ published \in [Symbol -> BBOType \cup {NoBBO}]
  /\ status \in {"up", "aborted", "bookAborted", "nullBook", "badSocket"}

(* Whatever the venue sends, in the middle of a message and after one that *)
(* was given up half way as well, every book has a level for each order of *)
(* its map, no empty level, no id twice at a level, and no level with an   *)
(* uninitialised time.                                                     *)
BooksSound == \A symbol \in Symbol : books[symbol] # NoBook => Sound(books[symbol])

(* No message makes the book's own assertions fail (order_book.cpp:186,    *)
(* 203): the handlers' unguarded remove of an id that may be unknown or    *)
(* reused (md_parser_qf.cpp:805, 881) is safe.                             *)
BookAssertionsHold == status # "bookAborted"

(* A feed that keeps to the protocol cannot stop the process: no unknown   *)
(* deletion asserts (md_parser_qf.cpp:954), no null book is read (644,     *)
(* 976).  This needs every requested symbol to have a book, over every     *)
(* logon, and the books to know their orders over every refresh.           *)
StaysUp == status = "up"

(* A feed that keeps to the protocol, reusing ids in NEW only as           *)
(* NewReplaces allows, leaves no order in a book that its id cannot reach. *)
BooksHaveNoGhosts ==
  \A symbol \in Symbol : books[symbol] # NoBook => NoGhosts(books[symbol])

(* Between messages of such a feed what subscribers were told last is what *)
(* the book shows, unless no event reached the book since the last logon   *)
(* emptied it: then they hold the BBO of the book before.                  *)
PublishedIsCurrent ==
  Ready /\ IsPublishing =>
    \A symbol \in Symbol :
      books[symbol] # NoBook /\ books[symbol].evtTime # NoTime =>
        published[symbol] = BBO(books[symbol])

-----------------------------------------------------------------------------
(* What a comment in the code says and the code does not do.               *)

(* "If we found the order referenced by mdEntryRefID update it with new    *)
(* information" (md_parser_qf.cpp:891-892): after a change of a known      *)
(* order the book has the message's price for it, as it has its size.      *)
ChangeShowsPrice ==
  [][\A e \in UpdateEntry, t, s \in Time :
       LET f == ReadUpdate(handler.f, e)
       IN  ChangeEntry(e, t, s) /\ GetOrder(GetBook(f.symbol), f.id) # NoOrder
             => GetOrder(books'[f.symbol], f.id).price = f.px]_vars
=============================================================================
