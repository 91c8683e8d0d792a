----------------------------- MODULE FeedSystem -----------------------------
(***************************************************************************)
(* The way of a price from a venue to a subscriber: the venue's own book,  *)
(* the FIX connection, the collector's application (MDParser, taken as it  *)
(* is), and the ZeroMQ socket it publishes on (market_data/fix/src/        *)
(* md_parser_qf.cpp, md_broadcast.cpp, md_fix.cpp).                        *)
(*                                                                         *)
(* External: the venue, the FIX session layer, ZeroMQ, a subscriber.       *)
(*  - A venue grants or rejects the request of a logon.  It then sends a   *)
(*    snapshot of its book, if that is not empty, and a message for every  *)
(*    later change, of one entry or more.  It forgets the request when the *)
(*    connection breaks.                                                   *)
(*  - Messages are taken in the order of their numbers.  Those that a      *)
(*    break kept from being taken are asked for again at the next logon,   *)
(*    come before anything newer, and are skipped if the venue did not     *)
(*    keep them.  A logon that resets the numbers asks for none.           *)
(*  - What is published reaches those subscribed at that moment, in order; *)
(*    the rest is lost.  Nothing ever is published again.                  *)
(***************************************************************************)
EXTENDS MDParser, FiniteSetsExt

Seqs == INSTANCE SequencesExt

CONSTANTS
  Quoted,      \* the symbol the venue quotes
  Quote,       \* what an order at the venue may be
  ResetSeqNo,  \* ResetSeqNo=Y
  VenueKeeps,  \* whether the venue can send old messages again
  MaxChanges,  \* bound: changes of the venue's book
  MaxOutages   \* bound: breaks of the connection, restarts of the collector

ASSUME FeedAssumption == /\ Quoted \in Booked /\ TidyFile
                         /\ Quote \subseteq [side : BookSide, price : Price, size : Size \ {0}]
                         /\ NoOrder \notin [side : BookSide, price : Price, size : Size]
                         /\ ResetSeqNo \in BOOLEAN /\ VenueKeeps \in BOOLEAN
                         /\ MaxChanges \in Nat /\ MaxOutages \in Nat

VARIABLES
  venue,    \* its book, how often it changed, what became of the request
  link,     \* whether the session is logged on
  feed,     \* the messages the collector has yet to be done with
  inbox,    \* the entries of the message under way yet to be read
  asOf,     \* the venue's book the message taken last told of
  socket,   \* g_pub_socket: bound or not, who is subscribed, what is on its way
  heard,    \* what the subscriber was told last
  outages

feedVars == <<vars, venue, link, feed, inbox, asOf, socket, heard, outages>>

-----------------------------------------------------------------------------
(* The venue's book, and the messages that tell of it.                     *)

Quotes  == [OrderId \ {EmptyId} -> Quote \cup {NoOrder}]
Live(q) == {id \in DOMAIN q : q[id] # NoOrder}

NoQuotes == [id \in OrderId \ {EmptyId} |-> NoOrder]

Message == [msg : {"full", "incremental"}, entries : Seq(Entry),
            quotes : Quotes, version : 0 .. MaxChanges]

EntryOf(action, id, refId, quote) ==
  [action |-> action, type |-> IF quote.side = BID THEN "0" ELSE "1",
   id |-> id, quoteId |-> Absent, refId |-> refId, symbol |-> Absent,
   px |-> quote.price, size |-> quote.size]

Snapshot(q) ==
  LET ids == Seqs!SetToSeq(Live(q))
  IN  [k \in DOMAIN ids |-> EntryOf(Absent, ids[k], Absent, q[ids[k]])]

(* What may happen to an order, as the entry that tells it and the book    *)
(* after it.  Ids are used again once they are free; free ids are          *)
(* interchangeable, so one of them stands for all.  A new price takes a    *)
(* new id: a change that keeps the id keeps the price (ChangeShowsPrice).  *)
Unused(q) == IF Live(q) = DOMAIN q THEN {} ELSE {CHOOSE id \in DOMAIN q : id \notin Live(q)}

Placed(q) ==
  {[entry |-> EntryOf("NEW", id, Absent, quote), after |-> [q EXCEPT ![id] = quote]] :
     id \in Unused(q), quote \in Quote}

Resized(q) ==
  UNION {{[entry |-> EntryOf("CHANGE", id, Absent, quote), after |-> [q EXCEPT ![id] = quote]] :
            quote \in {p \in Quote : /\ p.side = q[id].side /\ p.price = q[id].price
                                     /\ p.size # q[id].size}} : id \in Live(q)}

Renamed(q) ==
  UNION {{[entry |-> EntryOf("CHANGE", new, old, quote),
           after |-> [q EXCEPT ![old] = NoOrder, ![new] = quote]] :
            new \in Unused(q), quote \in {p \in Quote : p.side = q[old].side}} :
           old \in Live(q)}

Cancelled(q) ==
  {[entry |-> EntryOf("DELETE", id, Absent, q[id]), after |-> [q EXCEPT ![id] = NoOrder]] :
     id \in Live(q)}

Happens(q) == Placed(q) \cup Resized(q) \cup Renamed(q) \cup Cancelled(q)

(* The entries that tell of it.                                            *)
SnapshotEntries ==
  {EntryOf(Absent, id, Absent, quote) : id \in DOMAIN NoQuotes, quote \in Quote}
ChangeEntries ==
  {EntryOf(action, id, Absent, quote) :
     action \in {"NEW", "CHANGE", "DELETE"}, id \in DOMAIN NoQuotes, quote \in Quote}
    \cup {EntryOf("CHANGE", new, old, quote) :
            new \in DOMAIN NoQuotes, old \in DOMAIN NoQuotes, quote \in Quote}

(* The bid and offer the venue has, with the lots of the orders there.     *)
RestingAt(q, side, price) ==
  {[id |-> id, size |-> q[id].size] :
     id \in {i \in Live(q) : q[i].side = side /\ q[i].price = price}}

Volume(q, side, price) == Lots(Seqs!SetToSeq(RestingAt(q, side, price))) % VolumeMod

Offered(q, side) == {q[id].price : id \in {i \in Live(q) : q[i].side = side}}

VenueBBO(q) ==
  LET bid == Max(Offered(q, BID) \cup {NoBid})
      ask == Min(Offered(q, ASK) \cup {NoAsk})
  IN  [bid |-> bid, bidSize |-> Volume(q, BID, bid),
       ask |-> ask, askSize |-> Volume(q, ASK, ask)]

-----------------------------------------------------------------------------
Nothing == [quotes |-> NoQuotes, version |-> 0]

(* main makes the socket before anything else and binds it, or fails to:   *)
(* the result of the call is not looked at.                                *)
NewSocket == [bound : BOOLEAN, joined : {FALSE}, queue : {<<>>}, missed : {FALSE}]

FeedInit ==
  /\ Init
  /\ venue = [quotes |-> NoQuotes, version |-> 0, request |-> "none"]
  /\ link = "down" /\ feed = <<>>
  /\ inbox = <<>> /\ asOf = Nothing
  /\ socket \in NewSocket
  /\ heard = [bbo |-> NoBBO, version |-> 0]
  /\ outages = 0

(* Mutant of Untaken: the logon does not ask for new numbers.              *)
UntakenWithoutReset == IF VenueKeeps THEN feed ELSE <<>>

(* What is left of the messages of the connections before: toAdmin asks    *)
(* for a reset of the numbers with every logon, if told to.                *)
Untaken == IF ResetSeqNo \/ ~VenueKeeps THEN <<>> ELSE feed

LogOn ==
  /\ link = "down" /\ link' = "up"
  /\ OnLogon
  /\ feed' = Untaken
  /\ asOf' = Nothing
  /\ venue' = [venue EXCEPT !.request = "sent"]
  /\ UNCHANGED <<inbox, socket, heard, outages>>

Told(msg, entries, q, version) ==
  [msg |-> msg, entries |-> entries, quotes |-> q, version |-> version]

Grant ==
  /\ link = "up" /\ venue.request = "sent"
  /\ venue' = [venue EXCEPT !.request = "granted"]
  /\ feed' = IF Live(venue.quotes) = {} THEN feed
             ELSE Append(feed, Told("full", Snapshot(venue.quotes), venue.quotes, venue.version))
  /\ UNCHANGED <<vars, link, inbox, asOf, socket, heard, outages>>

(* The handler of a reject logs it.                                        *)
Reject ==
  /\ link = "up" /\ venue.request = "sent"
  /\ venue' = [venue EXCEPT !.request = "rejected"]
  /\ UNCHANGED <<vars, link, feed, inbox, asOf, socket, heard, outages>>

(* One change or two make a message, which nobody gets without a request.  *)
Batches(q) ==
  {[entries |-> <<c.entry>>, after |-> c.after] : c \in Happens(q)}
    \cup UNION {{[entries |-> <<c.entry, d.entry>>, after |-> d.after] :
                   d \in Happens(c.after)} : c \in Happens(q)}

Change ==
  /\ venue.version < MaxChanges
  /\ \E batch \in Batches(venue.quotes) :
       /\ venue' = [venue EXCEPT !.quotes = batch.after, !.version = @ + 1]
       /\ feed' = IF link = "down" \/ venue.request # "granted" THEN feed
                  ELSE Append(feed, Told("incremental", batch.entries, batch.after,
                                         venue.version + 1))
  /\ UNCHANGED <<vars, link, inbox, asOf, socket, heard, outages>>

(* The engine notices between two callbacks.                               *)
Break ==
  /\ link = "up" /\ link' = "down" /\ Ready
  /\ outages < MaxOutages /\ outages' = outages + 1
  /\ venue' = [venue EXCEPT !.request = "none"]
  /\ UNCHANGED <<vars, feed, inbox, asOf, socket, heard>>

(* The collector is killed, in the middle of a message or not, and started *)
(* again.                                                                  *)
Restart ==
  /\ outages < MaxOutages /\ outages' = outages + 1
  /\ books' = [symbol \in Symbol |-> NoBook] /\ requested' = {}
  /\ handler' = NoMessage /\ published' = [symbol \in Symbol |-> NoBBO]
  /\ status' = "up"
  /\ link' = "down" /\ inbox' = <<>> /\ asOf' = Nothing
  /\ venue' = [venue EXCEPT !.request = "none"]
  /\ socket' \in NewSocket
  /\ UNCHANGED <<feed, heard>>

-----------------------------------------------------------------------------
(* The collector is handed a message and works through its entries.        *)
Take ==
  /\ link = "up" /\ feed # <<>>
  /\ LET m == Head(feed)
     IN  /\ \/ m.msg = "full" /\ FullRefresh(Quoted, Len(m.entries))
            \/ m.msg = "incremental" /\ Incremental(Quoted, Len(m.entries))
         /\ inbox' = m.entries
         /\ asOf' = [quotes |-> m.quotes, version |-> m.version]
  /\ UNCHANGED <<venue, link, feed, socket, heard, outages>>

Read ==
  /\ inbox # <<>> /\ inbox' = Tail(inbox)
  /\ \E t, s \in Time : \/ handler.msg = "full" /\ FullAdd(Head(inbox), t, s)
                        \/ handler.msg = "incremental" /\ ApplyUpdate(Head(inbox), t, s)
  /\ UNCHANGED <<venue, link, feed, asOf, socket, heard, outages>>

(* Mutant of BroadcastBBOBook: bid and offer change places.                *)
BroadcastSwapped(bbo) ==
  [bid |-> bbo.ask, bidSize |-> bbo.askSize, ask |-> bbo.bid, askSize |-> bbo.bidSize]

(* The record that is serialised has the fields of the BBO.                *)
BroadcastBBOBook(bbo) == bbo

(* The send goes to whoever is subscribed.  The engine counts a message as *)
(* taken when its handler returns.                                         *)
Publish ==
  /\ FullDone \/ IncrementalDone
  /\ LET reaches == IsPublishing /\ socket.bound /\ socket.joined
         message == [bbo |-> BroadcastBBOBook(published'[Quoted]),
                     quotes |-> asOf.quotes, version |-> asOf.version]
     IN  socket' = [socket EXCEPT !.queue = IF reaches THEN Append(@, message) ELSE @,
                                  !.missed = ~reaches]
  /\ feed' = Tail(feed)
  /\ UNCHANGED <<venue, link, inbox, asOf, heard, outages>>

(* The subscriber.                                                         *)
Join ==
  /\ socket.bound /\ ~socket.joined
  /\ socket' = [socket EXCEPT !.joined = TRUE]
  /\ UNCHANGED <<vars, venue, link, feed, inbox, asOf, heard, outages>>

Leave ==
  /\ socket.joined
  /\ socket' = [socket EXCEPT !.joined = FALSE, !.queue = <<>>,
                              !.missed = @ \/ socket.queue # <<>>]
  /\ UNCHANGED <<vars, venue, link, feed, inbox, asOf, heard, outages>>

Hear ==
  /\ socket.queue # <<>>
  /\ heard' = [bbo |-> Head(socket.queue).bbo, version |-> Head(socket.queue).version]
  /\ socket' = [socket EXCEPT !.queue = Tail(@)]
  /\ UNCHANGED <<vars, venue, link, feed, inbox, asOf, outages>>

FeedNext ==
  \/ LogOn \/ Grant \/ Reject \/ Change \/ Break \/ Restart
  \/ Take \/ Read \/ Publish
  \/ Join \/ Leave \/ Hear

(* The engine's thread takes what has come and ends what it has begun; the *)
(* network delivers to a subscriber.  Nobody must log on, grant, change a  *)
(* price, or subscribe.                                                    *)
FeedFairness == WF_feedVars(Take \/ Read \/ Publish) /\ WF_feedVars(Hear)

FeedSpec == FeedInit /\ [][FeedNext]_feedVars /\ FeedFairness

-----------------------------------------------------------------------------
(* The settings under which the collector follows the venue: a logon       *)
(* resets the numbers or nothing old can come again, the venue trades      *)
(* whole lots (the book drops the rest of a size), and its ids and the     *)
(* entries that tell of its orders are within the bounds.                  *)
Follower ==
  /\ ResetSeqNo \/ ~VenueKeeps
  /\ \A quote \in Quote : Truncate(quote.size) = quote.size
  /\ IsFiniteSet(OrderId) /\ Cardinality(OrderId \ {EmptyId}) <= MaxEntries
  /\ 2 <= MaxEntries
  /\ SnapshotEntries \subseteq FullEntry /\ ChangeEntries \subseteq UpdateEntry

FeedTypeOK ==
  /\ TypeOK
  /\ venue \in [quotes : Quotes, version : 0 .. MaxChanges,
                request : {"none", "sent", "granted", "rejected"}]
  /\ link \in {"up", "down"} /\ feed \in Seq(Message)
  /\ inbox \in Seq(Entry) /\ Len(inbox) = handler.left
  /\ asOf \in [quotes : Quotes, version : 0 .. MaxChanges]
  /\ socket \in [bound : BOOLEAN, joined : BOOLEAN, missed : BOOLEAN,
                 queue : Seq([bbo : BBOType, quotes : Quotes, version : 0 .. MaxChanges])]
  /\ heard \in [bbo : BBOType \cup {NoBBO}, version : 0 .. MaxChanges]
  /\ outages \in 0 .. MaxOutages

(* The collector's book.                                                   *)
QuotesOf(b) ==
  [id \in OrderId \ {EmptyId} |->
     LET o == GetOrder(b, id)
     IN  IF o = NoOrder THEN NoOrder ELSE [side |-> o.side, price |-> o.price, size |-> o.size]]

(* Between messages the collector's book is the venue's own book as the    *)
(* message taken last told of it, over breaks and logons, restarts in the  *)
(* middle of a message, and messages lost or sent again: nothing of an old *)
(* connection is left in the books, and nothing in a message is missed or  *)
(* applied to what the entry before it has spoiled.                        *)
BookFollowsVenue ==
  Ready /\ books[Quoted] # NoBook => QuotesOf(books[Quoted]) = asOf.quotes

(* What reaches the collector is a feed that keeps to the protocol, so     *)
(* that what is proved of one holds here: no break or restart has the      *)
(* application handed an update for a book it has emptied.                 *)
FeedConforms == [][Restart \/ ConformingNext]_vars

(* A subscriber never hears a price the venue did not have, such as that   *)
(* of a half applied message, and never goes back in time, not even over a *)
(* restart.                                                                *)
HearsVenuePrices ==
  [][Hear => /\ heard'.bbo = VenueBBO(Head(socket.queue).quotes)
             /\ heard'.version >= heard.version]_feedVars

(* What excuses a subscriber that is behind: no connection or no request   *)
(* granted, nothing said since the logon because the venue's book was      *)
(* empty, or not being there when the last price was published.            *)
Excused ==
  \/ link = "down" \/ venue.request # "granted"
  \/ feed = <<>> /\ asOf = Nothing
  \/ socket.missed

(* Nothing else keeps a subscriber from the prices the venue has.          *)
SubscriberCatchesUp == []<>(Excused \/ heard.bbo = VenueBBO(venue.quotes))
=============================================================================
