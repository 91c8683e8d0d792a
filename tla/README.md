# System K: a verification development

System K collects market data over FIX, keeps an order book per instrument,
and publishes the best bid and offer (BBO). This directory holds TLA+ modules
translated from its source, TLC configurations that check them on small
instances, and proofs that TLAPS checks for every value of the constants.

## 1. Inventory

| component | source | state | operations |
|---|---|---|---|
| price level | `order_book/include/limit.h`, `order_book/src/limit.cpp` | orders in arrival order, `uint32_t` volume, time of last update | add, remove, modify an order; stamp |
| order book | `order_book/src/order_book.cpp` | map id → order, a tree of levels per side, two times | add, remove, modify, clear; best price, volumes, counts, lookup |
| FIX application | `market_data/fix/src/md_parser_qf.*` | map symbol → book, session id, socket | logon, full refresh (35=W), incremental refresh (35=X), requests (35=V), `toApp`, delete books |
| BBO broadcast | `market_data/fix/src/md_broadcast.cpp` | none (a PUB socket) | serialise and send one BBO |
| collector process | `market_data/fix/src/md_fix.cpp` | globals: initiator, application, ZeroMQ context and socket | start-up, signal handler, `q` to quit |
| configuration client | `common/src/c++/utils/config_server.cpp` | a REQ socket, a retry count | read the server or an ini file; read the symbol file |
| configuration server | `configuration_server/configuration_server.py` | the parsed configuration | config request, refresh request |
| routes, ids | `common/src/c++/utils/types.h` | a bounded array of addresses | add, get, delete a node, clear |
| time arithmetic, FIX conversions | `common/src/c++/utils/time_utils.*`, `fix_convertors.*` | none | subtract, convert |
| hash functions | `common/src/c++/utils/jenkins_hash.*` | none | hash an entry id into an order id |
| the rest | logging, timing, constants, protocol buffers, vendored `external/`, FIX dictionaries, build files | | |

How they interact. The process starts, creates the application and a QuickFIX
initiator, and then waits on standard input. QuickFIX runs the application's
callbacks one at a time on its own thread: `onLogon` makes the books and sends
the requests; each 35=W or 35=X message is applied to the books, entry by
entry, and ends with a broadcast of the BBO. The books are plain data, called
by that thread only; but the destructor, on the main thread, and the signal
handler, on any thread, delete them. The configuration is fetched once, before
the session, from a server that an operator may tell to read its file again.

What is hard here:

* *Aliasing.* The map and the levels share order objects; `modify` changes the
  size through the level and expects the map to see it.
* *Redundant state.* Map, levels, volume counters and times must agree, and
  each operation updates them one by one. `add` ignores what the level says.
* *Fixed width.* Sizes are doubles, volumes `uint32_t`.
* *Half-applied messages.* A field without a value throws in the middle of a
  message. Field variables keep their value from one entry to the next.
* *Assertions as error handling.* `remove` asserts; the deletion of an unknown
  id or an unknown action ends the process.
* *Reconnection.* A logon empties the books; subscribers are not told.
* *Threads.* The signal handler against the FIX thread and against the end of
  `main`.
* *Lost requests.* Subscriptions are asked for once per logon, the
  configuration once per start; what is lost is made up for by the session
  layer, by the next logon, or not at all.
* *Lost prices.* A subscriber hears what is published while it is there, and
  nothing is published twice.
* *Reads by alignment.* The hash reads whole words past the end of a key, by
  three paths according to where its bytes lie.

What makes each part correct: a level's volume is the sum of its orders; every
mapped order rests at a level and (if ids are used well) conversely; no level
is empty; assertions never fail; the best price is that of a live order; a
book is a set of arrival queues; what subscribers hold is what the book shows;
a well-behaved feed never stops the process; a connection that lasts has one
subscription to each symbol; the books are deleted once, after the last use; a
collector never starts from a configuration older than what the operator was
told is in force; the book of the collector is the book of the venue, over every
break and restart; a subscriber hears only prices the venue had, and in the
end the last one; one entry id has one order id; a time survives its way through
a FIX message; a route is a stack. `PROJECT.json` lists each hazard
at its line with the properties that cover it.

## 2. Modules

    Level  <-  Book  <-  OrderBook  <-  MCOrderBook
                 ^           |  refines AbstractBook
                 |           +--------  OrderBookProofs  -> BookProofs
                 +---  MDParser  <----  MCMDParser
                            |                ^
                            +---------  SnapshotHistory  <-  MCSnapshotHistory
                            |                ^
                            |                +--------  MDParserProofs  -> BookProofs
                            +---------  FeedSystem  <-  MCFeedSystem
                                             ^
                                             +--------  FeedProofs  -> MDParserProofs
    Session         <-  MCSession, SessionProofs
    Lifecycle       <-  MCLifecycle, LifecycleProofs
    ConfigExchange  <-  MCConfigExchange, ConfigProofs
    Route, TimeUtils, JenkinsHash  <-  MCUtilities, UtilityProofs
    Route                               refines AbstractRoute

* `Level` — the operations of `level` as pure operators. `RemoveOrder` and the
  others return the level after the call. The volume is a number modulo
  `VolumeMod`; a size is counted in fractions, `Unit` of which make a lot, and
  `Whole` is the conversion of a double to the counter. `Lots` is the sum that
  the counter should be.
* `Book` — the operations of `order_book` as pure operators, and the conditions
  a book must meet (`Sound`, `NoGhosts`). Each operator stands for the whole
  call: the sending time is stored first, the level is looked up or made, the
  order added, the level stamped, the book's time set, the map written.
  `linked` in a map entry says that the object it points to is the one in the
  level's list. With a duplicate id the level keeps the object it has and the
  map gets another: that entry is not linked, and later changes of size do not
  show in it. `RemoveOutcome` distinguishes the results of `remove`, its failed
  assertion, and the use of an `end()` iterator on the ask side.
* `AbstractBook` — the promise: a queue per side and price.
* `OrderBook` — one book and any client: a step per operation. `FreshSpec` is
  the client that never adds a live id; `TimedSpec` hands over events in time
  order.
* `MDParser` — the FIX application. `books` is `_symbolToBook`, `handler` the
  message in progress with the handler's local variables, `published` what was
  broadcast last for each symbol, `requested` the symbols of the last requests,
  `status` how the process fares. One iteration of a handler's loop is one
  step, so the states in the middle of a message are states of the model. The
  engine's rejection of an entry (a field never set, fewer entries than
  announced) is a step that ends the message and leaves the books as they are.
  `Spec` lets the venue send anything; `ConformingSpec` is a venue that keeps
  to the protocol (see the comment there): it speaks of symbols that were
  requested, and whether these have a book is left to the application.
* `SnapshotHistory` — `MDParser` with a history variable, `seen`: the entries of
  the full refresh under way that were added so far, as the venue sent them. It
  constrains no step. What a snapshot leaves in a book can then be said without
  repeating how the handler carries fields from entry to entry.
* `Session` — how the application subscribes. `sent` is what the engine has
  sent since the numbers were reset, `wire` what is on its way, `venue` the
  number the venue expects, what it holds back, and the requests it granted in
  this connection. `Logon` is `onLogon` with `run` and the request builders:
  one request per symbol, in the order of the file (`Named`), or one for all, blank
  lines skipped. The five
  versions have the same builders but for one field, and differ in which
  messages have a handler; a message without one is refused, which takes a
  sequence number too. `Resend` goes through `toApp`, whose exceptions its own
  handlers catch. `Break` loses the tail of what is on its way.
* `Lifecycle` — the process. A thread is a stack of activities: `main`'s or the
  engine's own work below, runs of `sighandler` on top, since a signal
  interrupts any thread, the handler itself included. `books` is
  `_symbolToBook`, a book being known by its symbol and the logon that made it;
  `freed` holds the deleted ones. Deletion goes book by book, as `deleteBooks`
  does, and takes the lock of the heap for each. `heap` is free, except when a
  signal interrupted an allocation: a signal may find its thread in one
  wherever the thread is not in `OffHeap`, or may not.
* `ConfigExchange` — `configuration_server.py`, the operator, and
  `readConfigServer` with `ReadRemoteConfig`. `versions` is the history of the
  file, `server.config` is `full_config` with the version it came from,
  `asked` is the version the file had when the refresh under way was asked for,
  `confirmed` the newest such version the operator was told is in force. A broken
  section ends the server, a missing file empties it.
* `FeedSystem` — the way of a price. It EXTENDS `MDParser` and takes its actions
  as they are: `Take` is `FullRefresh` or `Incremental` on the message at the head
  of `feed`, `Read` one entry of it (`FullAdd` or `ApplyUpdate`), `Publish` the end
  of the message with `BroadcastBBOBook`. Around it are the venue with a book of
  its own, the session (`feed` keeps what a break kept from being taken, and
  `Untaken` is what a logon leaves of it, according to `toAdmin`), the ZeroMQ
  socket, bound or not, and a subscriber that comes and goes. `asOf` is the
  venue's book as the message taken last told of it: `BookFollowsVenue` compares
  the collector's book with it. `Follower` names the settings under which the
  collector can follow: see section 4. `Restart` is a collector killed at any moment,
  in the middle of a message too.
* `Route` — `route_t`: `addNode`, `getNode`, `delNode`, `clear` on an array that
  keeps the bytes of deleted nodes, with the unsigned comparison of `getNode`.
  `AbstractRoute` is a stack of nodes that begin with the address they were made
  from. `Route` refines it, the stack being the first `num_nodes` slots.
* `TimeUtils` — `timespec_delta`, `timespec_delta_millis`, `timespec2int64_t`, and
  the conversions between a timespec, a FIX timestamp and a ptime. `K` stands for
  1000, so that TLC sees a small clock; the `int` and the `uint64_t` of the code
  are numbers modulo `IntMod` and `LongMod`.
* `JenkinsHash` — `hashlittle`, which makes the order id of an entry id, with its
  three paths by alignment, its reads past the key and their masks; and
  `hashlittle2`, `hashbig`, `hashword`, `hashword2`. A word is a pair of halves,
  since TLC's integers have 32 bits with a sign, and `HalfXor` is the exclusive or
  of two halves: a constant, since the provers do not know the operation, and no
  theorem depends on what it is. `Reference` hashes the bytes alone.
* `MCOrderBook`, `MCMDParser`, `MCSnapshotHistory`, `MCFeedSystem`, `MCSession`,
  `MCLifecycle`, `MCConfigExchange`, `MCUtilities` — the instances for TLC and their bounds.
  `MCUtilities` has `Route`, `TimeUtils` and `JenkinsHash` side by side: they share
  nothing, and a behaviour is of one of them.
* `BookProofs`, `OrderBookProofs`, `MDParserProofs`, `LifecycleProofs`,
  `ConfigProofs`, `SessionProofs`, `FeedProofs`, `UtilityProofs` — the theorems.

Definitions that are "mutants" in their comment are not part of the models:
each is a plausible mistake in the definition that follows it, and the run
named in `PROJECT.json` fails when it takes that definition's place.

Abstractions: an order id is the hash of an entry id (collisions are left out;
`SameIdSameHash` of `JenkinsHash` is why equal entry ids have one order id);
prices are compared only; crossed-book notices, logging and statistics are left
out; a null or uninitialised pointer that is used ends the process
(`nullBook`), or for the socket may end it (`badSocket`).

What is external. The code calls QuickFIX, ZeroMQ, the C++ heap and the kernel,
none of which is in the repository; they are modelled from how it uses them,
and these assumptions carry weight:

* one engine thread makes all callbacks; `stop()` on a stopped or stopping
  engine returns at once, otherwise it tells the thread to end and joins it,
  except from that thread itself;
* an allocation holds the lock of the heap from its start to its end and at no
  other time. The handler never returns, so an allocation it interrupts holds
  the lock for good, and whoever needs the heap then waits for ever. A thread
  that waits for input, or for another thread to end, and the first statement
  of the handler, are not in an allocation (`OffHeap`);
* a venue that finds a gap at logon asks for the missing numbers only, and
  takes each number once. A venue that asks for "everything since" would have
  the engine fill over the new requests when `PersistMessages=N` and
  `ResetSeqNo=N`, and lose the subscription; the example configuration resets
  the numbers;
* a message sent again carries PossDupFlag in its header, not in its body;
* a REQ socket does not send a lost request again;
* in `FeedSystem`, the engine hands over messages in the order of their numbers,
  and gets those a break kept from it, if the venue kept them, before any newer
  one; a logon that resets the numbers asks for none. A message counts as taken
  when its callback returns. The venue forgets a request with the connection;
* a PUB socket sends to those subscribed at that moment, in order, and a
  subscriber that leaves loses what was on its way. The drop at the high-water
  mark is a loss of the same kind.

## 3. Runs

| run | shows | bounds |
|---|---|---|
| `book_reuse` | whatever the calls: types, assertions, index consistency, linked sizes, volume sums | 2 ids, 2 prices, sizes 0.5 and 2.5 lots, counter modulo 3, at most 3 resting orders |
| `book_fresh` | fresh ids, events in time order: no ghost orders, backed best prices, no level stamped ahead of the book, refinement of `AbstractBook`, `modify` seen through `getOrder` | 3 interchangeable ids, 2 prices, 2 sizes, 2 times |
| `parser_any` | arbitrary messages, `NewReplaces` on: the books stay sound and their assertions hold; during a full refresh the book is what its entries say | 2 symbols (one without a book), 3 ids, 2 prices, messages of up to 2 entries, 2 resting orders |
| `parser_conforming` | protocol-abiding venue, `NewReplaces` on: the process stays up, no ghosts, the published BBO is current, no deadlock | 2 symbols, 3 ids, 2 prices, messages of up to 2 entries |
| `feed` | from the venue to the subscriber, over breaks, restarts, rejects and an unbound socket: the book follows the venue, the feed keeps to the protocol, heard prices are the venue's and in order, the subscriber catches up, the process stays up | `NewReplaces` off, 1 symbol, 2 ids, 3 orders, 2 changes of 1 or 2 entries, 1 break or restart |
| `session_forgetful` | numbers reset, or nothing kept: a connection that lasts has exactly one subscription to each symbol | 5 versions, one unknown and one missing, all settings, 2 symbols and a blank line, 3 connections, 1 other message |
| `life_once` | one reason to end: no double deletion, no use after it, all books deleted, nothing handled meanwhile, whether or not the signal interrupts an allocation; `main` ends | 3 signals, 3 books, 2 logons, 1 reason |
| `config_exchange` | whole versions only, fresh after a refresh, start-up returns | 2 collectors, 4 contents of the file, 1 edit, 1 refresh, 1 crash |
| `utils` | routes are stacks; intervals add up; times survive a FIX timestamp; hashes depend on the bytes of the key only, and agree | nodes of 2 bytes, 2 hops; 52 times about the ends of milliseconds, seconds, days and the `int`; keys of 0 to 13, 24 and 25 bytes, 4 alignments, 2 fillings of the memory behind them, 3 seeds |
| `parser_change` | fails: a change of price is lost | 1 entry per message |
| `session_keeping` | fails: a kept request is sent again next to the new one | 2 connections |
| `life_twice` | fails: after a `q` and a signal on the FIX thread a book is deleted twice | 2 reasons, 2 books, 1 logon |

Why the bounds are enough: two ids and two prices give every relation between
two live orders (same level, other level, other side, the same id twice);
three resting orders allow a ghost beside two live orders; a counter modulo 3
wraps at the second order of 2.5 lots, and 0.5 lots vanish in it; two entries
are what it takes for a field to be carried over, for a message to stop half
way, for an entry id carried over to hide a quote id, and for a snapshot to hold
more than one order. `FewResting` is a state
constraint on ghosts, whose number would otherwise grow without bound; with
fresh ids it is not needed. `MaxEntries` bounds a message. Three connections
(`MaxLogons`) give a gap whose repair is itself lost; one other message
(`MaxSaid`) puts a refusal into the numbering. Three books and two logons let
a signal come between books, and books be replaced. One edit, refresh and crash
of the configuration server are enough for it to restart from a file newer than
the refreshed one, and for a request to be lost with it. In `feed`, two ids
are what a rename takes, and two orders on a side with sizes of one and two lots
tell a wrong sum from a right one; two changes (`MaxChanges`) let one be
lost with a connection, or wait there, and the other follow; one outage (`MaxOutages`) is a
break or a restart, before, in the middle of, or after each message. Messages
of any symbols, and fields carried over, are in `parser_any`. In `utils`, the
keys end at every byte of every word of a block, in the first, the middle and the last
block; times lie on both sides of every boundary the code tests. The proofs need
none of these bounds.

Symmetry is used in `book_fresh` only, for the ids: the book treats them alike
and the run checks no liveness.

Deadlock checking is off where the system may stop: in the runs over arbitrary
messages, in those of `Lifecycle` (a process that has ended), in
`config_exchange` (collectors that are done and bounds that are used up), in
those of `Session` (likewise), in `feed` (likewise) and in `utils` (a hash is made
once). `parser_conforming` and the runs of the book leave
it on.

Fairness and liveness. `MainEnds`: each thread goes on with what it has begun
(the scheduler runs every thread, and a callback is finite); nothing makes
anyone type, send or signal. `CollectorReturns`: a collector in its poll goes
on, since the poll has a timeout; the server owes nothing. `Subscribes`: while
the connection lasts the engine answers a resend request and the network
delivers; breaks are not assumed to stop, a connection that ends owes nothing.
`SubscriberCatchesUp`: the engine's thread takes what has come and ends the
message it has begun (`WF` of `Take \/ Read \/ Publish`, one thread), and the
network delivers to a connected subscriber (`WF` of `Hear`). Nobody must log on,
grant, change a price, or subscribe; `Excused` names what may keep a subscriber
behind: no connection or no grant, a venue with nothing to say since the logon, a subscriber that was
not there (or a socket not bound) when the last price was published.

## 4. Proofs

`BookProofs` proves, operator by operator, that a call keeps a book `Sound` and
of its type, for any arguments, and that it keeps `NoGhosts` when no live id is
added. The lemmas about levels (what a level lists after each operation) carry
these. `Sound` is the inductive invariant: that `remove` never fails its
assertion needs that mapped orders rest at levels; that this survives the
erasure of an emptied level needs that a level lists an id once (else one
removal would leave a second entry and the level would stay, harmless, but the
size bookkeeping of linked entries would not hold); stamped levels need that a
book with a level has a time, because `modify` stamps from it.

It also proves that the counters follow the lists (`VolumesAgree`). The sum over a
list is a function of how much of the list it takes (`LotsUpTo`): that such a
function exists, and what it is of a list that an order is appended to, taken
out of or changed in, is shown by counting, with the well-foundedness of `<` where an
induction theorem would need an operator for its parameter (`NatSetInduction`:
a set of naturals with 0 and every successor is all of them). The rest is
arithmetic modulo the counter's width.

`OrderBookProofs` derives from `IInv` (the type, `Sound`, and a good outcome)
the theorems `TypeCorrect`, `KnownOrdersFound`, `AlwaysIndexed`,
`VolumeAlwaysSum` and `LinkedAlwaysAgree` for `Spec`; for `FreshSpec`,
`NeverGhosts`, `Refinement` (each call is a step of `AbstractBook` or leaves its
queues unchanged), `ModifyAlwaysShows` (what rests where the map has it is no ghost,
so that the entry is linked) and `BestPriceBacked`; for `TimedSpec`, `LevelsNotAhead`. The
best price is the end of an ordered tree, that is a `CHOOSE` of an extreme
element; that a finite non-empty set of prices has one is proved from the
well-foundedness of `<` on the naturals, by counting from a sentinel.

`MDParserProofs` has two invariants to begin with. `PInv`, for a venue that sends anything,
is the type, the soundness of every book, and `CurrentIsThere`: a handler in the
middle of a message that has found a book refers to one the map has. It gives
`ParserTypeCorrect`, `AlwaysSound` and `AssertionsHold`. `CInv`, for
`ConformingSpec`, adds that no book has a ghost, `RequestedHaveBooks` (what was
requested has a book, and the message in hand is of what was requested) and
`HandlerHasBook`: once an entry has been read the handler has a book, so that the
BBO is never taken from a null pointer. It gives `ConformingNoGhosts` and, when
the application has a socket, `ConformingStaysUp`. These need `TidyFile`: no blank
line of the symbol file comes before a symbol. Otherwise a symbol is requested
that has no book, and the first full refresh for it stops the process. A third, `OthersCurrent`,
adds that while a message is handled only its symbol may be out of date, and that
the book in hand is that symbol's; a book published once is then current when
the message is done (`ConformingPublished`). A fourth, `HistoryInv`, is of
`HistorySpec`: the handler's variables are what the entries so far said last
(`FieldsAsSaid`), which is what makes `SnapshotDecides` survive the next entry
(`SnapshotAlwaysDecides`). `FeedConforms` of the run `feed` is
what ties these to the composition: every step of the collector there is one of
a conforming feed, or a restart.

`LifecycleProofs` proves the type for any number of signals and quits, by lemmas
about stacks (what a push, a pop and a change of the top leave). For
`MaxCauses <= 1` the invariant is `OneInv`: `OneEnds` (at most one thread is on
its way out, and the application is gone only when `main` exits), `Stages` (what
the engine is at each place of `main` and of the FIX thread), `BooksDeleted` (from
the first deletion on the FIX thread handles nothing, and the deleted books are exactly
those before the next one) and `GoodOutcome`. It is needed in this strength since
`MemorySafe` looks only at the outcome: that the next book to delete was not
deleted yet follows from `BooksDeleted`. The theorems are `LifecycleTypeCorrect`,
`OnceMemorySafe`, `OnceExitDeletes` and `OnceQuiet`. That one reason is the limit
is what `life_twice` shows.

`FeedProofs` proves the composition, for any venue, any ids, any number of changes,
breaks and restarts, under the hypothesis `Follower`, which TLC evaluates for the
instance:

* no blank line of the symbol file comes before a symbol (in `FeedAssumption`);
* a logon resets the numbers, or the venue keeps nothing to send again. Without
  this the claims are false (the mutant `UntakenWithoutReset`);
* the venue trades whole lots: the book drops the rest of a size, so that with
  fractions it could not show the venue's;
* there are finitely many ids, a snapshot of them fits into a message, and the
  entries that tell of orders are among those the application is modelled for:
  the bounds do not cut off what the venue has to say.

The inductive invariant `FeedInv` is the type, `CInv` of `MDParserProofs`, and:

* `InHand`: between messages the collector's book is the venue's as last told;
  within a snapshot the entries that are left add exactly the orders that the
  book lacks, each once (`Completes`); within an update they are changes that lead from the
  book's quotes to those the message ends with (`Tells`). It says too that the book is in
  order: sound, without ghosts, with counters that follow the lists. Without the
  description of the middle of a message nothing could be said at its end;
* `Chain`: on a connection the feed tells of one change of the venue's book after
  the other, the first one from what was told last, the last one to what the venue has now.
  It is what makes an update find the orders it speaks of, hence `FeedConforms`;
* `InSequence`: versions never fall on the way from the venue over the feed and
  the socket to the subscriber;
* `PricesGenuine`: each price on its way is the best price, with the volume there, of
  the venue's book it was made from.

That a book in order with given quotes has the best prices and volumes of these
quotes (`BBOFollows`) is the bridge from books to prices: the book keeps counters,
ordered trees and lists in the order of arrival, the venue a function from ids to
orders, and the sum of a set of orders must not depend on the order in which it is
taken. From the invariant follow `FeedTypeCorrect`, `FeedAlwaysConforms` (each step of
the collector is one of `ConformingNext`, or a restart, so that what `MDParserProofs`
says of a conforming feed holds here), `FeedStaysUp`, `BookAlwaysFollows` and
`AlwaysHearsVenuePrices`. `SettledIsCurrent` is the safety half of
`SubscriberCatchesUp`: with `NothingMissed` (if nobody was left out, what was
published last is what the message taken last came to) added to the invariant,
a subscriber without an excuse has the venue's prices whenever nothing is under
way. What remains to TLC is that nothing stays under way for ever.

`SessionProofs` proves the type (`SessionTypeCorrect`) for any file and settings and
any number of connections, and `ForgetfulSubscribesOnce` under two hypotheses: the
collector resets the numbers or keeps nothing (`SendsOnce`; else it is false, which is
what `session_keeping` shows), and the file names a symbol once (`SymbolsOnce`: the
code does not look for repetitions, and a symbol named twice is subscribed twice).
The invariant `OnceInv` says of every frame, on its way or held back by the
venue, that a request it carries is the one sent under its number (`FramesGenuine`); of
what was granted, that it was sent since the last logon under a number below the one
the venue expects next, so that it is not granted again (`GrantedCurrent`); and that a
reset leaves no gap to be filled. Two requests of one logon have no symbol in common, which is
shown by counting through the lines of the file.

`UtilityProofs` proves that every step of `Route` is one of `AbstractRoute` under
the mapping, for any array length and width of addresses (`RouteRefinement`); the
invariant is the type alone. `IntervalsAreExact` and
`SendingTimesSurvive` hold for any clock (`K`, `Day`) and any times, from an invariant
that says of which times the value made last is made; the divisions are taken
apart into lemmas about quotients. `HashedByItsBytes` and `HashFunctionsAgree` hold
for keys of any length, at any address, before any bytes: the words that each path
reads, from whole words under a mask, from half words, or byte by byte, are the words
of the key with zeros behind it (`Padded`), and from there on all paths do the same.

`ConfigProofs` proves `IInv` of `ConfigExchange`: the type, `ServedWhole`,
`OneRequest` (the operator's refresh is on its way, being served or answered,
never two of these), `OperatorNotAhead` (the running server is not older than
what was confirmed, nor an answer to the operator than what it asked for) and `CollectorNotAhead` (a collector asks once,
and what waits for it is not older than what was confirmed when it asked). That
a server that restarts is fresh follows from the file being at its newest
version then. The theorems are `ConfigTypeCorrect`, `AlwaysWhole` and
`AlwaysFresh`, for any number of collectors, files, edits, refreshes and
crashes.

Assumptions: those the modules state on their constants. Sizes are naturals,
prices integers strictly between two sentinels, times integers, the counter's
modulus is positive, the null values are not values, an uninitialised time is
no time; the files are sequences of sections whose ids are integers; the bounds
are naturals.

`MDParserProofs`, `FeedProofs` and `SessionProofs` add the hypotheses named with them.

Only model-checked: liveness (`SubscriberCatchesUp`, `Subscribes`, `MainEnds`,
`CollectorReturns`), which is beyond this prover, as is `ENABLED`, hence the absence
of deadlock in `parser_conforming`; and that the hashes are those of the published
algorithm, which neither shows: the properties compare the paths and functions of the code with
each other. Every safety property of a passing run is proved.

## 5. Findings

Places where a comment or the documentation says one thing and the code does
another, each shown by a run that fails and quoted in `PROJECT.json`:

* `parser_change`: the new price of a changed order is dropped;
* `session_keeping`: the guard against duplicate requests never works;
* `life_twice`: the books can be deleted twice on the way out. The FIX thread
  has made a book in its logon when `main` reads a `q` and is about to stop the
  engine; the FIX thread handles a signal, whose handler stops the engine,
  cannot join its own thread, and starts to delete the books; the `stop()` of
  `main` finds nothing left to do, and `main` deletes the application, with the
  same books.

Others, seen while modelling, that have no run of their own:

* a blank line in the symbol file ends the making of books (`md_parser_qf.cpp:175`),
  while requests skip only the line itself (201): the symbols after it are
  requested but have no book, though the comment says one is made "for each
  symbol" (170-172; `Booked` and `Requested` of `MDParser`);
* a full refresh is broadcast whatever `PublishPrices` says (`md_parser_qf.cpp:657`),
  through a socket that is set only when publishing is on (`md_fix.cpp:683-687`;
  the status `badSocket`);
* without `ResetSeqNo` a venue that keeps its messages sends those a break kept
  back after the logon has emptied the books: a deletion of an unknown id then
  stops the collector (the mutant `UntakenWithoutReset` of `FeedSystem`). The
  example configuration resets the numbers;
* `getNode` on a route without nodes answers 0 for any index (`types.h:131`:
  `num_nodes - 1` is unsigned); `AbstractRoute` leaves that case open;
* an address shorter than a node leaves bytes of a deleted node behind it
  (`types.h:125`), so that two routes of the same addresses may compare unequal;
* seconds go through an `int` on their way to a FIX timestamp
  (`fix_convertors.cpp:67`): wrong from 2038 on, which `SendingTimeSurvives` excludes;
* `timespec_delta_millis` of times in reverse order wraps to a huge number
  (`time_utils.cpp:34`), which `IntervalsAdd` excludes for milliseconds;
* two entry ids with one hash share an order; no model has this;
* the handler asserts that there is an initiator (`md_fix.cpp:103`), though it is
  installed long before there is one: a signal during start-up aborts (the
  outcome `aborted` of `Lifecycle`);
* a signal that interrupts the FIX thread in an allocation leaves the handler
  waiting for the heap, and the process running (`md_fix.cpp:105`; `heap` in
  `Lifecycle`);
* after a failed start `main` destroys the application and leaves the pointer to
  it: a handler that runs before `main` has ended calls `deleteBooks` on what is
  gone (`md_fix.cpp:675-680`, 105; the outcome `dangling` of `Lifecycle`);
* a full refresh takes its BBO from the book of the message's symbol and
  publishes it under the symbol read last, which an entry may have changed
  (`md_parser_qf.cpp:557`, 567, 658; `FullDone` of `MDParser`);
* any non-zero `FIXVersion` is accepted, and an unknown one throws at the first
  logon (`md_fix.cpp:252`, `md_parser_qf.cpp:328`; the status `aborted` of
  `Session`);
* an existing but empty symbol file counts as one symbol (`md_fix.cpp:601`);
* without an address from the configuration server, or with one that is taken,
  a publishing collector runs unbound (`md_fix.cpp:422-426`, `684`);
* a refresh without a file empties the configuration and is answered OK; the
  status `ERROR` is never sent (`configuration_server.py:18`, `65`).

## 6. Not modelled, and what is left

Every part with state of its own is modelled. What is not, and why:

* BBO record types, protocol buffers, order constants, message types: records,
  numbers and schemas, on which nothing decides;
* logging and timing, the pid file, directories, the command line and the local
  ini file: input and output. `FileLogPath` and `FileStorePath` of that file are
  overwritten by the default directory, which is a matter of start-up;
* `murmur_hash3` and `super_fast_hash`, which have no caller; the big-endian paths
  of `jenkins_hash`, which are for other machines;
* wrappers of libuuid, the vendored time library, dictionaries and build files;
* `onLogout`, which logs, and `sendTestRequest`, whose answer nobody waits for.

What could still be added:

1. `Session` and `FeedSystem` composed: several symbols, one request each. The
   numbers of the two directions make the product too large for TLC at bounds
   where something happens; with the invariants of both at hand it could be
   proved rather than checked.
2. `BookFollowsVenue` up to fractions: with a venue that trades parts of a lot the
   orders still agree, and only the volumes do not.
