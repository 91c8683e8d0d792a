----------------------------- MODULE MCMDParser -----------------------------
(***************************************************************************)
(* Small instances of MDParser for TLC: which symbols, ids and entries the *)
(* messages of a run are made of.                                          *)
(***************************************************************************)
EXTENDS MDParser

CONSTANTS
  s1, s2,      \* symbols
  o0, o1, o2   \* entry ids, o0 that of the empty string

MCNoBid == -1
MCNoAsk == 9

(* Symbol files: no blank line but the one that reading leaves at the end. *)
OneSymbol   == <<s1, NoSymbol>>
TwoSymbols  == <<s1, s2, NoSymbol>>

Entries(actions, types, ids, quoteIds, refIds, symbols, pxs, sizes) ==
  [action : actions, type : types, id : ids, quoteId : quoteIds,
   refId : refIds, symbol : symbols, px : pxs, size : sizes]

(* Entries that leave fields out, of every action and side.                *)
AnyFull ==
  Entries({Absent}, {"0", Absent}, {Absent, o1}, {Absent}, {Absent},
          {Absent}, {1, Absent}, {3})
    \cup Entries({Absent}, {"2"}, {o1}, {Absent}, {Absent}, {s2}, {2}, {Absent})

AnyUpdate ==
  Entries({"NEW", Absent}, {"0", Absent}, {o1, Absent}, {Absent},
          {Absent}, {Absent}, {1, Absent}, {3})
    \cup Entries({"CHANGE"}, {"1"}, {o0, o1}, {Absent}, {o0, Absent},
                 {Absent}, {2}, {Absent})
    \cup Entries({"NEW", "OTHER"}, {"2"}, {o1}, {Absent}, {Absent},
                 {s2, Absent}, {2}, {3})
    \cup Entries({"DELETE"}, {Absent}, {o1, Absent}, {Absent}, {Absent},
                 {Absent}, {Absent}, {Absent})

(* Snapshots and updates with every field they need, for what crosses from *)
(* one entry, message or symbol to another; snapshots may give the id as   *)
(* the quote's.                                                            *)
TidyFull ==
  Entries({Absent}, {"0"}, {o1}, {Absent}, {Absent}, {Absent}, {1}, {3})
    \cup Entries({Absent}, {"1"}, {o2, Absent}, {o2}, {Absent}, {Absent}, {2}, {3})
TidyUpdate ==
  Entries({"NEW"}, {"0"}, {o1}, {Absent}, {Absent}, {Absent}, {1, 2}, {2})
    \cup Entries({"NEW"}, {"1"}, {o2}, {Absent}, {Absent}, {Absent}, {2}, {2})
    \cup Entries({"CHANGE"}, {"0"}, {o1}, {Absent}, {Absent, o2}, {Absent}, {2}, {0})
    \cup Entries({"DELETE"}, {"0"}, {o1}, {Absent}, {Absent}, {Absent}, {Absent}, {Absent})

CONSTANT MaxResting   \* bound: orders resting in a book, ghosts included

FewResting ==
  \A symbol \in Symbol : books[symbol] # NoBook =>
    OrderCountAtLimit(books[symbol], BID, 1) + OrderCountAtLimit(books[symbol], BID, 2)
      + OrderCountAtLimit(books[symbol], ASK, 1)
      + OrderCountAtLimit(books[symbol], ASK, 2) <= MaxResting
=============================================================================
