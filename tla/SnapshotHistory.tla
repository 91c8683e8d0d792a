-------------------------- MODULE SnapshotHistory --------------------------
(***************************************************************************)
(* MDParser with a history variable: the entries of the full refresh under *)
(* way that were added so far, as the venue sent them.  It constrains no   *)
(* step.  With it one can say what a snapshot leaves in a book without     *)
(* repeating how the handler carries fields from one entry to the next.    *)
(***************************************************************************)
EXTENDS MDParser, FiniteSetsExt

VARIABLE seen

historyVars == <<vars, seen>>

HistoryInit == Init /\ seen = <<>>

HistoryNext ==
  \/ (OnLogon \/ Start \/ IncrementalDone) /\ UNCHANGED seen
  \/ \E e \in UpdateEntry, t, s \in Time : ApplyUpdate(e, t, s) /\ UNCHANGED seen
  \/ \E e \in FullEntry, t, s \in Time : FullAdd(e, t, s) /\ seen' = Append(seen, e)
  \/ /\ FullDone \/ EntryMissing \/ \E e \in FullEntry : FullReject(e)
     /\ seen' = <<>>

HistorySpec == HistoryInit /\ [][HistoryNext]_historyVars

-----------------------------------------------------------------------------
(* What entry k of the message says: a field it leaves out is the one given *)
(* last before it in this message, and other where there is none.          *)
Said(k, field, other) ==
  LET given == {j \in 1 .. k : seen[j][field] # Absent}
  IN  IF given = {} THEN other ELSE seen[Max(given)][field]

SaidId(k) == IF Said(k, "id", EmptyId) = EmptyId THEN Said(k, "quoteId", EmptyId)
             ELSE Said(k, "id", EmptyId)

SaidOrder(k) == [side  |-> Char2Side(Said(k, "type", Absent)),
                 price |-> Said(k, "px", Absent),
                 size  |-> Truncate(Said(k, "size", Absent))]

(* The entries of a side a book has that name this id.                     *)
Naming(id) == {k \in DOMAIN seen : SaidId(k) = id /\ SaidOrder(k).side \in BookSide}

Shows(o, said) == /\ o # NoOrder
                  /\ o.side = said.side /\ o.price = said.price /\ o.size = said.size

RestsAt(b, side, price, id) == HasLevel(b, side, price) /\ HasOrder(b.tree[side][price], id)

(* At every entry of a full refresh the book is what this message said so  *)
(* far: an id shows the side, price and size of the last entry that names  *)
(* it, no other id is known, and no level holds an order that this message *)
(* did not put there.  Nothing is left of the book before, of a message    *)
(* that was given up half way, or of the fields of another message         *)
(* ("clear the book since we have a complete refresh",                     *)
(* md_parser_qf.cpp:556; the fields, 517-533 and 566-607).                 *)
SnapshotDecides ==
  handler.msg = "full" /\ handler.cur # NoSymbol =>
    LET b == books[handler.cur]
    IN  \A id \in OrderId :
          /\ Naming(id) = {} => GetOrder(b, id) = NoOrder
          /\ Naming(id) # {} => Shows(GetOrder(b, id), SaidOrder(Max(Naming(id))))
          /\ \A side \in BookSide, price \in Price :
               RestsAt(b, side, price, id) =>
                 \E k \in Naming(id) :
                   SaidOrder(k).side = side /\ SaidOrder(k).price = price
=============================================================================
