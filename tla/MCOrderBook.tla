---------------------------- MODULE MCOrderBook ----------------------------
(***************************************************************************)
(* Small instances of OrderBook for TLC.                                   *)
(***************************************************************************)
EXTENDS OrderBook, TLC

Seqs == INSTANCE SequencesExt

CONSTANT MaxResting   \* bound: orders resting in the book, ghosts included

MCNoBid == -1
MCNoAsk == 9

(* Ids are interchangeable.                                                *)
IdSymmetry == Permutations(OrderId)

RestingCount ==
  Seqs!FoldFunction(LAMBDA side, n : Seqs!FoldFunction(LAMBDA lvl, m :
                 m + (IF lvl = NoLevel THEN 0 ELSE Len(lvl.orders)), n, side),
               0, book.tree)

FewResting == RestingCount <= MaxResting
=============================================================================
