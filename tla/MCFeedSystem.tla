---------------------------- MODULE MCFeedSystem ----------------------------
(***************************************************************************)
(* An instance of FeedSystem for TLC: one symbol, two orders, a bid of     *)
(* two sizes and an offer.                                                 *)
(***************************************************************************)
EXTENDS FeedSystem

CONSTANTS s1, o0, o1, o2

Q(side, price, size) == [side |-> side, price |-> price, size |-> size]

MCNoBid == -1
MCNoAsk == 9
Some == {Q("BID", 1, 2), Q("BID", 1, 4), Q("ASK", 2, 2)}

(* The entries such orders are told with, and nothing else.                *)
SomeFull    == SnapshotEntries
SomeUpdates == ChangeEntries

(* What the theorems of FeedProofs ask for holds of this instance.         *)
ASSUME FollowerAssumption == Follower

OneSymbol == <<s1, NoSymbol>>
=============================================================================
