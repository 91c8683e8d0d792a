---------------------------- MODULE MCUtilities ----------------------------
(***************************************************************************)
(* An instance of Route, TimeUtils and JenkinsHash for TLC.  They have     *)
(* nothing to do with each other: a behaviour is of one of them, and the   *)
(* variables of the others keep what they begin with.                      *)
(***************************************************************************)
EXTENDS Route, TimeUtils, JenkinsHash, Bitwise

VARIABLE topic

vars == <<topic, routeVars, timeVars, hashVars>>

NoTimes == from = [sec |-> 0, nsec |-> 0] /\ to = from /\ made = [what |-> "none"]
NoKey == /\ key = <<>> /\ follows = <<>> /\ address = 0 /\ seeds = <<Zero, Zero>>
         /\ digest = [by |-> "none", primary |-> Zero, secondary |-> Zero]

Init ==
  /\ RouteInit
  /\ \/ topic = "route" /\ NoTimes /\ NoKey
     \/ topic = "time" /\ TimeInit /\ NoKey
     \/ topic = "hash" /\ NoTimes /\ HashInit

Next ==
  \/ topic = "route" /\ RouteNext /\ UNCHANGED <<topic, timeVars, hashVars>>
  \/ topic = "time" /\ TimeNext /\ UNCHANGED <<topic, routeVars, hashVars>>
  \/ topic = "hash" /\ HashNext /\ UNCHANGED <<topic, routeVars, timeVars>>

Spec == Init /\ [][Next]_vars

-----------------------------------------------------------------------------
(* Routes: addresses of one byte and of a whole node.                      *)
SomeAddr == {<<>>, <<1>>, <<2>>, <<1, 2>>, <<2, 1>>}

(* Times: about the ends of milliseconds and of seconds, on both sides of  *)
(* midnight and of the last second that an int holds.                      *)
SomeTimes ==
  [sec : {3, 4, 9, 10}, nsec : {0, 1, 9, 10, 99, 100, 101, 500, 899, 900, 989, 990, 999}]

(* Keys: of no byte to one of more than a block, and of one to two blocks  *)
(* and a byte.                                                             *)
SomeKeys == {[k \in 1 .. n |-> (31 * k + 97 * n) % 256] : n \in (0 .. 13) \cup {24, 25}}
MCHalfXor(a, b) == a ^^ b
SomeFollows == {<<0, 0, 0>>, <<255, 254, 253>>}
SomeSeeds == {<<Zero, Zero>>, <<<<65535, 65535>>, Zero>>, <<<<1, 2>>, <<3, 4>>>>}
=============================================================================
