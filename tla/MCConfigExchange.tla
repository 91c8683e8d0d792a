--------------------------- MODULE MCConfigExchange ---------------------------
(***************************************************************************)
(* Instances of ConfigExchange for TLC: two collectors of two venues, and  *)
(* files that list both, leave the id of one unset, have a broken section  *)
(* after a good one, or are not there.                                     *)
(***************************************************************************)
EXTENDS ConfigExchange

CONSTANTS c1, c2

TwoCollectors == {c1, c2}
TwoMics == [c \in TwoCollectors |-> IF c = c1 THEN "MIC1" ELSE "MIC2"]

First == [mic |-> "MIC1", id |-> 1, addr |-> "tcp://a"]
FirstMoved == [mic |-> "MIC1", id |-> 1, addr |-> "tcp://b"]
Second == [mic |-> "MIC2", id |-> 2, addr |-> "tcp://b"]
SecondUnset == [mic |-> "MIC2", id |-> 0, addr |-> "tcp://a"]

SomeFiles == {NoFile, <<First, Second>>, <<First, Broken>>, <<FirstMoved, SecondUnset>>}
=============================================================================
