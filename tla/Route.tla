------------------------------- MODULE Route -------------------------------
(***************************************************************************)
(* The route of a message (route_t in common/src/c++/utils/types.h): an    *)
(* array of nodes and how many of them count.  An address shorter than a   *)
(* node overwrites the first bytes of one and leaves the others as a node  *)
(* deleted before had them.                                                *)
(***************************************************************************)
EXTENDS Integers, Sequences

CONSTANTS
  Byte,
  AddrLen,   \* ZMQ_ADDR_LEN
  MaxHops,   \* ZMQ_MAX_MSG_HOPS
  SizeMod,   \* size_t counts modulo this
  Addr,      \* the addresses nodes are added with
  NoNode     \* a node the caller gave and nobody wrote

ASSUME RouteAssumption == /\ 0 \in Byte /\ AddrLen \in Nat
                          /\ MaxHops \in Nat \ {0}
                          /\ SizeMod \in Nat /\ SizeMod > MaxHops
                          /\ \A addr \in Addr : addr \in Seq(Byte) /\ Len(addr) <= AddrLen

VARIABLES num_nodes, nodes, answer

routeVars == <<num_nodes, nodes, answer>>

Node  == [1 .. AddrLen -> Byte]
Slots == 0 .. MaxHops - 1

Answers(code, n) == answer' = [code |-> code, node |-> n]

RouteInit ==
  /\ num_nodes = 0
  /\ nodes = [k \in Slots |-> [b \in 1 .. AddrLen |-> 0]]
  /\ answer = [code |-> 0, node |-> NoNode]

(* memcpy of an address over a node.                                       *)
Over(n, addr) == [b \in 1 .. AddrLen |-> IF b <= Len(addr) THEN addr[b] ELSE n[b]]

AddNode(addr) ==
  \/ /\ Len(addr) = 0
     /\ Answers(-1, NoNode) /\ UNCHANGED <<num_nodes, nodes>>
  \/ /\ Len(addr) > 0 /\ num_nodes >= MaxHops
     /\ Answers(-2, NoNode) /\ UNCHANGED <<num_nodes, nodes>>
  \/ /\ Len(addr) > 0 /\ num_nodes < MaxHops
     /\ nodes' = [nodes EXCEPT ![num_nodes] = Over(@, addr)]
     /\ num_nodes' = num_nodes + 1
     /\ Answers(0, NoNode)

(* Mutant of OutOfRange: the last index is taken for the number of nodes.      *)
OutOfRangeByOne(i) == i > num_nodes

(* Without a node, num_nodes - 1 is the greatest size_t there is.          *)
OutOfRange(i) == i > (num_nodes - 1) % SizeMod

(* Past the array there may be anything.                                   *)
GetNode(i) ==
  /\ \/ OutOfRange(i) /\ Answers(-1, NoNode)
     \/ ~OutOfRange(i) /\ i \in Slots /\ Answers(0, nodes[i])
     \/ ~OutOfRange(i) /\ i \notin Slots /\ \E n \in Node : Answers(0, n)
  /\ UNCHANGED <<num_nodes, nodes>>

DelNode ==
  /\ num_nodes' = IF num_nodes = 0 THEN 0 ELSE num_nodes - 1
  /\ Answers(num_nodes - 1, NoNode)
  /\ UNCHANGED nodes

ClearRoute ==
  /\ num_nodes' = 0 /\ Answers(0, NoNode)
  /\ UNCHANGED nodes

RouteNext ==
  \/ \E addr \in Addr : AddNode(addr)
  \/ \E i \in 0 .. MaxHops : GetNode(i)
  \/ DelNode
  \/ ClearRoute

RouteSpec == RouteInit /\ [][RouteNext]_routeVars

-----------------------------------------------------------------------------
RouteTypeOK ==
  /\ num_nodes \in 0 .. MaxHops
  /\ nodes \in [Slots -> Node]
  /\ answer \in [code : -2 .. MaxHops, node : Node \cup {NoNode}]

(* A route is a stack of nodes: what is deleted leaves nothing that an     *)
(* index of a route with nodes can reach (types.h:131), a full route takes *)
(* no more, and every answer tells what happened.                          *)
Abstract == INSTANCE AbstractRoute WITH stack <- [k \in 1 .. num_nodes |-> nodes[k - 1]]

ImplementsAbstractRoute == Abstract!Spec
=============================================================================
