--------------------------- MODULE AbstractRoute ---------------------------
(***************************************************************************)
(* What a route promises (common/src/c++/utils/types.h): a stack of at     *)
(* most MaxHops nodes, each of which begins with the address it was made   *)
(* from, and answers that tell what was done.  No array, no counter and no *)
(* leftovers of deleted nodes: those are how Route keeps the promise.      *)
(***************************************************************************)
EXTENDS Integers, Sequences

CONSTANTS Byte, AddrLen, MaxHops, Addr, NoNode

VARIABLES stack, answer

Node == [1 .. AddrLen -> Byte]

BeginsWith(n, addr) == \A k \in 1 .. Len(addr) : n[k] = addr[k]

Says(code, n) == answer' = [code |-> code, node |-> n]

Init == stack = <<>> /\ answer = [code |-> 0, node |-> NoNode]

Push(addr) ==
  \/ /\ Len(addr) > 0 /\ Len(stack) < MaxHops
     /\ \E n \in Node : BeginsWith(n, addr) /\ stack' = Append(stack, n)
     /\ Says(0, NoNode)
  \/ /\ Len(addr) > 0 /\ Len(stack) = MaxHops
     /\ Says(-2, NoNode) /\ UNCHANGED stack
  \/ /\ Len(addr) = 0
     /\ Says(-1, NoNode) /\ UNCHANGED stack

Pop ==
  \/ /\ stack # <<>>
     /\ stack' = [k \in 1 .. Len(stack) - 1 |-> stack[k]]
     /\ Says(Len(stack) - 1, NoNode)
  \/ /\ stack = <<>>
     /\ Says(-1, NoNode) /\ UNCHANGED stack

(* Nothing is promised to one who asks a route without nodes.              *)
Read(i) ==
  /\ UNCHANGED stack
  /\ \/ i < Len(stack) /\ Says(0, stack[i + 1])
     \/ i >= Len(stack) /\ Says(-1, NoNode)
     \/ stack = <<>> /\ \E n \in Node : Says(0, n)

Empty == stack' = <<>> /\ Says(0, NoNode)

Next ==
  \/ \E addr \in Addr : Push(addr)
  \/ \E i \in 0 .. MaxHops : Read(i)
  \/ Pop
  \/ Empty

Spec == Init /\ [][Next]_<<stack, answer>>
=============================================================================
