--------------------------- MODULE UtilityProofs ---------------------------
(***************************************************************************)
(* What TLAPS proves of the utilities: of Route its type and that it       *)
(* implements the bounded stack of AbstractRoute, for nodes and routes of  *)
(* any length; of TimeUtils its two properties, for any times, any length  *)
(* of the day and any width of the counters; of JenkinsHash its two        *)
(* properties, for any keys, seeds and addresses.                          *)
(***************************************************************************)
EXTENDS Route, TimeUtils, JenkinsHash, SequenceTheorems, TLAPS

-----------------------------------------------------------------------------
(***************************************************************************)
(* Routes.                                                                 *)
(***************************************************************************)

(* The nodes that count, as the abstract route has them.                   *)
Counted == [k \in 1 .. num_nodes |-> nodes[k - 1]]

(* A node over which an address was written begins with the address.       *)
LEMMA OverBegins ==
  ASSUME NEW n \in Node, NEW addr \in Addr
  PROVE  /\ Over(n, addr) \in Node
         /\ \A k \in 1 .. Len(addr) : Over(n, addr)[k] = addr[k]
  <1>1. addr \in Seq(Byte) /\ Len(addr) \in Nat /\ Len(addr) <= AddrLen /\ AddrLen \in Nat
    BY RouteAssumption
  <1>2. \A b \in 1 .. Len(addr) : addr[b] \in Byte
    BY <1>1
  <1>3. \A b \in 1 .. AddrLen : (IF b <= Len(addr) THEN addr[b] ELSE n[b]) \in Byte
    BY <1>1, <1>2 DEF Node
  <1>. QED BY <1>1, <1>3 DEF Over, Node

(* RouteTypeOK is inductive, and the index of a node is in range exactly   *)
(* when there is one, or when there is none at all.                        *)
LEMMA RouteTypeInit == RouteInit => RouteTypeOK
  BY RouteAssumption DEF RouteInit, RouteTypeOK, Slots, Node

LEMMA RouteTypeStep == RouteTypeOK /\ [RouteNext]_routeVars => RouteTypeOK'
  <1> SUFFICES ASSUME RouteTypeOK, [RouteNext]_routeVars PROVE RouteTypeOK'
    OBVIOUS
  <1> USE RouteAssumption DEF RouteTypeOK, Slots, Answers
  <1>1. ASSUME NEW addr \in Addr, AddNode(addr) PROVE RouteTypeOK'
    <2>1. CASE num_nodes < MaxHops /\ nodes' = [nodes EXCEPT ![num_nodes] = Over(@, addr)]
               /\ num_nodes' = num_nodes + 1 /\ Answers(0, NoNode)
      <3>1. nodes[num_nodes] \in Node
        BY <2>1
      <3>2. Over(nodes[num_nodes], addr) \in Node
        BY <3>1, OverBegins
      <3>3. nodes' \in [0 .. MaxHops - 1 -> Node]
        BY <2>1, <3>2
      <3>. QED BY <2>1, <3>3
    <2>2. CASE UNCHANGED <<num_nodes, nodes>> /\ (Answers(-1, NoNode) \/ Answers(-2, NoNode))
      BY <2>2
    <2>. QED BY <1>1, <2>1, <2>2 DEF AddNode
  <1>2. ASSUME NEW i \in 0 .. MaxHops, GetNode(i) PROVE RouteTypeOK'
    BY <1>2 DEF GetNode
  <1>3. CASE DelNode
    BY <1>3 DEF DelNode
  <1>4. CASE ClearRoute
    BY <1>4 DEF ClearRoute
  <1>5. CASE UNCHANGED routeVars
    BY <1>5 DEF routeVars
  <1>. QED BY <1>1, <1>2, <1>3, <1>4, <1>5 DEF RouteNext

(* The route keeps its type: never more nodes than the array has.          *)
THEOREM RouteTypeCorrect == RouteSpec => []RouteTypeOK
  BY RouteTypeInit, RouteTypeStep, PTL DEF RouteSpec

LEMMA InRange ==
  ASSUME RouteTypeOK, NEW i \in 0 .. MaxHops
  PROVE  /\ num_nodes > 0 => (OutOfRange(i) <=> i >= num_nodes)
         /\ num_nodes = 0 => ~OutOfRange(i)
  <1> USE RouteAssumption DEF RouteTypeOK
  <1>1. CASE num_nodes > 0
    <2>1. num_nodes - 1 \in 0 .. SizeMod - 1
      BY <1>1
    <2>2. (num_nodes - 1) % SizeMod = num_nodes - 1
      BY <2>1
    <2>. QED BY <1>1, <2>2 DEF OutOfRange
  <1>2. CASE num_nodes = 0
    <2>1. (0 - 1) % SizeMod = SizeMod - 1
      OBVIOUS
    <2>. QED BY <1>2, <2>1 DEF OutOfRange
  <1>. QED BY <1>1, <1>2

(* The nodes that count are a stack.                                       *)
LEMMA CountedIsSeq ==
  ASSUME RouteTypeOK
  PROVE  /\ Counted \in Seq(Node) /\ Len(Counted) = num_nodes
         /\ Counted = <<>> <=> num_nodes = 0
         /\ \A k \in 1 .. num_nodes : Counted[k] = nodes[k - 1]
  <1> USE RouteAssumption DEF RouteTypeOK, Slots
  <1>1. \A k \in 1 .. num_nodes : nodes[k - 1] \in Node
    OBVIOUS
  <1>2. Counted \in [1 .. num_nodes -> Node]
    BY <1>1 DEF Counted
  <1>3. Counted \in Seq(Node) /\ Len(Counted) = num_nodes
    BY <1>2
  <1>. QED BY <1>3 DEF Counted

LEMMA RefinesInit == RouteInit => Abstract!Init
  BY RouteAssumption DEF RouteInit, Abstract!Init

(* A sequence with one more element, as a function.                        *)
LEMMA AppendIs ==
  ASSUME NEW S, NEW s \in Seq(S), NEW x \in S
  PROVE  Append(s, x) = [k \in 1 .. Len(s) + 1 |-> IF k = Len(s) + 1 THEN x ELSE s[k]]
  <1> DEFINE f == [k \in 1 .. Len(s) + 1 |-> IF k = Len(s) + 1 THEN x ELSE s[k]]
  <1>1. Len(s) \in Nat /\ DOMAIN s = 1 .. Len(s)
    OBVIOUS
  <1>2. Append(s, x) \in Seq(S) /\ Len(Append(s, x)) = Len(s) + 1
    OBVIOUS
  <1>3. \A k \in 1 .. Len(s) + 1 : Append(s, x)[k] = f[k]
    BY <1>1
  <1>4. \A k \in 1 .. Len(s) + 1 : f[k] \in S
    BY <1>1
  <1>5. f \in Seq(S) /\ Len(f) = Len(s) + 1
    BY <1>1, <1>4
  <1> HIDE DEF f
  <1>6. Append(s, x) = f
    BY <1>2, <1>3, <1>5
  <1>. QED BY <1>6 DEF f

(* Each operation is that of the stack.                                    *)
LEMMA RefinesStep ==
  RouteTypeOK /\ RouteTypeOK' /\ [RouteNext]_routeVars
    => [Abstract!Next]_<<Counted, answer>>
  <1> SUFFICES ASSUME RouteTypeOK, RouteTypeOK', [RouteNext]_routeVars
               PROVE  Abstract!Next \/ UNCHANGED <<Counted, answer>>
    OBVIOUS
  <1> USE RouteAssumption
  <1>a. num_nodes \in 0 .. MaxHops /\ num_nodes' \in 0 .. MaxHops
    BY DEF RouteTypeOK
  <1>b. /\ Counted \in Seq(Node) /\ Len(Counted) = num_nodes
        /\ Counted = <<>> <=> num_nodes = 0
        /\ \A k \in 1 .. num_nodes : Counted[k] = nodes[k - 1]
    BY CountedIsSeq
  <1>1. ASSUME NEW addr \in Addr, AddNode(addr) PROVE Abstract!Push(addr)
    <2>a. Len(addr) \in Nat
      OBVIOUS
    <2>1. CASE Len(addr) = 0 /\ Answers(-1, NoNode) /\ UNCHANGED <<num_nodes, nodes>>
      BY <2>1 DEF Abstract!Push, Abstract!Says, Answers, Counted
    <2>2. CASE Len(addr) > 0 /\ num_nodes >= MaxHops /\ Answers(-2, NoNode)
               /\ UNCHANGED <<num_nodes, nodes>>
      <3>1. UNCHANGED Counted /\ Len(Counted) = MaxHops
        BY <2>2, <1>a, <1>b DEF Counted
      <3>. QED BY <2>2, <3>1 DEF Abstract!Push, Abstract!Says, Answers, Counted
    <2>3. CASE Len(addr) > 0 /\ num_nodes < MaxHops
               /\ nodes' = [nodes EXCEPT ![num_nodes] = Over(@, addr)]
               /\ num_nodes' = num_nodes + 1 /\ Answers(0, NoNode)
      <3> DEFINE n == Over(nodes[num_nodes], addr)
      <3>1. nodes \in [Slots -> Node] /\ num_nodes \in Slots
        BY <2>3, <1>a DEF RouteTypeOK, Slots
      <3>2. n \in Node /\ \A k \in 1 .. Len(addr) : n[k] = addr[k]
        BY <3>1, OverBegins
      <3>3. nodes' = [nodes EXCEPT ![num_nodes] = n]
        BY <2>3
      <3> HIDE DEF n
      <3>4. Counted' = Append(Counted, n)
        <4>1. Counted' = [k \in 1 .. num_nodes + 1 |-> nodes'[k - 1]]
          BY <2>3 DEF Counted
        <4>2. Append(Counted, n) = [k \in 1 .. num_nodes + 1 |->
                                     IF k = num_nodes + 1 THEN n ELSE Counted[k]]
          BY <1>b, <3>2, AppendIs
        <4>3. \A k \in 1 .. num_nodes + 1 :
                nodes'[k - 1] = IF k = num_nodes + 1 THEN n ELSE Counted[k]
          BY <1>a, <1>b, <3>1, <3>3 DEF Slots
        <4>. QED BY <4>1, <4>2, <4>3
      <3>5. n \in Abstract!Node /\ Abstract!BeginsWith(n, addr)
        BY <3>2 DEF Abstract!Node, Abstract!BeginsWith, Node
      <3>6. Len(Counted) < MaxHops
        BY <2>3, <1>b
      <3>. QED BY <2>3, <3>4, <3>5, <3>6 DEF Abstract!Push, Abstract!Says, Answers, Counted
    <2>. QED BY <1>1, <2>1, <2>2, <2>3 DEF AddNode
  <1>2. ASSUME NEW i \in 0 .. MaxHops, GetNode(i) PROVE Abstract!Read(i)
    <2>1. UNCHANGED Counted
      BY <1>2 DEF GetNode, Counted
    <2>2. CASE num_nodes > 0 /\ i < num_nodes
      <3>1. ~OutOfRange(i) /\ i \in Slots
        BY <2>2, <1>a, InRange DEF Slots
      <3>2. Counted[i + 1] = nodes[i] /\ i < Len(Counted)
        BY <2>2, <1>a, <1>b
      <3>3. Answers(0, nodes[i])
        BY <1>2, <3>1 DEF GetNode
      <3>. QED BY <2>1, <3>2, <3>3 DEF Abstract!Read, Abstract!Says, Answers, Counted
    <2>3. CASE num_nodes > 0 /\ i >= num_nodes
      <3>1. OutOfRange(i) /\ i >= Len(Counted)
        BY <2>3, <1>b, InRange
      <3>2. Answers(-1, NoNode)
        BY <1>2, <3>1 DEF GetNode
      <3>. QED BY <2>1, <3>1, <3>2 DEF Abstract!Read, Abstract!Says, Answers, Counted
    <2>4. CASE num_nodes = 0
      <3>1. ~OutOfRange(i)
        BY <2>4, InRange
      <3>2. \E n \in Node : Answers(0, n)
        BY <1>2, <3>1 DEF GetNode, RouteTypeOK
      <3>3. \E n \in Abstract!Node : Abstract!Says(0, n)
        BY <3>2 DEF Abstract!Node, Abstract!Says, Answers, Node
      <3>4. Counted = <<>>
        BY <2>4, <1>b
      <3>. QED BY <2>1, <3>3, <3>4 DEF Abstract!Read, Counted
    <2>. QED BY <1>a, <2>2, <2>3, <2>4
  <1>3. ASSUME DelNode PROVE Abstract!Pop
    <2>1. CASE num_nodes = 0
      <3>1. UNCHANGED Counted /\ Counted = <<>> /\ Answers(-1, NoNode)
        BY <1>3, <2>1, <1>b DEF DelNode, Counted
      <3>. QED BY <3>1 DEF Abstract!Pop, Abstract!Says, Answers, Counted
    <2>2. CASE num_nodes # 0
      <3>1. num_nodes' = num_nodes - 1 /\ nodes' = nodes /\ Answers(num_nodes - 1, NoNode)
        BY <1>3, <2>2 DEF DelNode
      <3>2. Counted # <<>>
        BY <2>2, <1>b
      <3>3. Counted' = [k \in 1 .. Len(Counted) - 1 |-> Counted[k]]
        <4>1. Counted' = [k \in 1 .. num_nodes - 1 |-> nodes[k - 1]]
          BY <3>1 DEF Counted
        <4>2. \A k \in 1 .. num_nodes - 1 : nodes[k - 1] = Counted[k]
          BY <1>a, <1>b
        <4>. QED BY <1>b, <4>1, <4>2
      <3>4. Answers(Len(Counted) - 1, NoNode)
        BY <3>1, <1>b
      <3>. QED BY <3>2, <3>3, <3>4 DEF Abstract!Pop, Abstract!Says, Answers, Counted
    <2>. QED BY <2>1, <2>2
  <1>4. ASSUME ClearRoute PROVE Abstract!Empty
    <2>1. num_nodes' = 0
      BY <1>4 DEF ClearRoute
    <2>2. Counted' = <<>>
      BY <2>1 DEF Counted
    <2>. QED BY <1>4, <2>2 DEF ClearRoute, Abstract!Empty, Abstract!Says, Answers, Counted
  <1>5. CASE UNCHANGED routeVars
    BY <1>5 DEF routeVars, Counted
  <1>. QED BY <1>1, <1>2, <1>3, <1>4, <1>5 DEF RouteNext, Abstract!Next

(* The route is a bounded stack of nodes.                                  *)
THEOREM RouteRefinement == RouteSpec => ImplementsAbstractRoute
  <1>1. RouteInit => Abstract!Init
    BY RefinesInit
  <1>2. RouteTypeOK /\ RouteTypeOK' /\ [RouteNext]_routeVars
          => [Abstract!Next]_<<[k \in 1 .. num_nodes |-> nodes[k - 1]], answer>>
    BY RefinesStep DEF Counted
  <1>. QED BY <1>1, <1>2, RouteTypeCorrect, PTL DEF RouteSpec, ImplementsAbstractRoute, Abstract!Spec

-----------------------------------------------------------------------------
(***************************************************************************)
(* Times.  What was made last is what the operation gives for the two      *)
(* times, which never change: that is the invariant; the rest is           *)
(* arithmetic.                                                             *)
(***************************************************************************)

(* What was made last, and from what.                                      *)
MadeOK ==
  /\ from \in Times /\ to \in Times
  /\ made.what = "delta" => made.value = Delta(from, to)
  /\ made.what = "millis" => made.value = DeltaMillis(from, to)
  /\ made.what = "utc" => made.value = ToUtc(to)
  /\ made.what = "timespec" => made.value = FromUtc(ToUtc(to))
  /\ made.what = "ptime" => made.value = ToPTime(ToUtc(to))

LEMMA MadeAlways == TimeSpec => []MadeOK
  <1>1. TimeInit => MadeOK
    BY DEF TimeInit, MadeOK
  <1>2. MadeOK /\ [TimeNext]_timeVars => MadeOK'
    <2> SUFFICES ASSUME MadeOK, [TimeNext]_timeVars PROVE MadeOK'
      OBVIOUS
    <2> USE DEF MadeOK, Makes
    <2>1. CASE TimespecDelta
      BY <2>1 DEF TimespecDelta
    <2>2. CASE TimespecDeltaMillis
      BY <2>2 DEF TimespecDeltaMillis
    <2>3. CASE TimespecToUTCTimeStamp
      BY <2>3 DEF TimespecToUTCTimeStamp
    <2>4. CASE UTCTimeStampToTimespec
      BY <2>4 DEF UTCTimeStampToTimespec
    <2>5. CASE UTCTimeStampToPTime
      BY <2>5 DEF UTCTimeStampToPTime
    <2>6. CASE UNCHANGED timeVars
      BY <2>6 DEF timeVars
    <2>. QED BY <2>1, <2>2, <2>3, <2>4, <2>5, <2>6 DEF TimeNext
  <1>. QED BY <1>1, <1>2, PTL DEF TimeSpec

-----------------------------------------------------------------------------
(* Arithmetic.                                                             *)
LEMMA Division ==
  ASSUME NEW n \in Int, NEW k \in Nat \ {0}
  PROVE  /\ n \div k \in Int /\ n % k \in 0 .. k - 1
         /\ n = k * (n \div k) + (n % k)
  OBVIOUS

LEMMA DivisionOfSmall ==
  ASSUME NEW n \in Nat, NEW k \in Nat \ {0}
  PROVE  /\ n < k => n % k = n /\ n \div k = 0
         /\ n \div k \in Nat
  OBVIOUS

LEMMA TimesKeepOrder ==
  ASSUME NEW a \in Int, NEW b \in Int, NEW k \in Nat \ {0}
  PROVE  /\ a <= b => a * k <= b * k
         /\ a < b => a * k + k <= b * k
  OBVIOUS

LEMMA Units ==
  /\ Micro \in Nat \ {0} /\ Milli \in Nat \ {0} /\ NANOS_PER_SECOND \in Nat \ {0}
  /\ Milli = Micro * K /\ NANOS_PER_SECOND = Milli * K
  <1>1. K \in Nat \ {0}
    BY TimeAssumption
  <1>2. K * K \in Nat \ {0}
    BY <1>1
  <1>3. K * K * K \in Nat \ {0}
    BY <1>1, <1>2
  <1>. QED BY <1>1, <1>2, <1>3 DEF Micro, Milli, NANOS_PER_SECOND

(* A second borrowed is a second's nanoseconds.                            *)
LEMMA DeltaExact ==
  ASSUME NEW a \in Times, NEW b \in Times
  PROVE  /\ Nanos(a) + Nanos(Delta(a, b)) = Nanos(b)
         /\ Delta(a, b).nsec \in 0 .. NANOS_PER_SECOND - 1
  <1> DEFINE N == NANOS_PER_SECOND
  <1>1. N \in Nat \ {0}
    BY Units
  <1>2. /\ a.sec \in Nat /\ a.nsec \in 0 .. N - 1
        /\ b.sec \in Nat /\ b.nsec \in 0 .. N - 1
    BY TimeAssumption
  <1> HIDE DEF N
  <1>3. /\ (b.sec - a.sec - 1) * N = b.sec * N - a.sec * N - N
        /\ (b.sec - a.sec) * N = b.sec * N - a.sec * N
        /\ a.sec * N \in Int /\ b.sec * N \in Int
    BY <1>1, <1>2
  <1>4. Nanos(a) = a.sec * N + a.nsec /\ Nanos(b) = b.sec * N + b.nsec
    BY DEF Nanos, N
  <1>5. CASE b.nsec - a.nsec < 0
    <2>1. Delta(a, b) = [sec |-> b.sec - a.sec - 1, nsec |-> N + b.nsec - a.nsec]
      BY <1>5 DEF Delta, N
    <2>2. Nanos(Delta(a, b)) = (b.sec - a.sec - 1) * N + (N + b.nsec - a.nsec)
      BY <2>1 DEF Nanos, N
    <2>3. Nanos(a) + Nanos(Delta(a, b)) = Nanos(b)
      BY <1>1, <1>2, <1>3, <1>4, <2>2
    <2>4. Delta(a, b).nsec \in 0 .. N - 1
      BY <1>1, <1>2, <1>5, <2>1
    <2>. QED BY <2>3, <2>4 DEF N
  <1>6. CASE ~(b.nsec - a.nsec < 0)
    <2>1. Delta(a, b) = [sec |-> b.sec - a.sec, nsec |-> b.nsec - a.nsec]
      BY <1>6 DEF Delta
    <2>2. Nanos(Delta(a, b)) = (b.sec - a.sec) * N + (b.nsec - a.nsec)
      BY <2>1 DEF Nanos, N
    <2>3. Nanos(a) + Nanos(Delta(a, b)) = Nanos(b)
      BY <1>1, <1>2, <1>3, <1>4, <2>2
    <2>4. Delta(a, b).nsec \in 0 .. N - 1
      BY <1>1, <1>2, <1>6, <2>1
    <2>. QED BY <2>3, <2>4 DEF N
  <1>. QED BY <1>5, <1>6

(* The microseconds of a time are its nanoseconds, cut.                    *)
LEMMA MicrosCut ==
  ASSUME NEW ts \in Times
  PROVE  /\ Micros(ts) \in Nat /\ Nanos(ts) \in Nat
         /\ Micros(ts) * Micro <= Nanos(ts) /\ Nanos(ts) < Micros(ts) * Micro + Micro
  <1>1. /\ Micro \in Nat \ {0} /\ Milli \in Nat \ {0} /\ NANOS_PER_SECOND = Milli * Micro
    BY Units, TimeAssumption DEF Micro
  <1>2. ts.sec \in Nat /\ ts.nsec \in Nat
    BY Units, TimeAssumption
  <1> DEFINE q == ts.nsec \div Micro
             r == ts.nsec % Micro
  <1>3. q \in Nat /\ r \in 0 .. Micro - 1 /\ ts.nsec = Micro * q + r
    BY <1>1, <1>2
  <1>4. Micros(ts) = ts.sec * Milli + q /\ Nanos(ts) = ts.sec * (Milli * Micro) + ts.nsec
    BY <1>1 DEF Micros, Nanos
  <1> HIDE DEF q, r
  <1>5. (ts.sec * Milli + q) * Micro = ts.sec * (Milli * Micro) + Micro * q
    BY <1>1, <1>2, <1>3
  <1>6. ts.sec * Milli \in Nat /\ ts.sec * (Milli * Micro) \in Nat /\ Micro * q \in Nat
    BY <1>1, <1>2, <1>3
  <1>7. Micros(ts) \in Nat /\ Nanos(ts) \in Nat
    BY <1>2, <1>3, <1>4, <1>6
  <1>8. Nanos(ts) = Micros(ts) * Micro + r
    BY <1>1, <1>3, <1>4, <1>5, <1>6
  <1>9. Micros(ts) * Micro \in Nat
    BY <1>1, <1>7
  <1> HIDE DEF r
  <1>10. r \in Nat /\ r < Micro
    BY <1>1, <1>3
  <1>. QED BY <1>1, <1>7, <1>8, <1>9, <1>10

(* Milliseconds between two times in their order.                          *)
LEMMA MillisClose ==
  ASSUME NEW a \in Times, NEW b \in Times,
         Nanos(a) <= Nanos(b), Micros(b) < LongMod
  PROVE  LET exact == Nanos(b) - Nanos(a)
             v == DeltaMillis(a, b)
         IN  exact - Milli < v * Milli /\ v * Milli < exact + Micro
  <1> DEFINE x == Micros(a)
             y == Micros(b)
             d == y - x
             v == d \div K
             r == d % K
             exact == Nanos(b) - Nanos(a)
  <1>1. /\ x \in Nat /\ Nanos(a) \in Nat /\ y \in Nat /\ Nanos(b) \in Nat
        /\ x * Micro <= Nanos(a) /\ Nanos(a) < x * Micro + Micro
        /\ y * Micro <= Nanos(b) /\ Nanos(b) < y * Micro + Micro
    BY MicrosCut
  <1>2. Micro \in Nat \ {0} /\ K \in Nat \ {0} /\ Milli = Micro * K /\ LongMod \in Nat \ {0}
    BY Units, TimeAssumption
  <1> HIDE DEF x, y
  <1>3. x <= y
    <2>1. CASE y < x
      <3>1. y * Micro + Micro <= x * Micro
        BY <1>1, <1>2, <2>1, TimesKeepOrder
      <3>2. x * Micro \in Int /\ y * Micro \in Int
        BY <1>1, <1>2
      <3>. QED BY <1>1, <1>2, <3>1, <3>2
    <2>. QED BY <1>1, <2>1
  <1>4. d \in Nat /\ d < LongMod
    BY <1>1, <1>2, <1>3 DEF y
  <1>5. d % LongMod = d
    BY <1>2, <1>4, DivisionOfSmall
  <1>6. DeltaMillis(a, b) = v
    BY <1>5 DEF DeltaMillis, x, y
  <1> HIDE DEF d
  <1>7. v \in Nat /\ r \in 0 .. K - 1 /\ d = K * v + r
    BY <1>2, <1>4
  <1> HIDE DEF v, r
  <1>8. d * Micro = v * Milli + r * Micro
    BY <1>2, <1>4, <1>7
  <1>9. 0 <= r * Micro /\ r * Micro + Micro <= Milli
    <2>1. 0 * Micro <= r * Micro /\ r * Micro + Micro <= K * Micro
      BY <1>2, <1>7, TimesKeepOrder
    <2>. QED BY <1>2, <2>1
  <1>10. d * Micro = y * Micro - x * Micro
    BY <1>1, <1>2 DEF d
  <1>11. exact - Micro < d * Micro /\ d * Micro < exact + Micro
    <2>1. x * Micro \in Int /\ y * Micro \in Int
      BY <1>1, <1>2
    <2>. QED BY <1>1, <1>2, <1>10, <2>1
  <1>12. v * Milli \in Int /\ r * Micro \in Int /\ exact \in Int /\ Milli \in Int /\ d * Micro \in Int
    BY <1>1, <1>2, <1>4, <1>7
  <1> HIDE DEF exact
  <1>13. exact - Milli < v * Milli /\ v * Milli < exact + Micro
    BY <1>2, <1>8, <1>9, <1>11, <1>12
  <1>. QED BY <1>6, <1>13 DEF exact

(* What the operations give for an interval is what it is.                 *)
THEOREM IntervalsAreExact == TimeSpec => []IntervalsAdd
  <1>1. MadeOK => IntervalsAdd
    <2> SUFFICES ASSUME MadeOK PROVE IntervalsAdd
      OBVIOUS
    <2>1. made.what = "delta" => /\ Nanos(from) + Nanos(made.value) = Nanos(to)
                                /\ made.value.nsec \in 0 .. NANOS_PER_SECOND - 1
      BY DeltaExact DEF MadeOK
    <2>2. made.what = "millis" /\ Nanos(from) <= Nanos(to) /\ Micros(to) < LongMod =>
            LET exact == Nanos(to) - Nanos(from)
            IN  exact - Milli < made.value * Milli /\ made.value * Milli < exact + Micro
      BY MillisClose DEF MadeOK
    <2>. QED BY <2>1, <2>2 DEF IntervalsAdd
  <1>. QED BY <1>1, MadeAlways, PTL

-----------------------------------------------------------------------------
(* The milliseconds of a second's nanoseconds are cut, never rounded.      *)
LEMMA MillisCut ==
  ASSUME NEW n \in 0 .. NANOS_PER_SECOND - 1
  PROVE  /\ MillisOf(n) \in Nat
         /\ MillisOf(n) * Milli <= n /\ n < MillisOf(n) * Milli + Milli
  <1>1. Milli \in Nat \ {0} /\ NANOS_PER_SECOND \in Nat \ {0}
    BY Units
  <1>2. n \in Nat /\ n <= NANOS_PER_SECOND - 1
    BY <1>1
  <1>3. MillisOf(n) = n \div Milli
    <2>1. CASE n <= Milli - 1
      BY <1>1, <1>2, <2>1, DivisionOfSmall DEF MillisOf
    <2>2. CASE ~(n <= Milli - 1)
      BY <1>2, <2>2 DEF MillisOf
    <2>. QED BY <2>1, <2>2
  <1>4. /\ n \div Milli \in Nat /\ n % Milli \in 0 .. Milli - 1
        /\ n = Milli * (n \div Milli) + (n % Milli)
    BY <1>1, <1>2
  <1> DEFINE q == n \div Milli
             r == n % Milli
  <1>5. q \in Nat /\ r \in 0 .. Milli - 1 /\ n = Milli * q + r
    BY <1>4
  <1> HIDE DEF q, r
  <1>6. q * Milli <= n /\ n < q * Milli + Milli
    <2>1. Milli * q = q * Milli /\ q * Milli \in Nat
      BY <1>1, <1>5
    <2>. QED BY <1>1, <1>5, <2>1
  <1>7. MillisOf(n) = q
    BY <1>3 DEF q
  <1>. QED BY <1>5, <1>6, <1>7

(* Seconds that an int holds go into a date and a time and come back.      *)
LEMMA SecondsReturn ==
  ASSUME NEW ts \in Times, ts.sec < IntMod \div 2
  PROVE  ToUtc(ts).date * Day + ToUtc(ts).second = ts.sec
  <1>1. /\ Day \in Nat \ {0} /\ IntMod \in Nat \ {0} /\ ts.sec \in Nat
    BY TimeAssumption
  <1> DEFINE h == IntMod \div 2
  <1>2. h \in Nat /\ h + h <= IntMod /\ ts.sec < h
    BY <1>1
  <1> HIDE DEF h
  <1>3. (ts.sec + h) % IntMod = ts.sec + h
    <2>1. ts.sec + h \in Nat /\ ts.sec + h < IntMod
      BY <1>1, <1>2
    <2>. QED BY <1>1, <2>1, DivisionOfSmall
  <1>4. AsInt(ts.sec) = ts.sec
    BY <1>1, <1>2, <1>3 DEF AsInt, h
  <1>5. ts.sec = Day * (ts.sec \div Day) + (ts.sec % Day) /\ ts.sec \div Day \in Int
    <2>1. ts.sec \in Int /\ Day \in Nat \ {0}
      BY <1>1
    <2>. QED BY <2>1, Division
  <1>6. Day * (ts.sec \div Day) = (ts.sec \div Day) * Day
    BY <1>1, <1>5
  <1>. QED BY <1>4, <1>5, <1>6 DEF ToUtc

(* There and back, a time is cut to its milliseconds.                      *)
LEMMA ThereAndBack ==
  ASSUME NEW ts \in Times, ts.sec < IntMod \div 2
  PROVE  \E m \in Nat :
           /\ Nanos(FromUtc(ToUtc(ts))) = m * Milli
           /\ m * Milli <= Nanos(ts) /\ Nanos(ts) < m * Milli + Milli
  <1> DEFINE c == MillisOf(ts.nsec)
  <1>1. /\ ts.sec \in Nat /\ ts.nsec \in 0 .. NANOS_PER_SECOND - 1
        /\ K \in Nat \ {0} /\ Milli \in Nat \ {0} /\ NANOS_PER_SECOND = Milli * K
    BY Units, TimeAssumption
  <1>2. c \in Nat /\ c * Milli <= ts.nsec /\ ts.nsec < c * Milli + Milli
    BY <1>1, MillisCut
  <1>3. FromUtc(ToUtc(ts)) = [sec |-> ts.sec, nsec |-> c * Milli]
    BY SecondsReturn DEF FromUtc, ToUtc
  <1> HIDE DEF c
  <1>4. /\ Nanos(FromUtc(ToUtc(ts))) = ts.sec * (Milli * K) + c * Milli
        /\ Nanos(ts) = ts.sec * (Milli * K) + ts.nsec
    BY <1>1, <1>3 DEF Nanos
  <1>5. ts.sec * K + c \in Nat /\ ts.sec * (Milli * K) \in Nat /\ c * Milli \in Nat
    BY <1>1, <1>2
  <1>6. (ts.sec * K + c) * Milli = ts.sec * (Milli * K) + c * Milli
    BY <1>1, <1>2
  <1>7. ts.nsec \in Nat
    BY Units, <1>1
  <1>8. /\ ts.sec * (Milli * K) + c * Milli <= Nanos(ts)
        /\ Nanos(ts) < ts.sec * (Milli * K) + c * Milli + Milli
    BY <1>1, <1>2, <1>4, <1>5, <1>7
  <1>. QED BY <1>4, <1>5, <1>6, <1>8

LEMMA LaterSecond ==
  ASSUME NEW a \in Times, NEW b \in Times, Nanos(a) <= Nanos(b)
  PROVE  a.sec <= b.sec
  <1> DEFINE N == NANOS_PER_SECOND
  <1>1. /\ N \in Nat \ {0} /\ a.sec \in Nat /\ b.sec \in Nat
        /\ a.nsec \in 0 .. N - 1 /\ b.nsec \in 0 .. N - 1
    BY Units, TimeAssumption
  <1>2. a.sec * N + a.nsec <= b.sec * N + b.nsec
    BY DEF Nanos
  <1> HIDE DEF N
  <1>3. CASE b.sec < a.sec
    <2>1. b.sec * N + N <= a.sec * N /\ a.sec * N \in Nat /\ b.sec * N \in Nat
      BY <1>1, <1>3, TimesKeepOrder
    <2>. QED BY <1>1, <1>2, <2>1
  <1>. QED BY <1>1, <1>3

(* The sending time of a message survives the ways it takes.               *)
THEOREM SendingTimesSurvive == TimeSpec => []SendingTimeSurvives
  <1>1. MadeOK => SendingTimeSurvives
    <2> SUFFICES ASSUME MadeOK PROVE SendingTimeSurvives
      OBVIOUS
    <2>1. /\ Milli \in Nat \ {0} /\ K \in Nat \ {0} /\ from \in Times /\ to \in Times
          /\ from.sec \in Nat /\ to.sec \in Nat /\ IntMod \div 2 \in Nat
      BY Units, TimeAssumption DEF MadeOK
    <2>2. ASSUME made.what = "timespec", to.sec < IntMod \div 2
          PROVE  /\ Nanos(made.value) <= Nanos(to) /\ Nanos(to) < Nanos(made.value) + Milli
                 /\ Nanos(from) <= Nanos(to) => Nanos(FromUtc(ToUtc(from))) <= Nanos(made.value)
      <3>1. made.value = FromUtc(ToUtc(to))
        BY <2>2 DEF MadeOK
      <3>2. PICK m \in Nat : /\ Nanos(made.value) = m * Milli
                             /\ m * Milli <= Nanos(to) /\ Nanos(to) < m * Milli + Milli
        BY <2>1, <2>2, <3>1, ThereAndBack
      <3>3. ASSUME Nanos(from) <= Nanos(to)
            PROVE  Nanos(FromUtc(ToUtc(from))) <= Nanos(made.value)
        <4>1. from.sec < IntMod \div 2
          BY <2>1, <2>2, <3>3, LaterSecond
        <4>2. PICK n \in Nat : /\ Nanos(FromUtc(ToUtc(from))) = n * Milli
                               /\ n * Milli <= Nanos(from)
          BY <2>1, <4>1, ThereAndBack
        <4>3. Nanos(from) \in Nat /\ Nanos(to) \in Nat
          BY <2>1, MicrosCut
        <4>4. n * Milli \in Nat /\ m * Milli \in Nat
          BY <2>1
        <4>5. CASE m < n
          <5>1. m * Milli + Milli <= n * Milli
            BY <2>1, <4>5, TimesKeepOrder
          <5>. QED BY <2>1, <3>2, <3>3, <4>2, <4>3, <4>4, <5>1
        <4>6. CASE n <= m
          BY <2>1, <3>2, <4>2, <4>6, TimesKeepOrder
        <4>. QED BY <4>5, <4>6
      <3>. QED BY <3>2, <3>3
    <2>3. ASSUME made.what = "ptime", to.sec < IntMod \div 2
          PROVE  /\ made.value.sec = to.sec /\ made.value.micros * Micro <= to.nsec
                 /\ to.nsec < made.value.micros * Micro + Milli
      <3> DEFINE c == MillisOf(to.nsec)
      <3>1. made.value = [sec |-> to.sec, micros |-> c * K]
        BY <2>1, <2>3, SecondsReturn DEF MadeOK, ToPTime, ToUtc
      <3>2. c \in Nat /\ c * Milli <= to.nsec /\ to.nsec < c * Milli + Milli
        BY <2>1, TimeAssumption, MillisCut
      <3> HIDE DEF c
      <3>3. c * K * Micro = c * Milli
        BY <2>1, <3>2 DEF Micro, Milli
      <3>. QED BY <3>1, <3>2, <3>3
    <2>. QED BY <2>2, <2>3 DEF SendingTimeSurvives
  <1>. QED BY <1>1, MadeAlways, PTL

-----------------------------------------------------------------------------
(***************************************************************************)
(* Hashes.  The words that each path reads are those of the bytes alone;   *)
(* what is done to the words is the same on all of them.                   *)
(***************************************************************************)

(* What is hashed is one of the keys, and what has been hashed with each   *)
(* function is what the properties say of it.                              *)
HashInv ==
  /\ key \in Keys /\ follows \in Follows
  /\ SameIdSameHash
  /\ HashesAgree

(* A key and what follows it are bytes, at least three of which follow.    *)
LEMMA MemoryIsBytes ==
  ASSUME key \in Keys, follows \in Follows
  PROVE  /\ key \in Seq(0 .. 255) /\ Len(key) \in Nat
         /\ \A p \in 0 .. Len(key) + 2 : ByteAt(p) \in 0 .. 255
         /\ \A p \in 0 .. Len(key) - 1 : ByteAt(p) = key[p + 1]
  <1>1. /\ key \in Seq(0 .. 255) /\ follows \in Seq(0 .. 255)
        /\ Len(key) \in Nat /\ Len(follows) \in Nat /\ Len(follows) >= 3
    BY HashAssumption
  <1>2. /\ Memory \in Seq(0 .. 255) /\ Len(Memory) = Len(key) + Len(follows)
        /\ \A p \in 1 .. Len(key) : Memory[p] = key[p]
    BY <1>1 DEF Memory
  <1>3. \A p \in 1 .. Len(key) + Len(follows) : Memory[p] \in 0 .. 255
    BY <1>2, ElementOfSeq
  <1>4. ASSUME NEW p \in 0 .. Len(key) + 2 PROVE Memory[p + 1] \in 0 .. 255
    BY <1>1, <1>3
  <1>5. ASSUME NEW p \in 0 .. Len(key) - 1 PROVE Memory[p + 1] = key[p + 1]
    BY <1>1, <1>2
  <1>6. key \in Seq(0 .. 255) /\ Len(key) \in Nat
    BY <1>1
  <1>. QED BY <1>4, <1>5, <1>6 DEF ByteAt

(* The i-th word has one to four bytes of the key.                         *)
LEMMA OwnedBytes ==
  ASSUME key \in Keys, follows \in Follows, NEW i \in 1 .. Words
  PROVE  /\ i \in Nat /\ 4 * (i - 1) \in Nat /\ Owned(i) \in 1 .. 4
         /\ \A b \in 1 .. 4 : ByteAt(4 * (i - 1) + b - 1) \in 0 .. 255
         /\ \A b \in 1 .. 4 : b <= Owned(i) <=> 4 * (i - 1) + b <= Len(key)
         /\ \A b \in 1 .. 4 : b <= Owned(i) =>
              ByteAt(4 * (i - 1) + b - 1) = key[4 * (i - 1) + b]
  <1>1. Len(key) \in Nat
    BY MemoryIsBytes
  <1>2. i \in Nat /\ i >= 1 /\ 4 * i <= Len(key) + 3
    BY <1>1 DEF Words
  <1>3. Owned(i) \in 1 .. 4 /\ \A b \in 1 .. 4 : b <= Owned(i) <=> 4 * (i - 1) + b <= Len(key)
    BY <1>1, <1>2 DEF Owned
  <1>4. \A b \in 1 .. 4 : 4 * (i - 1) + b - 1 \in 0 .. Len(key) + 2
    BY <1>1, <1>2
  <1>5. \A b \in 1 .. 4 : b <= Owned(i) => 4 * (i - 1) + b - 1 \in 0 .. Len(key) - 1
    BY <1>1, <1>2, <1>3
  <1>6. \A b \in 1 .. 4 : b <= Owned(i) => ByteAt(4 * (i - 1) + b - 1) = key[4 * (i - 1) + b - 1 + 1]
    BY <1>5, MemoryIsBytes
  <1>7. \A b \in 1 .. 4 : 4 * (i - 1) + b - 1 + 1 = 4 * (i - 1) + b
    BY <1>2
  <1>8. \A b \in 1 .. 4 : ByteAt(4 * (i - 1) + b - 1) \in 0 .. 255
    BY <1>4, MemoryIsBytes
  <1>9. \A b \in 1 .. 4 : b <= Owned(i) => ByteAt(4 * (i - 1) + b - 1) = key[4 * (i - 1) + b]
    BY <1>6, <1>7
  <1>10. i \in Nat /\ 4 * (i - 1) \in Nat
    BY <1>2
  <1>. QED BY <1>3, <1>8, <1>9, <1>10

(* The i-th word of a key with zeros behind it, by the bytes of memory.    *)
LEMMA PaddedWord ==
  ASSUME key \in Keys, follows \in Follows, NEW i \in 1 .. Words
  PROVE  Padded(key)[i] = Bytewise(i)
  <1> DEFINE At(p) == IF p <= Len(key) THEN key[p] ELSE 0
  <1>1. Padded(key)[i] = <<At(4 * i - 1) + 256 * At(4 * i), At(4 * i - 3) + 256 * At(4 * i - 2)>>
    BY DEF Padded, Words
  <1>2. \A b \in 1 .. 4 : OwnByte(i, b) = At(4 * (i - 1) + b)
    BY OwnedBytes DEF OwnByte
  <1>3. /\ 4 * (i - 1) + 1 = 4 * i - 3 /\ 4 * (i - 1) + 2 = 4 * i - 2
        /\ 4 * (i - 1) + 3 = 4 * i - 1 /\ 4 * (i - 1) + 4 = 4 * i
    BY OwnedBytes
  <1>4. /\ OwnByte(i, 1) = At(4 * i - 3) /\ OwnByte(i, 2) = At(4 * i - 2)
        /\ OwnByte(i, 3) = At(4 * i - 1) /\ OwnByte(i, 4) = At(4 * i)
    BY <1>2, <1>3
  <1> HIDE DEF At
  <1>. QED BY <1>1, <1>4 DEF Bytewise

LEMMA MaskedHalf ==
  ASSUME NEW a \in 0 .. 255, NEW b \in 0 .. 255
  PROVE  (a + 256 * b) % 256 = a
  OBVIOUS

(* Each of the three paths reads the same word.                            *)
LEMMA WordReadAligned ==
  ASSUME key \in Keys, follows \in Follows, NEW i \in 1 .. Words
  PROVE  Aligned(i) = Bytewise(i) /\ HalfAligned(i) = Bytewise(i)
  <1> DEFINE p == 4 * (i - 1)
             byte1 == ByteAt(p)  byte2 == ByteAt(p + 1)
             byte3 == ByteAt(p + 2)  byte4 == ByteAt(p + 3)
  <1>1. p \in Nat /\ Owned(i) \in 1 .. 4
    BY OwnedBytes
  <1>2. \A b \in 1 .. 4 : ByteAt(p + b - 1) \in 0 .. 255
    BY OwnedBytes
  <1>3. p + 1 - 1 = p /\ p + 2 - 1 = p + 1 /\ p + 3 - 1 = p + 2 /\ p + 4 - 1 = p + 3 /\ p + 2 + 1 = p + 3
    BY <1>1
  <1>4. byte1 \in 0 .. 255 /\ byte2 \in 0 .. 255 /\ byte3 \in 0 .. 255 /\ byte4 \in 0 .. 255
    BY <1>2, <1>3
  <1>5. WordAt(p) = <<byte3 + 256 * byte4, byte1 + 256 * byte2>>
    BY <1>3 DEF WordAt, HalfWordAt
  <1>6. HalfWordAt(p) = byte1 + 256 * byte2 /\ HalfWordAt(p + 2) = byte3 + 256 * byte4
    BY <1>3 DEF HalfWordAt
  <1>7. /\ OwnByte(i, 1) = IF 1 <= Owned(i) THEN byte1 ELSE 0
        /\ OwnByte(i, 2) = IF 2 <= Owned(i) THEN byte2 ELSE 0
        /\ OwnByte(i, 3) = IF 3 <= Owned(i) THEN byte3 ELSE 0
        /\ OwnByte(i, 4) = IF 4 <= Owned(i) THEN byte4 ELSE 0
    BY <1>3 DEF OwnByte
  <1> HIDE DEF byte1, byte2, byte3, byte4
  <1>8. (byte1 + 256 * byte2) % 256 = byte1 /\ (byte3 + 256 * byte4) % 256 = byte3
    <2>1. (byte1 + 256 * byte2) % 256 = byte1
      BY <1>4, MaskedHalf
    <2>2. (byte3 + 256 * byte4) % 256 = byte3
      BY <1>4, MaskedHalf
    <2>. QED BY <2>1, <2>2
  <1>9. /\ byte1 + 256 * 0 = byte1 /\ byte3 + 256 * 0 = byte3 /\ 0 + 256 * 0 = 0
    BY <1>4
  <1>10. Aligned(i) = CASE Owned(i) = 4 -> WordAt(p)
        [] Owned(i) = 3 -> <<WordAt(p)[1] % 256, WordAt(p)[2]>>
        [] Owned(i) = 2 -> <<0, WordAt(p)[2]>>
        [] Owned(i) = 1 -> <<0, WordAt(p)[2] % 256>>
    BY DEF Aligned
  <1>11. HalfAligned(i) = CASE Owned(i) = 4 -> <<HalfWordAt(p + 2), HalfWordAt(p)>>
        [] Owned(i) = 3 -> <<byte3, HalfWordAt(p)>>
        [] Owned(i) = 2 -> <<0, HalfWordAt(p)>>
        [] Owned(i) = 1 -> <<0, byte1>>
    BY DEF HalfAligned, byte1, byte3
  <1> HIDE DEF p
  <1>12. CASE Owned(i) = 4
    BY <1>12, <1>5, <1>6, <1>7, <1>10, <1>11 DEF Bytewise
  <1>13. CASE Owned(i) = 3
    BY <1>13, <1>5, <1>6, <1>7, <1>8, <1>9, <1>10, <1>11 DEF Bytewise
  <1>14. CASE Owned(i) = 2
    BY <1>14, <1>5, <1>6, <1>7, <1>8, <1>9, <1>10, <1>11 DEF Bytewise
  <1>15. CASE Owned(i) = 1
    BY <1>15, <1>5, <1>6, <1>7, <1>8, <1>9, <1>10, <1>11 DEF Bytewise
  <1>. QED BY <1>1, <1>12, <1>13, <1>14, <1>15

(* hashlittle's words are those of the key alone, at any address and       *)
(* before any bytes.                                                       *)
LEMMA LittleWordsPadded ==
  ASSUME key \in Keys, follows \in Follows
  PROVE  LittleWords = Padded(key)
  <1>1. ASSUME NEW i \in 1 .. Words PROVE LittleWords[i] = Padded(key)[i]
    <2>1. Aligned(i) = Padded(key)[i] /\ HalfAligned(i) = Padded(key)[i] /\ Bytewise(i) = Padded(key)[i]
      BY PaddedWord, WordReadAligned
    <2>2. LittleWords[i] = CASE address % 4 = 0 -> Aligned(i)
                             [] address % 4 = 2 -> HalfAligned(i)
                             [] OTHER           -> Bytewise(i)
      BY DEF LittleWords
    <2>. QED BY <2>1, <2>2
  <1>2. LittleWords = [i \in 1 .. Words |-> LittleWords[i]]
    BY DEF LittleWords
  <1>3. Padded(key) = [i \in 1 .. Words |-> Padded(key)[i]]
    BY DEF Padded, Words
  <1>. QED BY <1>1, <1>2, <1>3

(* hashword's too, of a key of whole words.                                *)
LEMMA KeyWordsPadded ==
  ASSUME key \in Keys, follows \in Follows, Len(key) % 4 = 0
  PROVE  KeyWords = Padded(key) /\ 4 * Words = Len(key)
  <1>1. Len(key) \in Nat
    BY MemoryIsBytes
  <1>2. 4 * Words = Len(key)
    BY <1>1 DEF Words
  <1>3. \A i \in 1 .. Words : Owned(i) = 4
    BY <1>1, <1>2, OwnedBytes DEF Owned
  <1>4. \A i \in 1 .. Words : KeyWords[i] = Padded(key)[i]
    BY <1>3, PaddedWord, WordReadAligned DEF KeyWords, Aligned
  <1>5. KeyWords = [i \in 1 .. Words |-> KeyWords[i]]
    BY <1>1, <1>2 DEF KeyWords
  <1>6. Padded(key) = [i \in 1 .. Words |-> Padded(key)[i]]
    BY DEF Padded, Words
  <1>. QED BY <1>2, <1>4, <1>5, <1>6

(* hashbig's words are those of the key with each word's bytes turned      *)
(* round.                                                                  *)
LEMMA BigWordsPadded ==
  ASSUME key \in Keys, follows \in Follows, Len(key) % 4 = 0
  PROVE  BigWords = Padded(SwapBytes(key)) /\ Len(SwapBytes(key)) = Len(key)
  <1>1. Len(key) \in Nat /\ 4 * Words = Len(key)
    BY MemoryIsBytes, KeyWordsPadded
  <1>2. Len(SwapBytes(key)) = Len(key)
    BY <1>1 DEF SwapBytes
  <1>3. ASSUME NEW i \in 1 .. Words
        PROVE  BigWords[i] = Padded(SwapBytes(key))[i]
    <2> DEFINE swapped == SwapBytes(key)
    <2>1. i \in Nat /\ i >= 1 /\ 4 * i <= Len(key)
      BY <1>1 DEF Words
    <2>2. /\ (4 * i - 4) \div 4 = i - 1 /\ (4 * i - 3) \div 4 = i - 1
          /\ (4 * i - 2) \div 4 = i - 1 /\ (4 * i - 1) \div 4 = i - 1
      BY <2>1
    <2>3. /\ (4 * i - 4) % 4 = 0 /\ (4 * i - 3) % 4 = 1
          /\ (4 * i - 2) % 4 = 2 /\ (4 * i - 1) % 4 = 3
      BY <2>1
    <2>4. \A q \in 1 .. Len(key) :
            swapped[q] = key[4 * ((q - 1) \div 4) + 4 - ((q - 1) % 4)]
      BY DEF SwapBytes
    <2>5. /\ swapped[4 * i - 3] = key[4 * (i - 1) + 4] /\ swapped[4 * i - 2] = key[4 * (i - 1) + 3]
          /\ swapped[4 * i - 1] = key[4 * (i - 1) + 2] /\ swapped[4 * i] = key[4 * (i - 1) + 1]
      <3>1. swapped[4 * i - 3] = key[4 * ((4 * i - 3 - 1) \div 4) + 4 - ((4 * i - 3 - 1) % 4)]
        BY <2>1, <2>4, <1>1
      <3>2. swapped[4 * i - 2] = key[4 * ((4 * i - 2 - 1) \div 4) + 4 - ((4 * i - 2 - 1) % 4)]
        BY <2>1, <2>4, <1>1
      <3>3. swapped[4 * i - 1] = key[4 * ((4 * i - 1 - 1) \div 4) + 4 - ((4 * i - 1 - 1) % 4)]
        BY <2>1, <2>4, <1>1
      <3>4. swapped[4 * i] = key[4 * ((4 * i - 1) \div 4) + 4 - ((4 * i - 1) % 4)]
        BY <2>1, <2>4, <1>1
      <3>5. /\ 4 * i - 3 - 1 = 4 * i - 4 /\ 4 * i - 2 - 1 = 4 * i - 3 /\ 4 * i - 1 - 1 = 4 * i - 2
        BY <2>1
      <3>6. /\ 4 * (i - 1) + 4 - 0 = 4 * (i - 1) + 4 /\ 4 * (i - 1) + 4 - 1 = 4 * (i - 1) + 3
            /\ 4 * (i - 1) + 4 - 2 = 4 * (i - 1) + 2 /\ 4 * (i - 1) + 4 - 3 = 4 * (i - 1) + 1
        BY <2>1
      <3> HIDE DEF swapped
      <3>. QED BY <3>1, <3>2, <3>3, <3>4, <3>5, <3>6, <2>2, <2>3
    <2>6. \A b \in 1 .. 4 : OwnByte(i, b) = key[4 * (i - 1) + b]
      <3>1. Owned(i) = 4
        BY <1>1, <2>1 DEF Owned
      <3>2. \A b \in 1 .. 4 : b <= Owned(i)
        BY <3>1
      <3>3. \A b \in 1 .. 4 : ByteAt(4 * (i - 1) + b - 1) = key[4 * (i - 1) + b]
        BY <3>2, OwnedBytes
      <3>. QED BY <3>2, <3>3 DEF OwnByte
    <2>7. Padded(swapped)[i] = <<swapped[4 * i - 1] + 256 * swapped[4 * i],
                                 swapped[4 * i - 3] + 256 * swapped[4 * i - 2]>>
      BY <1>1, <1>2, <2>1 DEF Padded, Words
    <2> HIDE DEF swapped
    <2>8. BigWords[i] = Padded(swapped)[i]
      BY <2>5, <2>6, <2>7 DEF BigWords, BigEndian
    <2>. QED BY <2>8 DEF swapped
  <1>4. BigWords = [i \in 1 .. Words |-> BigWords[i]]
    BY DEF BigWords
  <1>5. Padded(SwapBytes(key)) = [i \in 1 .. Words |-> Padded(SwapBytes(key))[i]]
    BY <1>2 DEF Padded, Words
  <1>. QED BY <1>2, <1>3, <1>4, <1>5

(* Every function keeps what the properties say of its digest.             *)
LEMMA HashInvStep == HashInv /\ [HashNext]_hashVars => HashInv'
  <1> SUFFICES ASSUME HashInv, [HashNext]_hashVars PROVE HashInv'
    OBVIOUS
  <1> USE DEF HashInv, SameIdSameHash, HashesAgree
  <1>1. LittleWords = Padded(key)
    BY LittleWordsPadded
  <1>2. CASE HashLittle
    BY <1>1, <1>2 DEF HashLittle, Digest, Little, Reference
  <1>3. CASE HashLittle2
    BY <1>1, <1>3 DEF HashLittle2, Digest, Little, Reference
  <1>4. CASE HashBig
    BY <1>4, BigWordsPadded DEF HashBig, Digest, Reference
  <1>5. CASE HashWord
    BY <1>5, KeyWordsPadded DEF HashWord, WordKey, Digest, Reference
  <1>6. CASE HashWord2
    BY <1>6, KeyWordsPadded DEF HashWord2, WordKey, Digest, Reference
  <1>7. CASE UNCHANGED hashVars
    BY <1>7 DEF hashVars
  <1>. QED BY <1>2, <1>3, <1>4, <1>5, <1>6, <1>7 DEF HashNext

LEMMA HashInvAlways == HashSpec => []HashInv
  <1>1. HashInit => HashInv
    BY DEF HashInit, HashInv, SameIdSameHash, HashesAgree
  <1>. QED BY <1>1, HashInvStep, PTL DEF HashSpec

(* One id, one hash: hashlittle's digest is that of the key's bytes alone, *)
(* for keys of any length, at any address and whatever follows them.       *)
THEOREM HashedByItsBytes == HashSpec => []SameIdSameHash
  BY HashInvAlways, PTL DEF HashInv

(* hashword, hashlittle2, hashword2 and hashbig agree with hashlittle as   *)
(* their comments have it, for every key and seed.                         *)
THEOREM HashFunctionsAgree == HashSpec => []HashesAgree
  BY HashInvAlways, PTL DEF HashInv
=============================================================================
