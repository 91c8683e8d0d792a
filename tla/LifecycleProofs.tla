--------------------------- MODULE LifecycleProofs ---------------------------
(***************************************************************************)
(* What TLAPS proves of Lifecycle: its type for any number of reasons to   *)
(* end, and, when there is no more than one, that the pointers are good,   *)
(* that an exit leaves no book and that nothing stirs while books are      *)
(* deleted - for any signals, symbols and logons.                          *)
(***************************************************************************)
EXTENDS Lifecycle, TLAPS

MainPlaces == {"boot", "made", "ready", "waiting"}
EnginePlaces == {"unborn", "idle", "making", "applying", "over"}
EndPlaces == {"assert", "stop", "raise", "join", "delete", "exit"}
Places == MainPlaces \cup EnginePlaces \cup EndPlaces

WellPlaced(a) == a \in Activity /\ (a.at # "delete" => a.next \in Symbols)

StacksOK == /\ stack \in [Threads -> Seq(Activity)]
            /\ \A t \in Threads : stack[t] # <<>>
            /\ \A t \in Threads : \A k \in DOMAIN stack[t] : WellPlaced(stack[t][k])

LEMMA TypeHasStacks == TypeOK => StacksOK
  <1> SUFFICES ASSUME TypeOK PROVE StacksOK
    OBVIOUS
  <1>1. \A t \in Threads : \A k \in DOMAIN stack[t] : stack[t][k] \in Activity
    <2> TAKE t \in Threads
    <2>1. stack[t] \in Seq(Activity)
      BY DEF TypeOK
    <2>. QED BY <2>1
  <1>. QED BY <1>1 DEF TypeOK, StacksOK, WellPlaced

LEMMA PlacesAre == \A a \in Activity : a.at \in Places /\ a.next \in 1 .. NumBooks + 1
                                     /\ a.signal \in Signals \cup {"none"}
  BY DEF Activity, Places, MainPlaces, EnginePlaces, EndPlaces

-----------------------------------------------------------------------------
(* Stacks.                                                                 *)
LEMMA LastIs ==
  ASSUME StacksOK, NEW t \in Threads
  PROVE  Doing(t) \in Activity /\ WellPlaced(Doing(t)) /\ Doing(t) = stack[t][Len(stack[t])]
  <1>1. stack[t] \in Seq(Activity) /\ stack[t] # <<>>
    BY DEF StacksOK
  <1>2. Len(stack[t]) \in DOMAIN stack[t]
    BY <1>1
  <1>3. WellPlaced(stack[t][Len(stack[t])])
    BY <1>2 DEF StacksOK
  <1>. QED BY <1>3 DEF Doing, Last, WellPlaced

LEMMA Replaced ==
  ASSUME NEW s \in Seq(Activity), s # <<>>, NEW a \in Activity
  PROVE  /\ Append(Front(s), a) \in Seq(Activity) /\ Append(Front(s), a) # <<>>
         /\ Last(Append(Front(s), a)) = a
         /\ \A k \in DOMAIN Append(Front(s), a) :
              Append(Front(s), a)[k] = a \/ (k \in DOMAIN s /\ Append(Front(s), a)[k] = s[k])
  <1> DEFINE f == Front(s)
             n == Len(s)
  <1>1. n \in Nat \ {0} /\ DOMAIN s = 1 .. n
    BY DEF n
  <1>2. f \in Seq(Activity) /\ Len(f) = n - 1 /\ \A k \in 1 .. n - 1 : f[k] = s[k]
    BY <1>1 DEF Front
  <1> HIDE DEF f, n
  <1>3. Append(f, a) \in Seq(Activity) /\ Len(Append(f, a)) = n
    BY <1>1, <1>2
  <1>4. \A k \in 1 .. n : Append(f, a)[k] = IF k = n THEN a ELSE f[k]
    BY <1>1, <1>2
  <1>5. DOMAIN Append(f, a) = 1 .. n
    BY <1>3
  <1>6. Last(Append(f, a)) = a
    BY <1>1, <1>3, <1>4 DEF Last
  <1>7. Append(f, a) # <<>>
    BY <1>1, <1>3
  <1>. QED BY <1>1, <1>2, <1>3, <1>4, <1>5, <1>6, <1>7 DEF f

LEMMA Pushed ==
  ASSUME NEW s \in Seq(Activity), NEW a \in Activity
  PROVE  /\ Append(s, a) \in Seq(Activity) /\ Append(s, a) # <<>>
         /\ Last(Append(s, a)) = a
         /\ \A k \in DOMAIN Append(s, a) :
              Append(s, a)[k] = a \/ (k \in DOMAIN s /\ Append(s, a)[k] = s[k])
  <1> DEFINE n == Len(s)
  <1>1. n \in Nat /\ DOMAIN s = 1 .. n
    OBVIOUS
  <1>2. Append(s, a) \in Seq(Activity) /\ Len(Append(s, a)) = n + 1
    OBVIOUS
  <1>3. \A k \in 1 .. n + 1 : Append(s, a)[k] = IF k = n + 1 THEN a ELSE s[k]
    BY <1>1
  <1>4. DOMAIN Append(s, a) = 1 .. n + 1
    BY <1>2
  <1>5. Append(s, a) # <<>>
    BY <1>1, <1>2
  <1> HIDE DEF n
  <1>6. Last(Append(s, a)) = a
    BY <1>1, <1>2, <1>3 DEF Last
  <1>. QED BY <1>1, <1>2, <1>3, <1>4, <1>5, <1>6

(* A new stack of one thread, its last activity a.                         *)
NewStack(t, s, a) ==
  /\ stack' = [stack EXCEPT ![t] = s]
  /\ s \in Seq(Activity) /\ s # <<>> /\ Last(s) = a
  /\ \A k \in DOMAIN s : s[k] = a \/ (k \in DOMAIN stack[t] /\ s[k] = stack[t][k])

LEMMA StackChanges ==
  ASSUME StacksOK, NEW t \in Threads, NEW s, NEW a, NewStack(t, s, a), WellPlaced(a)
  PROVE  /\ StacksOK' /\ Doing(t)' = a
         /\ \A u \in Threads : u # t => Doing(u)' = Doing(u)
  <1>1. stack' \in [Threads -> Seq(Activity)]
    BY DEF StacksOK, NewStack
  <1>2. stack'[t] = s /\ \A u \in Threads : u # t => stack'[u] = stack[u]
    BY DEF StacksOK, NewStack
  <1>3. \A k \in DOMAIN s : WellPlaced(s[k])
    BY DEF StacksOK, NewStack
  <1>4. \A u \in Threads : stack'[u] # <<>> /\ \A k \in DOMAIN stack'[u] : WellPlaced(stack'[u][k])
    <2> TAKE u \in Threads
    <2>1. CASE u = t
      BY <1>2, <1>3, <2>1 DEF NewStack
    <2>2. CASE u # t
      BY <1>2, <2>2 DEF StacksOK
    <2>. QED BY <2>1, <2>2
  <1>. QED BY <1>1, <1>2, <1>4 DEF StacksOK, Doing, NewStack

LEMMA BecomesDoes ==
  ASSUME StacksOK, NEW t \in Threads, NEW a, WellPlaced(a), Becomes(t, a)
  PROVE  /\ StacksOK' /\ Doing(t)' = a
         /\ \A u \in Threads : u # t => Doing(u)' = Doing(u)
  <1>1. stack[t] \in Seq(Activity) /\ stack[t] # <<>> /\ a \in Activity
    BY DEF StacksOK, WellPlaced
  <1>2. NewStack(t, Append(Front(stack[t]), a), a)
    BY <1>1, Replaced DEF Becomes, NewStack
  <1>. QED BY <1>2, StackChanges

LEMMA BothFields ==
  ASSUME NEW r \in Activity, NEW p, NEW i
  PROVE  [r EXCEPT !.at = p, !.next = i] = [signal |-> r.signal, at |-> p, next |-> i]
  <1> DEFINE b == [r EXCEPT !.at = p]
  <1>1. r = [signal |-> r.signal, at |-> r.at, next |-> r.next]
    BY DEF Activity
  <1>2. b = [signal |-> r.signal, at |-> p, next |-> r.next]
    BY <1>1
  <1> HIDE DEF b
  <1>3. [b EXCEPT !.next = i] = [signal |-> r.signal, at |-> p, next |-> i]
    BY <1>2
  <1>. QED BY <1>3 DEF b

LEMMA GoesDoes ==
  ASSUME StacksOK, NEW t \in Threads, NEW place \in Places, Goes(t, place)
  PROVE  /\ StacksOK'
         /\ Doing(t)'.at = place /\ Doing(t)'.signal = Doing(t).signal /\ Doing(t)'.next = 1
         /\ \A u \in Threads : u # t => Doing(u)' = Doing(u)
  <1> DEFINE a == [Doing(t) EXCEPT !.at = place, !.next = 1]
  <1>1. Doing(t) \in Activity
    BY LastIs
  <1>2. 1 \in Symbols
    BY LifecycleAssumption DEF Symbols
  <1>3. a \in Activity /\ a.at = place /\ a.next = 1 /\ a.signal = Doing(t).signal
    <2>1. 1 \in 1 .. NumBooks + 1
      BY LifecycleAssumption
    <2>2. a = [signal |-> Doing(t).signal, at |-> place, next |-> 1]
      BY <1>1, BothFields
    <2>3. Doing(t).signal \in Signals \cup {"none"}
      BY <1>1, PlacesAre
    <2> HIDE DEF a
    <2>. QED BY <2>1, <2>2, <2>3 DEF Activity, Places, MainPlaces, EnginePlaces, EndPlaces
  <1>4. WellPlaced(a)
    BY <1>2, <1>3 DEF WellPlaced
  <1>5. Becomes(t, a)
    BY DEF Goes
  <1> HIDE DEF a
  <1>. QED BY <1>3, <1>4, <1>5, BecomesDoes

LEMMA NextDoes ==
  ASSUME StacksOK, NEW t \in Threads, NEW i \in 1 .. NumBooks + 1,
         i \in Symbols \/ Doing(t).at = "delete",
         Becomes(t, [Doing(t) EXCEPT !.next = i])
  PROVE  /\ StacksOK'
         /\ Doing(t)'.at = Doing(t).at /\ Doing(t)'.signal = Doing(t).signal /\ Doing(t)'.next = i
         /\ \A u \in Threads : u # t => Doing(u)' = Doing(u)
  <1> DEFINE a == [Doing(t) EXCEPT !.next = i]
  <1>1. Doing(t) \in Activity
    BY LastIs
  <1>2. a \in Activity /\ a.at = Doing(t).at /\ a.next = i /\ a.signal = Doing(t).signal
    BY <1>1 DEF Activity
  <1>3. WellPlaced(a)
    BY <1>2 DEF WellPlaced
  <1> HIDE DEF a
  <1>4. Becomes(t, a)
    BY DEF a
  <1>. QED BY <1>2, <1>3, <1>4, BecomesDoes

LEMMA MessageDoes ==
  ASSUME StacksOK, NEW t \in Threads, NEW i \in Symbols,
         Becomes(t, [Doing(t) EXCEPT !.at = "applying", !.next = i])
  PROVE  /\ StacksOK'
         /\ Doing(t)'.at = "applying" /\ Doing(t)'.signal = Doing(t).signal /\ Doing(t)'.next = i
         /\ \A u \in Threads : u # t => Doing(u)' = Doing(u)
  <1> DEFINE a == [Doing(t) EXCEPT !.at = "applying", !.next = i]
  <1>1. Doing(t) \in Activity /\ i \in 1 .. NumBooks + 1
    BY LastIs, LifecycleAssumption DEF Symbols
  <1>2. a = [signal |-> Doing(t).signal, at |-> "applying", next |-> i]
    BY <1>1, BothFields
  <1>3. Doing(t).signal \in Signals \cup {"none"}
    BY <1>1, PlacesAre
  <1>4. Becomes(t, a)
    OBVIOUS
  <1> HIDE DEF a
  <1>5. WellPlaced(a)
    BY <1>1, <1>2, <1>3 DEF Activity, WellPlaced
  <1>. QED BY <1>2, <1>4, <1>5, BecomesDoes

LEMMA PushDoes ==
  ASSUME StacksOK, NEW t \in Threads, NEW a, WellPlaced(a),
         stack' = [stack EXCEPT ![t] = Append(stack[t], a)]
  PROVE  /\ StacksOK' /\ Doing(t)' = a
         /\ \A u \in Threads : u # t => Doing(u)' = Doing(u)
  <1>1. stack[t] \in Seq(Activity) /\ a \in Activity
    BY DEF StacksOK, WellPlaced
  <1>2. NewStack(t, Append(stack[t], a), a)
    BY <1>1, Pushed DEF NewStack
  <1>. QED BY <1>2, StackChanges

(* A run of the handler on top.                                            *)
LEMMA SignalDoes ==
  ASSUME StacksOK, NEW t \in Threads, NEW s \in Signals, Signal(t, s)
  PROVE  /\ StacksOK'
         /\ Doing(t)' = Handling(s)
         /\ \A u \in Threads : u # t => Doing(u)' = Doing(u)
  <1>1. Handling(s) \in Activity /\ WellPlaced(Handling(s))
    BY LifecycleAssumption DEF Handling, Activity, WellPlaced, Symbols
  <1>2. stack[t] \in Seq(Activity) /\ stack' = [stack EXCEPT ![t] = Append(stack[t], Handling(s))]
    BY DEF StacksOK, Signal
  <1>3. StacksOK' /\ Doing(t)' = Handling(s) /\ \A u \in Threads : u # t => Doing(u)' = Doing(u)
    BY <1>1, <1>2, PushDoes
  <1>. QED BY <1>3

(* The initiator's thread begins.                                          *)
LEMMA StartDoes ==
  ASSUME StacksOK, Start
  PROVE  StacksOK' /\ Doing("main")' = Work("waiting") /\ Doing("fix")' = Work("idle")
  <1> DEFINE m == Work("waiting")
             f == Work("idle")
  <1>1. /\ m \in Activity /\ f \in Activity /\ WellPlaced(m) /\ WellPlaced(f)
    BY LifecycleAssumption DEF Work, Activity, WellPlaced, Symbols
  <1>2. stack' = [stack EXCEPT !["main"] = <<m>>, !["fix"] = <<f>>]
    BY DEF Start
  <1> HIDE DEF m, f
  <1>3. <<m>> \in Seq(Activity) /\ <<f>> \in Seq(Activity) /\ <<m>> # <<>> /\ <<f>> # <<>>
    BY <1>1
  <1>4. /\ stack' \in [Threads -> Seq(Activity)]
        /\ stack'["main"] = <<m>> /\ stack'["fix"] = <<f>>
    BY <1>2, <1>3 DEF StacksOK, Threads
  <1>5. \A t \in Threads : \A k \in DOMAIN stack'[t] : WellPlaced(stack'[t][k])
    BY <1>1, <1>4 DEF Threads
  <1>6. Last(<<m>>) = m /\ Last(<<f>>) = f
    BY DEF Last
  <1>7. StacksOK'
    BY <1>3, <1>4, <1>5 DEF StacksOK, Threads, WellPlaced
  <1>. QED BY <1>4, <1>6, <1>7 DEF Doing, m, f

-----------------------------------------------------------------------------
(* The type.                                                               *)
RestOK ==
  /\ engine \in {"unmade", "stopped", "running", "ending"}
  /\ app \in {"unmade", "alive", "gone"}
  /\ books \in [Symbols -> 0 .. MaxLogons]
  /\ freed \subseteq Book
  /\ heap \in {"free", "held"}
  /\ logons \in 0 .. MaxLogons
  /\ causes \in 0 .. MaxCauses
  /\ outcome \in {"running", "exited", "aborted", "freed twice", "used when freed", "dangling"}

LEMMA TypeParts == TypeOK <=> StacksOK /\ RestOK
  <1>1. TypeOK => RestOK
    BY DEF TypeOK, RestOK
  <1>2. StacksOK /\ RestOK => TypeOK
    BY DEF TypeOK, StacksOK, RestOK, WellPlaced
  <1>. QED BY <1>1, <1>2, TypeHasStacks

LEMMA TypeInit == Init => TypeOK
  <1> SUFFICES ASSUME Init PROVE StacksOK /\ RestOK
    BY TypeParts
  <1>1. \A t \in Threads : \E a \in Activity : WellPlaced(a) /\ stack[t] = <<a>>
    <2> TAKE t \in Threads
    <2> DEFINE a == Work(IF t = "main" THEN "boot" ELSE "unborn")
    <2>1. a \in Activity /\ WellPlaced(a)
      BY LifecycleAssumption DEF Work, Activity, WellPlaced, Symbols
    <2>2. stack[t] = <<a>>
      BY DEF Init
    <2>. QED BY <2>1, <2>2
  <1>2. \A t \in Threads : stack[t] \in Seq(Activity) /\ stack[t] # <<>>
                        /\ \A k \in DOMAIN stack[t] : WellPlaced(stack[t][k])
    <2> TAKE t \in Threads
    <2>1. PICK a \in Activity : WellPlaced(a) /\ stack[t] = <<a>>
      BY <1>1
    <2>2. <<a>> \in Seq(Activity) /\ <<a>> # <<>> /\ \A k \in DOMAIN <<a>> : <<a>>[k] = a
      OBVIOUS
    <2>. QED BY <2>1, <2>2
  <1>3. stack \in [Threads -> Seq(Activity)]
    BY <1>2 DEF Init
  <1>4. StacksOK
    BY <1>2, <1>3 DEF StacksOK
  <1>5. RestOK
    BY LifecycleAssumption DEF Init, RestOK
  <1>. QED BY <1>4, <1>5

LEMMA TypeStep == TypeOK /\ [Next]_vars => TypeOK'
  <1> SUFFICES ASSUME StacksOK, RestOK, [Next]_vars PROVE StacksOK' /\ RestOK'
    <2>1. StacksOK' /\ RestOK' => TypeOK'
      BY DEF TypeOK, StacksOK, RestOK, WellPlaced
    <2>. QED BY <2>1, TypeParts
  <1> USE DEF At
  <1>0. "main" \in Threads /\ "fix" \in Threads
    BY DEF Threads
  <1>p. /\ {"made", "ready", "stop", "delete", "exit", "raise", "join"} \subseteq Places
        /\ {"making", "idle", "over", "applying"} \subseteq Places
    BY DEF Places, MainPlaces, EnginePlaces, EndPlaces
  <1>n. NumBooks \in Nat \ {0} /\ MaxLogons \in Nat /\ MaxCauses \in Nat
    BY LifecycleAssumption
  <1>d. causes \in 0 .. MaxCauses
    BY DEF RestOK
  <1>c. causes \in Nat
    BY <1>n, <1>d
  <1>w. \A t \in Threads : WellPlaced(Doing(t)) /\ Doing(t).next \in 1 .. NumBooks + 1
    BY LastIs, PlacesAre
  <1>1. CASE GiveUpEarly
    BY <1>1 DEF GiveUpEarly, StacksOK, RestOK, WellPlaced
  <1>2. CASE MakeApplication
    BY <1>0, <1>p, <1>2, GoesDoes DEF MakeApplication, RestOK
  <1>3. CASE MakeInitiator
    BY <1>0, <1>p, <1>3, GoesDoes DEF MakeInitiator, RestOK
  <1>4. CASE GiveUp
    <2>0. causes < MaxCauses /\ causes' = causes + 1
      BY <1>4 DEF GiveUp
    <2>1. causes' \in 0 .. MaxCauses
      BY <1>n, <1>c, <2>0
    <2>2. StacksOK'
      BY <1>0, <1>p, <1>4, GoesDoes DEF GiveUp
    <2>. QED BY <1>4, <2>1, <2>2 DEF GiveUp, RestOK
  <1>5. CASE Start
    BY <1>5, StartDoes DEF Start, RestOK
  <1>6. CASE Quit
    BY <1>0, <1>p, <1>n, <1>6, GoesDoes DEF Quit, RestOK
  <1>7. CASE Logon
    BY <1>0, <1>p, <1>n, <1>7, GoesDoes DEF Logon, RestOK
  <1>8. CASE MakeBook
    <2> DEFINE i == Doing("fix").next
    <2>1. i \in Symbols
      BY <1>0, <1>w, <1>8 DEF MakeBook, WellPlaced
    <2>2. RestOK'
      BY <1>8, <2>1 DEF MakeBook, RestOK
    <2>3. CASE i = NumBooks
      BY <1>0, <1>p, <1>8, <2>2, <2>3, GoesDoes DEF MakeBook
    <2>4. CASE i # NumBooks
      <3>1. i + 1 \in 1 .. NumBooks + 1 /\ i + 1 \in Symbols
        BY <1>n, <2>1, <2>4 DEF Symbols
      <3>2. Becomes("fix", [Doing("fix") EXCEPT !.next = i + 1])
        BY <1>8, <2>4 DEF MakeBook
      <3>. QED BY <1>0, <2>2, <3>1, <3>2, NextDoes
    <2>. QED BY <2>3, <2>4
  <1>9. CASE Message
    <2>1. PICK i \in Symbols : Becomes("fix", [Doing("fix") EXCEPT !.at = "applying", !.next = i])
      BY <1>9 DEF Message
    <2>2. StacksOK'
      BY <1>0, <2>1, MessageDoes
    <2>. QED BY <1>9, <2>2 DEF Message, RestOK
  <1>10. CASE Apply
    BY <1>0, <1>p, <1>10, GoesDoes DEF Apply, RestOK
  <1>11. CASE ThreadEnds
    BY <1>0, <1>p, <1>11, GoesDoes DEF ThreadEnds, RestOK
  <1>12. ASSUME NEW t \in Threads, NEW s \in Signals, Signal(t, s) PROVE StacksOK' /\ RestOK'
    <2>1. causes' \in 0 .. MaxCauses
      BY <1>n, <1>12 DEF Signal, RestOK
    <2>2. StacksOK'
      BY <1>12, SignalDoes
    <2>. QED BY <1>12, <2>1, <2>2 DEF Signal, RestOK
  <1>13. ASSUME NEW t \in Threads, Asserts(t) PROVE StacksOK' /\ RestOK'
    <2>1. StacksOK'
      BY <1>p, <1>13, GoesDoes DEF Asserts, StacksOK, WellPlaced
    <2>. QED BY <1>13, <2>1 DEF Asserts, RestOK
  <1>14. ASSUME NEW t \in Threads, Stop(t) PROVE StacksOK' /\ RestOK'
    BY <1>p, <1>14, GoesDoes DEF Stop, RestOK
  <1>15. ASSUME NEW t \in Threads, Raise(t) PROVE StacksOK' /\ RestOK'
    BY <1>p, <1>15, GoesDoes DEF Raise, RestOK
  <1>16. ASSUME NEW t \in Threads, Join(t) PROVE StacksOK' /\ RestOK'
    BY <1>p, <1>16, GoesDoes DEF Join, RestOK
  <1>17. ASSUME NEW t \in Threads, DeleteBook(t) PROVE StacksOK' /\ RestOK'
    <2> DEFINE i == Doing(t).next
    <2>1. i \in Symbols /\ i + 1 \in 1 .. NumBooks + 1
      <3>1. i <= NumBooks
        BY <1>17 DEF DeleteBook, LastBook
      <3>2. i \in 1 .. NumBooks + 1
        BY <1>w
      <3>. QED BY <1>n, <3>1, <3>2 DEF Symbols
    <2>2. StacksOK'
      BY <1>17, <2>1, NextDoes DEF DeleteBook
    <2>3. books[i] # 0 => <<i, books[i]>> \in Book
      <3>1. books[i] \in 0 .. MaxLogons
        BY <2>1 DEF RestOK
      <3>2. books[i] # 0 => books[i] \in 1 .. MaxLogons
        BY <1>n, <3>1
      <3> HIDE DEF i
      <3>. QED BY <2>1, <3>2 DEF Book
    <2>4. freed' \subseteq Book
      BY <1>17, <2>3 DEF DeleteBook, RestOK
    <2>. QED BY <1>17, <2>2, <2>4 DEF DeleteBook, RestOK
  <1>18. ASSUME NEW t \in Threads, Deleted(t) PROVE StacksOK' /\ RestOK'
    BY <1>p, <1>18, GoesDoes DEF Deleted, RestOK
  <1>19. ASSUME NEW t \in Threads, Exit(t) PROVE StacksOK' /\ RestOK'
    BY <1>19 DEF Exit, StacksOK, RestOK, WellPlaced
  <1>20. CASE UNCHANGED vars
    BY <1>20 DEF vars, StacksOK, RestOK, WellPlaced
  <1>. QED BY <1>1, <1>2, <1>3, <1>4, <1>5, <1>6, <1>7, <1>8, <1>9, <1>10, <1>11, <1>12, <1>13,
              <1>14, <1>15, <1>16, <1>17, <1>18, <1>19, <1>20
           DEF Next, Starting, Callback, Ending

(* Every variable keeps its type, for any number of reasons to end.        *)
THEOREM LifecycleTypeCorrect == Spec => []TypeOK
  BY TypeInit, TypeStep, PTL DEF Spec

-----------------------------------------------------------------------------
(* One reason to end.  At most one thread is ending, and it is known how   *)
(* far: the engine is stopped before a book is deleted, and the books      *)
(* deleted are those before the next.                                      *)
Ends(t) == Doing(t).at \in EndPlaces

OneEnds ==
  /\ Doing("main").at \in MainPlaces \cup EndPlaces
  /\ Doing("fix").at \in EnginePlaces \cup EndPlaces
  /\ \A t \in Threads : Ends(t) => causes = 1
  /\ ~(Ends("main") /\ Ends("fix"))
  /\ Ends("fix") => Doing("fix").signal # "none"
  /\ app = "gone" => Doing("main").at = "exit"

Stages ==
  /\ Doing("main").at \in {"boot", "made"} => engine = "unmade"
  /\ Doing("main").at = "ready" => engine = "stopped"
  /\ Doing("fix").at = "unborn" <=> engine \in {"unmade", "stopped"}
  /\ \A t \in Threads : Doing(t).at = "raise" => engine = "running"
  /\ engine = "ending" => \E t \in Threads : Doing(t).at \in {"join", "delete", "exit"}

DeletedBefore(n) == {<<i, books[i]>> : i \in {j \in Symbols : j < n /\ books[j] # 0}}

BooksDeleted ==
  /\ Doing("main").at \in {"delete", "exit"} => Doing("fix").at \in {"unborn", "over"}
  /\ Doing("fix").at = "unborn" => \A i \in Symbols : books[i] = 0
  /\ \A t \in Threads : Doing(t).at = "delete" => freed = DeletedBefore(Doing(t).next)
  /\ \A t \in Threads : Doing(t).at = "exit" => freed = DeletedBefore(NumBooks + 1)
  /\ (\A t \in Threads : Doing(t).at \notin {"delete", "exit"}) => freed = {}

GoodOutcome ==
  /\ outcome \in {"running", "exited", "aborted"}
  /\ ExitDeletesBooks

OneInv == OneEnds /\ Stages /\ BooksDeleted /\ GoodOutcome

LEMMA Advance ==
  ASSUME NEW i \in Symbols
  PROVE  /\ books[i] = 0 => DeletedBefore(i + 1) = DeletedBefore(i)
         /\ books[i] # 0 => DeletedBefore(i + 1) = DeletedBefore(i) \cup {<<i, books[i]>>}
         /\ <<i, books[i]>> \notin DeletedBefore(i)
  <1>1. i \in Nat /\ \A j \in Symbols : j \in Nat /\ (j < i + 1 <=> j < i \/ j = i)
    BY LifecycleAssumption DEF Symbols
  <1>2. <<i, books[i]>> \notin DeletedBefore(i)
    BY <1>1 DEF DeletedBefore
  <1>3. books[i] = 0 => DeletedBefore(i + 1) = DeletedBefore(i)
    BY <1>1 DEF DeletedBefore
  <1>4. books[i] # 0 => DeletedBefore(i + 1) = DeletedBefore(i) \cup {<<i, books[i]>>}
    BY <1>1 DEF DeletedBefore
  <1>. QED BY <1>2, <1>3, <1>4

LEMMA NoneBefore == DeletedBefore(1) = {}
  BY LifecycleAssumption DEF DeletedBefore, Symbols

LEMMA AllBefore ==
  ASSUME freed = DeletedBefore(NumBooks + 1), NEW i \in Symbols
  PROVE  books[i] = 0 \/ <<i, books[i]>> \in freed
  BY LifecycleAssumption DEF DeletedBefore, Symbols

(* Past the last book, next is one more than there are.                    *)
LEMMA LastNext ==
  ASSUME StacksOK, NEW t \in Threads, Doing(t).next > NumBooks
  PROVE  Doing(t).next = NumBooks + 1
  <1>1. Doing(t).next \in 1 .. NumBooks + 1
    BY LastIs, PlacesAre
  <1>. QED BY <1>1, LifecycleAssumption

LEMMA OneInit == Init => OneInv
  <1> SUFFICES ASSUME Init PROVE OneInv
    OBVIOUS
  <1>1. Doing("main") = Work("boot") /\ Doing("fix") = Work("unborn")
    BY DEF Init, Doing, Last, Threads
  <1>2. OneEnds
    BY <1>1 DEF OneEnds, Ends, MainPlaces, EnginePlaces, EndPlaces, Threads, Work, Init
  <1>3. Stages
    BY <1>1 DEF Stages, Threads, Work, Init
  <1>4. BooksDeleted
    BY <1>1 DEF BooksDeleted, Threads, Work, Init
  <1>5. GoodOutcome
    BY DEF GoodOutcome, ExitDeletesBooks, Init
  <1>. QED BY <1>2, <1>3, <1>4, <1>5 DEF OneInv

LEMMA FirstCause ==
  ASSUME RestOK, MaxCauses <= 1, causes < MaxCauses
  PROVE  causes = 0
  <1>1. causes \in 0 .. MaxCauses
    BY DEF RestOK
  <1>. QED BY <1>1, LifecycleAssumption

(* Main alone moves, before the engine has a thread.                       *)
LEMMA OneMakeApplication ==
  ASSUME StacksOK, RestOK, OneInv, MakeApplication
  PROVE  OneInv'
  <1> USE DEF OneInv, At
  <1>0. "main" \in Threads /\ "fix" \in Threads
    BY DEF Threads
  <1>p. {"made"} \subseteq Places
    BY DEF Places, MainPlaces, EnginePlaces, EndPlaces
  <1>1. /\ Doing("main").at = "boot" /\ Goes("main", "made") /\ app' = "alive"
        /\ UNCHANGED <<engine, books, freed, causes, outcome>> /\ outcome = "running"
    BY DEF MakeApplication
  <1>2. Doing("main")'.at = "made" /\ Doing("fix")' = Doing("fix")
    BY <1>0, <1>p, <1>1, GoesDoes
  <1>3. OneEnds'
    BY <1>1, <1>2 DEF OneEnds, Ends, MainPlaces, EnginePlaces, EndPlaces, Threads
  <1>4. Stages'
    BY <1>1, <1>2 DEF OneEnds, Ends, Stages, MainPlaces, EnginePlaces, EndPlaces, Threads
  <1>5. BooksDeleted'
    BY <1>1, <1>2 DEF OneEnds, Ends, Stages, BooksDeleted, DeletedBefore, MainPlaces, EnginePlaces, EndPlaces, Threads
  <1>6. GoodOutcome'
    BY <1>1, <1>2 DEF GoodOutcome, ExitDeletesBooks
  <1>. QED BY <1>3, <1>4, <1>5, <1>6

LEMMA OneMakeInitiator ==
  ASSUME StacksOK, RestOK, OneInv, MakeInitiator
  PROVE  OneInv'
  <1> USE DEF OneInv, At
  <1>0. "main" \in Threads /\ "fix" \in Threads
    BY DEF Threads
  <1>p. {"ready"} \subseteq Places
    BY DEF Places, MainPlaces, EnginePlaces, EndPlaces
  <1>1. /\ Doing("main").at = "made" /\ Goes("main", "ready") /\ engine' = "stopped"
        /\ UNCHANGED <<app, books, freed, causes, outcome>> /\ outcome = "running"
    BY DEF MakeInitiator
  <1>2. Doing("main")'.at = "ready" /\ Doing("fix")' = Doing("fix")
    BY <1>0, <1>p, <1>1, GoesDoes
  <1>3. OneEnds'
    BY <1>1, <1>2 DEF OneEnds, Ends, MainPlaces, EnginePlaces, EndPlaces, Threads
  <1>4. Stages'
    BY <1>1, <1>2 DEF OneEnds, Ends, Stages, MainPlaces, EnginePlaces, EndPlaces, Threads
  <1>5. BooksDeleted'
    BY <1>1, <1>2 DEF OneEnds, Ends, Stages, BooksDeleted, DeletedBefore, MainPlaces, EnginePlaces, EndPlaces, Threads
  <1>6. GoodOutcome'
    BY <1>1, <1>2 DEF GoodOutcome, ExitDeletesBooks
  <1>. QED BY <1>3, <1>4, <1>5, <1>6

LEMMA OneStart ==
  ASSUME StacksOK, RestOK, OneInv, Start
  PROVE  OneInv'
  <1> USE DEF OneInv, At
  <1>0. "main" \in Threads /\ "fix" \in Threads
    BY DEF Threads
  <1>p. {"ready"} \subseteq Places
    BY DEF Places, MainPlaces, EnginePlaces, EndPlaces
  <1>1. /\ Doing("main").at = "ready" /\ Start /\ engine' = "running"
        /\ UNCHANGED <<app, books, freed, causes, outcome>> /\ outcome = "running"
    BY DEF Start
  <1>2. Doing("main")' = Work("waiting") /\ Doing("fix")' = Work("idle")
        /\ Work("waiting").at = "waiting" /\ Work("idle").at = "idle"
    BY <1>0, <1>p, <1>1, StartDoes DEF Work
  <1>3. OneEnds'
    BY <1>1, <1>2 DEF OneEnds, Ends, MainPlaces, EnginePlaces, EndPlaces, Threads
  <1>4. Stages'
    BY <1>1, <1>2 DEF OneEnds, Ends, Stages, MainPlaces, EnginePlaces, EndPlaces, Threads
  <1>5. BooksDeleted'
    BY <1>1, <1>2 DEF OneEnds, Ends, Stages, BooksDeleted, DeletedBefore, MainPlaces, EnginePlaces, EndPlaces, Threads
  <1>6. GoodOutcome'
    BY <1>1, <1>2 DEF GoodOutcome, ExitDeletesBooks
  <1>. QED BY <1>3, <1>4, <1>5, <1>6

(* Main has a reason to end.                                               *)
LEMMA OneGiveUp ==
  ASSUME StacksOK, RestOK, OneInv, MaxCauses <= 1, GiveUp
  PROVE  OneInv'
  <1> USE DEF OneInv, At
  <1>0. "main" \in Threads /\ "fix" \in Threads
    BY DEF Threads
  <1>p. {"delete"} \subseteq Places
    BY DEF Places, MainPlaces, EnginePlaces, EndPlaces
  <1>1. /\ Doing("main").at \in {"made", "ready"} /\ Goes("main", "delete")
        /\ causes < MaxCauses /\ causes' = causes + 1
        /\ UNCHANGED <<engine, app, books, freed, outcome>> /\ outcome = "running"
    BY DEF GiveUp
  <1>2. Doing("main")'.at = "delete" /\ Doing("main")'.next = 1 /\ Doing("fix")' = Doing("fix")
    BY <1>0, <1>p, <1>1, GoesDoes
  <1>c. causes = 0 /\ causes' = 1
    BY <1>1, FirstCause
  <1>3. OneEnds'
    BY <1>1, <1>2, <1>c DEF OneEnds, Ends, MainPlaces, EnginePlaces, EndPlaces, Threads
  <1>4. Stages'
    BY <1>1, <1>2, <1>c DEF OneEnds, Ends, Stages, MainPlaces, EnginePlaces, EndPlaces, Threads
  <1>5. BooksDeleted'
    BY <1>1, <1>2, <1>c DEF OneEnds, Ends, Stages, BooksDeleted, DeletedBefore, MainPlaces, EnginePlaces, EndPlaces, Threads
  <1>6. GoodOutcome'
    BY <1>1, <1>2, <1>c DEF GoodOutcome, ExitDeletesBooks
  <1>. QED BY <1>3, <1>4, <1>5, <1>6

LEMMA OneQuit ==
  ASSUME StacksOK, RestOK, OneInv, MaxCauses <= 1, Quit
  PROVE  OneInv'
  <1> USE DEF OneInv, At
  <1>0. "main" \in Threads /\ "fix" \in Threads
    BY DEF Threads
  <1>p. {"stop"} \subseteq Places
    BY DEF Places, MainPlaces, EnginePlaces, EndPlaces
  <1>1. /\ Doing("main").at = "waiting" /\ Goes("main", "stop")
        /\ causes < MaxCauses /\ causes' = causes + 1
        /\ UNCHANGED <<engine, app, books, freed, outcome>> /\ outcome = "running"
    BY DEF Quit
  <1>2. Doing("main")'.at = "stop" /\ Doing("fix")' = Doing("fix")
    BY <1>0, <1>p, <1>1, GoesDoes
  <1>c. causes = 0 /\ causes' = 1
    BY <1>1, FirstCause
  <1>3. OneEnds'
    BY <1>1, <1>2, <1>c DEF OneEnds, Ends, MainPlaces, EnginePlaces, EndPlaces, Threads
  <1>4. Stages'
    BY <1>1, <1>2, <1>c DEF OneEnds, Ends, Stages, MainPlaces, EnginePlaces, EndPlaces, Threads
  <1>5. BooksDeleted'
    BY <1>1, <1>2, <1>c DEF OneEnds, Ends, Stages, BooksDeleted, DeletedBefore, MainPlaces, EnginePlaces, EndPlaces, Threads
  <1>6. GoodOutcome'
    BY <1>1, <1>2, <1>c DEF GoodOutcome, ExitDeletesBooks
  <1>. QED BY <1>3, <1>4, <1>5, <1>6

(* The engine's thread, in a callback: no book has been deleted.           *)
LEMMA OneLogon ==
  ASSUME StacksOK, RestOK, OneInv, Logon
  PROVE  OneInv'
  <1> USE DEF OneInv, At
  <1>0. "main" \in Threads /\ "fix" \in Threads
    BY DEF Threads
  <1>p. {"making"} \subseteq Places
    BY DEF Places, MainPlaces, EnginePlaces, EndPlaces
  <1>1. /\ Doing("fix").at = "idle" /\ engine = "running" /\ Goes("fix", "making")
        /\ UNCHANGED <<engine, app, books, freed, causes, outcome>> /\ outcome = "running"
    BY DEF Logon
  <1>2. Doing("fix")'.at = "making" /\ Doing("main")' = Doing("main")
    BY <1>0, <1>p, <1>1, GoesDoes
  <1>3. OneEnds'
    BY <1>1, <1>2 DEF OneEnds, Ends, MainPlaces, EnginePlaces, EndPlaces, Threads
  <1>4. Stages'
    BY <1>1, <1>2 DEF OneEnds, Ends, Stages, MainPlaces, EnginePlaces, EndPlaces, Threads
  <1>5. BooksDeleted'
    BY <1>1, <1>2 DEF OneEnds, Ends, Stages, BooksDeleted, DeletedBefore, MainPlaces, EnginePlaces, EndPlaces, Threads
  <1>6. GoodOutcome'
    BY <1>1, <1>2 DEF GoodOutcome, ExitDeletesBooks
  <1>. QED BY <1>3, <1>4, <1>5, <1>6

LEMMA OneThreadEnds ==
  ASSUME StacksOK, RestOK, OneInv, ThreadEnds
  PROVE  OneInv'
  <1> USE DEF OneInv, At
  <1>0. "main" \in Threads /\ "fix" \in Threads
    BY DEF Threads
  <1>p. {"over"} \subseteq Places
    BY DEF Places, MainPlaces, EnginePlaces, EndPlaces
  <1>1. /\ Doing("fix").at = "idle" /\ engine = "ending" /\ Goes("fix", "over")
        /\ UNCHANGED <<engine, app, books, freed, causes, outcome>> /\ outcome = "running"
    BY DEF ThreadEnds
  <1>2. Doing("fix")'.at = "over" /\ Doing("main")' = Doing("main")
    BY <1>0, <1>p, <1>1, GoesDoes
  <1>3. OneEnds'
    BY <1>1, <1>2 DEF OneEnds, Ends, MainPlaces, EnginePlaces, EndPlaces, Threads
  <1>4. Stages'
    BY <1>1, <1>2 DEF OneEnds, Ends, Stages, MainPlaces, EnginePlaces, EndPlaces, Threads
  <1>5. BooksDeleted'
    BY <1>1, <1>2 DEF OneEnds, Ends, Stages, BooksDeleted, DeletedBefore, MainPlaces, EnginePlaces, EndPlaces, Threads
  <1>6. GoodOutcome'
    BY <1>1, <1>2 DEF GoodOutcome, ExitDeletesBooks
  <1>. QED BY <1>3, <1>4, <1>5, <1>6

LEMMA OneApply ==
  ASSUME StacksOK, RestOK, OneInv, Apply
  PROVE  OneInv'
  <1> USE DEF OneInv, At
  <1>0. "main" \in Threads /\ "fix" \in Threads
    BY DEF Threads
  <1>p. {"idle"} \subseteq Places
    BY DEF Places, MainPlaces, EnginePlaces, EndPlaces
  <1>1. /\ Doing("fix").at = "applying" /\ Goes("fix", "idle")
        /\ UNCHANGED <<engine, app, books, freed, causes>> /\ outcome = "running"
        /\ freed = {} => outcome' = outcome
    BY DEF Apply
  <1>2. Doing("fix")'.at = "idle" /\ Doing("main")' = Doing("main")
    BY <1>0, <1>p, <1>1, GoesDoes
  <1>f. freed = {}
    BY <1>1 DEF BooksDeleted, Threads
  <1>3. OneEnds'
    BY <1>1, <1>2 DEF OneEnds, Ends, MainPlaces, EnginePlaces, EndPlaces, Threads
  <1>4. Stages'
    BY <1>1, <1>2 DEF OneEnds, Ends, Stages, MainPlaces, EnginePlaces, EndPlaces, Threads
  <1>5. BooksDeleted'
    BY <1>1, <1>2 DEF OneEnds, Ends, Stages, BooksDeleted, DeletedBefore, MainPlaces, EnginePlaces, EndPlaces, Threads
  <1>6. GoodOutcome'
    BY <1>1, <1>2, <1>f DEF GoodOutcome, ExitDeletesBooks
  <1>. QED BY <1>3, <1>4, <1>5, <1>6

LEMMA OneMessage ==
  ASSUME StacksOK, RestOK, OneInv, Message
  PROVE  OneInv'
  <1> USE DEF OneInv, At
  <1>0. "main" \in Threads /\ "fix" \in Threads
    BY DEF Threads
  <1>p. {"applying"} \subseteq Places
    BY DEF Places, MainPlaces, EnginePlaces, EndPlaces
  <1>1. /\ Doing("fix").at = "idle" /\ engine = "running"
        /\ \E i \in Symbols : Becomes("fix", [Doing("fix") EXCEPT !.at = "applying", !.next = i])
        /\ UNCHANGED <<engine, app, books, freed, causes, outcome>> /\ outcome = "running"
    BY DEF Message
  <1>2. Doing("fix")'.at = "applying" /\ Doing("main")' = Doing("main")
    BY <1>0, <1>p, <1>1, MessageDoes
  <1>3. OneEnds'
    BY <1>1, <1>2 DEF OneEnds, Ends, MainPlaces, EnginePlaces, EndPlaces, Threads
  <1>4. Stages'
    BY <1>1, <1>2 DEF OneEnds, Ends, Stages, MainPlaces, EnginePlaces, EndPlaces, Threads
  <1>5. BooksDeleted'
    BY <1>1, <1>2 DEF OneEnds, Ends, Stages, BooksDeleted, DeletedBefore, MainPlaces, EnginePlaces, EndPlaces, Threads
  <1>6. GoodOutcome'
    BY <1>1, <1>2 DEF GoodOutcome, ExitDeletesBooks
  <1>. QED BY <1>3, <1>4, <1>5, <1>6

(* A signal begins the end.                                                *)
LEMMA OneSignal ==
  ASSUME StacksOK, RestOK, OneInv, MaxCauses <= 1, NEW t \in Threads, NEW s \in Signals, Signal(t, s)
  PROVE  OneInv'
  <1> USE DEF OneInv, At
  <1>0. "main" \in Threads /\ "fix" \in Threads
    BY DEF Threads
  <1>p. {"assert"} \subseteq Places
    BY DEF Places, MainPlaces, EnginePlaces, EndPlaces
  <1>1. /\ Signal(t, s) /\ Doing(t).at \notin {"unborn", "over"}
        /\ causes < MaxCauses /\ causes' = causes + 1
        /\ UNCHANGED <<engine, app, books, freed, outcome>> /\ outcome = "running"
    BY DEF Signal
  <1>2. /\ Doing(t)'.at = "assert" /\ Doing(t)'.signal # "none"
        /\ \A u \in Threads : u # t => Doing(u)' = Doing(u)
    BY <1>0, <1>p, <1>1, SignalDoes, LifecycleAssumption DEF Handling
  <1>c. causes = 0 /\ causes' = 1
    BY <1>1, FirstCause
  <1>3. OneEnds'
    BY <1>1, <1>2, <1>c DEF OneEnds, Ends, MainPlaces, EnginePlaces, EndPlaces, Threads
  <1>4. Stages'
    BY <1>1, <1>2, <1>c DEF OneEnds, Ends, Stages, MainPlaces, EnginePlaces, EndPlaces, Threads
  <1>5. BooksDeleted'
    BY <1>1, <1>2, <1>c DEF OneEnds, Ends, Stages, BooksDeleted, DeletedBefore, MainPlaces, EnginePlaces, EndPlaces, Threads
  <1>6. GoodOutcome'
    BY <1>1, <1>2, <1>c DEF GoodOutcome, ExitDeletesBooks
  <1>. QED BY <1>3, <1>4, <1>5, <1>6

(* A thread that ends, step by step.                                       *)
LEMMA OneStop ==
  ASSUME StacksOK, RestOK, OneInv, NEW t \in Threads, Stop(t)
  PROVE  OneInv'
  <1> USE DEF OneInv, At
  <1>p. {"raise", "delete"} \subseteq Places
    BY DEF Places, MainPlaces, EnginePlaces, EndPlaces
  <1>1. /\ Doing(t).at = "stop" /\ UNCHANGED <<engine, app, books, freed, causes, outcome>>
        /\ outcome = "running" /\ engine \in {"unmade", "stopped", "running", "ending"}
    BY DEF Stop, RestOK
  <1>f. freed = {}
    BY <1>1 DEF OneEnds, Ends, BooksDeleted, EndPlaces, Threads
  <1>2. CASE engine = "running"
    <2>1. Goes(t, "raise")
      BY <1>2 DEF Stop
    <2>2. /\ Doing(t)'.at = "raise" /\ Doing(t)'.signal = Doing(t).signal
          /\ \A u \in Threads : u # t => Doing(u)' = Doing(u)
      BY <1>p, <2>1, GoesDoes
    <2>3. OneEnds'
      BY <1>1, <2>2 DEF OneEnds, Ends, MainPlaces, EnginePlaces, EndPlaces, Threads
    <2>4. Stages'
      BY <1>1, <1>2, <2>2 DEF OneEnds, Ends, Stages, MainPlaces, EnginePlaces, EndPlaces, Threads
    <2>5. BooksDeleted'
      BY <1>1, <1>f, <2>2 DEF OneEnds, Ends, Stages, BooksDeleted, MainPlaces, EnginePlaces, EndPlaces, Threads
    <2>6. GoodOutcome'
      BY <1>1 DEF GoodOutcome, ExitDeletesBooks
    <2>. QED BY <2>3, <2>4, <2>5, <2>6
  <1>3. CASE engine # "running"
    <2>1. Goes(t, "delete")
      BY <1>3 DEF Stop
    <2>2. /\ Doing(t)'.at = "delete" /\ Doing(t)'.signal = Doing(t).signal /\ Doing(t)'.next = 1
          /\ \A u \in Threads : u # t => Doing(u)' = Doing(u)
      BY <1>p, <2>1, GoesDoes
    <2>a. engine # "ending"
      BY <1>1 DEF OneEnds, Ends, Stages, MainPlaces, EnginePlaces, EndPlaces, Threads
    <2>b. t = "main" /\ Doing("fix").at = "unborn"
      BY <1>1, <1>3, <2>a DEF Stages, Threads
    <2>3. OneEnds'
      BY <1>1, <2>2 DEF OneEnds, Ends, MainPlaces, EnginePlaces, EndPlaces, Threads
    <2>4. Stages'
      BY <1>1, <1>3, <2>2 DEF OneEnds, Ends, Stages, MainPlaces, EnginePlaces, EndPlaces, Threads
    <2>5. DeletedBefore(1)' = {}
      BY <1>1, NoneBefore DEF DeletedBefore
    <2>6. BooksDeleted'
      BY <1>1, <1>f, <2>2, <2>b, <2>5 DEF BooksDeleted, Threads
    <2>7. GoodOutcome'
      BY <1>1 DEF GoodOutcome, ExitDeletesBooks
    <2>. QED BY <2>3, <2>4, <2>6, <2>7
  <1>. QED BY <1>2, <1>3

LEMMA OneRaise ==
  ASSUME StacksOK, RestOK, OneInv, NEW t \in Threads, Raise(t)
  PROVE  OneInv'
  <1> USE DEF OneInv, At
  <1>0. "main" \in Threads /\ "fix" \in Threads
    BY DEF Threads
  <1>p. {"join"} \subseteq Places
    BY DEF Places, MainPlaces, EnginePlaces, EndPlaces
  <1>1. /\ Doing(t).at = "raise" /\ Goes(t, "join") /\ engine' = "ending"
        /\ UNCHANGED <<app, books, freed, causes, outcome>> /\ outcome = "running"
    BY DEF Raise
  <1>2. /\ Doing(t)'.at = "join" /\ Doing(t)'.signal = Doing(t).signal /\ Doing(t)'.next = 1
        /\ \A u \in Threads : u # t => Doing(u)' = Doing(u)
    BY <1>0, <1>p, <1>1, GoesDoes
  <1>3. OneEnds'
    BY <1>1, <1>2 DEF OneEnds, Ends, MainPlaces, EnginePlaces, EndPlaces, Threads
  <1>4. Stages'
    BY <1>1, <1>2 DEF OneEnds, Ends, Stages, MainPlaces, EnginePlaces, EndPlaces, Threads
  <1>5. BooksDeleted'
    BY <1>1, <1>2 DEF OneEnds, Ends, Stages, BooksDeleted, DeletedBefore, MainPlaces, EnginePlaces, EndPlaces, Threads
  <1>6. GoodOutcome'
    BY <1>1, <1>2 DEF GoodOutcome, ExitDeletesBooks
  <1>. QED BY <1>3, <1>4, <1>5, <1>6

LEMMA OneJoin ==
  ASSUME StacksOK, RestOK, OneInv, NEW t \in Threads, Join(t)
  PROVE  OneInv'
  <1> USE DEF OneInv, At
  <1>0. "main" \in Threads /\ "fix" \in Threads
    BY DEF Threads
  <1>p. {"delete"} \subseteq Places
    BY DEF Places, MainPlaces, EnginePlaces, EndPlaces
  <1>1. /\ Doing(t).at = "join" /\ Goes(t, "delete") /\ (t = "fix" \/ Doing("fix").at = "over")
        /\ UNCHANGED <<engine, app, books, freed, causes, outcome>> /\ outcome = "running"
    BY DEF Join
  <1>2. /\ Doing(t)'.at = "delete" /\ Doing(t)'.signal = Doing(t).signal /\ Doing(t)'.next = 1
        /\ \A u \in Threads : u # t => Doing(u)' = Doing(u)
    BY <1>0, <1>p, <1>1, GoesDoes
  <1>3. OneEnds'
    BY <1>1, <1>2 DEF OneEnds, Ends, MainPlaces, EnginePlaces, EndPlaces, Threads
  <1>4. Stages'
    BY <1>1, <1>2 DEF OneEnds, Ends, Stages, MainPlaces, EnginePlaces, EndPlaces, Threads
  <1>5. BooksDeleted'
    BY <1>1, <1>2, NoneBefore DEF OneEnds, Ends, Stages, BooksDeleted, DeletedBefore, MainPlaces, EnginePlaces, EndPlaces, Threads
  <1>6. GoodOutcome'
    BY <1>1, <1>2 DEF GoodOutcome, ExitDeletesBooks
  <1>. QED BY <1>3, <1>4, <1>5, <1>6

LEMMA OneDeleted ==
  ASSUME StacksOK, RestOK, OneInv, NEW t \in Threads, Deleted(t)
  PROVE  OneInv'
  <1> USE DEF OneInv, At
  <1>0. "main" \in Threads /\ "fix" \in Threads
    BY DEF Threads
  <1>p. {"exit"} \subseteq Places
    BY DEF Places, MainPlaces, EnginePlaces, EndPlaces
  <1>1. /\ Doing(t).at = "delete" /\ Goes(t, "exit") /\ Doing(t).next > NumBooks
        /\ app' = IF Doing(t).signal = "none" THEN "gone" ELSE app
        /\ UNCHANGED <<engine, books, freed, causes, outcome>> /\ outcome = "running"
    BY DEF Deleted, LastBook
  <1>2. /\ Doing(t)'.at = "exit" /\ Doing(t)'.signal = Doing(t).signal /\ Doing(t)'.next = 1
        /\ \A u \in Threads : u # t => Doing(u)' = Doing(u)
    BY <1>0, <1>p, <1>1, GoesDoes
  <1>3. OneEnds'
    BY <1>1, <1>2 DEF OneEnds, Ends, MainPlaces, EnginePlaces, EndPlaces, Threads
  <1>4. Stages'
    BY <1>1, <1>2 DEF OneEnds, Ends, Stages, MainPlaces, EnginePlaces, EndPlaces, Threads
  <1>5. BooksDeleted'
    BY <1>1, <1>2, LastNext DEF OneEnds, Ends, Stages, BooksDeleted, DeletedBefore, MainPlaces, EnginePlaces, EndPlaces, Threads
  <1>6. GoodOutcome'
    BY <1>1, <1>2 DEF GoodOutcome, ExitDeletesBooks
  <1>. QED BY <1>3, <1>4, <1>5, <1>6

LEMMA OneAsserts ==
  ASSUME StacksOK, RestOK, OneInv, NEW t \in Threads, Asserts(t)
  PROVE  OneInv'
  <1> USE DEF OneInv, At
  <1>p. "stop" \in Places
    BY DEF Places, MainPlaces, EnginePlaces, EndPlaces
  <1>1. /\ Doing(t).at = "assert" /\ UNCHANGED <<engine, app, books, freed, causes>>
        /\ outcome = "running"
    BY DEF Asserts
  <1>2. CASE engine = "unmade"
    <2>1. UNCHANGED stack /\ outcome' = "aborted"
      BY <1>2 DEF Asserts
    <2>2. OneEnds' /\ Stages' /\ BooksDeleted'
      BY <1>1, <2>1 DEF OneEnds, Ends, Stages, BooksDeleted, DeletedBefore, Doing
    <2>. QED BY <2>1, <2>2 DEF GoodOutcome, ExitDeletesBooks
  <1>3. CASE engine # "unmade"
    <2>1. Goes(t, "stop") /\ UNCHANGED outcome
      BY <1>3 DEF Asserts
    <2>2. /\ Doing(t)'.at = "stop" /\ Doing(t)'.signal = Doing(t).signal
          /\ \A u \in Threads : u # t => Doing(u)' = Doing(u)
      BY <1>p, <2>1, GoesDoes
    <2>3. OneEnds'
      BY <1>1, <2>2 DEF OneEnds, Ends, MainPlaces, EnginePlaces, EndPlaces, Threads
    <2>4. Stages'
      BY <1>1, <1>3, <2>2 DEF OneEnds, Ends, Stages, MainPlaces, EnginePlaces, EndPlaces, Threads
    <2>f. freed = {}
      BY <1>1 DEF OneEnds, Ends, BooksDeleted, EndPlaces, Threads
    <2>5. BooksDeleted'
      BY <1>1, <2>2, <2>f DEF OneEnds, Ends, BooksDeleted, EndPlaces, Threads
    <2>6. GoodOutcome'
      BY <1>1, <2>1 DEF GoodOutcome, ExitDeletesBooks
    <2>. QED BY <2>3, <2>4, <2>5, <2>6
  <1>. QED BY <1>2, <1>3

LEMMA OneDeleteBook ==
  ASSUME StacksOK, RestOK, OneInv, NEW t \in Threads, DeleteBook(t)
  PROVE  OneInv'
  <1> USE DEF OneInv, At
  <1> DEFINE i == Doing(t).next
             b == <<i, books[i]>>
  <1>1. /\ Doing(t).at = "delete" /\ i <= NumBooks
        /\ Becomes(t, [Doing(t) EXCEPT !.next = i + 1])
        /\ UNCHANGED <<engine, app, books, causes>> /\ outcome = "running"
    BY DEF DeleteBook, LastBook
  <1>2. i \in Symbols /\ i + 1 \in 1 .. NumBooks + 1
    <2>1. i \in 1 .. NumBooks + 1
      BY LastIs, PlacesAre
    <2>. QED BY <1>1, <2>1, LifecycleAssumption DEF Symbols
  <1>3. /\ Doing(t)'.at = "delete" /\ Doing(t)'.signal = Doing(t).signal /\ Doing(t)'.next = i + 1
        /\ \A u \in Threads : u # t => Doing(u)' = Doing(u)
    BY <1>1, <1>2, NextDoes
  <1>4. app # "gone"
    BY <1>1 DEF OneEnds, Ends, EndPlaces, Threads
  <1>5. freed = DeletedBefore(i)
    BY <1>1 DEF BooksDeleted
  <1>6. /\ books[i] = 0 => DeletedBefore(i + 1) = DeletedBefore(i)
        /\ books[i] # 0 => DeletedBefore(i + 1) = DeletedBefore(i) \cup {b}
        /\ b \notin DeletedBefore(i)
    BY <1>2, Advance
  <1>7. freed' = DeletedBefore(i + 1) /\ outcome' = "running"
    <2>1. CASE books[i] = 0
      BY <1>1, <1>4, <1>5, <1>6, <2>1 DEF DeleteBook
    <2>2. CASE books[i] # 0
      BY <1>1, <1>4, <1>5, <1>6, <2>2 DEF DeleteBook
    <2>. QED BY <2>1, <2>2
  <1> HIDE DEF i, b
  <1>9. OneEnds'
    BY <1>1, <1>3 DEF OneEnds, Ends, MainPlaces, EnginePlaces, EndPlaces, Threads
  <1>10. Stages'
    BY <1>1, <1>3 DEF OneEnds, Ends, Stages, MainPlaces, EnginePlaces, EndPlaces, Threads
  <1>11. BooksDeleted'
    BY <1>1, <1>3, <1>7 DEF OneEnds, Ends, BooksDeleted, DeletedBefore, EndPlaces, Threads
  <1>12. GoodOutcome'
    BY <1>7 DEF GoodOutcome, ExitDeletesBooks
  <1>. QED BY <1>9, <1>10, <1>11, <1>12

LEMMA OneExit ==
  ASSUME StacksOK, RestOK, OneInv, NEW t \in Threads, Exit(t)
  PROVE  OneInv'
  <1> USE DEF OneInv, At
  <1>1. /\ Doing(t).at = "exit" /\ outcome' = "exited"
        /\ UNCHANGED <<stack, engine, app, books, freed, logons, causes>>
    BY DEF Exit
  <1>2. freed = DeletedBefore(NumBooks + 1)
    BY <1>1 DEF BooksDeleted
  <1>3. \A i \in Symbols : books[i] = 0 \/ <<i, books[i]>> \in freed
    BY <1>2, AllBefore
  <1>4. OneEnds' /\ Stages' /\ BooksDeleted'
    BY <1>1 DEF OneEnds, Ends, Stages, BooksDeleted, DeletedBefore, Doing
  <1>. QED BY <1>1, <1>3, <1>4 DEF GoodOutcome, ExitDeletesBooks

LEMMA OneGiveUpEarly ==
  ASSUME OneInv, GiveUpEarly
  PROVE  OneInv'
  <1> USE DEF OneInv, At
  <1>1. /\ Doing("main").at = "boot" /\ outcome' = "exited"
        /\ UNCHANGED <<stack, engine, app, books, freed, logons, causes>>
    BY DEF GiveUpEarly
  <1>2. \A i \in Symbols : books[i] = 0
    BY <1>1 DEF Stages, BooksDeleted
  <1>3. OneEnds' /\ Stages' /\ BooksDeleted'
    BY <1>1 DEF OneEnds, Ends, Stages, BooksDeleted, DeletedBefore, Doing
  <1>. QED BY <1>1, <1>2, <1>3 DEF GoodOutcome, ExitDeletesBooks

(* A book is made while the engine's thread is there and nobody deletes.   *)
LEMMA OneMakeBook ==
  ASSUME StacksOK, RestOK, OneInv, MakeBook
  PROVE  OneInv'
  <1> USE DEF OneInv, At
  <1> DEFINE i == Doing("fix").next
  <1>1. /\ Doing("fix").at = "making" /\ UNCHANGED <<engine, app, freed, causes, outcome>>
        /\ outcome = "running"
    BY DEF MakeBook
  <1>2. i \in Symbols
    BY <1>1, LastIs DEF WellPlaced, Threads
  <1>3. Doing("fix")'.at \in {"idle", "making"} /\ Doing("main")' = Doing("main")
    <2>1. CASE i = NumBooks
      <3>1. Goes("fix", "idle")
        BY <2>1 DEF MakeBook
      <3>. QED BY <3>1, GoesDoes DEF Threads, Places, EnginePlaces
    <2>2. CASE i # NumBooks
      <3>1. Becomes("fix", [Doing("fix") EXCEPT !.next = i + 1])
        BY <2>2 DEF MakeBook
      <3>2. i + 1 \in 1 .. NumBooks + 1 /\ i + 1 \in Symbols
        BY <1>2, <2>2, LifecycleAssumption DEF Symbols
      <3>. QED BY <1>1, <3>1, <3>2, NextDoes DEF Threads
    <2>. QED BY <2>1, <2>2
  <1> HIDE DEF i
  <1>4. OneEnds'
    BY <1>1, <1>3 DEF OneEnds, Ends, MainPlaces, EnginePlaces, EndPlaces, Threads
  <1>5. Stages'
    BY <1>1, <1>3 DEF OneEnds, Ends, Stages, MainPlaces, EnginePlaces, EndPlaces, Threads
  <1>6. BooksDeleted'
    BY <1>1, <1>3 DEF OneEnds, Ends, Stages, BooksDeleted, EnginePlaces, EndPlaces, Threads
  <1>7. GoodOutcome'
    BY <1>1 DEF GoodOutcome, ExitDeletesBooks
  <1>. QED BY <1>4, <1>5, <1>6, <1>7

LEMMA OneStep ==
  ASSUME MaxCauses <= 1, TypeOK, OneInv, [Next]_vars
  PROVE  OneInv'
  <1>1. StacksOK /\ RestOK
    BY TypeParts
  <1>2. CASE UNCHANGED vars
    BY <1>2 DEF vars, OneInv, OneEnds, Ends, Stages, BooksDeleted, DeletedBefore, Doing,
                GoodOutcome, ExitDeletesBooks
  <1>3. CASE Starting \/ GiveUpEarly \/ GiveUp \/ Quit
    BY <1>1, <1>3, OneMakeApplication, OneMakeInitiator, OneStart, OneGiveUpEarly, OneGiveUp, OneQuit
       DEF Starting
  <1>4. CASE Callback \/ Logon \/ Message
    BY <1>1, <1>4, OneMakeBook, OneApply, OneThreadEnds, OneLogon, OneMessage DEF Callback
  <1>5. ASSUME NEW t \in Threads, Ending(t) PROVE OneInv'
    BY <1>1, <1>5, OneAsserts, OneStop, OneRaise, OneJoin, OneDeleteBook, OneDeleted, OneExit
       DEF Ending
  <1>6. ASSUME NEW t \in Threads, NEW s \in Signals, Signal(t, s) PROVE OneInv'
    BY <1>1, <1>6, OneSignal
  <1>. QED BY <1>2, <1>3, <1>4, <1>5, <1>6 DEF Next

LEMMA OneAlways == ASSUME MaxCauses <= 1 PROVE Spec => []OneInv
  <1>1. TypeOK /\ OneInv /\ [Next]_vars => OneInv'
    BY OneStep
  <1>. QED BY <1>1, OneInit, LifecycleTypeCorrect, PTL DEF Spec

(* With one reason to end, no book is deleted twice or used afterwards, and *)
(* the application is there when its books are deleted.                     *)
THEOREM OnceMemorySafe == ASSUME MaxCauses <= 1 PROVE Spec => []MemorySafe
  <1>1. OneInv => MemorySafe
    BY DEF OneInv, GoodOutcome, MemorySafe
  <1>. QED BY <1>1, OneAlways, PTL

(* With one reason to end, an exit leaves no book of the map.              *)
THEOREM OnceExitDeletes == ASSUME MaxCauses <= 1 PROVE Spec => []ExitDeletesBooks
  <1>1. OneInv => ExitDeletesBooks
    BY DEF OneInv, GoodOutcome
  <1>. QED BY <1>1, OneAlways, PTL

(* With one reason to end, no callback runs while books are deleted by     *)
(* another thread.                                                         *)
THEOREM OnceQuiet == ASSUME MaxCauses <= 1 PROVE Spec => []QuietWhileDeleting
  <1>1. OneInv => QuietWhileDeleting
    BY DEF OneInv, BooksDeleted, QuietWhileDeleting, At, Threads
  <1>. QED BY <1>1, OneAlways, PTL
=============================================================================
