------------------------------ MODULE Lifecycle ------------------------------
(***************************************************************************)
(* The collector process from start to end: main, the signal handler, the  *)
(* thread of the FIX engine, and the books these create, use and delete    *)
(* (market_data/fix/src/md_fix.cpp, md_parser_qf.cpp).                     *)
(*                                                                         *)
(* A thread is a stack of activities.  Its own work is at the bottom, and  *)
(* a signal puts a run of the handler on top, which must end before what   *)
(* is below goes on; it never does, for the handler exits.  The kernel     *)
(* gives a signal to any thread, except one already handling that signal.  *)
(*                                                                         *)
(* The engine is a library.  What it does here is external: it has one     *)
(* thread, which makes the callbacks; stop() returns at once when the      *)
(* engine is stopped, otherwise logs out, tells the thread to end and      *)
(* joins it (a join of the calling thread returns at once).  The heap is   *)
(* external too: an allocation holds its lock for a moment, and for ever   *)
(* if a handler interrupts it.                                             *)
(***************************************************************************)
EXTENDS Naturals, Sequences, SequencesExt, FiniteSets

CONSTANTS
    Signals,        \* those sighandler is installed for
    NumBooks,       \* how many symbols there are
    MaxLogons,      \* bound: logons in a run
    MaxCauses       \* bound: reasons to end: signals, a q, a failure to start

ASSUME LifecycleAssumption ==
    /\ "none" \notin Signals
    /\ NumBooks \in Nat \ {0} /\ MaxLogons \in Nat /\ MaxCauses \in Nat

VARIABLES
    stack,      \* of each thread, its activities, the running one last
    engine,     \* g_pinitiator and its state
    app,        \* what g_papplication points to
    books,      \* _symbolToBook: the logon that made each book, 0 when none did
    freed,      \* the books deleted so far
    heap,       \* held for good by an interrupted allocation, or free
    logons,     \* _loginCount
    causes,     \* how many reasons to end there have been
    outcome     \* how the process fares

vars == <<stack, engine, app, books, freed, heap, logons, causes, outcome>>

Threads == {"main", "fix"}
Symbols == 1..NumBooks

\* A book is known by its symbol and the logon that made it.
Book == Symbols \X (1..MaxLogons)

\* An activity: the signal it handles if any, where it is, and at which symbol.
Activity == [signal : Signals \cup {"none"},
             at : {"boot", "made", "ready", "waiting",             \* main
                   "unborn", "idle", "making", "applying", "over", \* the engine's thread
                   "assert",                                       \* the handler
                   "stop", "raise", "join", "delete", "exit"},     \* main and handler
             next : 1..(NumBooks + 1)]

TypeOK ==
    /\ stack \in [Threads -> Seq(Activity)] /\ \A t \in Threads : stack[t] # <<>>
    /\ \A t \in Threads : \A k \in DOMAIN stack[t] :
         stack[t][k].at # "delete" => stack[t][k].next \in Symbols
    /\ engine \in {"unmade", "stopped", "running", "ending"}
    /\ app \in {"unmade", "alive", "gone"}
    /\ books \in [Symbols -> 0..MaxLogons]
    /\ freed \subseteq Book
    /\ heap \in {"free", "held"}
    /\ logons \in 0..MaxLogons
    /\ causes \in 0..MaxCauses
    /\ outcome \in {"running", "exited", "aborted", "freed twice", "used when freed", "dangling"}

Work(place) == [signal |-> "none", at |-> place, next |-> 1]
Handling(s) == [signal |-> s, at |-> "assert", next |-> 1]

Doing(t) == Last(stack[t])
At(t, place) == outcome = "running" /\ Doing(t).at = place
Becomes(t, activity) == stack' = [stack EXCEPT ![t] = Append(Front(stack[t]), activity)]
Goes(t, place) == Becomes(t, [Doing(t) EXCEPT !.at = place, !.next = 1])

Init ==
    /\ stack = [t \in Threads |-> <<Work(IF t = "main" THEN "boot" ELSE "unborn")>>]
    /\ engine = "unmade" /\ app = "unmade"
    /\ books = [i \in Symbols |-> 0]
    /\ freed = {} /\ heap = "free" /\ logons = 0 /\ causes = 0
    /\ outcome = "running"

-----------------------------------------------------------------------------
(***************************************************************************)
(* Main.                                                                   *)
(***************************************************************************)

\* Settings, symbols and configuration are read; something may be missing.
GiveUpEarly ==
    /\ At("main", "boot")
    /\ outcome' = "exited"
    /\ UNCHANGED <<stack, engine, app, books, freed, heap, logons, causes>>

\* The application is constructed and the global pointer set.
MakeApplication ==
    /\ At("main", "boot")
    /\ app' = "alive"
    /\ Goes("main", "made")
    /\ UNCHANGED <<engine, books, freed, heap, logons, causes, outcome>>

\* The directories, the pid file, the socket; then the initiator.
MakeInitiator ==
    /\ At("main", "made")
    /\ engine' = "stopped"
    /\ Goes("main", "ready")
    /\ UNCHANGED <<app, books, freed, heap, logons, causes, outcome>>

\* A return, or an exception of the engine, between the two: the destructor
\* of the application runs and deletes the books, of which there are none.
GiveUp ==
    /\ At("main", "made") \/ At("main", "ready")
    /\ causes < MaxCauses /\ causes' = causes + 1
    /\ Goes("main", "delete")
    /\ UNCHANGED <<engine, app, books, freed, heap, logons, outcome>>

\* The initiator is started, which gives the engine its thread.
Start ==
    /\ At("main", "ready")
    /\ engine' = "running"
    /\ stack' = [stack EXCEPT !["main"] = <<Work("waiting")>>, !["fix"] = <<Work("idle")>>]
    /\ UNCHANGED <<app, books, freed, heap, logons, causes, outcome>>

\* A 'q', or the end of the standard input.
Quit ==
    /\ At("main", "waiting")
    /\ causes < MaxCauses /\ causes' = causes + 1
    /\ Goes("main", "stop")
    /\ UNCHANGED <<engine, app, books, freed, heap, logons, outcome>>

-----------------------------------------------------------------------------
(***************************************************************************)
(* The callbacks of the engine's thread.                                   *)
(***************************************************************************)

\* onLogon: the first new order_book is under way.
Logon ==
    /\ At("fix", "idle") /\ engine = "running"
    /\ logons < MaxLogons /\ logons' = logons + 1
    /\ Goes("fix", "making")
    /\ UNCHANGED <<engine, app, books, freed, heap, causes, outcome>>

\* A mutant of MakeBook: the loop runs one symbol too far.
MakeBookTooMany ==
    LET i == Doing("fix").next
    IN  /\ At("fix", "making") /\ heap = "free"
        /\ books' = [books EXCEPT ![i] = logons]
        /\ IF i > NumBooks THEN Goes("fix", "idle")
           ELSE Becomes("fix", [Doing("fix") EXCEPT !.next = i + 1])
        /\ UNCHANGED <<engine, app, freed, heap, logons, causes, outcome>>

\* The book is entered in the map, over the one of the logon before.
MakeBook ==
    LET i == Doing("fix").next
    IN  /\ At("fix", "making") /\ heap = "free"
        /\ books' = [books EXCEPT ![i] = logons]
        /\ IF i = NumBooks THEN Goes("fix", "idle")
           ELSE Becomes("fix", [Doing("fix") EXCEPT !.next = i + 1])
        /\ UNCHANGED <<engine, app, freed, heap, logons, causes, outcome>>

\* A message for a symbol: getBook finds its book ...
Message ==
    /\ At("fix", "idle") /\ engine = "running"
    /\ \E i \in Symbols : books[i] # 0
                       /\ Becomes("fix", [Doing("fix") EXCEPT !.at = "applying", !.next = i])
    /\ UNCHANGED <<engine, app, books, freed, heap, logons, causes, outcome>>

\* ... which is then changed and published.
Apply ==
    LET i == Doing("fix").next
    IN  /\ At("fix", "applying") /\ heap = "free"
        /\ Goes("fix", "idle")
        /\ outcome' = IF <<i, books[i]>> \in freed THEN "used when freed" ELSE outcome
        /\ UNCHANGED <<engine, app, books, freed, heap, logons, causes>>

\* Told to end, the thread does once its callback is over.
ThreadEnds ==
    /\ At("fix", "idle") /\ engine = "ending"
    /\ Goes("fix", "over")
    /\ UNCHANGED <<engine, app, books, freed, heap, logons, causes, outcome>>

-----------------------------------------------------------------------------
(***************************************************************************)
(* The handler, and what it has in common with the end of main: stop the   *)
(* engine, delete the books, exit.                                         *)
(***************************************************************************)

\* Where a thread takes nothing from the heap and gives nothing back.
OffHeap == {"waiting", "assert", "join"}

\* The kernel interrupts a thread, which may be inside an allocation.
Signal(t, s) ==
    /\ outcome = "running"
    /\ Doing(t).at \notin {"unborn", "over"}
    /\ \A k \in DOMAIN stack[t] : stack[t][k].signal # s
    /\ causes < MaxCauses /\ causes' = causes + 1
    /\ stack' = [stack EXCEPT ![t] = Append(@, Handling(s))]
    /\ heap' \in {heap} \cup (IF Doing(t).at \in OffHeap THEN {} ELSE {"held"})
    /\ UNCHANGED <<engine, app, books, freed, logons, outcome>>

\* A mutant of Asserts: the books are deleted without stopping the engine.
AssertsThenDeletes(t) ==
    /\ At(t, "assert")
    /\ IF engine = "unmade" THEN outcome' = "aborted" /\ UNCHANGED stack
       ELSE Goes(t, "delete") /\ UNCHANGED outcome
    /\ UNCHANGED <<engine, app, books, freed, heap, logons, causes>>

\* assert(g_pinitiator).
Asserts(t) ==
    /\ At(t, "assert")
    /\ IF engine = "unmade" THEN outcome' = "aborted" /\ UNCHANGED stack
       ELSE Goes(t, "stop") /\ UNCHANGED outcome
    /\ UNCHANGED <<engine, app, books, freed, heap, logons, causes>>

\* stop(): nothing to do when the engine is stopped or being stopped.
Stop(t) ==
    /\ At(t, "stop")
    /\ Goes(t, IF engine = "running" THEN "raise" ELSE "delete")
    /\ UNCHANGED <<engine, app, books, freed, heap, logons, causes, outcome>>

\* Logged out, or after ten seconds without an answer, the thread is told to end.
Raise(t) ==
    /\ At(t, "raise")
    /\ engine' = "ending"
    /\ Goes(t, "join")
    /\ UNCHANGED <<app, books, freed, heap, logons, causes, outcome>>

\* The thread is joined; the engine's own thread cannot join itself.
Join(t) ==
    /\ At(t, "join")
    /\ t = "fix" \/ At("fix", "over")
    /\ Goes(t, "delete")
    /\ UNCHANGED <<engine, app, books, freed, heap, logons, causes, outcome>>

\* A mutant of LastBook: deleteBooks leaves the last one.
LastButOne == NumBooks - 1

LastBook == NumBooks

\* deleteBooks: one round of its loop.
DeleteBook(t) ==
    LET i == Doing(t).next
        b == <<i, books[i]>>
    IN  /\ At(t, "delete") /\ i <= LastBook
        /\ Becomes(t, [Doing(t) EXCEPT !.next = i + 1])
        /\ IF app = "gone" THEN outcome' = "dangling" /\ UNCHANGED freed
           ELSE IF books[i] = 0 THEN UNCHANGED <<freed, outcome>>
           ELSE /\ heap = "free"
                /\ freed' = freed \cup {b}
                /\ outcome' = IF b \in freed THEN "freed twice" ELSE outcome
        /\ UNCHANGED <<engine, app, books, heap, logons, causes>>

\* The loop is over; in main it was the destructor's.
Deleted(t) ==
    /\ At(t, "delete") /\ Doing(t).next > LastBook
    /\ app' = IF Doing(t).signal = "none" THEN "gone" ELSE app
    /\ Goes(t, "exit")
    /\ UNCHANGED <<engine, books, freed, heap, logons, causes, outcome>>

\* A mutant of Exit: the handler returns without exit().
ExitOfMain(t) ==
    /\ At(t, "exit")
    /\ IF Doing(t).signal = "none" THEN outcome' = "exited" /\ UNCHANGED stack
       ELSE stack' = [stack EXCEPT ![t] = Front(@)] /\ UNCHANGED outcome
    /\ UNCHANGED <<engine, app, books, freed, heap, logons, causes>>

\* exit(), by the handler or after main returns.
Exit(t) ==
    /\ At(t, "exit")
    /\ outcome' = "exited"
    /\ UNCHANGED <<stack, engine, app, books, freed, heap, logons, causes>>

-----------------------------------------------------------------------------
Ending(t) == Asserts(t) \/ Stop(t) \/ Raise(t) \/ Join(t) \/ DeleteBook(t) \/ Deleted(t) \/ Exit(t)
Starting == MakeApplication \/ MakeInitiator \/ Start
Callback == MakeBook \/ Apply \/ ThreadEnds

Next ==
    \/ Starting \/ GiveUpEarly \/ GiveUp \/ Quit
    \/ Callback \/ Logon \/ Message
    \/ \E t \in Threads : Ending(t) \/ \E s \in Signals : Signal(t, s)

\* The scheduler runs every thread: what a thread has begun it goes on with.
\* Nothing makes a user type, a venue send, or a signal come.
Fairness == WF_vars(Callback) /\ \A t \in Threads : WF_vars(Ending(t))

Spec == Init /\ [][Next]_vars /\ Fairness

-----------------------------------------------------------------------------
(***************************************************************************)
(* Properties.                                                             *)
(***************************************************************************)

\* The pointers are good when used: no book is deleted twice (by a handler and
\* by the destructor, or by two handlers), none is used by the engine's thread
\* after its deletion, and the application is there when its books are deleted.
MemorySafe == outcome \notin {"freed twice", "used when freed", "dangling"}

\* "Global pointers for signal handlers to cleanup properly" (md_fix.cpp:81):
\* however many reasons to end there are, no book that was deleted is deleted
\* again.
DeletedOnce == outcome # "freed twice"

\* An exit leaves no book of the map undeleted.
ExitDeletesBooks ==
    outcome = "exited" => \A i \in Symbols : books[i] = 0 \/ <<i, books[i]>> \in freed

\* No logon and no message is handled once the books are being deleted, unless
\* by the interrupted thread itself, which is not resumed.
QuietWhileDeleting ==
    \A t \in Threads : At(t, "delete") => t = "fix" \/ Doing("fix").at \in {"unborn", "over"}

\* A quit, or a signal that main handles, ends the process: the engine's
\* thread gets to the end of its callback, and nobody waits for main.
MainEnds ==
    (\E k \in DOMAIN stack["main"] : stack["main"][k].at \in {"assert", "stop"})
        ~> outcome # "running"
=============================================================================
