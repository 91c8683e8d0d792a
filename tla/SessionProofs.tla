---------------------------- MODULE SessionProofs ----------------------------
(***************************************************************************)
(* What TLAPS proves of Session: its type and, for a collector that resets *)
(* the numbers or keeps nothing, that a connection never subscribes to a   *)
(* symbol twice, whatever the symbol file, the number of connections and   *)
(* the order in which frames arrive.                                       *)
(***************************************************************************)
EXTENDS Session, SequenceTheorems, WellFoundedInduction, TLAPS

\* The symbol file names a symbol once.
SymbolsOnce ==
    \A k, l \in DOMAIN Lines : Lines[k] = Lines[l] /\ Lines[k] # "" => k = l

\* The collector resets the numbers or keeps nothing.
SendsOnce == \A s \in Settings : s.reset \/ ~s.persist

-----------------------------------------------------------------------------
\* Induction over a set of natural numbers.
LEMMA NatSetInduction ==
    ASSUME NEW S, 0 \in S, \A n \in Nat : n \in S => n + 1 \in S
    PROVE  Nat \subseteq S
<1> DEFINE Rest == Nat \ S
           Less == {pair \in Nat \X Nat : pair[1] < pair[2]}
<1>1. SUFFICES ASSUME Rest # {} PROVE FALSE
    OBVIOUS
<1>2. IsWellFoundedOn(Less, Nat)
    BY NatLessThanWellFounded DEF OpToRel
<1>3. PICK m \in Rest : \A k \in Rest : ~(<<k, m>> \in Less)
    <2>1. Rest \subseteq Nat
        OBVIOUS
    <2> HIDE DEF Rest, Less
    <2>. QED BY <1>1, <1>2, <2>1, WFMin
<1>4. m # 0 /\ m - 1 \in Nat /\ m - 1 < m /\ (m - 1) + 1 = m
    OBVIOUS
<1>5. m - 1 \notin Rest
    BY <1>3, <1>4
<1>6. m - 1 \in S
    BY <1>4, <1>5
<1>. QED BY <1>4, <1>6

-----------------------------------------------------------------------------
\* The symbols asked for one by one: those of the lines that are not blank.

Add(seq, n) == IF Lines[n] = "" THEN seq ELSE Append(seq, Lines[n])

\* g is what Named is, up to n.
NamedUpTo(g, n) ==
    g = [m \in 0..n |-> IF m = 0 THEN <<>> ELSE Add(g[m - 1], m)]

LEMMA NamedExists ==
    \A n \in Nat : \E g : NamedUpTo(g, n)
<1> DEFINE S == {n \in Nat : \E g : NamedUpTo(g, n)}
<1>1. 0 \in S
    <2> DEFINE g == [m \in 0..0 |-> <<>>]
    <2>1. g = [m \in 0..0 |-> IF m = 0 THEN <<>> ELSE Add(g[m - 1], m)]
        OBVIOUS
    <2>2. NamedUpTo(g, 0)
        BY <2>1 DEF NamedUpTo
    <2>. QED BY <2>2
<1>2. ASSUME NEW n \in Nat, n \in S PROVE n + 1 \in S
    <2>1. PICK g : NamedUpTo(g, n)
        BY <1>2
    <2> DEFINE h == [m \in 0..(n + 1) |-> IF m <= n THEN g[m] ELSE Add(g[n], n + 1)]
    <2>2. \A m \in 0..n : g[m] = IF m = 0 THEN <<>> ELSE Add(g[m - 1], m)
        BY <2>1 DEF NamedUpTo
    <2>3. \A m \in 0..(n + 1) : h[m] = IF m = 0 THEN <<>> ELSE Add(h[m - 1], m)
        <3> SUFFICES ASSUME NEW m \in 0..(n + 1)
                     PROVE  h[m] = IF m = 0 THEN <<>> ELSE Add(h[m - 1], m)
            OBVIOUS
        <3>1. CASE m = 0
            BY <3>1, <2>2
        <3>2. CASE m # 0 /\ m <= n
            <4>1. h[m] = g[m] /\ h[m - 1] = g[m - 1]
                BY <3>2
            <4>. QED BY <4>1, <3>2, <2>2
        <3>3. CASE m = n + 1
            <4>1. h[m - 1] = g[n] /\ h[m] = Add(g[n], n + 1)
                BY <3>3
            <4>. QED BY <4>1, <3>3
        <3>. QED BY <3>1, <3>2, <3>3
    <2>4. h = [m \in 0..(n + 1) |-> h[m]]
        OBVIOUS
    <2> HIDE DEF h
    <2>5. NamedUpTo(h, n + 1)
        BY <2>3, <2>4 DEF NamedUpTo
    <2>. QED BY <2>5
<1> HIDE DEF S
<1>3. Nat \subseteq S
    BY <1>1, <1>2, NatSetInduction
<1>. QED BY <1>3 DEF S

\* Named is what it is defined to be.
LEMMA NamedIs ==
    /\ Named[0] = <<>>
    /\ \A n \in 1..Len(Lines) : Named[n] = Add(Named[n - 1], n)
<1>1. Len(Lines) \in Nat
    BY SessionAssumption
<1>2. PICK g : NamedUpTo(g, Len(Lines))
    BY <1>1, NamedExists
<1> DEFINE Is(f) == f = [n \in 0..Len(Lines) |->
                           IF n = 0 THEN <<>>
                           ELSE IF Lines[n] = "" THEN f[n - 1] ELSE Append(f[n - 1], Lines[n])]
<1>3. Is(g)
    BY <1>2 DEF NamedUpTo, Add
<1>4. Named = CHOOSE f : Is(f)
    BY DEF Named
<1> HIDE DEF Is
<1>5. Is(Named)
    BY <1>3, <1>4
<1>6. ASSUME NEW f, Is(f)
      PROVE  f[0] = <<>> /\ \A n \in 1..Len(Lines) : f[n] = Add(f[n - 1], n)
    <2>1. \A n \in 0..Len(Lines) : f[n] = IF n = 0 THEN <<>>
                                          ELSE IF Lines[n] = "" THEN f[n - 1] ELSE Append(f[n - 1], Lines[n])
        BY <1>6 DEF Is
    <2>2. 0 \in 0..Len(Lines) /\ \A n \in 1..Len(Lines) : n \in 0..Len(Lines) /\ n # 0
        BY <1>1
    <2>. QED BY <2>1, <2>2 DEF Add
<1>. QED BY <1>5, <1>6

\* Only lines are named, each that is not blank no more often than it is there.
NamedWell(seq, n) ==
    /\ seq \in Seq(Symbols)
    /\ \A k \in DOMAIN seq : \E l \in 1..n : seq[k] = Lines[l]
    /\ SymbolsOnce => \A k, l \in DOMAIN seq : seq[k] = seq[l] => k = l

LEMMA NamedStepWell ==
    ASSUME NEW n \in 1..Len(Lines), NEW seq, NamedWell(seq, n - 1)
    PROVE  NamedWell(Add(seq, n), n)
<1>1. Lines \in Seq(STRING) /\ Len(Lines) \in Nat /\ n \in Nat /\ n - 1 \in Nat /\ n \in DOMAIN Lines
    BY SessionAssumption
<1>2. CASE Lines[n] = ""
    <2>1. \A l \in 1..(n - 1) : l \in 1..n
        BY <1>1
    <2>2. NamedWell(seq, n)
        BY <2>1 DEF NamedWell
    <2>. QED BY <1>2, <2>2 DEF Add
<1>3. CASE Lines[n] # ""
    <2> DEFINE longer == Append(seq, Lines[n])
    <2>1. Lines[n] \in Symbols
        BY <1>1, <1>3 DEF Symbols, Range
    <2>2. /\ longer \in Seq(Symbols) /\ DOMAIN longer = DOMAIN seq \cup {Len(seq) + 1}
          /\ DOMAIN seq = 1..Len(seq) /\ Len(seq) \in Nat
          /\ \A k \in DOMAIN seq : longer[k] = seq[k]
          /\ longer[Len(seq) + 1] = Lines[n]
        BY <2>1, AppendProperties DEF NamedWell
    <2>3. \A k \in DOMAIN longer : \E l \in 1..n : longer[k] = Lines[l]
        BY <2>2, <1>1 DEF NamedWell
    <2>4. ASSUME SymbolsOnce, NEW k \in DOMAIN longer, NEW l \in DOMAIN longer, longer[k] = longer[l]
          PROVE  k = l
        <3>1. \A m \in DOMAIN seq : seq[m] # Lines[n]
            <4>1. \A l1 \in 1..(n - 1) : l1 \in DOMAIN Lines /\ l1 # n
                BY <1>1
            <4>2. \A l1 \in 1..(n - 1) : Lines[l1] # Lines[n]
                BY <4>1, <1>1, <1>3, <2>4 DEF SymbolsOnce
            <4>. QED BY <4>2 DEF NamedWell
        <3>. QED BY <3>1, <2>2, <2>4 DEF NamedWell
    <2> HIDE DEF longer
    <2>5. NamedWell(longer, n)
        BY <2>2, <2>3, <2>4 DEF NamedWell
    <2>. QED BY <2>5, <1>3 DEF Add, longer
<1>. QED BY <1>2, <1>3

LEMMA NamedIsWell == NamedWell(Named[Len(Lines)], Len(Lines))
<1> DEFINE S == {n \in Nat : n <= Len(Lines) => NamedWell(Named[n], n)}
<1>1. Len(Lines) \in Nat
    BY SessionAssumption
<1>2. 0 \in S
    <2>1. NamedWell(<<>>, 0)
        BY EmptySeq DEF NamedWell
    <2>. QED BY <2>1, NamedIs
<1>3. ASSUME NEW n \in Nat, n \in S PROVE n + 1 \in S
    <2> SUFFICES ASSUME n + 1 <= Len(Lines) PROVE NamedWell(Named[n + 1], n + 1)
        OBVIOUS
    <2>1. n + 1 \in 1..Len(Lines) /\ (n + 1) - 1 = n /\ NamedWell(Named[n], n)
        BY <1>1, <1>3
    <2>2. Named[n + 1] = Add(Named[n], n + 1)
        BY <2>1, NamedIs
    <2>. QED BY <2>1, <2>2, NamedStepWell
<1> HIDE DEF S
<1>4. Nat \subseteq S
    BY <1>2, <1>3, NatSetInduction
<1>. QED BY <1>1, <1>4 DEF S

-----------------------------------------------------------------------------
(***************************************************************************)
(* The inductive invariant: the venue takes the numbers in their order, so *)
(* that what it granted are requests of this connection with numbers below *)
(* the one it expects, and those are about different symbols.              *)
(***************************************************************************)

\* The j-th message is a request made since the last logon.
Current(messages, j) ==
    /\ messages[j].kind = "request"
    /\ \A m \in DOMAIN messages : m > j => messages[m].kind # "logon"

\* A frame has a number that was given, and a request in it is that of the
\* number and of this connection.
Genuine(messages, f) ==
    f.holds.kind = "request" => f.holds = messages[f.seq] /\ Current(messages, f.seq)

FramesNumbered ==
    /\ \A k \in DOMAIN wire : wire[k].seq \in DOMAIN sent
    /\ \A f \in venue.queue : f.seq \in DOMAIN sent

FramesGenuine ==
    /\ \A k \in DOMAIN wire : Genuine(sent, wire[k])
    /\ \A f \in venue.queue : Genuine(sent, f)

Apart(messages) ==
    \A i, j \in DOMAIN messages :
        Current(messages, i) /\ Current(messages, j) /\ i # j =>
            messages[i].request.symbols \cap messages[j].request.symbols = {}

GrantedCurrent ==
    \A k \in DOMAIN venue.granted : \E j \in DOMAIN sent :
        j < venue.expected /\ Current(sent, j) /\ venue.granted[k] = sent[j].request

ResetLeavesNoGap == settings.reset => resend.from > resend.to

TypeInv == TypeOK /\ FramesNumbered

OnceInv == /\ TypeInv /\ ResetLeavesNoGap
           /\ FramesGenuine /\ Apart(sent) /\ GrantedCurrent /\ SubscribedOnce

-----------------------------------------------------------------------------
(***************************************************************************)
(* Requests and frames.                                                    *)
(***************************************************************************)

LEMMA RequestsWell ==
    ASSUME NEW s \in Settings, s.version \in Supported
    PROVE  /\ Requests(s) \in Seq(Request)
           /\ SymbolsOnce =>
                \A k, l \in DOMAIN Requests(s) :
                    k # l => Requests(s)[k].symbols \cap Requests(s)[l].symbols = {}
<1> DEFINE named == Named[Len(Lines)]
<1>1. named \in Seq(Symbols) /\ (SymbolsOnce => \A k, l \in DOMAIN named : named[k] = named[l] => k = l)
    BY NamedIsWell DEF NamedWell
<1> HIDE DEF named
<1>2. CASE s.individual
    <2>1. Requests(s) = [k \in DOMAIN named |-> Single(s.version, named[k])]
        BY <1>2 DEF Requests, named
    <2>2. DOMAIN named = 1..Len(named) /\ Len(named) \in Nat /\ \A k \in DOMAIN named : named[k] \in Symbols
        BY <1>1
    <2>3. Dialect[s.version].security \in BOOLEAN
        BY DEF Dialect, Supported, Fix42, Fix43, Fix44, Fix50, Fix50SP2
    <2>4. \A k \in DOMAIN named : Single(s.version, named[k]) \in Request
        BY <2>2, <2>3 DEF Single, Request
    <2>5. Requests(s) \in Seq(Request)
        BY <2>1, <2>2, <2>4
    <2>6. \A k \in DOMAIN named : Requests(s)[k].symbols = {named[k]}
        BY <2>1 DEF Single
    <2>7. DOMAIN Requests(s) = DOMAIN named
        BY <2>1
    <2>. QED BY <1>1, <2>5, <2>6, <2>7
<1>3. CASE ~s.individual
    <2>1. Requests(s) = <<Combined(Lines)>>
        BY <1>3 DEF Requests
    <2>2. Combined(Lines) \in Request
        BY DEF Combined, Request, Symbols
    <2>. QED BY <2>1, <2>2
<1>. QED BY <1>2, <1>3

Sendable(messages, first, last) ==
    \A m \in first..last : messages[m] \in Sent \cup {[kind |-> "fill"]}

\* The frames carry the messages of their numbers.
Carry(frames, messages, first, last) ==
    \A k \in DOMAIN frames :
        frames[k].seq \in first..last /\ frames[k].holds = messages[frames[k].seq]

LEMMA FramesWell ==
    ASSUME NEW messages, NEW first \in Nat \ {0}, NEW last \in Nat,
           Sendable(messages, first, last)
    PROVE  /\ Frames(messages, first, last) \in Seq(Frame)
           /\ Carry(Frames(messages, first, last), messages, first, last)
<1> DEFINE fs == Frames(messages, first, last)
           n == IF first <= last THEN last - first + 1 ELSE 0
<1>1. n \in Nat /\ 1..(last - first + 1) = 1..n
    OBVIOUS
<1>2. fs = [k \in 1..n |-> [seq |-> first + k - 1, holds |-> messages[first + k - 1]]]
    BY <1>1 DEF Frames
<1>3. \A k \in 1..n : first + k - 1 \in first..last
    OBVIOUS
<1> HIDE DEF n, fs
<1>4. \A k \in 1..n : fs[k] \in Frame
    BY <1>2, <1>3 DEF Frame, Sendable
<1>5. fs \in Seq(Frame) /\ DOMAIN fs = 1..n
    <2>1. fs \in [1..n -> Frame]
        BY <1>2, <1>4
    <2>. QED BY <1>1, <2>1
<1>6. \A k \in DOMAIN fs : fs[k].seq \in first..last /\ fs[k].holds = messages[fs[k].seq]
    BY <1>2, <1>3, <1>5
<1>. QED BY <1>5, <1>6 DEF fs, Carry

\* What is sent with a logon: the logon and the requests, behind what there was.
Logged(before, requests) ==
    before \o <<[kind |-> "logon"]>> \o [k \in DOMAIN requests |-> [kind |-> "request", request |-> requests[k]]]

LEMMA LoggedWell ==
    ASSUME NEW before \in Seq(Sent), NEW requests \in Seq(Request)
    PROVE  LET after == Logged(before, requests)
               number == Len(before) + 1
           IN  /\ after \in Seq(Sent) /\ number \in Nat \ {0}
               /\ Len(after) = number + Len(requests) /\ Len(after) \in Nat
               /\ after[number] = [kind |-> "logon"]
               /\ \A j \in (number + 1)..Len(after) :
                     /\ j - number \in DOMAIN requests
                     /\ after[j] = [kind |-> "request", request |-> requests[j - number]]
<1> DEFINE asked == [k \in DOMAIN requests |-> [kind |-> "request", request |-> requests[k]]]
           logon == <<[kind |-> "logon"]>>
<1>1. DOMAIN requests = 1..Len(requests) /\ Len(requests) \in Nat /\ \A k \in DOMAIN requests : requests[k] \in Request
    OBVIOUS
<1>2. asked \in Seq(Sent) /\ Len(asked) = Len(requests)
    BY <1>1 DEF Sent
<1>3. logon \in Seq(Sent) /\ Len(logon) = 1 /\ logon[1] = [kind |-> "logon"]
    BY DEF Sent
<1>4. \A k \in DOMAIN requests : asked[k] = [kind |-> "request", request |-> requests[k]]
    OBVIOUS
<1> HIDE DEF asked, logon
<1> DEFINE start == before \o logon
<1>5. /\ start \in Seq(Sent) /\ Len(start) = Len(before) + 1 /\ Len(before) \in Nat
      /\ start[Len(before) + 1] = [kind |-> "logon"]
    <2>1. /\ start \in Seq(Sent) /\ Len(start) = Len(before) + Len(logon)
          /\ \A j \in 1..(Len(before) + Len(logon)) :
                start[j] = IF j <= Len(before) THEN before[j] ELSE logon[j - Len(before)]
        BY <1>3, ConcatProperties
    <2>2. Len(before) \in Nat
        OBVIOUS
    <2> HIDE DEF start
    <2>3. Len(before) + 1 \in 1..(Len(before) + Len(logon)) /\ ~(Len(before) + 1 <= Len(before))
          /\ (Len(before) + 1) - Len(before) = 1
        BY <2>2, <1>3
    <2>. QED BY <2>1, <2>2, <2>3, <1>3
<1> HIDE DEF start
<1>6. /\ start \o asked \in Seq(Sent) /\ Len(start \o asked) = Len(start) + Len(asked)
      /\ \A j \in 1..(Len(start) + Len(asked)) :
            (start \o asked)[j] = IF j <= Len(start) THEN start[j] ELSE asked[j - Len(start)]
    <2>1. start \in Seq(Sent) /\ asked \in Seq(Sent)
        BY <1>2, <1>5
    <2>. QED BY <2>1, ConcatProperties
<1>7. Logged(before, requests) = start \o asked
    BY DEF Logged, start, logon, asked
<1> DEFINE number == Len(before) + 1
           after == start \o asked
<1>8. /\ number \in Nat \ {0} /\ Len(after) = number + Len(requests) /\ Len(after) \in Nat
    BY <1>1, <1>2, <1>5, <1>6
<1>9. after[number] = [kind |-> "logon"]
    BY <1>1, <1>2, <1>5, <1>6
<1>10. \A j \in (number + 1)..Len(after) :
        j \in 1..(Len(start) + Len(asked)) /\ ~(j <= Len(start)) /\ j - number \in DOMAIN requests
    BY <1>1, <1>2, <1>5, <1>8
<1>11. \A j \in (number + 1)..Len(after) : after[j] = asked[j - number]
    BY <1>5, <1>6, <1>10
<1>. QED BY <1>4, <1>6, <1>7, <1>8, <1>9, <1>10, <1>11

\* In what a logon leaves behind, the current requests are those it made.
LEMMA LoggedCurrent ==
    ASSUME NEW before \in Seq(Sent), NEW requests \in Seq(Request),
           NEW j \in DOMAIN Logged(before, requests)
    PROVE  Current(Logged(before, requests), j) <=> j > Len(before) + 1
<1> DEFINE after == Logged(before, requests)
           number == Len(before) + 1
<1>1. /\ after \in Seq(Sent) /\ number \in Nat \ {0}
      /\ Len(after) = number + Len(requests) /\ Len(after) \in Nat /\ Len(requests) \in Nat
      /\ after[number] = [kind |-> "logon"]
      /\ \A m \in (number + 1)..Len(after) :
            after[m] = [kind |-> "request", request |-> requests[m - number]]
    BY LoggedWell, SMTT(30)
<1> HIDE DEF after, number
<1>2. DOMAIN after = 1..Len(after) /\ j \in 1..Len(after) /\ number \in DOMAIN after
    BY <1>1 DEF after
<1>3. CASE j > number
    <2>1. \A m \in 1..Len(after) : m >= j => m \in (number + 1)..Len(after)
        BY <1>1, <1>2, <1>3
    <2>2. ASSUME NEW m \in 1..Len(after), m >= j
          PROVE  after[m].kind = "request"
        <3>1. m \in (number + 1)..Len(after)
            BY <2>1, <2>2
        <3>2. after[m] = [kind |-> "request", request |-> requests[m - number]]
            BY <1>1, <3>1
        <3>. QED BY <3>2
    <2>3. j >= j /\ \A m \in 1..Len(after) : m > j => m >= j
        BY <1>2
    <2>4. Current(after, j)
        BY <1>2, <2>2, <2>3 DEF Current
    <2>. QED BY <1>3, <2>4 DEF after, number
<1>4. CASE j < number
    BY <1>1, <1>2, <1>4, SMTT(30) DEF Current, after, number
<1>5. CASE j = number
    BY <1>1, <1>2, <1>5 DEF Current, after, number
<1>. QED BY <1>1, <1>2, <1>3, <1>4, <1>5 DEF number

-----------------------------------------------------------------------------
(***************************************************************************)
(* Types.                                                                  *)
(***************************************************************************)

LEMMA TypeInvInit == Init => TypeInv
    BY SessionAssumption DEF Init, TypeInv, TypeOK, FramesNumbered, Nothing

\* What a logon sends, keeps its type.
LEMMA LogonTyped ==
    ASSUME TypeInv, Logon
    PROVE  TypeInv'
<1> USE DEF TypeInv, TypeOK, FramesNumbered
<1>1. CASE settings.version \notin Supported
    <2>1. /\ status' = "aborted" /\ logons < MaxLogons /\ logons' = logons + 1
          /\ UNCHANGED <<settings, link, sent, wire, resend, venue, said>>
        BY <1>1 DEF Logon
    <2>2. logons' \in 0..MaxLogons
        BY <2>1, SessionAssumption
    <2>. QED BY <2>1, <2>2
<1>2. CASE settings.version \in Supported
    <2> DEFINE before == IF ResetsNumbers THEN <<>> ELSE sent
               number == Len(before) + 1
               expected == IF ResetsNumbers THEN 1 ELSE venue.expected
               requests == Requests(settings)
               after == Logged(before, requests)
               venueAfter == [expected |-> IF number = expected THEN number + 1 ELSE expected,
                              queue |-> IF number = expected THEN {}
                                        ELSE {[seq |-> number, holds |-> [kind |-> "logon"]]},
                              granted |-> <<>>]
    <2>1. /\ link' = "up" /\ sent' = after
          /\ wire' = Frames(after, number + 1, Len(after))
          /\ resend' = [from |-> expected, to |-> number - 1]
          /\ venue' = venueAfter
          /\ logons < MaxLogons /\ logons' = logons + 1
          /\ UNCHANGED <<settings, status, said>>
        BY <1>2 DEF Logon, Logged
    <2>2. before \in Seq(Sent) /\ requests \in Seq(Request) /\ expected \in 1..number
        <3>1. <<>> \in Seq(Sent) /\ Len(<<>>) = 0
            OBVIOUS
        <3>2. requests \in Seq(Request)
            BY <1>2, RequestsWell
        <3>3. sent \in Seq(Sent) /\ venue.expected \in 1..(Len(sent) + 1)
            OBVIOUS
        <3>. QED BY <3>1, <3>2, <3>3
    <2> HIDE DEF before, requests, expected
    <2>3. /\ after \in Seq(Sent) /\ number \in Nat \ {0}
          /\ Len(after) = number + Len(requests) /\ Len(after) \in Nat /\ Len(requests) \in Nat
        BY <2>2, LoggedWell
    <2> HIDE DEF after, number
    <2>4. \A m \in (number + 1)..Len(after) : m \in DOMAIN after /\ after[m] \in Sent \cup {[kind |-> "fill"]}
        BY <2>3
    <2>5. /\ Frames(after, number + 1, Len(after)) \in Seq(Frame)
          /\ \A k \in DOMAIN Frames(after, number + 1, Len(after)) :
                Frames(after, number + 1, Len(after))[k].seq \in (number + 1)..Len(after)
        <3>1. number + 1 \in Nat \ {0}
            BY <2>3
        <3>2. Sendable(after, number + 1, Len(after))
            BY <2>4 DEF Sendable
        <3>. QED BY <2>3, <3>1, <3>2, FramesWell DEF Carry
    <2>6. \A k \in DOMAIN wire' : wire'[k].seq \in DOMAIN sent'
        BY <2>1, <2>4, <2>5
    <2>7. [seq |-> number, holds |-> [kind |-> "logon"]] \in Frame /\ number \in DOMAIN after
        BY <2>3 DEF Frame, Sent
    <2>8. venueAfter \in [expected : 1..(Len(after) + 1), queue : SUBSET Frame, granted : Seq(Request)]
        BY <2>2, <2>3, <2>7, SMTT(30)
    <2>9. \A f \in venueAfter.queue : f.seq \in DOMAIN after
        BY <2>7
    <2>10. [from |-> expected, to |-> number - 1] \in [from : Nat \ {0}, to : 0..Len(after)]
        BY <2>2, <2>3
    <2>11. logons' \in 0..MaxLogons
        BY <2>1, SessionAssumption
    <2> HIDE DEF venueAfter
    <2>. QED BY <2>1, <2>3, <2>5, <2>6, <2>8, <2>9, <2>10, <2>11
<1>. QED BY <1>1, <1>2

\* What is sent again.
Replies(m) == IF settings.persist /\ sent[m].kind # "logon" /\ Sends(Again)
              THEN sent[m] ELSE [kind |-> "fill"]

LEMMA ResendWell ==
    ASSUME TypeInv, Resend
    PROVE  \E fs \in Seq(Frame) :
             /\ wire' = wire \o fs
             /\ \A k \in DOMAIN fs : fs[k].seq \in DOMAIN sent /\ fs[k].holds = Replies(fs[k].seq)
<1> PICK again : again = [m \in DOMAIN sent |-> Replies(m)]
    OBVIOUS
<1> PICK first, last : first = resend.from /\ last = resend.to
    OBVIOUS
<1> DEFINE fs == Frames(again, first, last)
<1>1. wire' = wire \o fs
    BY DEF Resend, Replies
<1>2. first \in Nat \ {0} /\ last \in Nat /\ \A m \in first..last : m \in DOMAIN sent
    BY DEF TypeInv, TypeOK
<1>3. \A m \in DOMAIN sent : sent[m] \in Sent
    BY DEF TypeInv, TypeOK
<1>4. \A m \in DOMAIN sent : again[m] = Replies(m) /\ again[m] \in Sent \cup {[kind |-> "fill"]}
    BY <1>3 DEF Replies
<1>5. /\ fs \in Seq(Frame)
      /\ \A k \in DOMAIN fs : fs[k].seq \in first..last /\ fs[k].holds = again[fs[k].seq]
    <2>1. Sendable(again, first, last)
        BY <1>2, <1>4 DEF Sendable
    <2>. QED BY <1>2, <2>1, FramesWell DEF Carry
<1> HIDE DEF fs
<1>6. \A k \in DOMAIN fs : fs[k].seq \in DOMAIN sent /\ fs[k].holds = Replies(fs[k].seq)
    BY <1>2, <1>4, <1>5
<1>. QED BY <1>1, <1>5, <1>6

LEMMA TypeInvStep == TypeInv /\ [Next]_vars => TypeInv'
<1> SUFFICES ASSUME TypeInv, [Next]_vars PROVE TypeInv'
    OBVIOUS
<1> USE DEF TypeInv, TypeOK, FramesNumbered
<1>1. CASE Start
    BY <1>1 DEF Start
<1>2. CASE Logon
    BY <1>2, LogonTyped
<1>3. CASE Resend
    <2>1. PICK fs \in Seq(Frame) :
            wire' = wire \o fs /\ \A k \in DOMAIN fs : fs[k].seq \in DOMAIN sent
        BY <1>3, ResendWell
    <2>2. wire \in Seq(Frame)
        OBVIOUS
    <2>3. /\ wire' \in Seq(Frame)
          /\ \A k \in DOMAIN wire' : wire'[k].seq \in DOMAIN sent
        <3>1. /\ wire' \in Seq(Frame) /\ Len(wire') = Len(wire) + Len(fs)
              /\ \A k \in 1..(Len(wire) + Len(fs)) :
                    wire'[k] = IF k <= Len(wire) THEN wire[k] ELSE fs[k - Len(wire)]
            BY <2>1, <2>2, ConcatProperties
        <3>2. Len(wire) \in Nat /\ Len(fs) \in Nat /\ DOMAIN wire = 1..Len(wire) /\ DOMAIN fs = 1..Len(fs)
            BY <2>2
        <3>3. ASSUME NEW k \in DOMAIN wire' PROVE wire'[k].seq \in DOMAIN sent
            <4>1. k \in 1..(Len(wire) + Len(fs))
                BY <3>1, <3>2
            <4>2. CASE k <= Len(wire)
                BY <4>1, <4>2, <3>1, <3>2
            <4>3. CASE ~(k <= Len(wire))
                <5>1. k - Len(wire) \in DOMAIN fs
                    BY <4>1, <4>3, <3>2
                <5>. QED BY <4>1, <4>3, <5>1, <3>1, <2>1
            <4>. QED BY <4>2, <4>3
        <3>. QED BY <3>1, <3>3
    <2>4. resend' = Nothing /\ UNCHANGED <<settings, status, link, sent, venue, logons, said>>
        BY <1>3 DEF Resend
    <2>5. resend' \in [from : Nat \ {0}, to : 0..Len(sent)]
        BY <2>4 DEF Nothing
    <2>. QED BY <2>3, <2>4, <2>5
<1>4. CASE Break
    <2>1. /\ link' = "down" /\ wire' = <<>> /\ resend' = Nothing
          /\ venue' = [venue EXCEPT !.queue = {}, !.granted = <<>>]
          /\ UNCHANGED <<settings, status, sent, logons, said>>
        BY <1>4 DEF Break
    <2>2. <<>> \in Seq(Frame) /\ <<>> \in Seq(Request) /\ DOMAIN <<>> = {}
        OBVIOUS
    <2>3. venue' \in [expected : 1..(Len(sent) + 1), queue : SUBSET Frame, granted : Seq(Request)]
        BY <2>1, <2>2
    <2>4. venue'.queue = {}
        BY <2>1
    <2>5. resend' \in [from : Nat \ {0}, to : 0..Len(sent)]
        BY <2>1 DEF Nothing
    <2>. QED BY <2>1, <2>2, <2>3, <2>4, <2>5
<1>5. CASE Receive
    <2>1. wire \in Seq(Frame) /\ wire # <<>>
        BY <1>5 DEF Receive
    <2>2. /\ Head(wire) = wire[1] /\ 1 \in DOMAIN wire /\ Head(wire) \in Frame
          /\ wire' \in Seq(Frame) /\ \A k \in DOMAIN wire' : wire'[k] = wire[k + 1] /\ k + 1 \in DOMAIN wire
        BY <2>1, <1>5 DEF Receive
    <2>3. /\ venue' = [venue EXCEPT !.queue = @ \cup {f \in {Head(wire)} : f.seq >= venue.expected}]
          /\ UNCHANGED <<settings, status, link, sent, resend, logons, said>>
        BY <1>5 DEF Receive
    <2>4. venue'.queue \subseteq venue.queue \cup {Head(wire)} /\ venue'.queue \subseteq Frame
        BY <2>2, <2>3
    <2>5. venue' \in [expected : 1..(Len(sent) + 1), queue : SUBSET Frame, granted : Seq(Request)]
        BY <2>3, <2>4
    <2>6. \A f \in venue'.queue : f.seq \in DOMAIN sent
        BY <2>2, <2>4
    <2>7. \A k \in DOMAIN wire' : wire'[k].seq \in DOMAIN sent
        BY <2>2
    <2>. QED BY <2>2, <2>3, <2>5, <2>6, <2>7
<1>6. CASE Process
    <2>1. PICK f \in venue.queue :
            /\ f.seq = venue.expected
            /\ venue' = [expected |-> f.seq + 1,
                         queue |-> {g \in venue.queue : g.seq > f.seq},
                         granted |-> IF f.holds.kind = "request"
                                     THEN Append(venue.granted, f.holds.request) ELSE venue.granted]
        BY <1>6 DEF Process
    <2>2. UNCHANGED <<settings, status, link, sent, wire, resend, logons, said>>
        BY <1>6 DEF Process
    <2>3. f \in Frame /\ f.seq \in DOMAIN sent
        OBVIOUS
    <2>4. f.holds.kind = "request" => f.holds.request \in Request
        BY <2>3 DEF Frame, Sent
    <2>5. venue'.granted \in Seq(Request)
        BY <2>1, <2>4
    <2>6. f.seq + 1 \in 1..(Len(sent) + 1)
        BY <2>3
    <2>. QED BY <2>1, <2>2, <2>5, <2>6
<1>7. ASSUME NEW kind \in {"reject", "status"}, VenueSays(kind) PROVE TypeInv'
    <2>1. said' \in 0..MaxSaid
        BY <1>7, SessionAssumption DEF VenueSays
    <2>2. CASE UNCHANGED <<sent, wire>>
        BY <1>7, <2>1, <2>2 DEF VenueSays
    <2>3. CASE /\ sent' = Append(sent, [kind |-> "refusal"])
               /\ wire' = Append(wire, [seq |-> Len(sent'), holds |-> [kind |-> "refusal"]])
        <3>1. sent' \in Seq(Sent) /\ Len(sent') = Len(sent) + 1 /\ Len(sent) \in Nat
            BY <2>3 DEF Sent
        <3>2. [seq |-> Len(sent'), holds |-> [kind |-> "refusal"]] \in Frame
            BY <3>1 DEF Frame, Sent
        <3>3. /\ DOMAIN sent = 1..Len(sent) /\ DOMAIN sent' = 1..Len(sent')
              /\ DOMAIN sent \subseteq DOMAIN sent' /\ Len(sent') \in DOMAIN sent'
            BY <3>1
        <3>4. wire' \in Seq(Frame) /\ \A k \in DOMAIN wire' : wire'[k].seq \in DOMAIN sent'
            BY <2>3, <3>2, <3>3
        <3>5. UNCHANGED <<settings, status, link, resend, venue, logons>>
            BY <1>7 DEF VenueSays
        <3>6. resend \in [from : Nat \ {0}, to : 0..Len(sent')]
            BY <3>1
        <3>7. venue \in [expected : 1..(Len(sent') + 1), queue : SUBSET Frame, granted : Seq(Request)]
            BY <3>1
        <3>. QED BY <2>1, <3>1, <3>3, <3>4, <3>5, <3>6, <3>7
    <2>. QED BY <1>7, <2>2, <2>3 DEF VenueSays
<1>8. CASE UNCHANGED vars
    BY <1>8 DEF vars
<1>. QED BY <1>1, <1>2, <1>3, <1>4, <1>5, <1>6, <1>7, <1>8 DEF Next

LEMMA TypeInvAlways == Spec => []TypeInv
    BY TypeInvInit, TypeInvStep, PTL DEF Spec

\* Every variable keeps its type: the venue never expects a number past the
\* next one, and only symbols of the file are asked for.
THEOREM SessionTypeCorrect == Spec => []TypeOK
    BY TypeInvAlways, PTL DEF TypeInv

-----------------------------------------------------------------------------
(***************************************************************************)
(* One subscription to a symbol.                                           *)
(***************************************************************************)

\* What was sent with one more message that is neither a request nor a logon.
Longer(messages, longer) == longer = Append(messages, [kind |-> "refusal"])

LEMMA CurrentKept ==
    ASSUME NEW messages \in Seq(Sent), NEW longer, Longer(messages, longer)
    PROVE  /\ DOMAIN messages \subseteq DOMAIN longer
           /\ \A j \in DOMAIN messages :
                longer[j] = messages[j] /\ (Current(messages, j) <=> Current(longer, j))
           /\ \A j \in DOMAIN longer : Current(longer, j) => j \in DOMAIN messages
           /\ longer[Len(longer)].kind = "refusal"
<1>1. /\ Len(messages) \in Nat /\ DOMAIN messages = 1..Len(messages)
      /\ Len(longer) = Len(messages) + 1 /\ DOMAIN longer = 1..(Len(messages) + 1)
      /\ \A j \in 1..Len(messages) : longer[j] = messages[j]
      /\ longer[Len(messages) + 1] = [kind |-> "refusal"]
    BY DEF Longer
<1>2. \A j \in DOMAIN messages : Current(messages, j) <=> Current(longer, j)
    BY <1>1 DEF Current
<1>3. \A j \in DOMAIN longer : Current(longer, j) => j \in DOMAIN messages
    BY <1>1 DEF Current
<1>. QED BY <1>1, <1>2, <1>3

LEMMA OnceInvInit == Init => OnceInv
<1> SUFFICES ASSUME Init PROVE OnceInv
    OBVIOUS
<1>1. /\ wire = <<>> /\ sent = <<>> /\ venue = [expected |-> 1, queue |-> {}, granted |-> <<>>]
      /\ resend = Nothing
    BY DEF Init
<1>2. DOMAIN <<>> = {}
    OBVIOUS
<1>. QED BY <1>1, <1>2, TypeInvInit
     DEF OnceInv, ResetLeavesNoGap, Nothing, FramesGenuine, Apart, GrantedCurrent, SubscribedOnce

LEMMA LogonOnce ==
    ASSUME SymbolsOnce, OnceInv, Logon, TypeInv'
    PROVE  OnceInv'
<1> USE DEF OnceInv
<1>1. CASE settings.version \notin Supported
    <2>1. UNCHANGED <<settings, sent, wire, resend, venue>>
        BY <1>1 DEF Logon
    <2>. QED BY <2>1 DEF ResetLeavesNoGap, FramesGenuine, Genuine, GrantedCurrent, SubscribedOnce
<1>2. CASE settings.version \in Supported
    <2> DEFINE before == IF ResetsNumbers THEN <<>> ELSE sent
               number == Len(before) + 1
               expected == IF ResetsNumbers THEN 1 ELSE venue.expected
               requests == Requests(settings)
               after == Logged(before, requests)
    <2>1. /\ sent' = after
          /\ wire' = Frames(after, number + 1, Len(after))
          /\ resend' = [from |-> expected, to |-> number - 1]
          /\ venue' = [expected |-> IF number = expected THEN number + 1 ELSE expected,
                       queue |-> IF number = expected THEN {}
                                 ELSE {[seq |-> number, holds |-> [kind |-> "logon"]]},
                       granted |-> <<>>]
          /\ UNCHANGED settings
        BY <1>2 DEF Logon, Logged
    <2>2. before \in Seq(Sent) /\ requests \in Seq(Request)
        <3>1. <<>> \in Seq(Sent)
            OBVIOUS
        <3>2. requests \in Seq(Request)
            BY <1>2, RequestsWell DEF TypeInv, TypeOK
        <3>. QED BY <3>1, <3>2 DEF TypeInv, TypeOK
    <2>3. ResetLeavesNoGap'
        <3>1. settings.reset => number = 1 /\ expected = 1
            BY DEF ResetsNumbers
        <3>. QED BY <2>1, <3>1 DEF ResetLeavesNoGap
    <2>4. \A k, l \in DOMAIN requests : k # l => requests[k].symbols \cap requests[l].symbols = {}
        BY <1>2, RequestsWell DEF TypeInv, TypeOK
    <2> HIDE DEF before, requests, expected
    <2>5. /\ after \in Seq(Sent) /\ number \in Nat \ {0}
          /\ Len(after) = number + Len(requests) /\ Len(after) \in Nat /\ Len(requests) \in Nat
          /\ \A j \in (number + 1)..Len(after) :
                /\ j - number \in DOMAIN requests
                /\ after[j] = [kind |-> "request", request |-> requests[j - number]]
        BY <2>2, LoggedWell
    <2>6. \A j \in DOMAIN after : Current(after, j) <=> j > number
        BY <2>2, LoggedCurrent
    <2> HIDE DEF after, number
    <2>7. Apart(after)
        <3> SUFFICES ASSUME NEW i \in DOMAIN after, NEW j \in DOMAIN after,
                            Current(after, i), Current(after, j), i # j
                     PROVE  after[i].request.symbols \cap after[j].request.symbols = {}
            BY DEF Apart
        <3>1. i \in (number + 1)..Len(after) /\ j \in (number + 1)..Len(after)
            BY <2>5, <2>6
        <3>2. /\ i - number \in DOMAIN requests /\ j - number \in DOMAIN requests
              /\ i - number # j - number
              /\ after[i].request = requests[i - number] /\ after[j].request = requests[j - number]
            <4>1. \A m \in (number + 1)..Len(after) :
                    m \in Int /\ m - number \in DOMAIN requests /\ after[m].request = requests[m - number]
                <5> SUFFICES ASSUME NEW m \in (number + 1)..Len(after)
                             PROVE  /\ m \in Int /\ m - number \in DOMAIN requests
                                    /\ after[m].request = requests[m - number]
                    OBVIOUS
                <5>1. /\ m - number \in DOMAIN requests
                      /\ after[m] = [kind |-> "request", request |-> requests[m - number]]
                    BY <2>5
                <5>. QED BY <5>1
            <4>2. i - number # j - number
                BY <3>1, <2>5
            <4>. QED BY <3>1, <4>1, <4>2
        <3>. QED BY <3>2, <2>4
    <2>8. FramesGenuine'
        <3>1. \A k \in DOMAIN wire' : Genuine(after, wire'[k])
            <4>1. Sendable(after, number + 1, Len(after)) /\ number + 1 \in Nat \ {0}
                BY <2>5 DEF Sendable
            <4>2. ASSUME NEW k \in DOMAIN wire'
                  PROVE  wire'[k].seq \in (number + 1)..Len(after) /\ wire'[k].holds = after[wire'[k].seq]
                <5>1. Carry(Frames(after, number + 1, Len(after)), after, number + 1, Len(after))
                    BY <4>1, <2>5, FramesWell
                <5>2. Carry(wire', after, number + 1, Len(after))
                    BY <2>1, <5>1
                <5>. QED BY <4>2, <5>2 DEF Carry
            <4>3. \A j \in (number + 1)..Len(after) : j \in DOMAIN after /\ j > number
                BY <2>5
            <4>. QED BY <4>2, <4>3, <2>6 DEF Genuine
        <3>2. \A f \in venue'.queue : f.holds.kind # "request"
            BY <2>1
        <3>. QED BY <3>1, <3>2, <2>1 DEF FramesGenuine, Genuine
    <2>9. GrantedCurrent' /\ SubscribedOnce'
        <3>1. venue'.granted = <<>> /\ DOMAIN <<>> = {}
            BY <2>1
        <3>. QED BY <3>1 DEF GrantedCurrent, SubscribedOnce
    <2>. QED BY <2>1, <2>3, <2>7, <2>8, <2>9
<1>. QED BY <1>1, <1>2

LEMMA ResendOnce ==
    ASSUME SendsOnce, OnceInv, Resend, TypeInv'
    PROVE  OnceInv'
<1> USE DEF OnceInv
<1>1. UNCHANGED <<settings, sent, venue>> /\ resend' = Nothing /\ resend.from <= resend.to
    BY DEF Resend
<1>2. PICK fs \in Seq(Frame) :
        /\ wire' = wire \o fs
        /\ \A k \in DOMAIN fs : fs[k].seq \in DOMAIN sent /\ fs[k].holds = Replies(fs[k].seq)
    BY ResendWell
<1>3. ~settings.persist
    BY <1>1 DEF SendsOnce, ResetLeavesNoGap, TypeInv, TypeOK
<1>4. \A k \in DOMAIN fs : Genuine(sent, fs[k])
    BY <1>2, <1>3 DEF Genuine, Replies
<1>5. \A k \in DOMAIN wire' : Genuine(sent, wire'[k])
    <2>1. wire \in Seq(Frame)
        BY DEF TypeInv, TypeOK
    <2>2. /\ Len(wire') = Len(wire) + Len(fs)
          /\ \A k \in 1..(Len(wire) + Len(fs)) :
                wire'[k] = IF k <= Len(wire) THEN wire[k] ELSE fs[k - Len(wire)]
          /\ wire' \in Seq(Frame)
        BY <1>2, <2>1, ConcatProperties
    <2>3. /\ Len(wire) \in Nat /\ Len(fs) \in Nat /\ DOMAIN wire = 1..Len(wire) /\ DOMAIN fs = 1..Len(fs)
          /\ DOMAIN wire' = 1..Len(wire')
        BY <2>1, <2>2
    <2> SUFFICES ASSUME NEW k \in DOMAIN wire' PROVE Genuine(sent, wire'[k])
        OBVIOUS
    <2>4. k \in 1..(Len(wire) + Len(fs))
        BY <2>2, <2>3
    <2>5. CASE k <= Len(wire)
        BY <2>2, <2>3, <2>4, <2>5 DEF FramesGenuine
    <2>6. CASE ~(k <= Len(wire))
        <3>1. k - Len(wire) \in DOMAIN fs
            BY <2>3, <2>4, <2>6
        <3>. QED BY <1>4, <2>2, <2>4, <2>6, <3>1
    <2>. QED BY <2>5, <2>6
<1>6. FramesGenuine'
    BY <1>1, <1>5 DEF FramesGenuine
<1>7. ResetLeavesNoGap'
    BY <1>1 DEF ResetLeavesNoGap, Nothing
<1>. QED BY <1>1, <1>6, <1>7 DEF GrantedCurrent, SubscribedOnce

LEMMA ProcessOnce ==
    ASSUME OnceInv, Process, TypeInv'
    PROVE  OnceInv'
<1> USE DEF OnceInv
<1>1. PICK f \in venue.queue :
        /\ f.seq = venue.expected
        /\ venue' = [expected |-> f.seq + 1,
                     queue |-> {g \in venue.queue : g.seq > f.seq},
                     granted |-> IF f.holds.kind = "request"
                                 THEN Append(venue.granted, f.holds.request) ELSE venue.granted]
    BY DEF Process
<1>2. UNCHANGED <<settings, sent, wire, resend>>
    BY DEF Process
<1>4. sent \in Seq(Sent) /\ \A j \in DOMAIN sent : j \in Nat
    <2>1. sent \in Seq(Sent)
        BY DEF TypeInv, TypeOK
    <2>. QED BY <2>1
<1>3. Genuine(sent, f) /\ f.seq \in DOMAIN sent /\ f.seq \in Nat
    <2>1. Genuine(sent, f) /\ f.seq \in DOMAIN sent
        BY DEF FramesGenuine, TypeInv, FramesNumbered
    <2>. QED BY <1>4, <2>1
<1>5. FramesGenuine'
    BY <1>1, <1>2 DEF FramesGenuine
<1>6. CASE f.holds.kind # "request"
    <2>1. venue'.granted = venue.granted /\ venue'.expected = f.seq + 1
        BY <1>1, <1>6
    <2>2. \A j \in DOMAIN sent : j < venue.expected => j < venue'.expected
        BY <1>1, <1>3, <1>4, <2>1
    <2>3. GrantedCurrent'
        BY <1>2, <2>1, <2>2 DEF GrantedCurrent
    <2>. QED BY <1>2, <1>5, <2>1, <2>3 DEF ResetLeavesNoGap, SubscribedOnce
<1>7. CASE f.holds.kind = "request"
    <2> DEFINE granted == venue.granted
               request == f.holds.request
    <2>1. /\ venue'.granted = Append(granted, request) /\ venue'.expected = f.seq + 1
          /\ f.holds = sent[f.seq] /\ Current(sent, f.seq) /\ request = sent[f.seq].request
        BY <1>1, <1>3, <1>7 DEF Genuine
    <2>2. granted \in Seq(Request)
        BY DEF TypeInv, TypeOK
    <2>3. /\ DOMAIN granted = 1..Len(granted) /\ Len(granted) \in Nat
          /\ DOMAIN venue'.granted = 1..(Len(granted) + 1)
          /\ \A k \in DOMAIN granted : venue'.granted[k] = granted[k]
          /\ venue'.granted[Len(granted) + 1] = request
        BY <2>1, <2>2
    <2> HIDE DEF request
    <2>4. GrantedCurrent'
        <3>1. ASSUME NEW k \in DOMAIN granted
              PROVE  \E j \in DOMAIN sent :
                        j < f.seq + 1 /\ Current(sent, j) /\ venue'.granted[k] = sent[j].request
            <4>1. PICK j \in DOMAIN sent :
                    j < venue.expected /\ Current(sent, j) /\ granted[k] = sent[j].request
                BY DEF GrantedCurrent
            <4>2. j < f.seq + 1
                BY <1>1, <1>3, <1>4, <4>1
            <4>. QED BY <2>3, <4>1, <4>2
        <3>2. f.seq < f.seq + 1
            BY <1>3
        <3>3. ASSUME NEW k \in DOMAIN venue'.granted
              PROVE  \E j \in DOMAIN sent :
                        j < f.seq + 1 /\ Current(sent, j) /\ venue'.granted[k] = sent[j].request
            <4>1. CASE k \in DOMAIN granted
                BY <3>1, <4>1
            <4>2. CASE k = Len(granted) + 1
                BY <1>3, <2>1, <2>3, <3>2, <4>2
            <4>. QED BY <2>3, <4>1, <4>2
        <3>. QED BY <1>2, <2>1, <3>3 DEF GrantedCurrent
    <2>5. \A k \in DOMAIN granted : granted[k].symbols \cap request.symbols = {}
        <3> SUFFICES ASSUME NEW k \in DOMAIN granted
                     PROVE  granted[k].symbols \cap request.symbols = {}
            OBVIOUS
        <3>1. PICK j \in DOMAIN sent :
                j < venue.expected /\ Current(sent, j) /\ granted[k] = sent[j].request
            BY DEF GrantedCurrent
        <3>2. j # f.seq
            BY <1>1, <1>3, <1>4, <3>1
        <3>. QED BY <1>3, <2>1, <3>1, <3>2 DEF Apart
    <2>6. SubscribedOnce'
        <3> SUFFICES ASSUME NEW k \in DOMAIN venue'.granted, NEW l \in DOMAIN venue'.granted, k # l
                     PROVE  venue'.granted[k].symbols \cap venue'.granted[l].symbols = {}
            BY DEF SubscribedOnce
        <3>1. CASE k \in DOMAIN granted /\ l \in DOMAIN granted
            BY <2>3, <3>1 DEF SubscribedOnce
        <3>2. CASE k \in DOMAIN granted /\ l = Len(granted) + 1
            BY <2>3, <2>5, <3>2
        <3>3. CASE k = Len(granted) + 1 /\ l \in DOMAIN granted
            BY <2>3, <2>5, <3>3
        <3>. QED BY <2>3, <3>1, <3>2, <3>3
    <2>. QED BY <1>2, <1>5, <2>4, <2>6 DEF ResetLeavesNoGap
<1>. QED BY <1>6, <1>7

LEMMA SaysOnce ==
    ASSUME NEW kind \in {"reject", "status"}, OnceInv, VenueSays(kind), TypeInv'
    PROVE  OnceInv'
<1> USE DEF OnceInv
<1>1. UNCHANGED <<settings, resend, venue>>
    BY DEF VenueSays
<1>2. CASE UNCHANGED <<sent, wire>>
    BY <1>1, <1>2 DEF ResetLeavesNoGap, FramesGenuine, GrantedCurrent, SubscribedOnce
<1>3. CASE /\ sent' = Append(sent, [kind |-> "refusal"])
           /\ wire' = Append(wire, [seq |-> Len(sent'), holds |-> [kind |-> "refusal"]])
    <2>1. /\ DOMAIN sent \subseteq DOMAIN sent'
          /\ \A j \in DOMAIN sent : sent'[j] = sent[j] /\ (Current(sent, j) <=> Current(sent', j))
          /\ \A j \in DOMAIN sent' : Current(sent', j) => j \in DOMAIN sent
        <3>1. sent \in Seq(Sent)
            BY DEF TypeInv, TypeOK
        <3> PICK longer : longer = sent'
            OBVIOUS
        <3>2. /\ DOMAIN sent \subseteq DOMAIN longer
              /\ \A j \in DOMAIN sent : longer[j] = sent[j] /\ (Current(sent, j) <=> Current(longer, j))
              /\ \A j \in DOMAIN longer : Current(longer, j) => j \in DOMAIN sent
            <4>1. Longer(sent, longer)
                BY <1>3 DEF Longer
            <4>. QED BY <3>1, <4>1, CurrentKept
        <3>. QED BY <3>2
    <2>2. \A f : f.seq \in DOMAIN sent /\ Genuine(sent, f) => Genuine(sent', f)
        BY <2>1 DEF Genuine
    <2>3. /\ wire \in Seq(Frame) /\ DOMAIN wire' = DOMAIN wire \cup {Len(wire) + 1}
          /\ \A k \in DOMAIN wire : wire'[k] = wire[k]
          /\ wire'[Len(wire) + 1] = [seq |-> Len(sent'), holds |-> [kind |-> "refusal"]]
        <3>1. wire \in Seq(Frame)
            BY DEF TypeInv, TypeOK
        <3>. QED BY <1>3, <3>1
    <2>4. Genuine(sent', [seq |-> Len(sent'), holds |-> [kind |-> "refusal"]])
        BY DEF Genuine
    <2>5. FramesGenuine'
        BY <1>1, <2>2, <2>3, <2>4 DEF FramesGenuine, TypeInv, FramesNumbered
    <2>6. Apart(sent')
        BY <2>1 DEF Apart
    <2>7. GrantedCurrent'
        BY <1>1, <2>1 DEF GrantedCurrent
    <2>. QED BY <1>1, <2>5, <2>6, <2>7 DEF ResetLeavesNoGap, SubscribedOnce
<1>. QED BY <1>2, <1>3 DEF VenueSays

LEMMA OnceInvStep ==
    ASSUME SymbolsOnce, SendsOnce
    PROVE  OnceInv /\ [Next]_vars => OnceInv'
<1> SUFFICES ASSUME OnceInv, [Next]_vars PROVE OnceInv'
    OBVIOUS
<1>0. TypeInv'
    BY TypeInvStep DEF OnceInv
<1> USE DEF OnceInv, ResetLeavesNoGap, FramesGenuine, GrantedCurrent, SubscribedOnce
<1>1. CASE Start
    BY <1>0, <1>1 DEF Start
<1>2. CASE Logon
    BY <1>0, <1>2, LogonOnce
<1>3. CASE Resend
    BY <1>0, <1>3, ResendOnce
<1>4. CASE Break
    <2>1. /\ wire' = <<>> /\ resend' = Nothing /\ UNCHANGED <<settings, sent>>
          /\ venue'.queue = {} /\ venue'.granted = <<>>
        BY <1>4 DEF Break, TypeInv, TypeOK
    <2>2. DOMAIN <<>> = {}
        OBVIOUS
    <2>. QED BY <1>0, <2>1, <2>2 DEF Nothing
<1>5. CASE Receive
    <2>1. wire \in Seq(Frame) /\ wire # <<>> /\ wire' = Tail(wire)
        BY <1>5 DEF Receive, TypeInv, TypeOK
    <2>2. /\ Head(wire) = wire[1] /\ 1 \in DOMAIN wire
          /\ \A k \in DOMAIN wire' : wire'[k] = wire[k + 1] /\ k + 1 \in DOMAIN wire
        BY <2>1
    <2>3. /\ venue'.queue \subseteq venue.queue \cup {Head(wire)}
          /\ venue'.expected = venue.expected /\ venue'.granted = venue.granted
          /\ UNCHANGED <<settings, sent, resend>>
        BY <1>5 DEF Receive, TypeInv, TypeOK
    <2>4. FramesGenuine'
        BY <2>2, <2>3
    <2>. QED BY <1>0, <2>3, <2>4
<1>6. CASE Process
    BY <1>0, <1>6, ProcessOnce
<1>7. ASSUME NEW kind \in {"reject", "status"}, VenueSays(kind) PROVE OnceInv'
    BY <1>0, <1>7, SaysOnce
<1>8. CASE UNCHANGED vars
    BY <1>0, <1>8 DEF vars
<1>. QED BY <1>1, <1>2, <1>3, <1>4, <1>5, <1>6, <1>7, <1>8 DEF Next

\* A collector that resets the numbers, or keeps nothing to be sent again, is
\* subscribed to a symbol once: no connection has two of the requests of a
\* logon granted, although toApp stops nothing.
THEOREM ForgetfulSubscribesOnce ==
    ASSUME SymbolsOnce, SendsOnce
    PROVE  Spec => []SubscribedOnce
<1>1. OnceInv /\ [Next]_vars => OnceInv'
    BY OnceInvStep
<1>2. OnceInv => SubscribedOnce
    BY DEF OnceInv
<1>. QED BY <1>1, <1>2, OnceInvInit, PTL DEF Spec
====
