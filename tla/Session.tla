------------------------------- MODULE Session -------------------------------
(***************************************************************************)
(* The subscription: how the application asks a venue for market data,     *)
(* over connections that break (market_data/fix/src/md_parser_qf.cpp and   *)
(* the checks main makes of its settings in md_fix.cpp).                   *)
(*                                                                         *)
(* External: the FIX session layer of both ends.  It numbers what a        *)
(* collector sends, and may keep it.  A break loses the tail of what was   *)
(* on its way.  A venue that sees a gap at logon asks for what it misses,  *)
(* holds back what comes after the gap, and takes each number once;        *)
(* the collector's engine sends again what it kept, marked as a possible   *)
(* duplicate, if toApp lets it, and fills the place of the rest.  A logon  *)
(* that resets the numbers leaves no gap.  A venue forgets subscriptions   *)
(* when the connection breaks.                                             *)
(***************************************************************************)
EXTENDS Integers, Sequences, SequencesExt, FiniteSets

CONSTANTS
    Lines,      \* the lines of the symbol file, "" for a blank one
    Settings,   \* the settings a collector may be run with
    MaxLogons,  \* bound: connections
    MaxSaid     \* bound: other messages of the venue

Symbols == Range(Lines) \ {""}

ASSUME SessionAssumption ==
    /\ Lines \in Seq(STRING) /\ MaxLogons \in Nat /\ MaxSaid \in Nat
    /\ Settings \subseteq [version : Nat,        \* FIXVersion, 0 when missing or no number
                           valid : BOOLEAN,      \* MarketDepth, MDUpdateType not negative
                           individual : BOOLEAN, \* SendIndividualMarketDataRequests
                           reset : BOOLEAN,      \* ResetSeqNo
                           persist : BOOLEAN]    \* PersistMessages, and a store that does

VARIABLES
    settings,   \* those of this run
    status,     \* how the process fares
    link,       \* whether the session is logged on
    sent,       \* what the engine has sent since the numbers were reset, by number
    wire,       \* what is on its way to the venue
    resend,     \* the first and the last number the venue wants again
    venue,      \* the number it expects, what it holds back, the requests it granted
    logons,     \* _loginCount
    said

vars == <<settings, status, link, sent, wire, resend, venue, logons, said>>

-----------------------------------------------------------------------------
(***************************************************************************)
(* The versions differ in what a request for one symbol adds to it, and in *)
(* which messages of the venue have a handler.                             *)
(***************************************************************************)

Fix42 == [security |-> FALSE, hears |-> {"refresh", "reject", "status"}]
Fix43 == [security |-> FALSE, hears |-> {"refresh", "reject", "status"}]
Fix44 == [security |-> FALSE, hears |-> {"refresh", "reject", "status"}]
Fix50 == [security |-> TRUE, hears |-> {"refresh"}]
Fix50SP2 == [security |-> TRUE, hears |-> {"refresh"}]

Supported == {42, 43, 44, 50, 52}

Dialect == [v \in Supported |-> CASE v = 42 -> Fix42 [] v = 43 -> Fix43 [] v = 44 -> Fix44
                                  [] v = 50 -> Fix50 [] v = 52 -> Fix50SP2]

\* A request: the last part of its MDReqID, the symbols it names, and whether
\* it gives their SecurityType.
Request == [id : {"CAPK"} \cup Symbols, symbols : SUBSET Symbols, security : BOOLEAN]

Single(version, s) == [id |-> s, symbols |-> {s}, security |-> Dialect[version].security]

\* A mutant of Combined: blank lines are not skipped.
CombinedWithBlanks(lines) == [id |-> "CAPK", symbols |-> Range(lines), security |-> FALSE]

Combined(lines) == [id |-> "CAPK", symbols |-> Range(lines) \ {""}, security |-> FALSE]

\* Those of the first n lines that are not blank.
Named[n \in 0..Len(Lines)] ==
    IF n = 0 THEN <<>>
    ELSE IF Lines[n] = "" THEN Named[n - 1] ELSE Append(Named[n - 1], Lines[n])

\* A mutant of Requests: the combined request is sent in any case.
RequestsTwice(s) ==
    LET named == Named[Len(Lines)]
    IN  Append(IF s.individual THEN [k \in DOMAIN named |-> Single(s.version, named[k])] ELSE <<>>,
               Combined(Lines))

\* A mutant of Requests: the loop ends at the first blank line.
RequestsToBlank(s) ==
    LET blank == SelectInSeq(Lines, LAMBDA line : line = "")
        named == IF blank = 0 THEN Lines ELSE SubSeq(Lines, 1, blank - 1)
    IN  IF s.individual THEN [k \in DOMAIN named |-> Single(s.version, named[k])]
        ELSE <<Combined(Lines)>>

\* What a logon sends.
Requests(s) ==
    LET named == Named[Len(Lines)]
    IN  IF s.individual THEN [k \in DOMAIN named |-> Single(s.version, named[k])]
        ELSE <<Combined(Lines)>>

-----------------------------------------------------------------------------
(***************************************************************************)
(* The session.                                                            *)
(***************************************************************************)

Sent == [kind : {"logon", "refusal"}] \cup [kind : {"request"}, request : Request]
Frame == [seq : Nat, holds : Sent \cup {[kind |-> "fill"]}]

TypeOK ==
    /\ settings \in Settings
    /\ status \in {"starting", "running", "refused", "aborted"}
    /\ link \in {"up", "down"}
    /\ sent \in Seq(Sent)
    /\ wire \in Seq(Frame)
    /\ resend \in [from : Nat \ {0}, to : 0..Len(sent)]
    /\ venue \in [expected : 1..(Len(sent) + 1), queue : SUBSET Frame, granted : Seq(Request)]
    /\ logons \in 0..MaxLogons /\ said \in 0..MaxSaid

\* The venue misses nothing.
Nothing == [from |-> 1, to |-> 0]

Init ==
    /\ settings \in Settings
    /\ status = "starting" /\ link = "down"
    /\ sent = <<>> /\ wire = <<>> /\ resend = Nothing
    /\ venue = [expected |-> 1, queue |-> {}, granted |-> <<>>]
    /\ logons = 0 /\ said = 0

\* ReadFIXConfig refuses a version that is missing or no number.
Accepted == settings.version # 0 /\ settings.valid

\* toAdmin has every logon ask for a reset of the numbers, if told to.
ResetsNumbers == settings.reset

\* main reads the symbol file and the settings.
Start ==
    /\ status = "starting"
    /\ status' = IF Lines # <<>> /\ Accepted THEN "running" ELSE "refused"
    /\ UNCHANGED <<settings, link, sent, wire, resend, venue, logons, said>>

\* The frames that carry the messages with the numbers from one to another.
Frames(messages, first, last) ==
    [k \in 1..(last - first + 1) |-> [seq |-> first + k - 1, holds |-> messages[first + k - 1]]]

\* The engines log on, and onLogon sends the requests.  A version without a
\* case in the switch throws.
Logon ==
    LET before == IF ResetsNumbers THEN <<>> ELSE sent
        number == Len(before) + 1
        expected == IF ResetsNumbers THEN 1 ELSE venue.expected
        requests == Requests(settings)
        after == before \o <<[kind |-> "logon"]>>
                        \o [k \in DOMAIN requests |-> [kind |-> "request", request |-> requests[k]]]
    IN  /\ status = "running" /\ link = "down"
        /\ logons < MaxLogons /\ logons' = logons + 1
        /\ IF settings.version \in Supported
           THEN /\ link' = "up"
                /\ sent' = after
                /\ wire' = Frames(after, number + 1, Len(after))
                /\ resend' = [from |-> expected, to |-> number - 1]
                /\ venue' = [expected |-> IF number = expected THEN number + 1 ELSE expected,
                             queue |-> IF number = expected THEN {}
                                       ELSE {[seq |-> number, holds |-> [kind |-> "logon"]]},
                             granted |-> <<>>]
                /\ UNCHANGED status
           ELSE status' = "aborted" /\ UNCHANGED <<link, sent, wire, resend, venue>>
        /\ UNCHANGED <<settings, said>>

\* The fields of a message sent again: the flag is set in the header.
Again == [header |-> {"PossDupFlag"}, body |-> {}]

\* toApp looks for the flag in the body; what it throws is caught by its own handlers.
Sends(m) ==
    LET thrown == IF "PossDupFlag" \notin m.body THEN {}
                  ELSE IF "PossDupFlag" \notin m.header THEN {"FieldNotFound"} ELSE {"DoNotSend"}
    IN  thrown \ {"FieldNotFound", "DoNotSend"} = {}

\* The engine sends again what the venue wants.
Resend ==
    LET Held(k) == settings.persist /\ sent[k].kind # "logon" /\ Sends(Again)
        again == [k \in DOMAIN sent |-> IF Held(k) THEN sent[k] ELSE [kind |-> "fill"]]
    IN  /\ link = "up" /\ resend.from <= resend.to
        /\ wire' = wire \o Frames(again, resend.from, resend.to)
        /\ resend' = Nothing
        /\ UNCHANGED <<settings, status, link, sent, venue, logons, said>>

\* A reject or a session status of the venue.  Its handlers only log; without
\* one the engine refuses the message.
VenueSays(kind) ==
    /\ link = "up" /\ said < MaxSaid /\ said' = said + 1
    /\ IF kind \in Dialect[settings.version].hears THEN UNCHANGED <<sent, wire>>
       ELSE /\ sent' = Append(sent, [kind |-> "refusal"])
            /\ wire' = Append(wire, [seq |-> Len(sent'), holds |-> [kind |-> "refusal"]])
    /\ UNCHANGED <<settings, status, link, resend, venue, logons>>

\* The venue receives a frame.
Receive ==
    /\ wire # <<>> /\ wire' = Tail(wire)
    /\ venue' = [venue EXCEPT !.queue = @ \cup {f \in {Head(wire)} : f.seq >= venue.expected}]
    /\ UNCHANGED <<settings, status, link, sent, resend, logons, said>>

\* The venue takes the frame it expects, and grants a request.
Process ==
    /\ \E f \in venue.queue :
         /\ f.seq = venue.expected
         /\ venue' = [expected |-> f.seq + 1,
                      queue |-> {g \in venue.queue : g.seq > f.seq},
                      granted |-> IF f.holds.kind = "request"
                                  THEN Append(venue.granted, f.holds.request) ELSE venue.granted]
    /\ UNCHANGED <<settings, status, link, sent, wire, resend, logons, said>>

\* The connection breaks.
Break ==
    /\ link = "up" /\ link' = "down"
    /\ wire' = <<>> /\ resend' = Nothing
    /\ venue' = [venue EXCEPT !.queue = {}, !.granted = <<>>]
    /\ UNCHANGED <<settings, status, sent, logons, said>>

Next ==
    \/ Start \/ Logon \/ Resend \/ Break
    \/ Receive \/ Process \/ \E kind \in {"reject", "status"} : VenueSays(kind)

\* The engines answer and the network delivers while the connection lasts.
Fairness == WF_vars(Resend) /\ WF_vars(Receive) /\ WF_vars(Process)

Spec == Init /\ [][Next]_vars /\ Fairness

-----------------------------------------------------------------------------
(***************************************************************************)
(* Properties.                                                             *)
(***************************************************************************)

\* "Don't send potentially duplicate requests": within a connection no symbol is
\* asked for twice, whatever was lost in the connections before it.  An update
\* that comes twice would break the book.
SubscribedOnce ==
    \A k, l \in DOMAIN venue.granted :
        k # l => venue.granted[k].symbols \cap venue.granted[l].symbols = {}

\* A connection that lasts ends up with a subscription to every symbol.
Subscribes ==
    link = "up" ~> link = "down" \/ Symbols = UNION {r.symbols : r \in Range(venue.granted)}
=============================================================================
