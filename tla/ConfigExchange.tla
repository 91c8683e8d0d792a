---------------------------- MODULE ConfigExchange ----------------------------
(***************************************************************************)
(* How collectors come by their configuration: the configuration server    *)
(* (configuration_server/configuration_server.py), an operator who edits   *)
(* its file and asks it to refresh, and collectors that ask it once, at    *)
(* start-up (readConfigServer in config_server.cpp, ReadRemoteConfig and   *)
(* main in md_fix.cpp).                                                    *)
(*                                                                         *)
(* External: ZeroMQ.  A request is under way until the server takes it or  *)
(* something loses it: a crash of the server, or the requester closing its *)
(* socket.  The server takes one request at a time, answers it, and an     *)
(* answer to a closed socket is dropped.  A request that was lost is not   *)
(* sent again.                                                             *)
(*                                                                         *)
(* A file is a sequence of sections.  A broken section is one without an   *)
(* option the server insists on.  The [global] section is left out: no     *)
(* collector reads it.                                                     *)
(***************************************************************************)
EXTENDS Integers, Sequences, SequencesExt

CONSTANTS
    Collectors,     \* the processes that ask for their configuration
    MicOf,          \* the MIC each has in its FIX configuration
    Operator,       \* who edits the file and sends refresh requests
    Files,          \* what the file may contain
    NoFile,         \* the file is not there
    Broken,         \* a section that make_protobuf fails on
    NoAnswer,       \* there is no answer yet
    MaxEdits,       \* bound: how often the file changes
    MaxRefreshes,   \* bound: refresh requests
    MaxCrashes      \* bound: crashes of the server

Retries == 3

ASSUME ConfigAssumption ==
    /\ Operator \notin Collectors /\ NoAnswer \notin Collectors \cup {Operator}
    /\ \A f \in Files \ {NoFile} :
         f \in Seq(Range(f)) /\ \A s \in Range(f) \ {Broken} : s.id \in Int
    /\ MaxEdits \in Nat /\ MaxRefreshes \in Nat /\ MaxCrashes \in Nat

VARIABLES
    versions,   \* what the file has contained, the current content last
    server,     \* up or down, the request it is answering, full_config
    underway,   \* requests not yet taken: who sent them
    answers,    \* what awaits each requester at its socket
    asked,      \* the version for which the operator awaits an answer, 0 when none
    confirmed,  \* the newest version the operator was told is in force
    collector,  \* each collector's progress
    refreshes, crashes

vars == <<versions, server, underway, answers, asked, confirmed, collector, refreshes, crashes>>

Requesters == Collectors \cup {Operator}

\* parse: a broken section raises an exception nobody catches.  The reader
\* passes over a file that is not there.
Parses(f) == f = NoFile \/ \A k \in DOMAIN f : f[k] # Broken

\* The configuration parsed from the n-th version of the file.
Config(n) == [version |-> n, sections |-> IF versions[n] = NoFile THEN <<>> ELSE versions[n]]

Empty == [version |-> 0, sections |-> <<>>]

NoVenue == [mic |-> "", id |-> 0, addr |-> ""]

Parsed == {f \in Files \ {NoFile} : Parses(f)}
Configs == [version : Nat, sections : {<<>>} \cup Parsed]
Venues == {NoVenue} \cup UNION {Range(f) : f \in Parsed}

TypeOK ==
    /\ versions \in Seq(Files) /\ versions # <<>>
    /\ server \in [up : BOOLEAN, serving : Requesters \cup {NoAnswer}, config : Configs]
    /\ underway \subseteq Requesters
    /\ answers \in [Requesters -> Configs \cup {NoAnswer}]
    /\ asked \in Nat /\ confirmed \in Nat
    /\ collector \in [Collectors -> [at : {"start", "polling", "failed", "ready"},
                                     tries : 0..Retries, since : Nat, version : Nat,
                                     venue : Venues]]
    /\ refreshes \in 0..MaxRefreshes /\ crashes \in 0..MaxCrashes

Init ==
    /\ \E f \in Files : versions = <<f>>
    /\ server = [up |-> FALSE, serving |-> NoAnswer, config |-> Empty]
    /\ underway = {}
    /\ answers = [r \in Requesters |-> NoAnswer]
    /\ asked = 0 /\ confirmed = 0
    /\ collector = [c \in Collectors |-> [at |-> "start", tries |-> 0, since |-> 0,
                                          version |-> 0, venue |-> NoVenue]]
    /\ refreshes = 0 /\ crashes = 0

-----------------------------------------------------------------------------
(***************************************************************************)
(* The operator.                                                           *)
(***************************************************************************)

Edit ==
    /\ Len(versions) <= MaxEdits
    /\ \E f \in Files \ {Last(versions)} : versions' = Append(versions, f)
    /\ UNCHANGED <<server, underway, answers, asked, confirmed, collector, refreshes, crashes>>

AskRefresh ==
    /\ asked = 0 /\ asked' = Len(versions)
    /\ refreshes < MaxRefreshes /\ refreshes' = refreshes + 1
    /\ underway' = underway \cup {Operator}
    /\ UNCHANGED <<versions, server, answers, confirmed, collector, crashes>>

Later(m, n) == IF m < n THEN n ELSE m

\* The answer to a refresh is always OK.
HearRefreshed ==
    /\ answers[Operator] # NoAnswer
    /\ confirmed' = Later(confirmed, asked)
    /\ answers' = [answers EXCEPT ![Operator] = NoAnswer]
    /\ asked' = 0
    /\ UNCHANGED <<versions, server, underway, collector, refreshes, crashes>>

-----------------------------------------------------------------------------
(***************************************************************************)
(* The server.                                                             *)
(***************************************************************************)

\* main: this time the file must be there.
StartServer ==
    /\ ~server.up
    /\ Last(versions) # NoFile /\ Parses(Last(versions))
    /\ server' = [up |-> TRUE, serving |-> NoAnswer, config |-> Config(Len(versions))]
    /\ UNCHANGED <<versions, underway, answers, asked, confirmed, collector, refreshes, crashes>>

\* A mutant of Refreshed: parse stops at a broken section and returns False.
RefreshedInPart ==
    LET f == Last(versions)
        good == SelectInSeq(f, LAMBDA s : s = Broken) - 1
    IN  [up |-> TRUE, serving |-> Operator,
         config |-> IF Parses(f) THEN Config(Len(versions))
                    ELSE [version |-> Len(versions), sections |-> SubSeq(f, 1, good)]]

\* A mutant of Refreshed: the answer is OK, the file is not read.
RefreshedNot == [server EXCEPT !.serving = Operator]

\* The server after a refresh request: what it holds is replaced, or it is gone.
Refreshed ==
    IF Parses(Last(versions))
    THEN [up |-> TRUE, serving |-> Operator, config |-> Config(Len(versions))]
    ELSE [up |-> FALSE, serving |-> NoAnswer, config |-> Empty]

\* recv: a request is taken, and a refresh carried out.
Take(r) ==
    /\ server.up /\ server.serving = NoAnswer
    /\ r \in underway /\ underway' = underway \ {r}
    /\ server' = IF r = Operator THEN Refreshed ELSE [server EXCEPT !.serving = r]
    /\ UNCHANGED <<versions, answers, asked, confirmed, collector, refreshes, crashes>>

Listening(r) == IF r = Operator THEN asked # 0 ELSE collector[r].at = "polling"

\* send_multipart.  The status of a refresh stands for the configuration
\* the server had then: the operator does not see it.
Answer ==
    LET r == server.serving
    IN  /\ server.up /\ r # NoAnswer
        /\ server' = [server EXCEPT !.serving = NoAnswer]
        /\ answers' = IF Listening(r) THEN [answers EXCEPT ![r] = server.config] ELSE answers
        /\ UNCHANGED <<versions, underway, asked, confirmed, collector, refreshes, crashes>>

\* A crash loses what the server had received, and answers it had not yet sent off.
Crash ==
    /\ server.up
    /\ crashes < MaxCrashes /\ crashes' = crashes + 1
    /\ server' = [up |-> FALSE, serving |-> NoAnswer, config |-> Empty]
    /\ underway' \in SUBSET underway
    /\ \E lost \in SUBSET Requesters :
         answers' = [r \in Requesters |-> IF r \in lost THEN NoAnswer ELSE answers[r]]
    /\ UNCHANGED <<versions, asked, confirmed, collector, refreshes>>

-----------------------------------------------------------------------------
(***************************************************************************)
(* A collector.                                                            *)
(***************************************************************************)

\* readConfigServer, as far as its loop.
AskConfig(c) ==
    /\ collector[c].at = "start"
    /\ collector' = [collector EXCEPT
         ![c] = [@ EXCEPT !.at = "polling", !.tries = Retries, !.since = confirmed]]
    /\ underway' = underway \cup {c}
    /\ UNCHANGED <<versions, server, answers, asked, confirmed, refreshes, crashes>>

\* The socket is closed: a request still at this end is dropped, one that has
\* left may yet be answered, to nobody.
Close(c) == underway' \in {underway, underway \ {c}}

\* A mutant of PollTimesOut: the test comes before the decrement.
PollTimesOutLate(c) ==
    /\ collector[c].at = "polling" /\ answers[c] = NoAnswer
    /\ collector' = [collector EXCEPT
         ![c] = [@ EXCEPT !.tries = collector[c].tries - 1,
                         !.at = IF collector[c].tries = 0 THEN "failed" ELSE "polling"]]
    /\ IF collector[c].tries = 0 THEN Close(c) ELSE UNCHANGED underway
    /\ UNCHANGED <<versions, server, answers, asked, confirmed, refreshes, crashes>>

\* A mutant of PollTimesOut: the retries are not counted.
PollTimesOutAgain(c) ==
    /\ collector[c].at = "polling" /\ answers[c] = NoAnswer
    /\ UNCHANGED vars

\* One poll without an answer; the third is the last.
PollTimesOut(c) ==
    /\ collector[c].at = "polling" /\ answers[c] = NoAnswer
    /\ collector' = [collector EXCEPT
         ![c] = [@ EXCEPT !.tries = collector[c].tries - 1,
                         !.at = IF collector[c].tries = 1 THEN "failed" ELSE "polling"]]
    /\ IF collector[c].tries = 1 THEN Close(c) ELSE UNCHANGED underway
    /\ UNCHANGED <<versions, server, answers, asked, confirmed, refreshes, crashes>>

\* get_venue_config: the first section with the MIC.
VenueConfig(sections, mic) ==
    LET k == SelectInSeq(sections, LAMBDA s : s.mic = mic)
    IN  IF k = 0 THEN NoVenue ELSE sections[k]

\* An answer is there.  The venue must be known; its address is not insisted on.
Configure(c) ==
    LET venue == VenueConfig(answers[c].sections, MicOf[c])
    IN  /\ collector[c].at = "polling" /\ answers[c] # NoAnswer
        /\ collector' = [collector EXCEPT ![c] = [@ EXCEPT
             !.version = answers[c].version,
             !.venue = venue,
             !.at = IF venue.id <= 0 THEN "failed" ELSE "ready"]]
        /\ answers' = [answers EXCEPT ![c] = NoAnswer]
        /\ UNCHANGED <<versions, server, underway, asked, confirmed, refreshes, crashes>>

-----------------------------------------------------------------------------
Collect(c) == PollTimesOut(c) \/ Configure(c)

Next ==
    \/ Edit \/ AskRefresh \/ HearRefreshed
    \/ StartServer \/ Answer \/ Crash \/ \E r \in Requesters : Take(r)
    \/ \E c \in Collectors : AskConfig(c) \/ Collect(c)

\* A poll has a timeout, so a collector goes on whatever the server does.
Fairness == \A c \in Collectors : WF_vars(Collect(c))

Spec == Init /\ [][Next]_vars /\ Fairness

-----------------------------------------------------------------------------
(***************************************************************************)
(* Properties.                                                             *)
(***************************************************************************)

\* What the server answers from is the whole of one version of the file, never
\* the sections before a broken one nor a mix of two versions.
ServedWhole == server.up => server.config \in {Config(n) : n \in DOMAIN versions}

\* Once the operator has been told of a refresh, a collector that asks gets the
\* file as it was when the refresh was asked for or later, over crashes and
\* restarts of the server.
FreshAfterRefresh ==
    \A c \in Collectors : collector[c].version # 0 => collector[c].version >= collector[c].since

\* What makes it so, as an inductive invariant: the operator has one request at
\* a time, in one place ...
OneRequest ==
    /\ Operator \in underway =>
         asked # 0 /\ server.serving # Operator /\ answers[Operator] = NoAnswer
    /\ server.serving = Operator => asked # 0 /\ answers[Operator] = NoAnswer
    /\ answers[Operator] # NoAnswer => asked # 0

\* ... neither the server nor an answer under way is older than what was
\* confirmed or will be ...
OperatorNotAhead ==
    /\ confirmed <= Len(versions) /\ asked <= Len(versions)
    /\ server.up => confirmed <= server.config.version
    /\ server.serving = Operator => asked <= server.config.version
    /\ answers[Operator] # NoAnswer =>
         /\ asked <= answers[Operator].version /\ answers[Operator].version <= Len(versions)
         /\ server.up => answers[Operator].version <= server.config.version

\* ... and a collector asks once, when it has no answer yet.
CollectorNotAhead(c) ==
    /\ collector[c].since <= confirmed
    /\ answers[c] # NoAnswer =>
         collector[c].at = "polling" /\ answers[c].version >= collector[c].since
    /\ collector[c].at = "start" => collector[c].version = 0
    /\ collector[c].at = "polling" => collector[c].version = 0 /\ collector[c].tries # 0
    /\ collector[c].version # 0 => collector[c].version >= collector[c].since

IInv ==
    /\ TypeOK /\ ServedWhole
    /\ OneRequest /\ OperatorNotAhead /\ \A c \in Collectors : CollectorNotAhead(c)

\* Start-up does not hang on a server that is down, slow, or lost the request.
CollectorReturns ==
    \A c \in Collectors : collector[c].at = "polling" ~> collector[c].at \in {"failed", "ready"}
=============================================================================
