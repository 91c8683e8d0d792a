----------------------------- MODULE ConfigProofs -----------------------------
(***************************************************************************)
(* Theorems about ConfigExchange, for any collectors, files and bounds.    *)
(***************************************************************************)
EXTENDS ConfigExchange, NaturalsInduction, WellFoundedInduction, TLAPS

\* A set of naturals that is not empty has a least element, which Min chooses.
LEMMA MinIsIn ==
    ASSUME NEW S \in SUBSET Nat, S # {}
    PROVE  Min(S) \in S
<1> DEFINE Less == {pair \in Nat \X Nat : pair[1] < pair[2]}
<1>1. IsWellFoundedOn(Less, Nat)
  BY NatLessThanWellFounded DEF OpToRel
<1>2. PICK x \in S : \A y \in S : ~(<<y, x>> \in Less)
  <2> HIDE DEF Less
  <2> QED BY <1>1, WFMin
<1>3. ASSUME NEW y \in S
      PROVE  x <= y
  <2>1. <<y, x>> \in Nat \X Nat /\ ~(<<y, x>> \in Less)
    BY <1>2
  <2>2. ~(y < x)
    BY <2>1
  <2> QED BY <2>2
<1> QED BY <1>3 DEF Min

\* get_venue_config finds a section of the configuration, or none.
LEMMA VenueConfigType ==
    ASSUME NEW f \in {<<>>} \cup Parsed, NEW mic
    PROVE  VenueConfig(f, mic) \in Venues /\ VenueConfig(f, mic).id \in Int
<1> DEFINE I == {i \in 1..Len(f) : f[i].mic = mic}
           k == IF I # {} THEN Min(I) ELSE 0
<1>1. VenueConfig(f, mic) = IF k = 0 THEN NoVenue ELSE f[k]
  BY DEF VenueConfig, SelectInSeq
<1>2. I \in SUBSET Nat
  OBVIOUS
<1>3. CASE I = {}
  <2>1. VenueConfig(f, mic) = NoVenue
    BY <1>1, <1>3
  <2>2. NoVenue \in Venues
    BY DEF Venues
  <2>3. NoVenue.id \in Int
    BY DEF NoVenue
  <2> QED BY <2>1, <2>2, <2>3
<1>4. CASE I # {}
  <2>1. k \in I
    <3>1. Min(I) \in I
      <4> HIDE DEF I
      <4> QED BY <1>2, <1>4, MinIsIn
    <3> QED BY <1>4, <3>1
  <2> HIDE DEF k
  <2>2. k \in 1..Len(f)
    BY <2>1
  <2>3. f \in Parsed
    BY <2>2
  <2>4. f \in Seq(Range(f)) /\ f \in Files \ {NoFile} /\ \A j \in DOMAIN f : f[j] # Broken
    BY <2>3, ConfigAssumption DEF Parsed, Parses
  <2>5. k \in DOMAIN f
    BY <2>2, <2>4
  <2>6. f[k] \in Range(f) \ {Broken}
    BY <2>4, <2>5 DEF Range
  <2>7. f[k].id \in Int
    BY <2>4, <2>6, ConfigAssumption
  <2>8. VenueConfig(f, mic) = f[k]
    BY <1>1, <2>2
  <2>9. f[k] \in Venues
    BY <2>3, <2>6 DEF Venues
  <2> QED BY <2>7, <2>8, <2>9
<1> QED BY <1>3, <1>4

-----------------------------------------------------------------------------
(***************************************************************************)
(* Types.                                                                  *)
(***************************************************************************)

\* Every action has a collector or a requester, or is one of these.
OperatorStep == Edit \/ AskRefresh \/ HearRefreshed
ServerStep == StartServer \/ Answer \/ Crash \/ \E r \in Requesters : Take(r)
CollectorStep == \E c \in Collectors : AskConfig(c) \/ Collect(c)

\* A version that parses is a configuration.
LEMMA ConfigType ==
    ASSUME TypeOK, NEW n \in DOMAIN versions, Parses(versions[n])
    PROVE  Config(n) \in Configs
<1>1. n \in Nat /\ versions[n] \in Files
  BY DEF TypeOK
<1>2. versions[n] = NoFile \/ versions[n] \in Parsed
  BY <1>1 DEF Parsed
<1> QED BY <1>1, <1>2 DEF Config, Configs

\* So is the last one.
LEMMA LastIsThere ==
    ASSUME TypeOK
    PROVE  Len(versions) \in DOMAIN versions /\ Last(versions) = versions[Len(versions)]
BY DEF TypeOK, Last

\* The constants needed below.
LEMMA EmptyType == Empty \in Configs /\ NoVenue \in Venues
BY DEF Empty, Configs, Venues

\* The types hold at the start.
LEMMA InitTypeOK == Init => TypeOK
<1> SUFFICES ASSUME Init PROVE TypeOK
  OBVIOUS
<1>1. versions \in Seq(Files) /\ versions # <<>>
  BY DEF Init
<1>2. server \in [up : BOOLEAN, serving : Requesters \cup {NoAnswer}, config : Configs]
  BY EmptyType DEF Init
<1>3. collector \in [Collectors -> [at : {"start", "polling", "failed", "ready"},
                                   tries : 0..Retries, since : Nat, version : Nat,
                                   venue : Venues]]
  BY EmptyType DEF Init, Retries
<1>4. answers \in [Requesters -> Configs \cup {NoAnswer}] /\ underway \subseteq Requesters
  BY DEF Init
<1>5. asked \in Nat /\ confirmed \in Nat
  BY DEF Init
<1>6. refreshes \in 0..MaxRefreshes /\ crashes \in 0..MaxCrashes
  BY ConfigAssumption DEF Init
<1> QED BY <1>1, <1>2, <1>3, <1>4, <1>5, <1>6 DEF TypeOK

\* The operator's steps keep the types.
LEMMA OperatorTypeOK == TypeOK /\ OperatorStep => TypeOK'
<1> SUFFICES ASSUME TypeOK, OperatorStep PROVE TypeOK'
  OBVIOUS
<1>1. CASE Edit
  <2>1. versions' \in Seq(Files) /\ versions' # <<>>
    BY <1>1 DEF TypeOK, Edit
  <2> QED BY <1>1, <2>1 DEF TypeOK, Edit
<1>2. CASE AskRefresh
  <2>1. refreshes' \in 0..MaxRefreshes /\ asked' \in Nat
    BY <1>2, ConfigAssumption DEF TypeOK, AskRefresh
  <2> QED BY <1>2, <2>1 DEF TypeOK, AskRefresh, Requesters
<1>3. CASE HearRefreshed
  <2>2. confirmed' \in Nat
    BY <1>3 DEF TypeOK, HearRefreshed, Later
  <2>3. answers' \in [Requesters -> Configs \cup {NoAnswer}]
    BY <1>3 DEF TypeOK, HearRefreshed
  <2> QED BY <1>3, <2>2, <2>3 DEF TypeOK, HearRefreshed
<1> QED BY <1>1, <1>2, <1>3 DEF OperatorStep

\* What the server becomes by a refresh has its type.
LEMMA RefreshedType ==
    ASSUME TypeOK
    PROVE  Refreshed \in [up : BOOLEAN, serving : Requesters \cup {NoAnswer}, config : Configs]
BY ConfigType, LastIsThere, EmptyType DEF Refreshed, Requesters

\* The server's steps keep the types.
LEMMA ServerTypeOK == TypeOK /\ ServerStep => TypeOK'
<1> SUFFICES ASSUME TypeOK, ServerStep PROVE TypeOK'
  OBVIOUS
<1> DEFINE ServerType == [up : BOOLEAN, serving : Requesters \cup {NoAnswer}, config : Configs]
<1>1. CASE StartServer
  <2>1. server' \in ServerType
    BY <1>1, ConfigType, LastIsThere DEF StartServer
  <2> QED BY <1>1, <2>1 DEF TypeOK, StartServer
<1>2. CASE Answer
  <2>1. server' \in ServerType
    BY <1>2 DEF TypeOK, Answer
  <2>2. answers' \in [Requesters -> Configs \cup {NoAnswer}]
    BY <1>2 DEF TypeOK, Answer
  <2> QED BY <1>2, <2>1, <2>2 DEF TypeOK, Answer
<1>3. CASE Crash
  <2>1. server' \in ServerType
    BY <1>3, EmptyType DEF Crash
  <2>2. answers' \in [Requesters -> Configs \cup {NoAnswer}]
    BY <1>3 DEF TypeOK, Crash
  <2>3. crashes' \in 0..MaxCrashes
    BY <1>3, ConfigAssumption DEF TypeOK, Crash
  <2>4. underway' \subseteq Requesters
    BY <1>3 DEF TypeOK, Crash
  <2> QED BY <1>3, <2>1, <2>2, <2>3, <2>4 DEF TypeOK, Crash
<1>4. ASSUME NEW r \in Requesters, Take(r)
      PROVE  TypeOK'
  <2>1. server' \in ServerType
    BY <1>4, RefreshedType DEF TypeOK, Take
  <2>2. underway' \subseteq Requesters
    BY <1>4 DEF TypeOK, Take
  <2> QED BY <1>4, <2>1, <2>2 DEF TypeOK, Take
<1> QED BY <1>1, <1>2, <1>3, <1>4 DEF ServerStep

\* A collector's steps keep the types.
LEMMA CollectorTypeOK ==
    TypeOK /\ (\A c \in Collectors : collector[c].at = "polling" => collector[c].tries # 0)
           /\ CollectorStep => TypeOK'
<1> SUFFICES ASSUME TypeOK, NEW c \in Collectors, AskConfig(c) \/ Collect(c),
                    collector[c].at = "polling" => collector[c].tries # 0
             PROVE  TypeOK'
  BY DEF CollectorStep
<1> DEFINE Progress == [at : {"start", "polling", "failed", "ready"}, tries : 0..Retries,
                        since : Nat, version : Nat, venue : Venues]
<1>4. collector \in [Collectors -> Progress] /\ collector[c] \in Progress
  BY DEF TypeOK
<1>5. Retries \in 0..Retries /\ confirmed \in Nat
  BY DEF TypeOK, Retries
<1>1. CASE AskConfig(c)
  <2>3. [collector[c] EXCEPT !.at = "polling", !.tries = Retries, !.since = confirmed] \in Progress
    <3> HIDE DEF Retries
    <3> QED BY <1>4, <1>5
  <2>1. collector' \in [Collectors -> Progress]
    <3> HIDE DEF Progress
    <3> QED BY <1>1, <1>4, <2>3 DEF AskConfig
  <2>2. underway' \subseteq Requesters
    BY <1>1 DEF TypeOK, AskConfig, Requesters
  <2> QED BY <1>1, <2>1, <2>2 DEF TypeOK, AskConfig
<1>2. CASE PollTimesOut(c)
  <2>1. collector[c].tries - 1 \in 0..Retries
    BY <1>2 DEF TypeOK, PollTimesOut, Retries
  <2> DEFINE after == [collector[c] EXCEPT
                         !.tries = collector[c].tries - 1,
                         !.at = IF collector[c].tries = 1 THEN "failed" ELSE "polling"]
  <2>4. after \in Progress
    BY <1>4, <2>1
  <2>5. collector' = [collector EXCEPT ![c] = after]
    BY <1>2 DEF PollTimesOut
  <2>2. collector' \in [Collectors -> Progress]
    <3> HIDE DEF Progress, after
    <3> QED BY <1>4, <2>4, <2>5
  <2>3. underway' \subseteq Requesters
    BY <1>2 DEF TypeOK, PollTimesOut, Close
  <2> QED BY <1>2, <2>2, <2>3 DEF TypeOK, PollTimesOut
<1>3. CASE Configure(c)
  <2>1. answers[c] \in Configs
    BY <1>3 DEF TypeOK, Configure, Requesters
  <2>2. VenueConfig(answers[c].sections, MicOf[c]) \in Venues
    BY <2>1, VenueConfigType DEF Configs
  <2>3. answers[c].version \in Nat
    BY <2>1 DEF Configs
  <2> DEFINE venue == VenueConfig(answers[c].sections, MicOf[c])
             after == [collector[c] EXCEPT !.version = answers[c].version, !.venue = venue,
                         !.at = IF venue.id <= 0 THEN "failed" ELSE "ready"]
  <2>6. collector' = [collector EXCEPT ![c] = after]
    BY <1>3 DEF Configure
  <2>8. after \in Progress
    <3> HIDE DEF venue
    <3> QED BY <2>2, <2>3 DEF TypeOK, venue
  <2>4. collector' \in [Collectors -> Progress]
    <3> HIDE DEF after
    <3> QED BY <2>6, <2>8 DEF TypeOK
  <2>5. answers' \in [Requesters -> Configs \cup {NoAnswer}]
    BY <1>3 DEF TypeOK, Configure
  <2> QED BY <1>3, <2>4, <2>5 DEF TypeOK, Configure
<1> QED BY <1>1, <1>2, <1>3 DEF Collect

-----------------------------------------------------------------------------
(***************************************************************************)
(* The configuration that is served.                                       *)
(***************************************************************************)

\* A version stays what it is when the file changes.
LEMMA ConfigStays ==
    ASSUME TypeOK, NEW n \in DOMAIN versions, Edit
    PROVE  n \in DOMAIN versions' /\ Config(n)' = Config(n)
<1>1. PICK f \in Files : versions' = Append(versions, f)
  BY DEF Edit
<1>2. n \in 1..Len(versions) /\ versions'[n] = versions[n] /\ n \in DOMAIN versions'
  BY <1>1 DEF TypeOK
<1> QED BY <1>2 DEF Config

\* The version of a configuration is the one it was made from.
LEMMA ConfigVersion ==
    ASSUME TypeOK, ServedWhole, server.up
    PROVE  server.config.version \in 1..Len(versions)
<1>1. PICK n \in DOMAIN versions : server.config = Config(n)
  BY DEF ServedWhole
<1>2. server.config.version = n
  BY <1>1 DEF Config
<1> QED BY <1>1, <1>2 DEF TypeOK

\* The server keeps serving a whole version.
LEMMA ServedWholeStep == TypeOK /\ ServedWhole /\ [Next]_vars => ServedWhole'
<1> SUFFICES ASSUME TypeOK, ServedWhole, [Next]_vars PROVE ServedWhole'
  OBVIOUS
<1>1. CASE Edit
  <2> SUFFICES ASSUME server'.up
               PROVE  server'.config \in {Config(n)' : n \in DOMAIN versions'}
    BY DEF ServedWhole, Config
  <2>1. server' = server
    BY <1>1 DEF Edit
  <2>2. PICK n \in DOMAIN versions : server.config = Config(n)
    BY <2>1 DEF ServedWhole
  <2>3. n \in DOMAIN versions' /\ Config(n)' = Config(n)
    BY <1>1, ConfigStays
  <2> QED BY <2>1, <2>2, <2>3
<1>2. CASE UNCHANGED versions /\ server'.config = server.config /\ server'.up = server.up
  BY <1>2 DEF ServedWhole, Config
<1>3. CASE UNCHANGED versions /\ ~server'.up
  BY <1>3 DEF ServedWhole
<1>4. CASE UNCHANGED versions /\ server'.config = Config(Len(versions))
  <2>1. Len(versions) \in DOMAIN versions
    BY LastIsThere
  <2> QED BY <1>4, <2>1 DEF ServedWhole, Config
<1>5. CASE ServerStep
  <2>1. CASE StartServer
    BY <2>1, <1>4 DEF StartServer
  <2>2. CASE Answer
    <3>1. server'.config = server.config /\ server'.up = server.up
      BY <2>2 DEF Answer, TypeOK
    <3> QED BY <2>2, <3>1, <1>2 DEF Answer
  <2>3. CASE Crash
    BY <2>3, <1>3 DEF Crash
  <2>4. ASSUME NEW r \in Requesters, Take(r)
        PROVE  ServedWhole'
    <3>1. CASE r = Operator /\ Parses(Last(versions))
      BY <2>4, <3>1, <1>4 DEF Take, Refreshed
    <3>2. CASE r = Operator /\ ~Parses(Last(versions))
      BY <2>4, <3>2, <1>3 DEF Take, Refreshed
    <3>3. CASE r # Operator
      <4>1. server'.config = server.config /\ server'.up = server.up
        BY <2>4, <3>3 DEF Take, TypeOK
      <4> QED BY <2>4, <4>1, <1>2 DEF Take
    <3> QED BY <3>1, <3>2, <3>3
  <2> QED BY <1>5, <2>1, <2>2, <2>3, <2>4 DEF ServerStep
<1>6. CASE AskRefresh \/ HearRefreshed \/ CollectorStep \/ UNCHANGED vars
  <2>1. UNCHANGED <<versions, server>>
    BY <1>6 DEF AskRefresh, HearRefreshed, CollectorStep, Collect, AskConfig, PollTimesOut, Configure, vars
  <2> QED BY <2>1, <1>2
<1> QED BY <1>1, <1>5, <1>6 DEF Next, ServerStep, CollectorStep

-----------------------------------------------------------------------------
(***************************************************************************)
(* Nothing older than what was confirmed.                                  *)
(***************************************************************************)

\* The operator's request is in one place.
LEMMA OneRequestStep ==
    TypeOK /\ OneRequest /\ [Next]_vars => OneRequest'
<1> SUFFICES ASSUME TypeOK, OneRequest, [Next]_vars PROVE OneRequest'
  OBVIOUS
<1>0. Operator \in Requesters /\ NoAnswer # Operator
  BY ConfigAssumption DEF Requesters
<1>1. CASE Edit \/ UNCHANGED vars
  BY <1>1 DEF Edit, vars, OneRequest
<1>2. CASE AskRefresh
  <2>1. asked' # 0
    BY <1>2 DEF AskRefresh, TypeOK
  <2> QED BY <1>2, <2>1 DEF AskRefresh, OneRequest
<1>3. CASE HearRefreshed
  <2>1. answers'[Operator] = NoAnswer
    BY <1>0, <1>3 DEF HearRefreshed, TypeOK
  <2> QED BY <1>3, <2>1 DEF HearRefreshed, OneRequest
<1>4. CASE StartServer
  <2>1. server'.serving = NoAnswer
    BY <1>4 DEF StartServer
  <2> QED BY <1>0, <1>4, <2>1 DEF StartServer, OneRequest
<1>5. CASE Answer
  <2>1. server'.serving = NoAnswer
    BY <1>5 DEF Answer, TypeOK
  <2>2. CASE server.serving = Operator
    BY <1>0, <1>5, <2>1, <2>2 DEF Answer, OneRequest
  <2>3. CASE server.serving # Operator
    <3>1. answers'[Operator] = answers[Operator]
      BY <1>5, <2>3 DEF Answer, TypeOK
    <3> QED BY <1>0, <1>5, <2>1, <3>1 DEF Answer, OneRequest
  <2> QED BY <2>2, <2>3
<1>6. CASE Crash
  <2>1. answers'[Operator] = answers[Operator] \/ answers'[Operator] = NoAnswer
    BY <1>0, <1>6 DEF Crash
  <2>2. server'.serving = NoAnswer
    BY <1>6 DEF Crash
  <2> QED BY <1>0, <1>6, <2>1, <2>2 DEF Crash, OneRequest
<1>7. ASSUME NEW r \in Requesters, Take(r)
      PROVE  OneRequest'
  <2>1. CASE r = Operator
    BY <1>7, <2>1 DEF Take, OneRequest
  <2>2. CASE r # Operator
    <3>1. server'.serving = r
      BY <1>7, <2>2 DEF Take, TypeOK
    <3> QED BY <1>7, <2>2, <3>1 DEF Take, OneRequest
  <2> QED BY <2>1, <2>2
<1>8. ASSUME NEW c \in Collectors, AskConfig(c) \/ Collect(c)
      PROVE  OneRequest'
  <2>1. UNCHANGED <<server, asked>>
    BY <1>8 DEF AskConfig, Collect, PollTimesOut, Configure
  <2>2. Operator \in underway' => Operator \in underway
    BY <1>8, ConfigAssumption DEF AskConfig, Collect, PollTimesOut, Configure, Close
  <2>3. answers'[Operator] = answers[Operator]
    BY <1>8, ConfigAssumption DEF AskConfig, Collect, PollTimesOut, Configure, TypeOK, Requesters
  <2> QED BY <2>1, <2>2, <2>3 DEF OneRequest
<1> QED BY <1>1, <1>2, <1>3, <1>4, <1>5, <1>6, <1>7, <1>8 DEF Next

\* The operator is never told of a version the server does not have.
LEMMA OperatorNotAheadStep ==
    TypeOK /\ ServedWhole /\ OneRequest /\ OperatorNotAhead /\ [Next]_vars => OperatorNotAhead'
<1> SUFFICES ASSUME TypeOK, ServedWhole, OneRequest, OperatorNotAhead, [Next]_vars
             PROVE  OperatorNotAhead'
  OBVIOUS
<1>0. Operator \in Requesters /\ NoAnswer # Operator
  BY ConfigAssumption DEF Requesters
<1>1. Len(versions) \in Nat /\ confirmed \in Nat /\ asked \in Nat
  BY DEF TypeOK
<1>2. answers[Operator] # NoAnswer => answers[Operator].version \in Nat
  BY <1>0 DEF TypeOK, Configs
<1>3. server.config.version \in Nat /\ (server.up => server.config.version <= Len(versions))
  <2>1. server.config.version \in Nat
    BY DEF TypeOK, Configs
  <2> QED BY <2>1, <1>1, ConfigVersion
<1>4. CASE Edit
  <2>1. PICK f \in Files : versions' = Append(versions, f)
    BY <1>4 DEF Edit
  <2>2. Len(versions') = Len(versions) + 1
    BY <2>1 DEF TypeOK
  <2> QED BY <1>1, <1>2, <1>3, <1>4, <2>2 DEF Edit, OperatorNotAhead
<1>5. CASE AskRefresh
  <2>1. server.serving # Operator /\ answers[Operator] = NoAnswer
    BY <1>5 DEF AskRefresh, OneRequest
  <2> QED BY <1>1, <1>5, <2>1 DEF AskRefresh, OperatorNotAhead
<1>6. CASE HearRefreshed
  <2>1. answers'[Operator] = NoAnswer /\ answers[Operator] # NoAnswer
    BY <1>0, <1>6 DEF HearRefreshed, TypeOK
  <2>2. (confirmed' = confirmed \/ confirmed' = asked) /\ asked' = 0
    BY <1>6 DEF HearRefreshed, Later
  <2>3. UNCHANGED <<versions, server>> /\ server.serving # Operator
    BY <1>6, <2>1 DEF HearRefreshed, OneRequest
  <2> QED BY <1>1, <1>2, <1>3, <2>1, <2>2, <2>3 DEF OperatorNotAhead
<1>7. CASE StartServer
  <2>1. /\ server'.config.version = Len(versions) /\ server'.serving = NoAnswer
        /\ UNCHANGED <<versions, answers, asked, confirmed>>
    BY <1>7 DEF StartServer, Config
  <2>2. answers[Operator] # NoAnswer => answers[Operator].version <= Len(versions)
    BY DEF OperatorNotAhead
  <2> QED BY <1>0, <1>1, <2>1, <2>2 DEF OperatorNotAhead
<1>8. CASE Answer
  <2>1. /\ server'.config = server.config /\ server'.up = server.up /\ server.up
        /\ server'.serving = NoAnswer /\ UNCHANGED <<versions, asked, confirmed>>
    BY <1>8 DEF Answer, TypeOK
  <2>2. \/ answers'[Operator] = answers[Operator]
        \/ server.serving = Operator /\ answers'[Operator] = server.config
    BY <1>0, <1>8 DEF Answer, TypeOK
  <2> QED BY <1>0, <1>1, <1>3, <2>1, <2>2 DEF OperatorNotAhead
<1>9. CASE Crash
  <2>1. ~server'.up /\ server'.serving = NoAnswer /\ UNCHANGED <<versions, asked, confirmed>>
    BY <1>9 DEF Crash
  <2>2. answers'[Operator] = answers[Operator] \/ answers'[Operator] = NoAnswer
    BY <1>0, <1>9 DEF Crash
  <2> QED BY <1>0, <2>1, <2>2 DEF OperatorNotAhead
<1>10. ASSUME NEW r \in Requesters, Take(r)
       PROVE  OperatorNotAhead'
  <2>1. UNCHANGED <<versions, asked, confirmed, answers>>
    BY <1>10 DEF Take
  <2>2. CASE r = Operator /\ Parses(Last(versions))
    <3>1. server'.config.version = Len(versions)
      BY <1>10, <2>2 DEF Take, Refreshed, Config
    <3>2. answers[Operator] = NoAnswer
      BY <1>10, <2>2 DEF Take, OneRequest
    <3> QED BY <1>1, <2>1, <3>1, <3>2 DEF OperatorNotAhead
  <2>3. CASE r = Operator /\ ~Parses(Last(versions))
    <3>1. ~server'.up /\ server'.serving = NoAnswer
      BY <1>10, <2>3 DEF Take, Refreshed
    <3> QED BY <1>0, <2>1, <3>1 DEF OperatorNotAhead
  <2>4. CASE r # Operator
    <3>1. server'.config = server.config /\ server'.up = server.up /\ server'.serving = r
      BY <1>10, <2>4 DEF Take, TypeOK
    <3> QED BY <2>1, <2>4, <3>1 DEF OperatorNotAhead
  <2> QED BY <2>2, <2>3, <2>4
<1>11. CASE CollectorStep \/ UNCHANGED vars
  <2>1. UNCHANGED <<versions, server, asked, confirmed>>
    BY <1>11 DEF CollectorStep, Collect, AskConfig, PollTimesOut, Configure, vars
  <2>2. answers'[Operator] = answers[Operator]
    BY <1>11, ConfigAssumption
       DEF CollectorStep, Collect, AskConfig, PollTimesOut, Configure, vars, TypeOK, Requesters
  <2> QED BY <2>1, <2>2 DEF OperatorNotAhead
<1> QED BY <1>4, <1>5, <1>6, <1>7, <1>8, <1>9, <1>10, <1>11 DEF Next, CollectorStep

\* What a collector gets is not older than what was confirmed when it asked.
LEMMA CollectorNotAheadStep ==
    ASSUME TypeOK, ServedWhole, OperatorNotAhead, [Next]_vars,
           NEW c \in Collectors, CollectorNotAhead(c)
    PROVE  CollectorNotAhead(c)'
<1>1. confirmed \in Nat /\ c # Operator /\ c \in Requesters
  BY ConfigAssumption DEF TypeOK, Requesters
<1>2. collector[c].since \in Nat /\ collector[c].version \in Nat
  BY DEF TypeOK
<1>3. CASE UNCHANGED <<confirmed, collector>> /\ answers'[c] \in {answers[c], NoAnswer}
  BY <1>3 DEF CollectorNotAhead
<1>4. CASE Edit \/ AskRefresh \/ StartServer \/ (\E r \in Requesters : Take(r)) \/ UNCHANGED vars
  <2>1. UNCHANGED <<confirmed, collector, answers>>
    BY <1>4 DEF Edit, AskRefresh, StartServer, Take, vars
  <2> QED BY <2>1, <1>3
<1>5. CASE Crash
  <2>1. answers'[c] \in {answers[c], NoAnswer}
    BY <1>1, <1>5 DEF Crash
  <2> QED BY <1>5, <2>1, <1>3 DEF Crash
<1>6. CASE HearRefreshed
  <2>2. confirmed <= confirmed' /\ confirmed' \in Nat
    BY <1>1, <1>6 DEF HearRefreshed, Later, TypeOK
  <2>3. answers'[c] = answers[c] /\ UNCHANGED collector
    BY <1>1, <1>6 DEF HearRefreshed, TypeOK
  <2> QED BY <1>1, <1>2, <2>2, <2>3 DEF CollectorNotAhead
<1>7. CASE Answer
  <2>1. UNCHANGED <<confirmed, collector>>
    BY <1>7 DEF Answer
  <2>2. CASE answers' = [answers EXCEPT ![c] = server.config] /\ Listening(c)
    <3>1. answers'[c] = server.config /\ collector[c].at = "polling"
      BY <1>1, <2>2 DEF TypeOK, Listening
    <3>2. confirmed <= server.config.version /\ server.config.version \in Nat
      BY <1>7 DEF Answer, OperatorNotAhead, TypeOK, Configs
    <3> QED BY <1>1, <1>2, <2>1, <3>1, <3>2 DEF CollectorNotAhead
  <2>3. CASE answers'[c] = answers[c]
    BY <2>1, <2>3, <1>3
  <2>4. CASE server.serving = c
    BY <1>7, <2>2, <2>3, <2>4 DEF Answer
  <2>5. CASE server.serving # c
    <3>1. answers'[c] = answers[c]
      BY <1>7, <2>5 DEF Answer, TypeOK
    <3> QED BY <2>3, <3>1
  <2> QED BY <2>4, <2>5
<1>8. ASSUME NEW d \in Collectors, AskConfig(d) \/ Collect(d), d # c
      PROVE  CollectorNotAhead(c)'
  <2>1. collector'[c] = collector[c] /\ answers'[c] = answers[c] /\ UNCHANGED confirmed
    BY <1>1, <1>8 DEF AskConfig, Collect, PollTimesOut, Configure, TypeOK
  <2> QED BY <2>1 DEF CollectorNotAhead
<1>9. CASE AskConfig(c)
  <2>1. collector[c].version = 0 /\ answers[c] = NoAnswer
    BY <1>9 DEF AskConfig, CollectorNotAhead
  <2>2. collector'[c] = [collector[c] EXCEPT !.at = "polling", !.tries = Retries, !.since = confirmed]
    BY <1>9 DEF AskConfig, TypeOK
  <2>3. /\ collector'[c].at = "polling" /\ collector'[c].tries # 0
        /\ collector'[c].since = confirmed /\ collector'[c].version = 0
    BY <2>1, <2>2 DEF TypeOK, Retries
  <2>4. answers'[c] = NoAnswer /\ confirmed' = confirmed
    BY <1>9, <2>1 DEF AskConfig
  <2> QED BY <1>1, <2>3, <2>4 DEF CollectorNotAhead
<1>10. CASE PollTimesOut(c)
  <2>1. answers'[c] = NoAnswer /\ UNCHANGED confirmed
    BY <1>10 DEF PollTimesOut
  <2>2. collector'[c] = [collector[c] EXCEPT
                           !.tries = collector[c].tries - 1,
                           !.at = IF collector[c].tries = 1 THEN "failed" ELSE "polling"]
    BY <1>10 DEF PollTimesOut, TypeOK
  <2>3. collector[c].tries \in Nat /\ collector[c].tries # 0 /\ collector[c].version = 0
    BY <1>10 DEF PollTimesOut, TypeOK, CollectorNotAhead, Retries
  <2>4. /\ collector'[c].since = collector[c].since /\ collector'[c].version = 0
        /\ collector'[c].at = IF collector[c].tries = 1 THEN "failed" ELSE "polling"
        /\ collector'[c].tries = collector[c].tries - 1
    BY <2>2, <2>3 DEF TypeOK
  <2> QED BY <2>1, <2>3, <2>4 DEF CollectorNotAhead
<1>11. CASE Configure(c)
  <2> DEFINE venue == VenueConfig(answers[c].sections, MicOf[c])
             at == IF venue.id <= 0 THEN "failed" ELSE "ready"
  <2>1. answers'[c] = NoAnswer /\ UNCHANGED confirmed
    BY <1>1, <1>11 DEF Configure, TypeOK
  <2>2. collector'[c] = [collector[c] EXCEPT !.version = answers[c].version, !.venue = venue,
                                            !.at = at]
    BY <1>11 DEF Configure, TypeOK
  <2>3. answers[c].version >= collector[c].since
    BY <1>11 DEF Configure, CollectorNotAhead
  <2>4. at \in {"failed", "ready"}
    OBVIOUS
  <2> HIDE DEF venue, at
  <2>5. /\ collector'[c].since = collector[c].since
        /\ collector'[c].version = answers[c].version
        /\ collector'[c].at = at
    BY <2>2 DEF TypeOK
  <2> QED BY <2>1, <2>3, <2>4, <2>5 DEF CollectorNotAhead
<1>12. CollectorStep => CollectorNotAhead(c)'
  BY <1>8, <1>9, <1>10, <1>11 DEF CollectorStep, Collect
<1> QED BY <1>4, <1>5, <1>6, <1>7, <1>12 DEF Next, CollectorStep

-----------------------------------------------------------------------------
(***************************************************************************)
(* The theorems.                                                           *)
(***************************************************************************)

\* The strengthened invariant is inductive.
THEOREM ConfigIndInvariant == Spec => []IInv
<1>1. Init => IInv
  <2> SUFFICES ASSUME Init PROVE IInv
    OBVIOUS
  <2>1. TypeOK
    BY InitTypeOK
  <2>2. ServedWhole
    BY DEF Init, ServedWhole
  <2>3. OneRequest /\ OperatorNotAhead
    BY <2>1, ConfigAssumption DEF Init, OneRequest, OperatorNotAhead, Requesters, TypeOK
  <2>4. \A c \in Collectors : CollectorNotAhead(c)
    BY DEF Init, CollectorNotAhead, Requesters
  <2> QED BY <2>1, <2>2, <2>3, <2>4 DEF IInv
<1>2. IInv /\ [Next]_vars => IInv'
  <2> SUFFICES ASSUME IInv, [Next]_vars PROVE IInv'
    OBVIOUS
  <2>1. TypeOK'
    <3>1. \A c \in Collectors : collector[c].at = "polling" => collector[c].tries # 0
      BY DEF IInv, CollectorNotAhead
    <3>2. CASE UNCHANGED vars
      BY <3>2 DEF IInv, TypeOK, vars
    <3> QED BY <3>1, <3>2, OperatorTypeOK, ServerTypeOK, CollectorTypeOK
            DEF IInv, Next, OperatorStep, ServerStep, CollectorStep
  <2>2. ServedWhole'
    BY ServedWholeStep DEF IInv
  <2>3. OneRequest' /\ OperatorNotAhead'
    BY OneRequestStep, OperatorNotAheadStep DEF IInv
  <2>4. ASSUME NEW c \in Collectors
        PROVE  CollectorNotAhead(c)'
    BY CollectorNotAheadStep DEF IInv
  <2> QED BY <2>1, <2>2, <2>3, <2>4 DEF IInv
<1> QED BY <1>1, <1>2, PTL DEF Spec

\* The types hold, whatever the file contains and however often the server crashes.
THEOREM ConfigTypeCorrect == Spec => []TypeOK
<1>1. IInv => TypeOK
  BY DEF IInv
<1> QED BY <1>1, ConfigIndInvariant, PTL

\* The server answers from a whole version of the file.
THEOREM AlwaysWhole == Spec => []ServedWhole
<1>1. IInv => ServedWhole
  BY DEF IInv
<1> QED BY <1>1, ConfigIndInvariant, PTL

\* A refresh the operator was told of reaches every collector that asks afterwards.
THEOREM AlwaysFresh == Spec => []FreshAfterRefresh
<1>1. IInv => FreshAfterRefresh
  BY DEF IInv, CollectorNotAhead, FreshAfterRefresh
<1> QED BY <1>1, ConfigIndInvariant, PTL
=============================================================================
