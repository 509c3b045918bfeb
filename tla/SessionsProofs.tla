---------------------------- MODULE SessionsProofs ----------------------------
(***************************************************************************)
(* Proofs about Sessions: its gateway is Gateway, and what the two servers *)
(* keep right about sessions, for every number of connections, accounts,   *)
(* messages and loads under way.                                           *)
(***************************************************************************)
EXTENDS Sessions, GatewayProofs

\* A connection of the gateway that the logic server has accepted broke or is
\* open, and messages only travel while it is.
LinkCounted ==
    /\ link \in Nat
    /\ LogicUp => 0 < link /\ link <= downs + 1
    /\ ~LogicUp => link <= downs /\ to_logic = <<>>

\* No object stores a connection that is yet to come.
LinksKnown ==
    /\ \A u \in Uids : session[u] <= link
    /\ \A m \in BagToSet(loads) : m.link <= link

SInv == /\ KeysOK /\ ServersOK
        /\ SessionsTypeOK /\ LinkCounted /\ LinksKnown /\ OnlineHasSession

------------------------------------------------------------------------------
(* The gateway of Sessions is Gateway                                      *)

LEMMA GatewayStep == [SessionsNext]_allVars => [Next]_vars
<1> SUFFICES ASSUME [SessionsNext]_allVars PROVE [Next]_vars
  OBVIOUS
<1>1. CASE Elsewhere
  BY <1>1 DEF Elsewhere, Next, FromAuth
<1>2. ASSUME NEW c \in Clients, Closes(c)
      PROVE  Next
  BY <1>2 DEF Closes, Next
<1>3. CASE LoggedIn \/ LoggedOutOf
  BY <1>3 DEF LoggedIn, LoggedOutOf, Next, FromAuth
<1>4. CASE LogicConnected \/ LogicLost
  BY <1>4, LogicServerAssumption DEF LogicConnected, LogicLost, Next
<1>5. ASSUME NEW c \in Clients, AsksToEnter(c)
      PROVE  UNCHANGED vars
  BY <1>5 DEF AsksToEnter
<1>6. CASE EnterAgain \/ Enter \/ Leave \/ EnterAnswered
  BY <1>6 DEF EnterAgain, Enter, Leave, EnterAnswered
<1>7. CASE Load
  BY <1>7 DEF Load, LoadEnds, Loaded, LoadFails, LoadHangs
<1>8. CASE UNCHANGED allVars
  BY <1>8 DEF allVars
<1> QED
  BY <1>1, <1>2, <1>3, <1>4, <1>5, <1>6, <1>7, <1>8 DEF SessionsNext

\* Every behaviour of the two servers is one of the gateway: what holds of
\* Gateway holds of it together with the logic server.
THEOREM SessionsImplementsGateway == SessionsSpec => Spec
<1>1. SessionsInit => Init
  BY DEF SessionsInit
<1> QED
  BY <1>1, GatewayStep, PTL DEF SessionsSpec, Spec

------------------------------------------------------------------------------
(* Sessions                                                                *)

LEMMA LogicFacts ==
    /\ LogicServer \in Servers /\ LogicServer # AuthServer
    /\ MaxAsk \in Nat /\ MaxLoadFails \in Nat
  BY LogicServerAssumption, SessionsBounds

LEMMA SessionsInitially == SessionsInit => SInv
<1> SUFFICES ASSUME SessionsInit PROVE SInv
  OBVIOUS
<1>1. KeysOK /\ ServersOK
  BY KeysInit, ServersInit DEF SessionsInit
<1>2. ~LogicUp /\ downs = 0
  BY LogicFacts DEF SessionsInit, Init, LogicUp
<1>3. /\ to_logic = <<>> /\ from_logic = <<>> /\ link = 0 /\ BagToSet(loads) = {}
      /\ online = [u \in Uids |-> FALSE] /\ session = [u \in Uids |-> 0]
      /\ failed = {} /\ asked = {}
  BY BagEmpty DEF SessionsInit
<1>4. SessionsTypeOK
  BY <1>3 DEF SessionsTypeOK
<1>5. LinkCounted
  BY <1>2, <1>3 DEF LinkCounted
<1>6. LinksKnown
  BY <1>3 DEF LinksKnown
<1>7. OnlineHasSession
  BY <1>2 DEF OnlineHasSession
<1> QED
  BY <1>1, <1>4, <1>5, <1>6, <1>7 DEF SInv

LEMMA DownsGrow ==
    ASSUME ServersOK, [Next]_vars
    PROVE  downs' >= downs
<1>1. downs \in Nat
  BY ConstantFacts DEF ServersOK, ServerTypes
<1>2. \/ downs' = downs
      \/ downs' = downs + 1
  <2>1. CASE ClientStep \/ UNCHANGED vars
    BY <2>1, ClientStepServers DEF serverVars, vars
  <2>2. CASE check_session_connect
    BY <2>2 DEF check_session_connect
  <2>3. ASSUME NEW s \in Servers,
               Connected(s) \/ ConnectFailed(s) \/ ConnectStalls(s) \/ ServerLost(s)
        PROVE  downs' = downs \/ downs' = downs + 1
    BY <2>3 DEF Connected, ConnectFailed, ConnectStalls, ServerLost
  <2> QED
    BY <2>1, <2>2, <2>3 DEF Next, ClientStep
<1> QED
  BY <1>1, <1>2

LEMMA ElsewhereLogicUp ==
    ASSUME ServersOK, Elsewhere
    PROVE  LogicUp' <=> LogicUp
  BY LogicFacts
     DEF ServersOK, ServerTypes, LogicUp, Elsewhere, serverVars, check_session_connect,
         Connected, ConnectFailed, ConnectStalls, ServerLost, ClientConnects, LoginReq,
         LoginOutReq, AuthTakes, AuthAnswer, LookupEnds, AuthAnswers, AuthForgets,
         LoginResDropped, LoginResRefused

LEMMA LinkTyped ==
    ASSUME SInv
    PROVE  link \in Links \cup {0} /\ downs \in Nat /\ link \in Nat
  BY ConstantFacts DEF SInv, SessionsTypeOK, ServersOK, ServerTypes, Links

LEMMA OneMore == \A a, b, c \in Nat : a <= b + 1 /\ c >= b => a <= c + 1
  OBVIOUS

\* Steps that leave the players alone.
LEMMA PlayersKept ==
    ASSUME SInv, [Next]_vars, LogicUp' <=> LogicUp,
           UNCHANGED <<from_logic, link, loads, online, session, failed>>,
           to_logic' \in Seq(Messages), asked' \subseteq Clients,
           ~LogicUp => to_logic' = <<>>
    PROVE  SInv'
<1>1. KeysOK' /\ ServersOK'
  BY KeysStep, ServersStep DEF SInv
<1>2. SessionsTypeOK'
  BY DEF SInv, SessionsTypeOK
<1>3. LinkCounted'
  <2>1. downs' >= downs /\ downs \in Nat /\ downs' \in Nat /\ link \in Nat
    BY <1>1, DownsGrow, ConstantFacts DEF SInv, ServersOK, ServerTypes, LinkCounted
  <2>2. CASE LogicUp
    <3>1. 0 < link /\ link <= downs + 1
      BY <2>2 DEF SInv, LinkCounted
    <3>2. link' = link
      OBVIOUS
    <3>3. link' \in Nat /\ 0 < link' /\ link' <= downs' + 1
      <4>1. link' \in Nat /\ 0 < link'
        BY <2>1, <3>1, <3>2
      <4>2. link' <= downs' + 1
        BY <2>1, <3>1, <3>2, OneMore
      <4> QED
        BY <4>1, <4>2
    <3>4. LogicUp'
      BY <2>2, Zenon
    <3> QED
      BY <3>3, <3>4, Zenon DEF LinkCounted
  <2>3. CASE ~LogicUp
    <3>1. link <= downs
      BY <2>3 DEF SInv, LinkCounted
    <3>2. link' \in Nat /\ link' <= downs' /\ to_logic' = <<>>
      BY <2>1, <2>3, <3>1
    <3>3. ~LogicUp'
      BY <2>3, Zenon
    <3> QED
      BY <3>2, <3>3, Zenon DEF LinkCounted
  <2> QED
    BY <2>2, <2>3
<1>4. LinksKnown' /\ OnlineHasSession'
  BY DEF SInv, LinksKnown, OnlineHasSession
<1> QED
  BY <1>1, <1>2, <1>3, <1>4 DEF SInv

LEMMA LostMessageTyped ==
    ASSUME SInv, NEW c \in Clients
    PROVE  /\ to_logic \o LostMessage(c) \in Seq(Messages)
           /\ ~LogicUp => to_logic \o LostMessage(c) = <<>>
<1>1. uid[c] \in Uids \cup {0} /\ to_logic \in Seq(Messages)
  BY DEF SInv, SessionsTypeOK, KeysOK, UidTypes
<1>2. CASE uid[c] # 0 /\ LogicUp
  <2>1. [kind |-> "lost", uid |-> uid[c]] \in Messages
    BY <1>1, <1>2 DEF Messages
  <2> QED
    BY <1>1, <1>2, <2>1 DEF LostMessage
<1>3. CASE ~(uid[c] # 0 /\ LogicUp)
  BY <1>1, <1>3 DEF LostMessage, SInv, LinkCounted
<1> QED
  BY <1>2, <1>3

\* Steps of the logic server.
LEMMA ServersKept ==
    ASSUME SInv, UNCHANGED vars, link' = link, SessionsTypeOK', LinksKnown',
           OnlineHasSession', ~LogicUp => to_logic' = <<>>
    PROVE  SInv'
<1>1. KeysOK' /\ ServersOK'
  BY KeysStep, ServersStep DEF SInv
<1>2. LinkCounted'
  BY DEF SInv, LinkCounted, LogicUp, vars, serverVars
<1> QED
  BY <1>1, <1>2 DEF SInv

LEMMA LogicConnectedStep ==
    ASSUME SInv, LogicConnected
    PROVE  SInv'
<1>1. [Next]_vars
  BY GatewayStep DEF SessionsNext
<1>2. KeysOK' /\ ServersOK'
  BY <1>1, KeysStep, ServersStep DEF SInv
<1>3. ~LogicUp /\ LogicUp' /\ downs' = downs
  <2>1. attempts[LogicServer] > 0 /\ downs' = downs
    BY DEF LogicConnected, Connected
  <2>2. attempts[LogicServer] + sockets[LogicServer] <= 1
    BY LogicFacts DEF SInv, ServersOK, OneConnection
  <2>3. attempts[LogicServer] \in Nat /\ sockets[LogicServer] \in Nat
    BY LogicFacts DEF SInv, ServersOK, ServerTypes
  <2>4. sockets[LogicServer] # 1
    BY <2>1, <2>2, <2>3
  <2>5. ~session_map[LogicServer]
    BY <2>4, LogicFacts DEF SInv, ServersOK, OneConnection
  <2>6. session_map' = [session_map EXCEPT ![LogicServer] = TRUE]
    BY DEF LogicConnected, Connected
  <2>7. session_map'[LogicServer]
    BY <2>6, LogicFacts DEF SInv, ServersOK, ServerTypes
  <2> QED
    BY <2>1, <2>5, <2>7 DEF LogicUp
<1>4. /\ link' = link + 1 /\ link <= downs /\ link \in Nat /\ downs \in Nat
      /\ downs <= MaxDowns
  BY <1>3, ConstantFacts DEF LogicConnected, NextLink, SInv, LinkCounted, ServersOK,
                             ServerTypes
<1>5. link' \in Links
  BY <1>4, ConstantFacts DEF Links
<1>6. /\ UNCHANGED <<to_logic, from_logic, loads, online, failed, asked>>
      /\ session' = [u \in Uids |-> IF online[u] THEN link' ELSE session[u]]
  BY DEF LogicConnected, SessionsAfter
<1>7. SessionsTypeOK'
  BY <1>5, <1>6 DEF SInv, SessionsTypeOK
<1>8. LinkCounted'
  <2>1. link' \in Nat /\ 0 < link' /\ link' <= downs' + 1
    BY <1>3, <1>4
  <2> QED
    BY <1>3, <2>1, Zenon DEF LinkCounted
<1>9. LinksKnown'
  <2>1. ASSUME NEW u \in Uids
        PROVE  session'[u] <= link'
    <3>1. session[u] <= link /\ session[u] \in Int
      BY DEF SInv, LinksKnown, SessionsTypeOK, Links
    <3> QED
      BY <1>4, <1>6, <3>1
  <2>2. ASSUME NEW m \in BagToSet(loads)
        PROVE  m.link <= link'
    <3>1. m.link <= link /\ m.link \in Int
      BY DEF SInv, LinksKnown, SessionsTypeOK, Links
    <3> QED
      BY <1>4, <3>1
  <2> QED
    BY <1>6, <2>1, <2>2 DEF LinksKnown
<1>10. OnlineHasSession'
  <2>1. \A u \in Uids : online'[u] => session'[u] = link'
    BY <1>6
  <2>2. link' # 0
    BY <1>4
  <2> QED
    BY <2>1, <2>2 DEF OnlineHasSession
<1> QED
  BY <1>2, <1>7, <1>8, <1>9, <1>10 DEF SInv

LEMMA LogicLostStep ==
    ASSUME SInv, LogicLost
    PROVE  SInv'
<1>1. [Next]_vars
  BY GatewayStep DEF SessionsNext
<1>2. KeysOK' /\ ServersOK'
  BY <1>1, KeysStep, ServersStep DEF SInv
<1>3. LogicUp /\ ~LogicUp' /\ downs' = downs + 1
  <2>1. /\ session_map[LogicServer] /\ downs' = downs + 1
        /\ session_map' = [session_map EXCEPT ![LogicServer] = FALSE]
    BY DEF LogicLost, ServerLost
  <2>2. ~session_map'[LogicServer]
    BY <2>1, LogicFacts DEF SInv, ServersOK, ServerTypes
  <2> QED
    BY <2>1, <2>2 DEF LogicUp
<1>4. link' = link /\ link <= downs + 1 /\ link \in Nat /\ downs \in Nat
  BY <1>3, ConstantFacts DEF LogicLost, SInv, LinkCounted, ServersOK, ServerTypes
<1>5. /\ UNCHANGED <<loads, online, failed>>
      /\ to_logic' = <<>> /\ from_logic' = <<>> /\ asked' = {}
      /\ session' = [u \in Uids |-> IF online[u] THEN 0 ELSE session[u]]
  BY DEF LogicLost, SessionsAfter
<1>6. SessionsTypeOK'
  BY <1>4, <1>5 DEF SInv, SessionsTypeOK
<1>7. LinkCounted'
  <2>1. link' \in Nat /\ link' <= downs'
    BY <1>3, <1>4
  <2> QED
    BY <1>3, <1>5, <2>1, Zenon DEF LinkCounted
<1>8. LinksKnown'
  BY <1>4, <1>5 DEF SInv, LinksKnown
<1>9. OnlineHasSession'
  BY <1>3 DEF OnlineHasSession
<1> QED
  BY <1>2, <1>6, <1>7, <1>8, <1>9 DEF SInv

\* The head of the messages to the logic server.
LEMMA MessageTaken ==
    ASSUME SInv, to_logic # <<>>
    PROVE  /\ LogicUp /\ link \in Links
           /\ Head(to_logic) \in Messages /\ Head(to_logic).uid \in Uids
           /\ Tail(to_logic) \in Seq(Messages)
<1>1. to_logic \in Seq(Messages)
  BY DEF SInv, SessionsTypeOK
<1>2. Head(to_logic) \in Messages /\ Tail(to_logic) \in Seq(Messages)
  BY <1>1, ItemsHeadTail
<1>3. LogicUp /\ link > 0
  BY DEF SInv, LinkCounted
<1>4. link \in Links
  BY <1>3, LinkTyped
<1> QED
  BY <1>2, <1>3, <1>4 DEF Messages

LEMMA EnterSteps ==
    ASSUME SInv, EnterAgain \/ Enter \/ Leave
    PROVE  SInv'
<1> DEFINE u == Head(to_logic).uid
<1>1. to_logic # <<>> /\ to_logic' = Tail(to_logic) /\ UNCHANGED vars /\ link' = link
  BY DEF EnterAgain, Enter, Leave, Takes
<1>2. LogicUp /\ link \in Links /\ u \in Uids /\ to_logic' \in Seq(Messages)
  BY <1>1, MessageTaken
<1>3. link # 0 /\ link \in Nat
  BY <1>2, LinkTyped DEF Links
<1>4. CASE EnterAgain
  <2>1. /\ session' = [session EXCEPT ![u] = link]
        /\ from_logic' = Append(from_logic, u)
        /\ UNCHANGED <<loads, online, failed, asked>>
    BY <1>4 DEF EnterAgain
  <2>2. SessionsTypeOK'
    BY <1>1, <1>2, <2>1 DEF SInv, SessionsTypeOK
  <2>3. LinksKnown'
    BY <1>1, <1>3, <2>1 DEF SInv, LinksKnown, SessionsTypeOK
  <2>4. OnlineHasSession'
    BY <1>2, <1>3, <2>1 DEF SInv, OnlineHasSession, SessionsTypeOK
  <2> QED
    BY <1>1, <1>2, <2>2, <2>3, <2>4, ServersKept
<1>5. CASE Enter
  <2> DEFINE m == [uid |-> u, link |-> link]
  <2>1. /\ BagToSet(loads') = BagToSet(loads) \cup {m}
        /\ UNCHANGED <<from_logic, online, session, failed, asked>>
    BY <1>5, BagAdd DEF Enter
  <2>2. m \in [uid : Uids, link : Links] /\ m.link = link
    BY <1>2
  <2>3. SessionsTypeOK'
    BY <1>1, <1>2, <2>1, <2>2 DEF SInv, SessionsTypeOK
  <2>4. LinksKnown'
    BY <1>1, <1>3, <2>1, <2>2 DEF SInv, LinksKnown
  <2>5. OnlineHasSession'
    BY <1>1, <2>1 DEF SInv, OnlineHasSession, LogicUp, vars, serverVars
  <2> QED
    BY <1>1, <1>2, <2>3, <2>4, <2>5, ServersKept
<1>6. CASE Leave
  <2>1. /\ online' = [online EXCEPT ![u] = FALSE]
        /\ session' = [session EXCEPT ![u] = 0]
        /\ UNCHANGED <<from_logic, loads, failed, asked>>
    BY <1>6 DEF Leave
  <2>2. SessionsTypeOK'
    BY <1>1, <1>2, <2>1 DEF SInv, SessionsTypeOK
  <2>3. LinksKnown'
    BY <1>1, <1>3, <2>1 DEF SInv, LinksKnown, SessionsTypeOK
  <2>4. OnlineHasSession'
    BY <1>2, <2>1 DEF SInv, OnlineHasSession, SessionsTypeOK
  <2> QED
    BY <1>1, <1>2, <2>2, <2>3, <2>4, ServersKept
<1> QED
  BY <1>4, <1>5, <1>6

LEMMA LoadSteps ==
    ASSUME SInv, NEW m \in BagToSet(loads), LoadEnds(m)
    PROVE  SInv'
<1>1. /\ m.uid \in Uids /\ m.link \in Links /\ m.link <= link
      /\ m.link # 0
  <2>1. m \in [uid : Uids, link : Links] /\ m.link <= link
    BY DEF SInv, SessionsTypeOK, LinksKnown
  <2> QED
    BY <2>1 DEF Links
<1>2. /\ UNCHANGED vars /\ link' = link /\ to_logic' = to_logic /\ asked' \subseteq asked
      /\ BagToSet(loads') \subseteq BagToSet(loads)
  BY BagRemove DEF LoadEnds, Loaded, LoadFails, LoadHangs
<1>3. from_logic' \in Seq(Uids)
  <2>1. from_logic' \in {from_logic, Append(from_logic, m.uid)}
    BY DEF LoadEnds, Loaded, LoadFails, LoadHangs, AnswerToFailed, Answer
  <2>2. from_logic \in Seq(Uids) /\ m.uid \in Uids
    BY <1>1 DEF SInv, SessionsTypeOK
  <2>3. Append(from_logic, m.uid) \in Seq(Uids)
    BY <2>2
  <2> QED
    BY <2>1, <2>2, <2>3
<1>4. ~LogicUp => to_logic' = <<>>
  BY <1>2 DEF SInv, LinkCounted
<1>5. CASE Loaded(m)
  <2>1. /\ online' = [online EXCEPT ![m.uid] = TRUE]
        /\ session' = IF online[m.uid] THEN session ELSE [session EXCEPT ![m.uid] = m.link]
        /\ failed' = failed
    BY <1>5 DEF Loaded, ComesOnline
  <2>2. SessionsTypeOK'
    BY <1>1, <1>2, <1>3, <2>1 DEF SInv, SessionsTypeOK
  <2>3. LinksKnown'
    BY <1>1, <1>2, <2>1 DEF SInv, LinksKnown, SessionsTypeOK
  <2>4. OnlineHasSession'
    <3> SUFFICES ASSUME LogicUp', NEW v \in Uids, online'[v]
                 PROVE  session'[v] # 0
      BY DEF OnlineHasSession
    <3>1. LogicUp
      BY <1>2 DEF LogicUp, vars, serverVars
    <3>2. CASE online[v]
      <4>1. session[v] # 0
        BY <3>1, <3>2 DEF SInv, OnlineHasSession
      <4> QED
        BY <1>1, <2>1, <4>1 DEF SInv, SessionsTypeOK
    <3>3. CASE ~online[v]
      <4>1. v = m.uid
        BY <2>1, <3>3 DEF SInv, SessionsTypeOK
      <4> QED
        BY <1>1, <2>1, <3>3, <4>1 DEF SInv, SessionsTypeOK
    <3> QED
      BY <3>2, <3>3
  <2> QED
    BY <1>2, <1>4, <2>2, <2>3, <2>4, ServersKept
<1>6. CASE LoadFails(m) \/ LoadHangs(m)
  <2>1. online' = online /\ session' = session /\ failed' \in {failed, failed \cup {m.uid}}
    BY <1>6 DEF LoadFails, LoadHangs
  <2>2. SessionsTypeOK'
    BY <1>1, <1>2, <1>3, <2>1 DEF SInv, SessionsTypeOK
  <2>3. LinksKnown'
    BY <1>2, <2>1 DEF SInv, LinksKnown
  <2>4. OnlineHasSession'
    BY <1>2, <2>1 DEF SInv, OnlineHasSession, LogicUp, vars, serverVars
  <2> QED
    BY <1>2, <1>4, <2>2, <2>3, <2>4, ServersKept
<1> QED
  BY <1>5, <1>6 DEF LoadEnds

LEMMA SessionsStep ==
    ASSUME SInv, [SessionsNext]_allVars
    PROVE  SInv'
<1>1. [Next]_vars
  BY GatewayStep
<1>2. ASSUME UNCHANGED serverVars
      PROVE  LogicUp' <=> LogicUp
  BY <1>2 DEF LogicUp, serverVars
<1>3. /\ to_logic \in Seq(Messages) /\ asked \subseteq Clients
      /\ ~LogicUp => to_logic = <<>>
  BY DEF SInv, SessionsTypeOK, LinkCounted
<1>4. CASE Elsewhere
  <2>1. LogicUp' <=> LogicUp
    BY <1>4, ElsewhereLogicUp DEF SInv
  <2>2. UNCHANGED <<to_logic, from_logic, link, loads, online, session, failed, asked>>
    BY <1>4 DEF Elsewhere, logicVars
  <2> QED
    BY <1>1, <1>3, <2>1, <2>2, PlayersKept
<1>5. ASSUME NEW c \in Clients, Closes(c)
      PROVE  SInv'
  <2>1. UNCHANGED serverVars
    BY <1>5, ClientStepServers DEF Closes, ClientStep
  <2>2. /\ to_logic' = to_logic \o LostMessage(c) /\ asked' \subseteq asked
        /\ UNCHANGED <<from_logic, link, loads, online, session, failed>>
    BY <1>5 DEF Closes
  <2> QED
    BY <1>1, <1>2, <1>3, <2>1, <2>2, LostMessageTyped, PlayersKept
<1>6. ASSUME NEW c \in Clients, AsksToEnter(c)
      PROVE  SInv'
  <2>1. UNCHANGED vars /\ UNCHANGED <<from_logic, link, loads, online, session, failed>>
    BY <1>6 DEF AsksToEnter
  <2>2. LogicUp /\ uid[c] \in Uids
    BY <1>6 DEF AsksToEnter, CanSend, LogicUp, SInv, KeysOK, UidTypes
  <2>3. to_logic' \in Seq(Messages)
    <3>1. [kind |-> "login", uid |-> uid[c]] \in Messages
      BY <2>2 DEF Messages
    <3> QED
      BY <1>3, <1>6, <3>1 DEF AsksToEnter
  <2>4. asked' \subseteq Clients
    BY <1>3, <1>6 DEF AsksToEnter
  <2>5. LogicUp' <=> LogicUp
    BY <1>2, <2>1 DEF vars
  <2> QED
    BY <1>1, <2>1, <2>2, <2>3, <2>4, <2>5, PlayersKept
<1>7. CASE LoggedIn
  <2> DEFINE c == client_session_utag[Head(from_auth).utag]
  <2>1. UNCHANGED serverVars
    BY <1>7, ClientStepServers DEF LoggedIn, ClientStep, FromAuth
  <2>2. c \in Clients
    <3>1. Head(from_auth) \in LoginAnswers
      BY <1>7, ItemsHeadTail DEF LoggedIn, LoginResOK, SInv, KeysOK, MessageTypes, LogOuts
    <3> QED
      BY <1>7, <3>1 DEF LoggedIn, LoginResOK, LoginAnswers, SInv, KeysOK, KeyTypes
  <2>3. /\ to_logic' \in {to_logic, to_logic \o LostMessage(c)}
        /\ asked' \subseteq asked
        /\ UNCHANGED <<from_logic, link, loads, online, session, failed>>
    BY <1>7 DEF LoggedIn, StillMapped
  <2>4. /\ to_logic' \in Seq(Messages)
        /\ ~LogicUp => to_logic' = <<>>
    BY <1>3, <2>2, <2>3, LostMessageTyped
  <2> QED
    BY <1>1, <1>2, <1>3, <2>1, <2>3, <2>4, PlayersKept
<1>8. CASE LoggedOutOf
  <2>1. UNCHANGED serverVars
    BY <1>8, ClientStepServers DEF LoggedOutOf, ClientStep, FromAuth
  <2>2. /\ asked' \subseteq asked
        /\ UNCHANGED <<to_logic, from_logic, link, loads, online, session, failed>>
    BY <1>8 DEF LoggedOutOf, StillMapped, logicVars
  <2> QED
    BY <1>1, <1>2, <1>3, <2>1, <2>2, PlayersKept
<1>9. CASE LogicConnected
  BY <1>9, LogicConnectedStep
<1>10. CASE LogicLost
  BY <1>10, LogicLostStep
<1>11. CASE EnterAgain \/ Enter \/ Leave
  BY <1>11, EnterSteps
<1>12. CASE Load
  BY <1>12, LoadSteps DEF Load
<1>13. CASE EnterAnswered
  <2>1. /\ UNCHANGED vars /\ UNCHANGED <<to_logic, link, loads, online, session, failed>>
        /\ asked' \subseteq asked /\ from_logic # <<>> /\ from_logic' = Tail(from_logic)
    BY <1>13 DEF EnterAnswered
  <2>2. SessionsTypeOK'
    BY <2>1, ItemsHeadTail DEF SInv, SessionsTypeOK
  <2>3. LinksKnown' /\ OnlineHasSession'
    BY <2>1 DEF SInv, LinksKnown, OnlineHasSession, LogicUp, vars, serverVars
  <2> QED
    BY <1>3, <2>1, <2>2, <2>3, ServersKept
<1>14. CASE UNCHANGED allVars
  <2>1. UNCHANGED vars /\ UNCHANGED logicVars /\ UNCHANGED asked
    BY <1>14 DEF allVars
  <2>2. LogicUp' <=> LogicUp
    BY <1>2, <2>1 DEF vars
  <2> QED
    BY <1>1, <1>3, <2>1, <2>2, PlayersKept DEF logicVars
<1> QED
  BY <1>4, <1>5, <1>6, <1>7, <1>8, <1>9, <1>10, <1>11, <1>12, <1>13, <1>14
     DEF SessionsNext

LEMMA SessionsInductive == SessionsSpec => []SInv
<1>1. SessionsInit => SInv
  BY SessionsInitially
<1>2. SInv /\ [SessionsNext]_allVars => SInv'
  BY SessionsStep
<1> QED
  BY <1>1, <1>2, PTL DEF SessionsSpec

\* Every variable of the two servers keeps its type; in particular no more
\* connections are accepted than broke, and one.
THEOREM SessionsTypeCorrect == SessionsSpec => []SessionsTypeOK
<1>1. SInv => SessionsTypeOK
  BY DEF SInv
<1> QED
  BY <1>1, SessionsInductive, PTL

\* on_gateway_connect, login_server_enter: while the gateway is connected every
\* online player has a session.
THEOREM OnlineHasSessionCorrect == SessionsSpec => []OnlineHasSession
<1>1. SInv => OnlineHasSession
  BY DEF SInv
<1> QED
  BY <1>1, SessionsInductive, PTL

\* The callback of player:init, on_gateway_connect: no step gives an online
\* player an older session than it has.
THEOREM SessionNeverGoesBackCorrect == SessionsSpec => SessionNeverGoesBack
<1> DEFINE Newer == \A u \in Uids : online[u] /\ online'[u] /\ session'[u] # 0
                        => session'[u] >= session[u]
<1>1. ASSUME SInv, [SessionsNext]_allVars
      PROVE  Newer
  <2> SUFFICES ASSUME NEW u \in Uids, online[u], online'[u], session'[u] # 0
               PROVE  session'[u] >= session[u]
    OBVIOUS
  <2>1. session[u] \in Nat /\ session[u] <= link /\ link \in Nat
    BY <1>1, LinkTyped, ConstantFacts DEF SInv, SessionsTypeOK, LinksKnown, Links
  <2>2. CASE session' = session
    BY <2>1, <2>2
  <2>3. CASE LogicConnected
    <3>1. session'[u] = link + 1
      BY <2>3 DEF LogicConnected, SessionsAfter, NextLink
    <3> QED
      BY <2>1, <3>1
  <2>4. CASE LogicLost
    BY <2>4 DEF LogicLost, SessionsAfter
  <2>5. CASE EnterAgain
    <3>1. session' = [session EXCEPT ![Head(to_logic).uid] = link]
      BY <2>5 DEF EnterAgain
    <3> QED
      BY <1>1, <2>1, <3>1 DEF SInv, SessionsTypeOK
  <2>6. CASE Leave
    <3>1. online' = [online EXCEPT ![Head(to_logic).uid] = FALSE]
      BY <2>6 DEF Leave
    <3>2. u # Head(to_logic).uid
      BY <1>1, <3>1 DEF SInv, SessionsTypeOK
    <3>3. session'[u] = session[u]
      BY <1>1, <2>6, <3>2 DEF Leave, SInv, SessionsTypeOK
    <3> QED
      BY <2>1, <3>3
  <2>7. ASSUME NEW m \in BagToSet(loads), Loaded(m)
        PROVE  session'[u] >= session[u]
    <3>1. session' = IF online[m.uid] THEN session ELSE [session EXCEPT ![m.uid] = m.link]
      BY <2>7 DEF Loaded, ComesOnline
    <3>2. session'[u] = session[u]
      BY <1>1, <3>1 DEF SInv, SessionsTypeOK
    <3> QED
      BY <2>1, <3>2
  <2> QED
    BY <1>1, <2>2, <2>3, <2>4, <2>5, <2>6, <2>7
       DEF SessionsNext, Elsewhere, logicVars, allVars, Closes, AsksToEnter, LoggedIn,
           LoggedOutOf, Enter, Load, LoadEnds, LoadFails, LoadHangs, EnterAnswered
<1>2. SInv /\ [SessionsNext]_allVars => [Newer]_allVars
  BY <1>1
<1> QED
  BY <1>2, SessionsInductive, PTL DEF SessionsSpec, SessionNeverGoesBack
------------------------------------------------------------------------------
(* Who waits for the answer to a request to enter the logic server         *)

\* A request of account u is on its way to the logic server, or its player loads
\* over the connection of today, or the answer is on its way.
EnterUnderWay(u) ==
    \/ [kind |-> "login", uid |-> u] \in Items(to_logic)
    \/ [uid |-> u, link |-> link] \in BagToSet(loads)
    \/ u \in Items(from_logic)

OneAccount(c) == \A u, v \in Accounts[c] : u = v

\* The request of a client that waits is under way, and its answer will be sent to
\* that client; requests only wait while the servers are connected.
AskUnderWay ==
    /\ asked # {} => LogicUp
    /\ \A c \in asked : OneAccount(c) =>
          \E u \in Accounts[c] : client_session_uid[u] = c /\ EnterUnderWay(u)

\* The steps of the gateway keep what is under way.
LEMMA GatewayAsks ==
    ASSUME SInv, KeysOK', RoutesOK', AskUnderWay,
           Items(to_logic) \subseteq Items(to_logic'),
           UNCHANGED <<from_logic, link, loads>>, LogicUp' <=> LogicUp,
           asked' \subseteq asked,
           \A c \in asked' : OneAccount(c) =>
                \E u \in Uids : client_session_uid'[u] = c
    PROVE  AskUnderWay'
<1>1. ASSUME NEW c \in asked', OneAccount(c)
      PROVE  \E u \in Accounts[c] : client_session_uid'[u] = c /\ EnterUnderWay(u)'
  <2>1. c \in asked /\ c \in Clients
    BY <1>1 DEF SInv, SessionsTypeOK
  <2>2. PICK u \in Accounts[c] : EnterUnderWay(u)
    BY <1>1, <2>1 DEF AskUnderWay
  <2>3. PICK v \in Uids : client_session_uid'[v] = c
    BY <1>1
  <2>4. v = u
    <3>1. v \in Accounts[c]
      BY <2>1, <2>3 DEF RoutesOK, OwnAccounts
    <3> QED
      BY <1>1, <3>1 DEF OneAccount
  <2>5. EnterUnderWay(u)'
    BY <2>2 DEF EnterUnderWay
  <2> QED
    BY <2>3, <2>4, <2>5
<1>2. asked' # {} => LogicUp'
  BY DEF AskUnderWay
<1> QED
  BY <1>1, <1>2 DEF AskUnderWay, OneAccount

\* The steps of the logic server keep what is under way, but for the answer that
\* has arrived.
LEMMA LogicAsks ==
    ASSUME SInv, AskUnderWay, UNCHANGED vars, asked' \subseteq asked,
           \A u \in Uids : client_session_uid[u] \in asked' /\ EnterUnderWay(u)
                              => EnterUnderWay(u)'
    PROVE  AskUnderWay'
<1>1. ASSUME NEW c \in asked', OneAccount(c)
      PROVE  \E u \in Accounts[c] : client_session_uid'[u] = c /\ EnterUnderWay(u)'
  <2>1. c \in asked /\ c \in Clients
    BY <1>1 DEF SInv, SessionsTypeOK
  <2>2. PICK u \in Accounts[c] : client_session_uid[u] = c /\ EnterUnderWay(u)
    BY <1>1, <2>1 DEF AskUnderWay
  <2>3. u \in Uids
    BY <2>1, ConstantFacts
  <2>4. client_session_uid' = client_session_uid
    BY DEF vars, tableVars
  <2> QED
    BY <1>1, <2>2, <2>3, <2>4
<1>2. asked' # {} => LogicUp'
  BY DEF AskUnderWay, LogicUp, vars, serverVars
<1> QED
  BY <1>1, <1>2 DEF AskUnderWay, OneAccount

LEMMA ItemsConcat ==
    ASSUME NEW S, NEW s \in Seq(S), NEW t \in Seq(S)
    PROVE  Items(s) \subseteq Items(s \o t)
<1>1. /\ DOMAIN s = 1 .. Len(s) /\ Len(s) \in Nat /\ Len(t) \in Nat
      /\ DOMAIN (s \o t) = 1 .. Len(s) + Len(t)
  OBVIOUS
<1>2. \A i \in 1 .. Len(s) : (s \o t)[i] = s[i] /\ i \in 1 .. Len(s) + Len(t)
  BY <1>1
<1> QED
  BY <1>1, <1>2 DEF Items

\* A message of the gateway about a lost session keeps those before it.
LEMMA LostKeepsItems ==
    ASSUME SInv, NEW c \in Clients
    PROVE  Items(to_logic) \subseteq Items(to_logic \o LostMessage(c))
<1>1. to_logic \in Seq(Messages) /\ uid[c] \in Uids \cup {0}
  BY DEF SInv, SessionsTypeOK, KeysOK, UidTypes
<1>2. LostMessage(c) \in Seq(Messages)
  <2>1. CASE uid[c] # 0 /\ LogicUp
    <3>1. [kind |-> "lost", uid |-> uid[c]] \in Messages
      BY <1>1, <2>1 DEF Messages
    <3> QED
      BY <2>1, <3>1 DEF LostMessage
  <2>2. CASE ~(uid[c] # 0 /\ LogicUp)
    BY <2>2 DEF LostMessage
  <2> QED
    BY <2>1, <2>2
<1> QED
  BY <1>1, <1>2, ItemsConcat

\* The uid table leads to a client that waits.
LEMMA WaitersMapped ==
    ASSUME SInv, AskUnderWay, NEW c \in asked, OneAccount(c)
    PROVE  \E u \in Uids : client_session_uid[u] = c
<1>1. c \in Clients
  BY DEF SInv, SessionsTypeOK
<1> QED
  BY <1>1, ConstantFacts DEF AskUnderWay

\* A load that is not the one that ends goes on, and who waits for the one that
\* never calls back is not waited for.
LEMMA LoadKeepsAsks ==
    ASSUME SInv, AskUnderWay, IsABag(loads), NEW m \in BagToSet(loads), LoadEnds(m)
    PROVE  AskUnderWay' /\ IsABag(loads')
<1>1. /\ UNCHANGED vars /\ UNCHANGED <<to_logic, link>> /\ asked' \subseteq asked
      /\ loads' = loads (-) SetToBag({m})
      /\ \/ from_logic' = Append(from_logic, m.uid)
         \/ from_logic' = from_logic /\ ~(LogicUp /\ m.link = link)
         \/ from_logic' = from_logic /\ client_session_uid[m.uid] \notin asked'
  BY DEF LoadEnds, Loaded, LoadFails, LoadHangs, AnswerToFailed, Answer
<1>2. /\ IsABag(loads')
      /\ BagToSet(loads) \subseteq BagToSet(loads') \cup {m}
  BY <1>1, BagRemoveIsBag
<1>3. /\ from_logic \in Seq(Uids)
      /\ m \in [uid : Uids, link : Links]
  BY DEF SInv, SessionsTypeOK
<1>4. /\ Items(from_logic) \subseteq Items(from_logic')
      /\ LogicUp /\ m.link = link /\ client_session_uid[m.uid] \in asked'
            => m.uid \in Items(from_logic')
  <2>1. CASE from_logic' = Append(from_logic, m.uid)
    <3>1. Items(from_logic') = Items(from_logic) \cup {m.uid}
      BY <1>3, <2>1, ItemsAppend
    <3> QED
      BY <3>1
  <2>2. CASE from_logic' # Append(from_logic, m.uid)
    BY <1>1, <2>2
  <2> QED
    BY <2>1, <2>2
<1>5. ASSUME NEW u \in Uids, client_session_uid[u] \in asked', EnterUnderWay(u)
      PROVE  EnterUnderWay(u)'
  <2>1. LogicUp
    BY <1>1, <1>5 DEF AskUnderWay
  <2>2. CASE [uid |-> u, link |-> link] \in BagToSet(loads)
    <3>1. CASE m = [uid |-> u, link |-> link]
      BY <1>4, <1>5, <2>1, <3>1 DEF EnterUnderWay
    <3>2. CASE m # [uid |-> u, link |-> link]
      <4>1. [uid |-> u, link |-> link] \in BagToSet(loads')
        BY <1>2, <2>2, <3>2
      <4> QED
        BY <1>1, <4>1 DEF EnterUnderWay
    <3> QED
      BY <3>1, <3>2
  <2>3. CASE [uid |-> u, link |-> link] \notin BagToSet(loads)
    BY <1>1, <1>4, <1>5, <2>3 DEF EnterUnderWay
  <2> QED
    BY <2>2, <2>3
<1> QED
  BY <1>1, <1>2, <1>5, LogicAsks

\* A request that is taken is answered at once, or its player loads over the
\* connection of today; a lost session takes no request with it.
LEMMA RequestTaken ==
    ASSUME SInv, AskUnderWay, IsABag(loads), EnterAgain \/ Enter \/ Leave
    PROVE  AskUnderWay' /\ IsABag(loads')
<1> DEFINE h == Head(to_logic)
<1>1. /\ UNCHANGED vars /\ UNCHANGED <<link, asked>>
      /\ to_logic # <<>> /\ to_logic' = Tail(to_logic)
  BY DEF EnterAgain, Enter, Leave, Takes
<1>2. /\ to_logic \in Seq(Messages) /\ from_logic \in Seq(Uids)
      /\ h.uid \in Uids /\ h \in Messages
  BY <1>1, MessageTaken DEF SInv, SessionsTypeOK
<1>3. Items(to_logic) \subseteq Items(to_logic') \cup {h}
  BY <1>1, <1>2, ItemsBehindHead
<1>4. /\ IsABag(loads')
      /\ BagToSet(loads) \subseteq BagToSet(loads')
      /\ Items(from_logic) \subseteq Items(from_logic')
      /\ h.kind = "login" => \/ [uid |-> h.uid, link |-> link] \in BagToSet(loads')
                             \/ h.uid \in Items(from_logic')
  <2>1. CASE EnterAgain
    <3>1. loads' = loads /\ from_logic' = Append(from_logic, h.uid)
      BY <2>1 DEF EnterAgain
    <3>2. Items(from_logic') = Items(from_logic) \cup {h.uid}
      BY <1>2, <3>1, ItemsAppend
    <3> QED
      BY <3>1, <3>2
  <2>2. CASE Enter
    <3>1. from_logic' = from_logic /\ loads' = loads (+) SetToBag({[uid |-> h.uid, link |-> link]})
      BY <2>2 DEF Enter
    <3>2. /\ IsABag(loads')
          /\ BagToSet(loads') = BagToSet(loads) \cup {[uid |-> h.uid, link |-> link]}
      BY <3>1, BagAdd, BagAddIsBag
    <3> QED
      BY <3>1, <3>2
  <2>3. CASE Leave
    BY <2>3 DEF Leave, Takes
  <2> QED
    BY <2>1, <2>2, <2>3
<1>5. ASSUME NEW u \in Uids, EnterUnderWay(u)
      PROVE  EnterUnderWay(u)'
  <2> DEFINE r == [kind |-> "login", uid |-> u]
  <2>1. CASE r \in Items(to_logic) /\ r = h
    <3>1. h.kind = "login" /\ h.uid = u
      BY <2>1
    <3> HIDE DEF h
    <3> QED
      BY <1>1, <1>4, <3>1 DEF EnterUnderWay
  <2>2. CASE r \in Items(to_logic) /\ r # h
    <3>1. r \in Items(to_logic')
      BY <1>3, <2>2
    <3> QED
      BY <3>1 DEF EnterUnderWay
  <2>3. CASE r \notin Items(to_logic)
    BY <1>1, <1>4, <1>5, <2>3 DEF EnterUnderWay
  <2> QED
    BY <2>1, <2>2, <2>3
<1> QED
  BY <1>1, <1>4, <1>5, LogicAsks

LEMMA AskStep ==
    ASSUME SInv, KeysOK', RoutesOK, RoutesOK', AskUnderWay, IsABag(loads),
           [SessionsNext]_allVars
    PROVE  AskUnderWay' /\ IsABag(loads')
<1>1. to_logic \in Seq(Messages) /\ from_logic \in Seq(Uids) /\ asked \subseteq Clients
  BY DEF SInv, SessionsTypeOK
<1>2. ASSUME \A u \in Uids : client_session_uid'[u] = client_session_uid[u],
             asked' \subseteq asked
      PROVE  \A c \in asked' : OneAccount(c) => \E u \in Uids : client_session_uid'[u] = c
  BY <1>2, WaitersMapped
<1>3. CASE Elsewhere
  <2>1. \A u \in Uids : client_session_uid'[u] = client_session_uid[u]
    <3>1. CASE LoginResRefused
      BY <3>1, RefusedOne, ConstantFacts DEF SInv, KeysOK, UidTypes
    <3> QED
      BY <1>3, <3>1 DEF Elsewhere, tableVars, check_session_connect, Connected, ServerLost,
         ConnectFailed, ConnectStalls, ClientConnects, LoginReq, LoginOutReq, AuthTakes,
         AuthAnswer, LookupEnds, AuthAnswers, AuthForgets, LoginResDropped
  <2>2. UNCHANGED <<to_logic, from_logic, link, loads, asked>> /\ (LogicUp' <=> LogicUp)
    BY <1>3, ElsewhereLogicUp DEF SInv, Elsewhere, logicVars
  <2> QED
    BY <1>2, <2>1, <2>2, GatewayAsks
<1>4. ASSUME NEW c \in Clients, Closes(c)
      PROVE  AskUnderWay' /\ IsABag(loads')
  <2>1. /\ to_logic' = to_logic \o LostMessage(c) /\ asked' = asked \ {c}
        /\ UNCHANGED <<from_logic, link, loads>>
        /\ client_session_uid' = UidTableWithout(c)
    BY <1>4 DEF Closes, ClientCloses
  <2>2. LogicUp' <=> LogicUp
    BY <1>4, ClientStepServers DEF Closes, ClientStep, LogicUp, serverVars
  <2>3. ASSUME NEW d \in asked', OneAccount(d)
        PROVE  \E u \in Uids : client_session_uid'[u] = d
    <3>1. PICK u \in Uids : client_session_uid[u] = d
      BY <2>1, <2>3, WaitersMapped
    <3>2. client_session_uid \in [Uids \cup {0} -> Clients \cup {Nil}]
      BY DEF SInv, KeysOK, UidTypes
    <3>3. client_session_uid'[u] = d
      BY <2>1, <2>3, <3>1, <3>2 DEF UidTableWithout, UidMapped
    <3> QED
      BY <3>3
  <2>4. Items(to_logic) \subseteq Items(to_logic')
    BY <2>1, LostKeepsItems
  <2> QED
    BY <2>1, <2>2, <2>3, <2>4, GatewayAsks
<1>5. ASSUME NEW c \in Clients, AsksToEnter(c)
      PROVE  AskUnderWay' /\ IsABag(loads')
  <2> DEFINE r == [kind |-> "login", uid |-> uid[c]]
  <2>1. /\ UNCHANGED vars /\ UNCHANGED <<from_logic, link, loads>>
        /\ to_logic' = Append(to_logic, r)
        /\ asked' = IF UidMapped(c) THEN asked \cup {c} ELSE asked
        /\ LogicUp
    BY <1>5 DEF AsksToEnter, CanSend, LogicUp
  <2>2. uid[c] \in Uids /\ uid[c] \in Accounts[c]
    BY <1>5 DEF AsksToEnter, SInv, KeysOK, UidTypes, RoutesOK, OwnAccounts
  <2>3. Items(to_logic') = Items(to_logic) \cup {r}
    <3>1. r \in Messages
      BY <2>2 DEF Messages
    <3> QED
      BY <1>1, <2>1, ItemsAppend
  <2>4. \A u \in Uids : EnterUnderWay(u) => EnterUnderWay(u)'
    BY <2>1, <2>3 DEF EnterUnderWay
  <2>5. ASSUME UidMapped(c)
        PROVE  \E u \in Accounts[c] : client_session_uid'[u] = c /\ EnterUnderWay(u)'
    <3>1. PICK u \in Accounts[c] : u = uid[c]
      BY <2>2
    <3>2. client_session_uid'[u] = c
      BY <2>1, <2>5, <3>1 DEF UidMapped, vars, tableVars
    <3>3. EnterUnderWay(u)'
      BY <2>3, <3>1 DEF EnterUnderWay
    <3> QED
      BY <3>2, <3>3
  <2>6. ASSUME NEW d \in asked', OneAccount(d)
        PROVE  \E u \in Accounts[d] : client_session_uid'[u] = d /\ EnterUnderWay(u)'
    <3>1. CASE d \in asked
      <4>1. PICK u \in Accounts[d] : client_session_uid[u] = d /\ EnterUnderWay(u)
        BY <2>6, <3>1 DEF AskUnderWay
      <4>2. u \in Uids /\ client_session_uid' = client_session_uid
        BY <1>1, <2>1, <3>1, ConstantFacts DEF vars, tableVars
      <4> QED
        BY <2>4, <4>1, <4>2
    <3>2. CASE d \notin asked
      <4>1. d = c /\ UidMapped(c)
        BY <2>1, <2>6, <3>2
      <4> QED
        BY <2>5, <4>1
    <3> QED
      BY <3>1, <3>2
  <2>7. LogicUp'
    BY <2>1 DEF LogicUp, vars, serverVars
  <2> QED
    BY <2>1, <2>6, <2>7 DEF AskUnderWay, OneAccount
<1>6. CASE LoggedIn \/ LoggedOutOf
  <2>1. /\ asked' = StillMapped(asked) /\ UNCHANGED <<from_logic, link, loads>>
        /\ LoginResOK \/ LoginOutRes
    BY <1>6 DEF LoggedIn, LoggedOutOf, logicVars
  <2>2. LogicUp' <=> LogicUp
    BY <2>1, ClientStepServers DEF ClientStep, FromAuth, LogicUp, serverVars
  <2>3. Items(to_logic) \subseteq Items(to_logic')
    <3> DEFINE c == client_session_utag[Head(from_auth).utag]
    <3>1. CASE LoggedIn
      <4>1. c \in Clients
        BY <3>1, AnswerOfAsker DEF LoggedIn, SInv, RoutesOK
      <4>2. to_logic' = to_logic \/ to_logic' = to_logic \o LostMessage(c)
        BY <3>1 DEF LoggedIn
      <4> HIDE DEF c
      <4> QED
        BY <4>1, <4>2, LostKeepsItems
    <3>2. CASE LoggedOutOf
      BY <3>2 DEF LoggedOutOf, logicVars
    <3> QED
      BY <1>6, <3>1, <3>2
  <2>4. asked' \subseteq asked
    BY <2>1 DEF StillMapped
  <2>5. \A c \in asked' : \E u \in Uids : client_session_uid'[u] = c
    BY <2>1 DEF StillMapped
  <2> QED
    BY <2>1, <2>2, <2>3, <2>4, <2>5, GatewayAsks
<1>7. CASE LogicConnected
  <2>1. ~LogicUp
    BY <1>7, LogicFacts
       DEF LogicConnected, Connected, LogicUp, SInv, ServersOK, ServerTypes, OneConnection
  <2>2. asked = {} /\ asked' = {} /\ loads' = loads
    BY <1>7, <2>1 DEF LogicConnected, AskUnderWay
  <2> QED
    BY <2>2 DEF AskUnderWay
<1>8. CASE LogicLost
  BY <1>8 DEF LogicLost, AskUnderWay
<1>9. CASE EnterAgain \/ Enter \/ Leave
  BY <1>9, RequestTaken
<1>10. CASE Load
  BY <1>10, LoadKeepsAsks DEF Load
<1>11. CASE EnterAnswered
  <2> DEFINE h == Head(from_logic)
  <2>1. /\ from_logic # <<>> /\ from_logic' = Tail(from_logic)
        /\ asked' = asked \ {client_session_uid[h]}
        /\ UNCHANGED vars /\ UNCHANGED <<to_logic, link, loads>>
    BY <1>11 DEF EnterAnswered
  <2>2. Items(from_logic) \subseteq Items(from_logic') \cup {h}
    BY <1>1, <2>1, ItemsBehindHead
  <2>3. ASSUME NEW u \in Uids, client_session_uid[u] \in asked', EnterUnderWay(u)
        PROVE  EnterUnderWay(u)'
    <3>1. u # h
      BY <2>1, <2>3
    <3> QED
      BY <2>1, <2>2, <2>3, <3>1 DEF EnterUnderWay
  <2> QED
    BY <2>1, <2>3, LogicAsks
<1>12. CASE UNCHANGED allVars
  BY <1>12 DEF allVars, vars, serverVars, tableVars, logicVars, AskUnderWay, EnterUnderWay,
               LogicUp, OneAccount
<1> QED
  BY <1>3, <1>4, <1>5, <1>6, <1>7, <1>8, <1>9, <1>10, <1>11, <1>12 DEF SessionsNext

\* login_server_enter, the callback of player:init, send_to_client: the request of
\* a client that waits to enter the logic server is never lost while the servers
\* stay connected, however many requests, loads and answers are under way and
\* whichever loads fail, unless a load of its account never calls back; what
\* EnterIsAnswered rests on.  For clients that log in to one account, refused a
\* login or not.
THEOREM AskUnderWayCorrect == SessionsSpec => []AskUnderWay
<1>1. SessionsInit => AskUnderWay /\ IsABag(loads)
  BY BagEmptyIsBag DEF SessionsInit, AskUnderWay
<1>2. (SInv /\ KeysOK' /\ RoutesOK /\ RoutesOK' /\ [SessionsNext]_allVars)
         => (AskUnderWay /\ IsABag(loads) => AskUnderWay' /\ IsABag(loads)')
  BY AskStep
<1> QED
  BY <1>1, <1>2, SessionsInductive, SessionsImplementsGateway, RoutesInductive, PTL
     DEF SessionsSpec
===============================================================================
