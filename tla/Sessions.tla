------------------------------- MODULE Sessions -------------------------------
(***************************************************************************)
(* The gateway and the logic server together: what the logic server makes  *)
(* of the LoginLogicReq and UserLostConn messages the gateway sends it,    *)
(* while its players load and while the connection between the two breaks  *)
(* and is opened again.  Every step of the gateway is a step of Gateway    *)
(* with its effect on the messages to the logic server.                    *)
(*                                                                         *)
(* Of the logic server (logic_game_mgr.lua, see LogicServer for the rest)  *)
(* this module keeps who is online and over which gateway connection.      *)
(* Messages travel in order both ways, and are lost with the connection;   *)
(* loads of players end in any order, or not at all.                       *)
(***************************************************************************)
EXTENDS Gateway, FiniteSets

CONSTANTS
    LogicServer,  \* the other of Servers that matters here
    MaxAsk,       \* bound: requests to enter the logic server under way
    MaxLoadFails  \* bound: loads of a player that end with an error

ASSUME LogicServerAssumption == LogicServer \in Servers \ {AuthServer}
ASSUME SessionsBounds == MaxAsk \in Nat /\ MaxLoadFails \in Nat

VARIABLES
    to_logic,     \* messages on their way to the logic server
    from_logic,   \* uids of the LoginLogicRes on their way to the gateway
    link,         \* connections of the gateway the logic server has accepted
    loads,        \* the player objects that load: uid, and link they came on
    online,       \* uid -> is it in online_player_map
    session,      \* uid -> the link stored in its player object, 0 for nil
    failed,       \* uids a load of which ended with an error
    asked         \* clients whose request to enter was not answered or lost; only
                  \* those the uid table leads to, others get no answer at all

logicVars == <<to_logic, from_logic, link, loads, online, session, failed>>
allVars == <<vars, logicVars, asked>>

Links == 1 .. MaxDowns + 1
Messages == [kind : {"login", "lost"}, uid : Uids]

SessionsTypeOK ==
    /\ to_logic \in Seq(Messages)
    /\ from_logic \in Seq(Uids)
    /\ link \in Links \cup {0}
    /\ BagToSet(loads) \subseteq [uid : Uids, link : Links]
    /\ online \in [Uids -> BOOLEAN]
    /\ session \in [Uids -> Links \cup {0}]
    /\ failed \subseteq Uids
    /\ asked \subseteq Clients

SessionsInit ==
    /\ Init
    /\ to_logic = <<>>
    /\ from_logic = <<>>
    /\ link = 0
    /\ loads = EmptyBag
    /\ online = [u \in Uids |-> FALSE]
    /\ session = [u \in Uids |-> 0]
    /\ failed = {}
    /\ asked = {}

LogicUp == session_map[LogicServer]

------------------------------------------------------------------------------
(* Steps of the gateway                                                    *)

\* UserLostConn for the session of c, to the logic server if it is connected.
LostMessage(c) ==
    IF uid[c] # 0 /\ LogicUp THEN <<[kind |-> "lost", uid |-> uid[c]]>> ELSE <<>>

\* A client closes its connection.
Closes(c) ==
    /\ ClientCloses(c)
    /\ to_logic' = to_logic \o LostMessage(c)
    /\ asked' = asked \ {c}
    /\ UNCHANGED <<from_logic, link, loads, online, session, failed>>

\* LoginLogicReq: a client asks to enter the logic server; dropped unless its
\* session has a uid.
AsksToEnter(c) ==
    /\ Len(to_logic) + BagCardinality(loads) + Len(from_logic) < MaxAsk
    /\ CanSend(c, LogicServer)
    /\ uid[c] # 0
    /\ to_logic' = Append(to_logic, [kind |-> "login", uid |-> uid[c]])
    /\ asked' = IF UidMapped(c) THEN asked \cup {c} ELSE asked
    /\ UNCHANGED <<vars, from_logic, link, loads, online, session, failed>>

\* Clients that the uid table no longer leads to are not waited for.
StillMapped(C) == {c \in C : \E u \in Uids : client_session_uid'[u] = c}

\* A successful login, with the UserLostConn of a second one.
LoggedIn ==
    LET c == client_session_utag[Head(from_auth).utag] IN
    /\ LoginResOK
    /\ to_logic' = IF Relogin(Head(from_auth).uid, c) THEN to_logic \o LostMessage(c)
                   ELSE to_logic
    /\ asked' = StillMapped(asked)
    /\ UNCHANGED <<from_logic, link, loads, online, session, failed>>

\* A logout: nobody tells the logic server.
LoggedOutOf ==
    /\ LoginOutRes
    /\ asked' = StillMapped(asked)
    /\ UNCHANGED logicVars

\* Mutant of SessionsAfter: what is nil stays nil.
SessionsAfter_NilStays(l) ==
    [u \in Uids |-> IF online[u] /\ session[u] # 0 THEN l ELSE session[u]]

\* on_gateway_connect and on_gateway_disconnect: every online player gets the
\* session of the gateway, or nil.
SessionsAfter(l) == [u \in Uids |-> IF online[u] THEN l ELSE session[u]]

NextLink == link + 1

LogicConnected ==
    /\ Connected(LogicServer)
    /\ link' = NextLink
    /\ session' = SessionsAfter(link')
    /\ UNCHANGED <<to_logic, from_logic, loads, online, failed, asked>>

LogicLost ==
    /\ ServerLost(LogicServer)
    /\ session' = SessionsAfter(0)
    /\ to_logic' = <<>>
    /\ from_logic' = <<>>
    /\ asked' = {}
    /\ UNCHANGED <<link, loads, online, failed>>

\* The steps of the gateway that the logic server takes no part in.
Elsewhere ==
    /\ \/ check_session_connect
       \/ \E s \in Servers \ {LogicServer} : Connected(s) \/ ServerLost(s)
       \/ \E s \in Servers : ConnectFailed(s) \/ ConnectStalls(s)
       \/ \E c \in Clients : \/ ClientConnects(c)
                             \/ \E u \in Accounts[c] : LoginReq(c, u)
                             \/ LoginOutReq(c)
       \/ AuthTakes
       \/ AuthAnswer
       \/ LoginResDropped \/ LoginResRefused
    /\ UNCHANGED <<logicVars, asked>>

------------------------------------------------------------------------------
(* Steps of the logic server                                               *)

Takes(kind) == to_logic # <<>> /\ Head(to_logic).kind = kind

\* login_server_enter of a uid that is online: its session is replaced.
EnterAgain ==
    LET u == Head(to_logic).uid IN
    /\ Takes("login")
    /\ online[u]
    /\ to_logic' = Tail(to_logic)
    /\ session' = [session EXCEPT ![u] = link]
    /\ from_logic' = Append(from_logic, u)
    /\ UNCHANGED <<vars, link, loads, online, failed, asked>>

\* login_server_enter of a uid that is not: a player object starts to load.
Enter ==
    LET u == Head(to_logic).uid IN
    /\ Takes("login")
    /\ ~online[u]
    /\ to_logic' = Tail(to_logic)
    /\ loads' = loads (+) SetToBag({[uid |-> u, link |-> link]})
    /\ UNCHANGED <<vars, from_logic, link, online, session, failed, asked>>

\* The answer goes to the session the request came on.  If that was closed
\* meanwhile the answer is lost: the socket of a session is closed and freed, the
\* session is not.  It comes out on the new connection if the handle of the new
\* socket was allocated where the freed one was.
Answer(m) ==
    IF ~LogicUp THEN from_logic' = from_logic
    ELSE \/ from_logic' = Append(from_logic, m.uid)
         \/ m.link # link /\ from_logic' = from_logic

\* Mutant of ComesOnline: the object that loaded last counts.
ComesOnline_Always(m) == TRUE

\* The callback of player:init: the object becomes the player of its uid unless
\* another one has.
ComesOnline(m) == ~online[m.uid]

Loaded(m) ==
    /\ BagIn(m, loads)
    /\ loads' = loads (-) SetToBag({m})
    /\ online' = [online EXCEPT ![m.uid] = TRUE]
    /\ session' = IF ComesOnline(m) THEN [session EXCEPT ![m.uid] = m.link] ELSE session
    /\ Answer(m)
    /\ UNCHANGED <<vars, to_logic, link, failed, asked>>

\* Mutant of AnswerToFailed: an error is not answered.
AnswerToFailed_None(m) == from_logic' = from_logic

AnswerToFailed(m) == Answer(m)

\* The callback with an error: SystemErr is answered.
LoadFails(m) ==
    /\ BagIn(m, loads)
    /\ Cardinality(failed) < MaxLoadFails
    /\ loads' = loads (-) SetToBag({m})
    /\ failed' = failed \cup {m.uid}
    /\ AnswerToFailed(m)
    /\ UNCHANGED <<vars, to_logic, link, online, session, asked>>

\* The load never calls back: redis is not connected, or an error of its is raised.
LoadHangs(m) ==
    /\ BagIn(m, loads)
    /\ loads' = loads (-) SetToBag({m})
    /\ asked' = asked \ {client_session_uid[m.uid]}
    /\ UNCHANGED <<vars, to_logic, from_logic, link, online, session, failed>>

\* on_player_disconnect: the player of the uid, if there is one, goes offline.
Leave ==
    LET u == Head(to_logic).uid IN
    /\ Takes("lost")
    /\ to_logic' = Tail(to_logic)
    /\ online' = [online EXCEPT ![u] = FALSE]
    /\ session' = [session EXCEPT ![u] = 0]
    /\ UNCHANGED <<vars, from_logic, link, loads, failed, asked>>

\* LoginLogicRes reaches the gateway, which forwards it to the session stored
\* under the uid, if any.
EnterAnswered ==
    /\ from_logic # <<>>
    /\ from_logic' = Tail(from_logic)
    /\ asked' = asked \ {client_session_uid[Head(from_logic)]}
    /\ UNCHANGED <<vars, to_logic, link, loads, online, session, failed>>

------------------------------------------------------------------------------
LoadEnds(m) == Loaded(m) \/ LoadFails(m) \/ LoadHangs(m)

Load == \E m \in BagToSet(loads) : LoadEnds(m)

SessionsNext ==
    \/ Elsewhere
    \/ \E c \in Clients : Closes(c) \/ AsksToEnter(c)
    \/ LoggedIn \/ LoggedOutOf
    \/ LogicConnected \/ LogicLost
    \/ EnterAgain \/ Enter \/ Leave
    \/ Load
    \/ EnterAnswered

SessionsSpec == SessionsInit /\ [][SessionsNext]_allVars

\* What arrives is read, and a load ends, by calling back or by never doing so.
SessionsFairness ==
    /\ WF_allVars(EnterAgain \/ Enter \/ Leave)
    /\ \A m \in [uid : Uids, link : Links] : WF_allVars(LoadEnds(m))
    /\ WF_allVars(EnterAnswered)

SessionsFairSpec == SessionsSpec /\ SessionsFairness

------------------------------------------------------------------------------
(* What the two servers keep right                                         *)

\* While the gateway is connected every online player has a session, also those
\* who were online when it broke: what is sent to them is not dropped.
OnlineHasSession == LogicUp => \A u \in Uids : online[u] => session[u] # 0

\* A load that began before the gateway connected again, or before another login
\* of the same user, does not take the newer session from a player.
SessionNeverGoesBack ==
    [][\A u \in Uids : online[u] /\ online'[u] /\ session'[u] # 0
            => session'[u] >= session[u]]_allVars

\* A client that asks to enter the logic server is answered, unless it leaves, its
\* uid passes to another connection, the connection of the servers breaks, or a load
\* of its player never calls back.
EnterIsAnswered == \A c \in Clients : c \in asked ~> c \notin asked

(* What the code's comments say, and the code does not do                  *)

\* logic_game_mgr.lua:346-350, the players stay online while the gateway is away
\* because their clients are still connected to it, and get its session when it
\* is back: when nothing is under way, an online player has a client, still connected,
\* and what is sent to it goes to the gateway.
OnlineHasClient ==
    (LogicUp /\ to_logic = <<>> /\ loads = EmptyBag) =>
        \A u \in Uids : online[u] =>
            /\ \E c \in Clients : client_session_uid[u] = c /\ socket[c] = "open"
            /\ session[u] = link
==============================================================================
