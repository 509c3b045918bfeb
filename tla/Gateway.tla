------------------------------- MODULE Gateway -------------------------------
(***************************************************************************)
(* The gateway: connections of clients, logins relayed to the auth server, *)
(* the tables that say which connection a server's message goes to, and    *)
(* the connections to the servers with their reconnect timer.  Source:     *)
(* src/src/script/gateway_server/gateway_service.lua, called by            *)
(* moduel/netbus/service_manger.cpp and moduel/session/tcp_session.cpp.    *)
(*                                                                         *)
(* One libuv loop: every action is one callback.  Messages between the     *)
(* gateway and the auth server travel in order (TCP); the auth server      *)
(* answers logins when its database does, in any order, or never if an     *)
(* error ends the lookup.  What goes to the logic server is in Sessions.   *)
(***************************************************************************)
EXTENDS Integers, Sequences, Bags

CONSTANTS
    Clients,      \* client sessions; each stands for one connection
    Uids,         \* account ids
    Accounts,     \* client -> the accounts its user logs in to
    Servers,      \* the servers of conf.lua
    AuthServer,
    Nil,
    Refusable,    \* bound: clients a login of which may be refused
    MaxUkey,      \* bound: temporary keys handed out in a behaviour
    MaxFlight,    \* bound: login messages under way
    MaxDowns      \* bound: connection attempts that fail or connections that break

ASSUME ServersAssumption == AuthServer \in Servers
ASSUME AccountsAssumption == Accounts \in [Clients -> SUBSET Uids]
ASSUME NilAssumption == Nil \notin Clients \cup Uids /\ 0 \notin Uids
ASSUME BoundsAssumption == /\ MaxUkey \in Nat /\ MaxFlight \in Nat /\ MaxDowns \in Nat
                           /\ Refusable \subseteq Clients

VARIABLES
    socket,               \* client -> "none", "open" or "closed"
    utag, uid,            \* fields of the client sessions
    refused,              \* history: clients that were refused a login
    client_session_utag,  \* temporary key -> client or Nil
    client_session_uid,   \* uid, or the 0 of a refused login -> client or Nil
    g_ukey,
    session_map,          \* server -> is a session stored for it
    session_connecting,   \* server -> BOOLEAN
    attempts, sockets,    \* server -> connections being opened, open
    stalled,              \* history: servers an attempt for which had no callback
    to_auth, auth_db, from_auth,  \* login messages: sent, looked up, answered
    waiting,              \* clients with a login request neither answered nor lost
    downs

tableVars == <<client_session_utag, client_session_uid, g_ukey>>
sessionVars == <<utag, uid, refused>>
serverVars == <<session_map, session_connecting, attempts, sockets, stalled, downs>>
authVars == <<to_auth, auth_db, from_auth>>
vars == <<socket, sessionVars, tableVars, serverVars, authVars, waiting>>

Ukeys == 1 .. MaxUkey
Logins == [kind : {"login"}, utag : Ukeys, uid : Uids, from : Clients]
LoginAnswers == [kind : {"login"}, utag : Ukeys, uid : Uids, from : Clients, ok : BOOLEAN]
LogOuts == [kind : {"out"}, utag : Uids \cup {0}]

TypeOK ==
    /\ socket \in [Clients -> {"none", "open", "closed"}]
    /\ utag \in [Clients -> Ukeys \cup {0}]
    /\ uid \in [Clients -> Uids \cup {0}]
    /\ client_session_utag \in [Ukeys -> Clients \cup {Nil}]
    /\ refused \subseteq Clients
    /\ client_session_uid \in [Uids \cup {0} -> Clients \cup {Nil}]
    /\ g_ukey \in 1 .. MaxUkey + 1
    /\ session_map \in [Servers -> BOOLEAN]
    /\ session_connecting \in [Servers -> BOOLEAN]
    /\ attempts \in [Servers -> Nat]
    /\ sockets \in [Servers -> Nat]
    /\ stalled \subseteq Servers
    /\ to_auth \in Seq(Logins \cup LogOuts)
    /\ BagToSet(auth_db) \subseteq Logins
    /\ from_auth \in Seq(LoginAnswers \cup LogOuts)
    /\ waiting \subseteq Clients
    /\ downs \in 0 .. MaxDowns

Init ==
    /\ socket = [c \in Clients |-> "none"]
    /\ utag = [c \in Clients |-> 0]
    /\ uid = [c \in Clients |-> 0]
    /\ refused = {}
    /\ client_session_utag = [t \in Ukeys |-> Nil]
    /\ client_session_uid = [u \in Uids \cup {0} |-> Nil]
    /\ g_ukey = 1
    /\ session_map = [s \in Servers |-> FALSE]
    /\ session_connecting = [s \in Servers |-> FALSE]
    /\ attempts = [s \in Servers |-> 0]
    /\ sockets = [s \in Servers |-> 0]
    /\ stalled = {}
    /\ to_auth = <<>>
    /\ auth_db = EmptyBag
    /\ from_auth = <<>>
    /\ waiting = {}
    /\ downs = 0

------------------------------------------------------------------------------
(* Connections to the servers                                              *)

\* Mutant of Connectable: an attempt under way is not asked for.
Connectable_Always(s) == ~session_map[s]

Connectable(s) == ~session_map[s] /\ ~session_connecting[s]

\* The timer, every second: a connection is opened to every server without one.
check_session_connect ==
    /\ \E s \in Servers : Connectable(s)
    /\ session_connecting' = [s \in Servers |-> session_connecting[s] \/ Connectable(s)]
    /\ attempts' = [s \in Servers |-> IF Connectable(s) THEN attempts[s] + 1
                                      ELSE attempts[s]]
    /\ UNCHANGED <<session_map, sockets, stalled, downs, socket, sessionVars, tableVars,
                   authVars, waiting>>

\* connect_to_server calls back: connected.
Connected(s) ==
    /\ attempts[s] > 0
    /\ attempts' = [attempts EXCEPT ![s] = @ - 1]
    /\ sockets' = [sockets EXCEPT ![s] = @ + 1]
    /\ session_map' = [session_map EXCEPT ![s] = TRUE]
    /\ UNCHANGED <<session_connecting, stalled, downs, socket, sessionVars, tableVars,
                   authVars, waiting>>

\* connect_to_server calls back: an error.  The close of the socket that
\* follows finds no entry for its session in session_map.
ConnectFailed(s) ==
    /\ downs < MaxDowns
    /\ attempts[s] > 0
    /\ attempts' = [attempts EXCEPT ![s] = @ - 1]
    /\ session_connecting' = [session_connecting EXCEPT ![s] = FALSE]
    /\ downs' = downs + 1
    /\ UNCHANGED <<session_map, sockets, stalled, socket, sessionVars, tableVars,
                   authVars, waiting>>

\* uv_tcp_connect, whose result nobody looks at, fails at once: nobody is called
\* back, and the flag stays.
ConnectStalls(s) ==
    /\ downs < MaxDowns
    /\ attempts[s] > 0
    /\ attempts' = [attempts EXCEPT ![s] = @ - 1]
    /\ downs' = downs + 1
    /\ stalled' = stalled \cup {s}
    /\ UNCHANGED <<session_map, session_connecting, sockets, socket, sessionVars,
                   tableVars, authVars, waiting>>

\* Mutant of ConnectingAfterLoss: the flag of the broken connection stays.
ConnectingAfterLoss_Kept(s) == session_connecting

ConnectingAfterLoss(s) == [session_connecting EXCEPT ![s] = FALSE]

\* on_gw_session_disconnect for the session of a server.  With the auth server
\* go the logins that were sent to it.
ServerLost(s) ==
    /\ downs < MaxDowns
    /\ session_map[s]
    /\ session_map' = [session_map EXCEPT ![s] = FALSE]
    /\ session_connecting' = ConnectingAfterLoss(s)
    /\ sockets' = [sockets EXCEPT ![s] = @ - 1]
    /\ downs' = downs + 1
    /\ IF s = AuthServer
       THEN /\ to_auth' = <<>> /\ auth_db' = EmptyBag /\ from_auth' = <<>>
            /\ waiting' = {}
       ELSE UNCHANGED <<authVars, waiting>>
    /\ UNCHANGED <<attempts, stalled, socket, sessionVars, tableVars>>

------------------------------------------------------------------------------
(* Clients come and go                                                     *)

ClientConnects(c) ==
    /\ socket[c] = "none"
    /\ socket' = [socket EXCEPT ![c] = "open"]
    /\ UNCHANGED <<sessionVars, tableVars, serverVars, authVars, waiting>>

\* on_gw_session_disconnect for a client session, called for every registered
\* server type in turn: the first call empties the tables, each sends
\* UserLostConn to its server.
UtagMapped(c) == utag[c] # 0 /\ client_session_utag[utag[c]] = c
UidMapped(c) == client_session_uid[uid[c]] = c

\* Mutant of UtagTableWithout: the entry stays.
UtagTableWithout_Kept(c) == client_session_utag

UtagTableWithout(c) ==
    IF UtagMapped(c) THEN [client_session_utag EXCEPT ![utag[c]] = Nil]
    ELSE client_session_utag

\* Mutant of UidTableWithout: the entry stays.
UidTableWithout_Kept(c) == client_session_uid

UidTableWithout(c) ==
    IF UidMapped(c) THEN [client_session_uid EXCEPT ![uid[c]] = Nil]
    ELSE client_session_uid

UtagWithout(c) == IF UtagMapped(c) THEN [utag EXCEPT ![c] = 0] ELSE utag

ClientCloses(c) ==
    /\ socket[c] = "open"
    /\ socket' = [socket EXCEPT ![c] = "closed"]
    /\ client_session_utag' = UtagTableWithout(c)
    /\ client_session_uid' = UidTableWithout(c)
    /\ utag' = UtagWithout(c)
    /\ waiting' = waiting \ {c}
    /\ UNCHANGED <<uid, refused, g_ukey, serverVars, authVars>>

------------------------------------------------------------------------------
(* send_to_server                                                          *)

InFlight == Len(to_auth) + BagCardinality(auth_db) + Len(from_auth)

CanSend(c, s) == socket[c] = "open" /\ session_map[s]

\* Mutant of NextUkey: g_ukey is not incremented.
NextUkey_Same == g_ukey

NextUkey == g_ukey + 1

\* Mutant of RememberUtag: the session is only stored under a new key.
RememberUtag_IfNew(c, t) ==
    IF utag[c] = 0 THEN [client_session_utag EXCEPT ![t] = c] ELSE client_session_utag

RememberUtag(c, t) == [client_session_utag EXCEPT ![t] = c]

\* GuestLoginReq and UnameLoginReq: the session keeps the temporary key it has.
LoginReq(c, u) ==
    LET t == IF utag[c] = 0 THEN g_ukey ELSE utag[c] IN
    /\ CanSend(c, AuthServer)
    /\ InFlight < MaxFlight
    /\ t <= MaxUkey
    /\ utag' = [utag EXCEPT ![c] = t]
    /\ g_ukey' = IF utag[c] = 0 THEN NextUkey ELSE g_ukey
    /\ client_session_utag' = RememberUtag(c, t)
    /\ to_auth' = Append(to_auth, [kind |-> "login", utag |-> t, uid |-> u, from |-> c])
    /\ waiting' = waiting \cup {c}
    /\ UNCHANGED <<socket, uid, refused, client_session_uid, serverVars, auth_db,
                   from_auth>>

\* LoginOutReq, one of the requests that are forwarded with the session's uid.
LoginOutReq(c) ==
    /\ CanSend(c, AuthServer)
    /\ InFlight < MaxFlight
    /\ to_auth' = Append(to_auth, [kind |-> "out", utag |-> uid[c]])
    /\ UNCHANGED <<socket, sessionVars, tableVars, serverVars, auth_db, from_auth,
                   waiting>>

------------------------------------------------------------------------------
(* The auth server: login_out.lua answers at once, guest.lua and           *)
(* uname_login.lua when the database does.                                 *)

AuthTakes ==
    /\ to_auth # <<>>
    /\ to_auth' = Tail(to_auth)
    /\ IF Head(to_auth).kind = "out"
       THEN from_auth' = Append(from_auth, Head(to_auth)) /\ UNCHANGED auth_db
       ELSE auth_db' = auth_db (+) SetToBag({Head(to_auth)}) /\ UNCHANGED from_auth
    /\ UNCHANGED <<socket, sessionVars, tableVars, serverVars, waiting>>

\* ok: the account exists and may log in.
AuthAnswers(m, ok) ==
    /\ BagIn(m, auth_db)
    /\ ok \/ m.from \in Refusable
    /\ auth_db' = auth_db (-) SetToBag({m})
    /\ from_auth' = Append(from_auth, [kind |-> "login", utag |-> m.utag,
                                       uid |-> m.uid, from |-> m.from, ok |-> ok])
    /\ UNCHANGED <<socket, sessionVars, tableVars, serverVars, to_auth,
                   waiting>>

\* The lookup ends in a Lua error (a lost result; an undefined callback), or is
\* given up for want of a connection, and nothing is sent.
AuthForgets(m) ==
    /\ BagIn(m, auth_db)
    /\ auth_db' = auth_db (-) SetToBag({m})
    /\ waiting' = waiting \ {m.from}
    /\ UNCHANGED <<socket, sessionVars, tableVars, serverVars, to_auth, from_auth>>

------------------------------------------------------------------------------
(* send_to_client                                                          *)

\* A login answer for a key that no client holds is dropped.
LoginResDropped ==
    /\ from_auth # <<>>
    /\ Head(from_auth).kind = "login"
    /\ client_session_utag[Head(from_auth).utag] = Nil
    /\ from_auth' = Tail(from_auth)
    /\ UNCHANGED <<socket, sessionVars, tableVars, serverVars, to_auth, auth_db,
                   waiting>>

\* A refused login is forwarded, and the handler does not return: the answer has
\* no userinfo, which reads as one with uid 0, and the session is stored as that
\* of a successful login of 0 (and sent the answer a second time).
LoginResRefused ==
    LET m == Head(from_auth)
        c == client_session_utag[m.utag]
    IN
    /\ from_auth # <<>>
    /\ m.kind = "login"
    /\ ~m.ok
    /\ c # Nil
    /\ from_auth' = Tail(from_auth)
    /\ client_session_utag' = [client_session_utag EXCEPT ![m.utag] = Nil]
    /\ client_session_uid' = [client_session_uid EXCEPT ![0] = c]
    /\ uid' = [uid EXCEPT ![c] = 0]
    /\ refused' = refused \cup {c}
    /\ waiting' = waiting \ {c}
    /\ UNCHANGED <<socket, utag, g_ukey, serverVars, to_auth, auth_db>>

\* Another session is stored under u.
Relogin(u, c) == client_session_uid[u] \notin {Nil, c}

\* A successful login.  If another session is stored under the uid, it is the
\* new session c that close_session is called for (on_gw_session_disconnect
\* runs, the socket stays open); c is stored under the uid all the same.
LoginResOK ==
    LET m == Head(from_auth)
        c == client_session_utag[m.utag]
        closes == Relogin(m.uid, c)
    IN
    /\ from_auth # <<>>
    /\ m.kind = "login"
    /\ m.ok
    /\ c # Nil
    /\ from_auth' = Tail(from_auth)
    /\ client_session_utag' =
          [(IF closes THEN UtagTableWithout(c) ELSE client_session_utag)
              EXCEPT ![m.utag] = Nil]
    /\ client_session_uid' =
          [(IF closes THEN UidTableWithout(c) ELSE client_session_uid)
              EXCEPT ![m.uid] = c]
    /\ utag' = IF closes THEN UtagWithout(c) ELSE utag
    /\ uid' = [uid EXCEPT ![c] = m.uid]
    /\ waiting' = waiting \ {c}
    /\ UNCHANGED <<socket, refused, g_ukey, serverVars, to_auth, auth_db>>

\* Mutant of LoggedOut: the entry stays.
LoggedOut_Kept(u) == client_session_uid

LoggedOut(u) == [client_session_uid EXCEPT ![u] = Nil]

\* LoginOutRes goes to the session stored under the uid, which is logged out; one
\* for uid 0 to the session last refused a login, if it is still stored there.  A
\* message with a uid nobody is stored under is dropped.
LoginOutRes ==
    LET u == Head(from_auth).utag IN
    /\ from_auth # <<>>
    /\ Head(from_auth).kind = "out"
    /\ from_auth' = Tail(from_auth)
    /\ IF client_session_uid[u] # Nil
       THEN /\ uid' = [uid EXCEPT ![client_session_uid[u]] = 0]
            /\ client_session_uid' = LoggedOut(u)
       ELSE UNCHANGED <<uid, client_session_uid>>
    /\ UNCHANGED <<socket, utag, refused, client_session_utag, g_ukey, serverVars,
                   to_auth, auth_db, waiting>>

------------------------------------------------------------------------------
FromAuth == LoginResDropped \/ LoginResRefused \/ LoginResOK \/ LoginOutRes

LookupEnds(m) == (\E ok \in BOOLEAN : AuthAnswers(m, ok)) \/ AuthForgets(m)

AuthAnswer == \E m \in BagToSet(auth_db) : LookupEnds(m)

Next ==
    \/ check_session_connect
    \/ \E s \in Servers : Connected(s) \/ ConnectFailed(s) \/ ConnectStalls(s) \/ ServerLost(s)
    \/ \E c \in Clients : \/ ClientConnects(c)
                          \/ ClientCloses(c)
                          \/ \E u \in Accounts[c] : LoginReq(c, u)
                          \/ LoginOutReq(c)
    \/ AuthTakes
    \/ AuthAnswer
    \/ FromAuth

Spec == Init /\ [][Next]_vars

\* The timer keeps firing, an attempt ends, a lookup of the auth server ends,
\* answered or not, and what arrives is read.
Fairness ==
    /\ WF_vars(check_session_connect)
    /\ \A s \in Servers : WF_vars(Connected(s))
    /\ WF_vars(AuthTakes)
    /\ \A m \in Logins : WF_vars(LookupEnds(m))
    /\ WF_vars(FromAuth)

FairSpec == Spec /\ Fairness

------------------------------------------------------------------------------
(* What the gateway keeps right                                            *)

InTransit == {to_auth[i] : i \in DOMAIN to_auth} \cup BagToSet(auth_db)
                \cup {from_auth[i] : i \in DOMAIN from_auth}

\* The answer to a login reaches the client that asked, or nobody: whatever
\* closes and logs in again meanwhile, a temporary key never passes on to
\* another session.
LoginAnsweredToAsker ==
    \A m \in InTransit : m.kind = "login" => client_session_utag[m.utag] \in {Nil, m.from}

\* A connection that logs in as one account only, and was never refused: the
\* table by uid may keep an entry of any other under a uid it no longer has.
OneLogin(c) == c \notin refused /\ \A u, v \in Accounts[c] : u = v

\* No login table keeps a session whose socket is gone: the table by temporary key
\* never, the table by uid not for a connection with one login.
NoDeadSession ==
    \A c \in Clients : socket[c] = "closed" =>
        /\ \A t \in Ukeys : client_session_utag[t] # c
        /\ OneLogin(c) => \A u \in Uids \cup {0} : client_session_uid[u] # c

\* The session messages for a uid go to is logged in as that uid, whatever other
\* connections do, and be they refused; it is never stored under 0.
RoutedToOwner ==
    \A u \in Uids \cup {0}, c \in Clients :
        client_session_uid[u] = c /\ OneLogin(c) => u # 0 /\ uid[c] = u

\* There is never a second connection to a server, open or being opened, and
\* session_map knows the open one.
OneConnection ==
    \A s \in Servers : /\ attempts[s] + sockets[s] <= 1
                       /\ session_map[s] <=> sockets[s] = 1

\* A client that asks to log in gets an answer, unless it leaves, the connection to
\* the auth server breaks or a lookup of its ends in an error.
LoginAnswered == \A c \in Clients : c \in waiting ~> c \notin waiting

\* A server that is lost is connected again, unless an attempt failed without a
\* callback: that server is not tried again.
LinkRestored == \A s \in Servers : ~session_map[s] ~> session_map[s] \/ s \in stalled
==============================================================================
