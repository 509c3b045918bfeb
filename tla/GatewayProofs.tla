----------------------------- MODULE GatewayProofs -----------------------------
(***************************************************************************)
(* Proofs about Gateway, for every number of connections, accounts,        *)
(* servers, keys and messages under way.                                   *)
(***************************************************************************)
EXTENDS Gateway, TLAPS

\* While a connection to a server is open or being opened its flag is set, which is
\* what check_session_connect and the callbacks go by.  (It stays set after an
\* attempt that failed without a callback.)
FlagTellsConnection ==
    \A s \in Servers : attempts[s] + sockets[s] = 1 => session_connecting[s]

\* A temporary key belongs to one session at a time, and the table gives it to
\* nobody else.
KeysOwned ==
    /\ \A c \in Clients : utag[c] < g_ukey
    /\ \A c, d \in Clients : utag[c] = utag[d] /\ utag[c] # 0 => c = d
    /\ \A t \in Ukeys, c \in Clients : client_session_utag[t] = c => utag[c] = t

\* A key that a login travels with was given out, and if a session has it, it is
\* the one that asked.
Asked(m) ==
    m.kind = "login" => /\ m.utag < g_ukey
                        /\ m.from \in Clients
                        /\ \A c \in Clients : utag[c] = m.utag => c = m.from

LoginsAsked == \A m \in InTransit : Asked(m)

\* Sessions, messages and the table by uid name accounts of their own client.
OwnAccounts ==
    /\ \A c \in Clients : uid[c] # 0 => uid[c] \in Accounts[c]
    /\ \A m \in InTransit : m.kind = "login" => m.uid \in Accounts[m.from]
    /\ \A u \in Uids, c \in Clients : client_session_uid[u] = c => u \in Accounts[c]

\* The sessions in the tables are open, but for those of two logins.
TablesOpen ==
    \A c \in Clients : socket[c] # "open" =>
        /\ \A t \in Ukeys : client_session_utag[t] # c
        /\ OneLogin(c) => \A u \in Uids \cup {0} : client_session_uid[u] # c

------------------------------------------------------------------------------
(* Bags and sequences                                                      *)

LEMMA BagAdd ==
    ASSUME NEW B, NEW e
    PROVE  BagToSet(B (+) SetToBag({e})) = BagToSet(B) \cup {e}
  BY DEF BagToSet, SetToBag, (+)

LEMMA BagRemove ==
    ASSUME NEW B, NEW e
    PROVE  BagToSet(B (-) SetToBag({e})) \subseteq BagToSet(B)
  BY DEF BagToSet, SetToBag, (-)

LEMMA BagEmpty == BagToSet(EmptyBag) = {}
  BY DEF BagToSet, SetToBag, EmptyBag

Items(s) == {s[i] : i \in DOMAIN s}

LEMMA ItemsAppend ==
    ASSUME NEW S, NEW s \in Seq(S), NEW e
    PROVE  Items(Append(s, e)) = Items(s) \cup {e}
<1>1. DOMAIN s = 1 .. Len(s) /\ Len(s) \in Nat
  OBVIOUS
<1>2. DOMAIN Append(s, e) = 1 .. Len(s) + 1
  OBVIOUS
<1>3. /\ \A i \in 1 .. Len(s) : Append(s, e)[i] = s[i]
      /\ Append(s, e)[Len(s) + 1] = e
  BY <1>1
<1>4. 1 .. Len(s) + 1 = (1 .. Len(s)) \cup {Len(s) + 1}
  BY <1>1
<1> QED
  BY <1>1, <1>2, <1>3, <1>4 DEF Items

LEMMA ItemsHeadTail ==
    ASSUME NEW S, NEW s \in Seq(S), s # <<>>
    PROVE  /\ Head(s) \in Items(s) /\ Items(Tail(s)) \subseteq Items(s)
           /\ Head(s) \in S /\ Tail(s) \in Seq(S)
<1>1. DOMAIN s = 1 .. Len(s) /\ Len(s) \in Nat \ {0}
  OBVIOUS
<1>2. Head(s) = s[1] /\ Tail(s) \in Seq(S)
  OBVIOUS
<1>3. DOMAIN Tail(s) = 1 .. Len(s) - 1
  OBVIOUS
<1>4. \A i \in 1 .. Len(s) - 1 : Tail(s)[i] = s[i + 1] /\ i + 1 \in 1 .. Len(s)
  BY <1>1
<1>5. Items(Tail(s)) \subseteq Items(s)
  BY <1>1, <1>3, <1>4 DEF Items
<1> QED
  BY <1>1, <1>2, <1>5 DEF Items

LEMMA ItemsTyped ==
    ASSUME NEW S, NEW s \in Seq(S)
    PROVE  Items(s) \subseteq S
  BY DEF Items

LEMMA Transit ==
    /\ InTransit = Items(to_auth) \cup BagToSet(auth_db) \cup Items(from_auth)
    /\ InTransit' = Items(to_auth') \cup BagToSet(auth_db') \cup Items(from_auth')
  BY DEF InTransit, Items

------------------------------------------------------------------------------
(* Types                                                                   *)

LEMMA ConstantFacts ==
    /\ MaxUkey \in Nat /\ MaxFlight \in Nat /\ MaxDowns \in Nat
    /\ Ukeys \subseteq Nat \ {0}
    /\ Nil \notin Clients /\ Nil \notin Uids /\ 0 \notin Uids
    /\ AuthServer \in Servers
    /\ \A c \in Clients : Accounts[c] \subseteq Uids
  BY ServersAssumption, AccountsAssumption, NilAssumption, BoundsAssumption
     DEF Ukeys

\* The head of what the auth server sent.
LEMMA FirstAnswer ==
    ASSUME TypeOK, from_auth # <<>>
    PROVE  /\ Head(from_auth) \in InTransit
           /\ Head(from_auth) \in LoginAnswers \cup LogOuts
           /\ Tail(from_auth) \in Seq(LoginAnswers \cup LogOuts)
           /\ Items(Tail(from_auth)) \subseteq Items(from_auth)
  BY ItemsHeadTail, Transit DEF TypeOK

LEMMA LoginAnswerTyped ==
    ASSUME TypeOK, from_auth # <<>>, Head(from_auth).kind = "login"
    PROVE  Head(from_auth) \in LoginAnswers
  BY FirstAnswer DEF LogOuts

LEMMA LogOutTyped ==
    ASSUME TypeOK, from_auth # <<>>, Head(from_auth).kind = "out"
    PROVE  Head(from_auth) \in LogOuts
  BY FirstAnswer DEF LoginAnswers

------------------------------------------------------------------------------
(* The servers' connections                                                *)

ServerTypes ==
    /\ session_map \in [Servers -> BOOLEAN]
    /\ session_connecting \in [Servers -> BOOLEAN]
    /\ attempts \in [Servers -> Nat]
    /\ sockets \in [Servers -> Nat]
    /\ stalled \subseteq Servers
    /\ downs \in 0 .. MaxDowns

ServersOK == ServerTypes /\ OneConnection /\ FlagTellsConnection

\* The actions that leave the connections to the servers alone.
ClientStep ==
    \/ \E c \in Clients : \/ ClientConnects(c)
                          \/ ClientCloses(c)
                          \/ \E u \in Accounts[c] : LoginReq(c, u)
                          \/ LoginOutReq(c)
    \/ AuthTakes
    \/ AuthAnswer
    \/ FromAuth

LEMMA ClientStepServers == ClientStep => UNCHANGED serverVars
  BY DEF ClientStep, ClientConnects, ClientCloses, LoginReq, LoginOutReq, AuthTakes,
         AuthAnswer, LookupEnds, AuthAnswers, AuthForgets, FromAuth, LoginResDropped,
         LoginResRefused, LoginResOK, LoginOutRes

LEMMA ServersInit == Init => ServersOK
<1> SUFFICES ASSUME Init PROVE ServersOK
  OBVIOUS
<1>1. ServerTypes
  BY ConstantFacts DEF Init, ServerTypes
<1>2. OneConnection /\ FlagTellsConnection
  BY DEF Init, OneConnection, FlagTellsConnection
<1> QED
  BY <1>1, <1>2 DEF ServersOK

LEMMA ServersStep ==
    ASSUME ServersOK, [Next]_vars
    PROVE  ServersOK'
<1> USE DEF ServersOK, ServerTypes
<1>1. CASE check_session_connect
  <2>1. ServerTypes'
    BY <1>1 DEF check_session_connect
  <2>2. ASSUME NEW s \in Servers
        PROVE  /\ (attempts[s] + sockets[s])' <= 1
               /\ (session_map[s] <=> sockets[s] = 1)'
               /\ (attempts[s] + sockets[s] = 1 => session_connecting[s])'
    <3>1. /\ attempts'[s] = IF Connectable(s) THEN attempts[s] + 1 ELSE attempts[s]
          /\ sockets'[s] = sockets[s] /\ session_map'[s] = session_map[s]
      BY <1>1 DEF check_session_connect
    <3>2. session_connecting'[s] = (session_connecting[s] \/ Connectable(s))
      BY <1>1, Zenon DEF check_session_connect
    <3>3. /\ attempts[s] \in Nat /\ sockets[s] \in Nat /\ attempts[s] + sockets[s] <= 1
          /\ session_map[s] <=> sockets[s] = 1
          /\ attempts[s] + sockets[s] = 1 => session_connecting[s]
      BY DEF OneConnection, FlagTellsConnection
    <3>4. CASE Connectable(s)
      <4>1. attempts[s] = 0 /\ sockets[s] = 0 /\ ~session_map[s]
        BY <3>3, <3>4 DEF Connectable
      <4>2. attempts'[s] = 1 /\ sockets'[s] = 0 /\ session_map'[s] = FALSE
        BY <3>1, <3>4, <4>1
      <4>3. session_connecting'[s]
        BY <3>2, <3>4, Zenon
      <4> QED
        BY <4>2, <4>3
    <3>5. CASE ~Connectable(s)
      BY <3>1, <3>2, <3>3, <3>5
    <3> QED
      BY <3>4, <3>5
  <2> QED
    BY <2>1, <2>2 DEF OneConnection, FlagTellsConnection
<1>2. ASSUME NEW s \in Servers, Connected(s)
      PROVE  ServersOK'
  <2>1. ServerTypes'
    BY <1>2, SMT DEF Connected
  <2>2. ASSUME NEW t \in Servers
        PROVE  /\ (attempts[t] + sockets[t])' <= 1
               /\ (session_map[t] <=> sockets[t] = 1)'
               /\ (attempts[t] + sockets[t] = 1 => session_connecting[t])'
    BY <1>2, SMT DEF Connected, OneConnection, FlagTellsConnection
  <2> QED
    BY <2>1, <2>2 DEF OneConnection, FlagTellsConnection
<1>3. ASSUME NEW s \in Servers, ConnectFailed(s)
      PROVE  ServersOK'
  <2>1. ServerTypes'
    BY <1>3, ConstantFacts, SMT DEF ConnectFailed
  <2>2. ASSUME NEW t \in Servers
        PROVE  /\ (attempts[t] + sockets[t])' <= 1
               /\ (session_map[t] <=> sockets[t] = 1)'
               /\ (attempts[t] + sockets[t] = 1 => session_connecting[t])'
    BY <1>3, SMT DEF ConnectFailed, OneConnection, FlagTellsConnection
  <2> QED
    BY <2>1, <2>2 DEF OneConnection, FlagTellsConnection
<1>4. ASSUME NEW s \in Servers, ServerLost(s)
      PROVE  ServersOK'
  <2>1. sockets[s] = 1
    BY <1>4 DEF ServerLost, OneConnection
  <2>2. ServerTypes'
    BY <1>4, <2>1, ConstantFacts, SMT DEF ServerLost, ConnectingAfterLoss
  <2>3. ASSUME NEW t \in Servers
        PROVE  /\ (attempts[t] + sockets[t])' <= 1
               /\ (session_map[t] <=> sockets[t] = 1)'
               /\ (attempts[t] + sockets[t] = 1 => session_connecting[t])'
    BY <1>4, <2>1, SMT DEF ServerLost, ConnectingAfterLoss, OneConnection,
                           FlagTellsConnection
  <2> QED
    BY <2>2, <2>3 DEF OneConnection, FlagTellsConnection
<1>6. ASSUME NEW s \in Servers, ConnectStalls(s)
      PROVE  ServersOK'
  <2>1. ServerTypes'
    BY <1>6, ConstantFacts, SMT DEF ConnectStalls
  <2>2. ASSUME NEW t \in Servers
        PROVE  /\ (attempts[t] + sockets[t])' <= 1
               /\ (session_map[t] <=> sockets[t] = 1)'
               /\ (attempts[t] + sockets[t] = 1 => session_connecting[t])'
    BY <1>6, SMT DEF ConnectStalls, OneConnection, FlagTellsConnection
  <2> QED
    BY <2>1, <2>2 DEF OneConnection, FlagTellsConnection
<1>5. CASE UNCHANGED serverVars
  BY <1>5 DEF serverVars, OneConnection, FlagTellsConnection
<1> QED
  BY <1>1, <1>2, <1>3, <1>4, <1>5, <1>6, ClientStepServers DEF Next, ClientStep, vars

\* There is never a second connection to a server, and session_map knows the
\* one there is: connect and reconnect never overlap.
THEOREM OneConnectionCorrect == Spec => []OneConnection
<1>1. Init => ServersOK
  BY ServersInit
<1>2. ServersOK /\ [Next]_vars => ServersOK'
  BY ServersStep
<1>3. ServersOK => OneConnection
  BY DEF ServersOK
<1> QED
  BY <1>1, <1>2, <1>3, PTL DEF Spec

------------------------------------------------------------------------------
(* The messages under way                                                  *)

MessageTypes ==
    /\ to_auth \in Seq(Logins \cup LogOuts)
    /\ BagToSet(auth_db) \subseteq Logins
    /\ from_auth \in Seq(LoginAnswers \cup LogOuts)

UidTypes ==
    /\ uid \in [Clients -> Uids \cup {0}]
    /\ client_session_uid \in [Uids \cup {0} -> Clients \cup {Nil}]
    /\ refused \subseteq Clients

KeyTypes ==
    /\ utag \in [Clients -> Ukeys \cup {0}]
    /\ client_session_utag \in [Ukeys -> Clients \cup {Nil}]
    /\ g_ukey \in 1 .. MaxUkey + 1

SocketTypes == socket \in [Clients -> {"none", "open", "closed"}] /\ waiting \subseteq Clients

LEMMA TypeParts ==
    TypeOK <=> MessageTypes /\ UidTypes /\ KeyTypes /\ SocketTypes /\ ServerTypes
  BY DEF TypeOK, MessageTypes, UidTypes, KeyTypes, SocketTypes, ServerTypes

\* Every login under way was under way before, as a request or as the lookup it
\* is the answer of, or is the request that is sent.
Carried(m, n) == m.kind = "login" => /\ n.kind = "login" /\ n.utag = m.utag
                                     /\ n.uid = m.uid /\ n.from = m.from

MessagesKept == \A m \in InTransit' : m.kind = "login" => \E n \in InTransit : Carried(m, n)

\* The head of the queue to the auth server.
LEMMA Request ==
    ASSUME MessageTypes, to_auth # <<>>
    PROVE  /\ Head(to_auth) \in InTransit
           /\ Head(to_auth) \in Logins \cup LogOuts
           /\ Tail(to_auth) \in Seq(Logins \cup LogOuts)
           /\ Items(Tail(to_auth)) \subseteq Items(to_auth)
  BY ItemsHeadTail, Transit DEF MessageTypes

LEMMA AuthTakesKeeps ==
    ASSUME MessageTypes, AuthTakes
    PROVE  MessageTypes' /\ MessagesKept
<1> DEFINE h == Head(to_auth)
<1>1. /\ h \in InTransit /\ h \in Logins \cup LogOuts
      /\ to_auth' \in Seq(Logins \cup LogOuts)
      /\ Items(to_auth') \subseteq Items(to_auth)
  BY Request DEF AuthTakes
<1>2. CASE h.kind = "out"
  <2>1. h \in LogOuts
    BY <1>1, <1>2 DEF Logins
  <2>2. from_auth' = Append(from_auth, h) /\ auth_db' = auth_db
    BY <1>2 DEF AuthTakes
  <2>3. Items(from_auth') = Items(from_auth) \cup {h}
    BY <2>2, ItemsAppend DEF MessageTypes
  <2>4. from_auth' \in Seq(LoginAnswers \cup LogOuts)
    BY <2>1, <2>2 DEF MessageTypes
  <2>5. InTransit' \subseteq InTransit
    BY <1>1, <2>2, <2>3, Transit
  <2> QED
    BY <1>1, <2>2, <2>4, <2>5 DEF MessageTypes, MessagesKept, Carried
<1>3. CASE h.kind # "out"
  <2>1. h \in Logins
    BY <1>1, <1>3 DEF LogOuts
  <2>2. from_auth' = from_auth /\ BagToSet(auth_db') = BagToSet(auth_db) \cup {h}
    BY <1>3, BagAdd DEF AuthTakes
  <2>3. InTransit' \subseteq InTransit
    BY <1>1, <2>2, Transit
  <2> QED
    BY <1>1, <2>1, <2>2, <2>3 DEF MessageTypes, MessagesKept, Carried
<1> QED
  BY <1>2, <1>3

LEMMA AuthAnswersKeeps ==
    ASSUME MessageTypes, NEW m \in BagToSet(auth_db), NEW ok \in BOOLEAN, AuthAnswers(m, ok)
    PROVE  MessageTypes' /\ MessagesKept
<1> DEFINE a == [kind |-> "login", utag |-> m.utag, uid |-> m.uid, from |-> m.from,
                 ok |-> ok]
<1>1. m \in Logins /\ m \in InTransit
  BY Transit DEF MessageTypes
<1>2. a \in LoginAnswers /\ m.kind = "login"
  BY <1>1 DEF Logins, LoginAnswers
<1>3. /\ BagToSet(auth_db') \subseteq BagToSet(auth_db)
      /\ to_auth' = to_auth
      /\ from_auth' = Append(from_auth, a)
  BY BagRemove DEF AuthAnswers
<1>4. Items(from_auth') = Items(from_auth) \cup {a}
  BY <1>3, ItemsAppend DEF MessageTypes
<1>5. InTransit' \subseteq InTransit \cup {a}
  BY <1>3, <1>4, Transit
<1>6. MessageTypes'
  BY <1>2, <1>3 DEF MessageTypes
<1>7. Carried(a, m)
  BY <1>2 DEF Carried
<1>8. MessagesKept
  BY <1>1, <1>5, <1>7 DEF MessagesKept, Carried
<1> QED
  BY <1>6, <1>8

LEMMA AuthForgetsKeeps ==
    ASSUME MessageTypes, NEW m \in BagToSet(auth_db), AuthForgets(m)
    PROVE  MessageTypes' /\ InTransit' \subseteq InTransit
<1>1. /\ BagToSet(auth_db') \subseteq BagToSet(auth_db)
      /\ to_auth' = to_auth /\ from_auth' = from_auth
  BY BagRemove DEF AuthForgets
<1> QED
  BY <1>1, Transit DEF MessageTypes

LEMMA AnswerTaken ==
    ASSUME MessageTypes, from_auth # <<>>, from_auth' = Tail(from_auth),
           to_auth' = to_auth, auth_db' = auth_db
    PROVE  MessageTypes' /\ InTransit' \subseteq InTransit
<1>1. from_auth' \in Seq(LoginAnswers \cup LogOuts) /\ Items(from_auth') \subseteq Items(from_auth)
  BY ItemsHeadTail DEF MessageTypes
<1> QED
  BY <1>1, Transit DEF MessageTypes

LEMMA LoginReqSends ==
    ASSUME MessageTypes, KeyTypes, NEW c \in Clients, NEW u \in Uids, LoginReq(c, u)
    PROVE  /\ MessageTypes'
           /\ \E m \in Logins : /\ m.utag = utag'[c] /\ m.uid = u /\ m.from = c
                               /\ InTransit' \subseteq InTransit \cup {m}
<1> DEFINE t == IF utag[c] = 0 THEN g_ukey ELSE utag[c]
           m == [kind |-> "login", utag |-> t, uid |-> u, from |-> c]
<1>1. t \in Ukeys
  BY ConstantFacts DEF LoginReq, KeyTypes, Ukeys
<1>2. m \in Logins
  BY <1>1 DEF Logins
<1>3. to_auth' = Append(to_auth, m) /\ auth_db' = auth_db /\ from_auth' = from_auth
  BY DEF LoginReq
<1>4. utag'[c] = t
  BY DEF LoginReq, KeyTypes
<1>5. Items(to_auth') = Items(to_auth) \cup {m}
  BY <1>3, ItemsAppend DEF MessageTypes
<1>6. InTransit' \subseteq InTransit \cup {m}
  BY <1>3, <1>5, Transit
<1>7. MessageTypes'
  BY <1>2, <1>3 DEF MessageTypes
<1>8. m.utag = utag'[c] /\ m.uid = u /\ m.from = c
  BY <1>4
<1> QED
  BY <1>2, <1>6, <1>7, <1>8

LEMMA LoginOutReqSends ==
    ASSUME MessageTypes, UidTypes, NEW c \in Clients, LoginOutReq(c)
    PROVE  MessageTypes' /\ MessagesKept
<1> DEFINE m == [kind |-> "out", utag |-> uid[c]]
<1>1. m \in LogOuts
  BY DEF LogOuts, UidTypes
<1>2. to_auth' = Append(to_auth, m) /\ auth_db' = auth_db /\ from_auth' = from_auth
  BY DEF LoginOutReq
<1>3. Items(to_auth') = Items(to_auth) \cup {m}
  BY <1>2, ItemsAppend DEF MessageTypes
<1>4. InTransit' \subseteq InTransit \cup {m}
  BY <1>2, <1>3, Transit
<1>5. MessageTypes'
  BY <1>1, <1>2 DEF MessageTypes
<1>6. MessagesKept
  BY <1>4 DEF MessagesKept, Carried
<1> QED
  BY <1>5, <1>6

------------------------------------------------------------------------------
(* The temporary keys                                                      *)

KeysOK == MessageTypes /\ UidTypes /\ KeyTypes /\ SocketTypes /\ KeysOwned /\ LoginsAsked

\* A message that carries on a login was asked for like it.
LEMMA CarriedAsked ==
    ASSUME KeysOK, MessagesKept, utag' = utag, g_ukey' = g_ukey
    PROVE  LoginsAsked'
<1> SUFFICES ASSUME NEW m \in InTransit', m.kind = "login"
             PROVE  Asked(m)'
  BY DEF LoginsAsked, Asked
<1>1. PICK n \in InTransit : Carried(m, n)
  BY DEF MessagesKept
<1>2. Asked(n) /\ n.kind = "login" /\ n.utag = m.utag /\ n.from = m.from
  BY <1>1 DEF KeysOK, LoginsAsked, Carried
<1> QED
  BY <1>2 DEF Asked

LEMMA KeysInit == Init => KeysOK
<1> SUFFICES ASSUME Init PROVE KeysOK
  OBVIOUS
<1>1. InTransit = {}
  BY BagEmpty DEF Init, InTransit
<1>2. MessageTypes
  BY BagEmpty DEF Init, MessageTypes
<1>3. UidTypes /\ KeyTypes /\ SocketTypes
  BY ConstantFacts DEF Init, UidTypes, KeyTypes, SocketTypes, Ukeys
<1>4. KeysOwned
  BY ConstantFacts DEF Init, KeysOwned
<1> QED
  BY <1>1, <1>2, <1>3, <1>4 DEF KeysOK, LoginsAsked

\* A session loses its key and its entry, or keeps both.
LEMMA KeysDropped ==
    ASSUME KeysOK, NEW c \in Clients
    PROVE  /\ UtagWithout(c) \in [Clients -> Ukeys \cup {0}]
           /\ \A d \in Clients : UtagWithout(c)[d] \in {utag[d], 0}
           /\ UtagTableWithout(c) \in [Ukeys -> Clients \cup {Nil}]
           /\ \A t \in Ukeys, d \in Clients : UtagTableWithout(c)[t] = d =>
                  client_session_utag[t] = d /\ UtagWithout(c)[d] = t
<1>1. CASE UtagMapped(c)
  <2>1. utag[c] \in Ukeys /\ client_session_utag[utag[c]] = c
    BY <1>1 DEF UtagMapped, KeysOK, KeyTypes
  <2>2. /\ UtagWithout(c) = [utag EXCEPT ![c] = 0]
        /\ UtagTableWithout(c) = [client_session_utag EXCEPT ![utag[c]] = Nil]
    BY <1>1 DEF UtagWithout, UtagTableWithout
  <2>3. ASSUME NEW t \in Ukeys, NEW d \in Clients, UtagTableWithout(c)[t] = d
        PROVE  client_session_utag[t] = d /\ UtagWithout(c)[d] = t
    <3>1. t # utag[c]
      BY <2>1, <2>2, <2>3, ConstantFacts DEF KeysOK, KeyTypes
    <3>2. client_session_utag[t] = d /\ utag[d] = t
      BY <2>2, <2>3, <3>1 DEF KeysOK, KeyTypes, KeysOwned
    <3> QED
      BY <2>2, <3>1, <3>2 DEF KeysOK, KeyTypes
  <2>4. UtagWithout(c) \in [Clients -> Ukeys \cup {0}]
    BY <2>2 DEF KeysOK, KeyTypes
  <2>5. UtagTableWithout(c) \in [Ukeys -> Clients \cup {Nil}]
    BY <2>2 DEF KeysOK, KeyTypes
  <2>6. \A d \in Clients : UtagWithout(c)[d] \in {utag[d], 0}
    BY <2>2 DEF KeysOK, KeyTypes
  <2> QED
    BY <2>3, <2>4, <2>5, <2>6
<1>2. CASE ~UtagMapped(c)
  BY <1>2 DEF UtagWithout, UtagTableWithout, KeysOK, KeyTypes, KeysOwned
<1> QED
  BY <1>1, <1>2

\* Steps that only take keys away from sessions and entries from the table.
LEMMA KeysLost ==
    ASSUME KeysOK, MessageTypes', UidTypes', KeyTypes', SocketTypes',
           InTransit' \subseteq InTransit, g_ukey' = g_ukey,
           \A d \in Clients : utag'[d] \in {utag[d], 0},
           \A t \in Ukeys, d \in Clients : client_session_utag'[t] = d => utag'[d] = t
    PROVE  KeysOK'
<1>1. g_ukey > 0
  BY ConstantFacts DEF KeysOK, KeyTypes
<1>2. \A d \in Clients : utag'[d] < g_ukey'
  BY <1>1 DEF KeysOK, KeysOwned
<1>3. \A d, e \in Clients : utag'[d] = utag'[e] /\ utag'[d] # 0 => d = e
  BY DEF KeysOK, KeysOwned
<1>4. KeysOwned'
  BY <1>2, <1>3 DEF KeysOwned
<1>5. LoginsAsked'
  <2> SUFFICES ASSUME NEW m \in InTransit', m.kind = "login"
               PROVE  Asked(m)'
    BY DEF LoginsAsked, Asked
  <2>1. m \in InTransit /\ Asked(m)
    BY DEF KeysOK, LoginsAsked
  <2>2. m.utag \in Ukeys
    BY <2>1, Transit, ItemsTyped DEF KeysOK, MessageTypes, Logins, LoginAnswers, LogOuts
  <2>3. m.utag # 0
    BY <2>2, ConstantFacts
  <2> QED
    BY <2>1, <2>3 DEF Asked
<1> QED
  BY <1>4, <1>5 DEF KeysOK

LEMMA KeysClientCloses ==
    ASSUME KeysOK, NEW c \in Clients, ClientCloses(c)
    PROVE  KeysOK'
<1>1. MessageTypes' /\ InTransit' \subseteq InTransit
  BY DEF ClientCloses, authVars, KeysOK, MessageTypes, InTransit
<1>2. UidTypes'
  BY DEF ClientCloses, KeysOK, UidTypes, UidTableWithout, UidMapped
<1>3. SocketTypes'
  BY DEF ClientCloses, KeysOK, SocketTypes
<1>4. KeyTypes' /\ g_ukey' = g_ukey
  BY KeysDropped DEF ClientCloses, KeysOK, KeyTypes
<1>5. utag' = UtagWithout(c) /\ client_session_utag' = UtagTableWithout(c)
  BY DEF ClientCloses
<1> QED
  BY <1>1, <1>2, <1>3, <1>4, <1>5, KeysDropped, KeysLost

LEMMA KeysLoginReq ==
    ASSUME KeysOK, NEW c \in Clients, NEW u \in Uids, LoginReq(c, u)
    PROVE  KeysOK'
<1> DEFINE t == IF utag[c] = 0 THEN g_ukey ELSE utag[c]
<1>1. /\ t \in Ukeys /\ g_ukey \in Nat \ {0} /\ g_ukey <= MaxUkey + 1
      /\ \A d \in Clients : utag[d] \in Nat /\ utag[d] < g_ukey
  BY ConstantFacts DEF LoginReq, KeysOK, KeyTypes, KeysOwned, Ukeys
<1>2. /\ utag' = [utag EXCEPT ![c] = t]
      /\ g_ukey' = IF utag[c] = 0 THEN g_ukey + 1 ELSE g_ukey
      /\ client_session_utag' = [client_session_utag EXCEPT ![t] = c]
  BY DEF LoginReq, RememberUtag, NextUkey
<1>3. utag'[c] = t /\ \A d \in Clients \ {c} : utag'[d] = utag[d]
  BY <1>2 DEF KeysOK, KeyTypes
<1>4. \A d \in Clients : utag[d] = t => d = c
  BY <1>1 DEF KeysOK, KeysOwned
<1>5. KeyTypes'
  <2>1. g_ukey' \in 1 .. MaxUkey + 1
    BY <1>1, <1>2, ConstantFacts DEF LoginReq, Ukeys
  <2> QED
    BY <1>1, <1>2, <2>1 DEF KeysOK, KeyTypes
<1>6. KeysOwned'
  <2>1. \A d \in Clients : utag'[d] < g_ukey'
    BY <1>1, <1>2, <1>3
  <2>2. \A d, e \in Clients : utag'[d] = utag'[e] /\ utag'[d] # 0 => d = e
    BY <1>3, <1>4 DEF KeysOK, KeysOwned
  <2>3. \A k \in Ukeys, d \in Clients : client_session_utag'[k] = d => utag'[d] = k
    <3> SUFFICES ASSUME NEW k \in Ukeys, NEW d \in Clients, client_session_utag'[k] = d
                 PROVE  utag'[d] = k
      OBVIOUS
    <3>1. CASE k = t
      BY <1>1, <1>2, <1>3, <3>1 DEF KeysOK, KeyTypes
    <3>2. CASE k # t
      <4>1. client_session_utag[k] = d /\ utag[d] = k
        BY <1>1, <1>2, <3>2 DEF KeysOK, KeyTypes, KeysOwned
      <4>2. d # c
        BY <1>1, <3>2, <4>1, ConstantFacts
      <4> QED
        BY <1>3, <4>1, <4>2
    <3> QED
      BY <3>1, <3>2
  <2> QED
    BY <2>1, <2>2, <2>3 DEF KeysOwned
<1>7. PICK m \in Logins : /\ m.utag = utag'[c] /\ m.from = c
                          /\ InTransit' \subseteq InTransit \cup {m}
  BY LoginReqSends DEF KeysOK
<1>8. LoginsAsked'
  <2> SUFFICES ASSUME NEW n \in InTransit', n.kind = "login"
               PROVE  /\ n.utag < g_ukey' /\ n.from \in Clients
                      /\ \A d \in Clients : utag'[d] = n.utag => d = n.from
    BY DEF LoginsAsked, Asked
  <2>1. CASE n = m
    BY <1>3, <1>6, <1>7, <2>1, <1>1, <1>2, <1>4
  <2>2. CASE n \in InTransit
    <3>1. /\ n.utag < g_ukey /\ n.from \in Clients
          /\ \A d \in Clients : utag[d] = n.utag => d = n.from
      BY <2>2 DEF KeysOK, LoginsAsked, Asked
    <3>2. n.utag \in Ukeys
      BY <2>2, Transit, ItemsTyped DEF KeysOK, MessageTypes, Logins, LoginAnswers, LogOuts
    <3>3. n.utag \in Nat
      BY <3>2, ConstantFacts
    <3>4. CASE utag[c] = 0
      BY <1>1, <1>2, <1>3, <3>1, <3>3, <3>4
    <3>5. CASE utag[c] # 0
      BY <1>2, <1>3, <3>1, <3>5
    <3> QED
      BY <3>4, <3>5
  <2> QED
    BY <1>7, <2>1, <2>2
<1>9. MessageTypes'
  BY LoginReqSends DEF KeysOK
<1>10. UidTypes' /\ SocketTypes'
  BY DEF LoginReq, KeysOK, UidTypes, SocketTypes
<1> QED
  BY <1>5, <1>6, <1>8, <1>9, <1>10 DEF KeysOK

LEMMA KeysLoginResOK ==
    ASSUME KeysOK, LoginResOK
    PROVE  KeysOK'
<1> DEFINE m == Head(from_auth)
           c == client_session_utag[m.utag]
           closes == Relogin(m.uid, c)
<1>0. PICK k, u : k = m.utag /\ u = m.uid
  OBVIOUS
<1>1. m \in LoginAnswers /\ k \in Ukeys /\ u \in Uids
  <2>1. m \in LoginAnswers \cup LogOuts /\ m.kind = "login"
    BY ItemsHeadTail DEF LoginResOK, KeysOK, MessageTypes
  <2>2. m \in LoginAnswers
    BY <2>1 DEF LogOuts
  <2> QED
    BY <1>0, <2>2 DEF LoginAnswers
<1>2. c \in Clients
  BY <1>0, <1>1 DEF LoginResOK, KeysOK, KeyTypes
<1>3. PICK d \in Clients : d = c
  BY <1>2
<1>4. PICK b \in BOOLEAN : b = closes
  BY DEF Relogin
<1>5. /\ utag' = IF b THEN UtagWithout(d) ELSE utag
      /\ client_session_utag' =
            [(IF b THEN UtagTableWithout(d) ELSE client_session_utag) EXCEPT ![k] = Nil]
      /\ client_session_uid' =
            [(IF b THEN UidTableWithout(d) ELSE client_session_uid) EXCEPT ![u] = d]
      /\ uid' = [uid EXCEPT ![d] = u]
      /\ g_ukey' = g_ukey /\ socket' = socket /\ waiting' = waiting \ {d}
      /\ refused' = refused
  BY <1>0, <1>3, <1>4 DEF LoginResOK
<1>6. MessageTypes' /\ InTransit' \subseteq InTransit
  BY AnswerTaken DEF LoginResOK, KeysOK
<1>7. UidTableWithout(d) \in [Uids \cup {0} -> Clients \cup {Nil}]
  BY DEF UidTableWithout, UidMapped, KeysOK, UidTypes
<1>8. UidTypes' /\ SocketTypes'
  BY <1>1, <1>5, <1>7 DEF KeysOK, UidTypes, SocketTypes
<1>9. KeyTypes'
  BY <1>5, KeysDropped DEF KeysOK, KeyTypes
<1>10. \A e \in Clients : utag'[e] \in {utag[e], 0}
  BY <1>5, KeysDropped
<1>11. \A t \in Ukeys, e \in Clients : client_session_utag'[t] = e => utag'[e] = t
  <2> SUFFICES ASSUME NEW t \in Ukeys, NEW e \in Clients, client_session_utag'[t] = e
               PROVE  utag'[e] = t
    OBVIOUS
  <2>1. t # k
    BY <1>1, <1>5, KeysDropped, ConstantFacts DEF KeysOK, KeyTypes
  <2>2. CASE b
    <3>1. UtagTableWithout(d)[t] = e
      BY <1>5, <2>1, <2>2, KeysDropped
    <3> QED
      BY <1>5, <2>2, <3>1, KeysDropped
  <2>3. CASE ~b
    BY <1>5, <2>1, <2>3 DEF KeysOK, KeyTypes, KeysOwned
  <2> QED
    BY <2>2, <2>3
<1> QED
  BY <1>5, <1>6, <1>8, <1>9, <1>10, <1>11, KeysLost

\* The answer the gateway reads is for a session of the table by key.
LEMMA RefusedOne ==
    ASSUME KeysOK, LoginResRefused
    PROVE  \E k \in Ukeys, d \in Clients :
              /\ k = Head(from_auth).utag /\ d = client_session_utag[k]
              /\ client_session_utag' = [client_session_utag EXCEPT ![k] = Nil]
              /\ client_session_uid' = [client_session_uid EXCEPT ![0] = d]
              /\ uid' = [uid EXCEPT ![d] = 0]
              /\ refused' = refused \cup {d}
              /\ waiting' = waiting \ {d}
              /\ UNCHANGED <<socket, utag, g_ukey>>
<1>1. PICK k : k = Head(from_auth).utag
  OBVIOUS
<1>2. k \in Ukeys
  <2>1. Head(from_auth) \in LoginAnswers \cup LogOuts /\ Head(from_auth).kind = "login"
    BY ItemsHeadTail DEF LoginResRefused, KeysOK, MessageTypes
  <2> QED
    BY <1>1, <2>1 DEF LoginAnswers, LogOuts
<1>3. PICK d \in Clients : d = client_session_utag[k]
  BY <1>1, <1>2 DEF LoginResRefused, KeysOK, KeyTypes
<1> QED
  BY <1>1, <1>2, <1>3 DEF LoginResRefused

LEMMA KeysLoginResRefused ==
    ASSUME KeysOK, LoginResRefused
    PROVE  KeysOK'
<1>1. PICK k \in Ukeys, d \in Clients :
              /\ client_session_utag' = [client_session_utag EXCEPT ![k] = Nil]
              /\ client_session_uid' = [client_session_uid EXCEPT ![0] = d]
              /\ uid' = [uid EXCEPT ![d] = 0]
              /\ refused' = refused \cup {d}
              /\ waiting' = waiting \ {d}
              /\ UNCHANGED <<socket, utag, g_ukey>>
  BY RefusedOne
<1>2. MessageTypes' /\ InTransit' \subseteq InTransit
  BY AnswerTaken DEF LoginResRefused, KeysOK
<1>3. UidTypes' /\ SocketTypes' /\ KeyTypes'
  BY <1>1 DEF KeysOK, UidTypes, SocketTypes, KeyTypes
<1>4. \A t \in Ukeys, e \in Clients : client_session_utag'[t] = e => utag'[e] = t
  BY <1>1, ConstantFacts DEF KeysOK, KeyTypes, KeysOwned
<1> QED
  BY <1>1, <1>2, <1>3, <1>4, KeysLost

\* A key is never passed on, whatever a step does.
LEMMA KeysStep ==
    ASSUME KeysOK, [Next]_vars
    PROVE  KeysOK'
<1>1. CASE UNCHANGED <<socket, sessionVars, tableVars, authVars, waiting>>
  BY <1>1 DEF sessionVars, tableVars, authVars, KeysOK, MessageTypes, UidTypes, KeyTypes,
              SocketTypes, KeysOwned, LoginsAsked, Asked, InTransit
<1>2. ASSUME NEW s \in Servers, ServerLost(s), s = AuthServer
      PROVE  KeysOK'
  <2>1. to_auth' = <<>> /\ auth_db' = EmptyBag /\ from_auth' = <<>> /\ waiting' = {}
    BY <1>2 DEF ServerLost
  <2>2. UNCHANGED <<socket, sessionVars, tableVars>>
    BY <1>2 DEF ServerLost
  <2>3. InTransit' = {}
    BY <2>1, BagEmpty DEF InTransit
  <2>4. MessageTypes' /\ SocketTypes'
    BY <2>1, <2>2, BagEmpty DEF KeysOK, MessageTypes, SocketTypes
  <2>5. UidTypes' /\ KeyTypes' /\ KeysOwned'
    BY <2>2 DEF KeysOK, UidTypes, KeyTypes, KeysOwned, sessionVars, tableVars
  <2> QED
    BY <2>3, <2>4, <2>5 DEF KeysOK, LoginsAsked
<1>3. ASSUME NEW s \in Servers, ServerLost(s), s # AuthServer
      PROVE  KeysOK'
  BY <1>1, <1>3 DEF ServerLost
<1>4. ASSUME NEW c \in Clients, ClientConnects(c)
      PROVE  KeysOK'
  <2>1. SocketTypes'
    BY <1>4 DEF ClientConnects, KeysOK, SocketTypes
  <2> QED
    BY <1>4, <2>1 DEF ClientConnects, sessionVars, tableVars, authVars, KeysOK, MessageTypes,
                      UidTypes, KeyTypes, KeysOwned, LoginsAsked, Asked, InTransit
<1>5. ASSUME NEW c \in Clients, ClientCloses(c)
      PROVE  KeysOK'
  BY <1>5, KeysClientCloses
<1>6. ASSUME NEW c \in Clients, NEW u \in Accounts[c], LoginReq(c, u)
      PROVE  KeysOK'
  BY <1>6, KeysLoginReq, ConstantFacts
<1>7. ASSUME MessagesKept, MessageTypes', UNCHANGED <<socket, sessionVars, tableVars, waiting>>
      PROVE  KeysOK'
  <2>1. LoginsAsked'
    BY <1>7, CarriedAsked DEF sessionVars, tableVars
  <2> QED
    BY <1>7, <2>1 DEF sessionVars, tableVars, KeysOK, UidTypes, KeyTypes, SocketTypes,
                      KeysOwned
<1>8. ASSUME NEW c \in Clients, LoginOutReq(c)
      PROVE  KeysOK'
  BY <1>7, <1>8, LoginOutReqSends DEF LoginOutReq, KeysOK
<1>9. ASSUME AuthTakes
      PROVE  KeysOK'
  BY <1>7, <1>9, AuthTakesKeeps DEF AuthTakes, KeysOK
<1>10. ASSUME NEW m \in BagToSet(auth_db), NEW ok \in BOOLEAN, AuthAnswers(m, ok)
       PROVE  KeysOK'
  BY <1>7, <1>10, AuthAnswersKeeps DEF AuthAnswers, KeysOK
<1>19. ASSUME NEW m \in BagToSet(auth_db), AuthForgets(m)
       PROVE  KeysOK'
  <2>1. MessageTypes' /\ InTransit' \subseteq InTransit
    BY <1>19, AuthForgetsKeeps DEF KeysOK
  <2> QED
    BY <1>19, <2>1 DEF AuthForgets, sessionVars, tableVars, KeysOK, UidTypes, KeyTypes,
                       SocketTypes, KeysOwned, LoginsAsked, Asked
<1>11. ASSUME InTransit' \subseteq InTransit, MessageTypes', UidTypes', SocketTypes',
              UNCHANGED <<utag, client_session_utag, g_ukey>>
       PROVE  KeysOK'
  BY <1>11 DEF KeysOK, KeyTypes, KeysOwned, LoginsAsked, Asked
<1>12. CASE LoginResDropped
  <2>1. MessageTypes' /\ InTransit' \subseteq InTransit
    BY <1>12, AnswerTaken DEF LoginResDropped, KeysOK
  <2> QED
    BY <1>11, <1>12, <2>1 DEF LoginResDropped, sessionVars, tableVars, KeysOK, UidTypes,
                              SocketTypes
<1>13. CASE LoginResRefused
  BY <1>13, KeysLoginResRefused
<1>14. CASE LoginResOK
  BY <1>14, KeysLoginResOK
<1>15. CASE LoginOutRes
  <2>1. MessageTypes' /\ InTransit' \subseteq InTransit
    BY <1>15, AnswerTaken DEF LoginOutRes, KeysOK
  <2>2. UidTypes'
    BY <1>15 DEF LoginOutRes, LoggedOut, KeysOK, UidTypes
  <2> QED
    BY <1>11, <1>15, <2>1, <2>2 DEF LoginOutRes, KeysOK, SocketTypes
<1>16. CASE check_session_connect
  BY <1>1, <1>16 DEF check_session_connect
<1>17. ASSUME NEW s \in Servers, Connected(s) \/ ConnectFailed(s) \/ ConnectStalls(s)
       PROVE  KeysOK'
  BY <1>1, <1>17 DEF Connected, ConnectFailed, ConnectStalls
<1>18. CASE UNCHANGED vars
  BY <1>1, <1>18 DEF vars
<1> QED
  BY <1>2, <1>3, <1>4, <1>5, <1>6, <1>8, <1>9, <1>10, <1>12, <1>13, <1>14, <1>15, <1>16,
     <1>17, <1>18, <1>19 DEF Next, AuthAnswer, LookupEnds, FromAuth

\* Every variable keeps its type, whoever logs in, out or leaves and whatever
\* the auth server answers.
THEOREM TypeCorrect == Spec => []TypeOK
<1>1. Init => ServersOK /\ KeysOK
  BY ServersInit, KeysInit
<1>2. ServersOK /\ KeysOK /\ [Next]_vars => ServersOK' /\ KeysOK'
  BY ServersStep, KeysStep
<1>3. ServersOK /\ KeysOK => TypeOK
  BY TypeParts DEF ServersOK, KeysOK
<1> QED
  BY <1>1, <1>2, <1>3, PTL DEF Spec

\* send_to_client: the answer to a login reaches the client that asked or nobody.
THEOREM LoginAnsweredToAskerCorrect == Spec => []LoginAnsweredToAsker
<1>1. Init => KeysOK
  BY KeysInit
<1>2. KeysOK /\ [Next]_vars => KeysOK'
  BY KeysStep
<1>3. ASSUME KeysOK
      PROVE  LoginAnsweredToAsker
  <2> SUFFICES ASSUME NEW m \in InTransit, m.kind = "login"
               PROVE  client_session_utag[m.utag] \in {Nil, m.from}
    BY DEF LoginAnsweredToAsker
  <2>1. Asked(m)
    BY <1>3 DEF KeysOK, LoginsAsked
  <2>2. m.utag \in Ukeys
    BY <1>3, Transit, ItemsTyped DEF KeysOK, MessageTypes, Logins, LoginAnswers, LogOuts
  <2> QED
    BY <1>3, <2>1, <2>2 DEF Asked, KeysOK, KeyTypes, KeysOwned
<1> QED
  BY <1>1, <1>2, <1>3, PTL DEF Spec

------------------------------------------------------------------------------
(* Who messages for an account go to                                       *)

RoutesOK == OwnAccounts /\ RoutedToOwner /\ TablesOpen

\* Every login under way was under way before or is asked for in this step.
LEMMA MessagesStep ==
    ASSUME KeysOK, [Next]_vars, NEW m \in InTransit', m.kind = "login"
    PROVE  \/ \E n \in InTransit : Carried(m, n)
           \/ m.uid \in Accounts[m.from]
<1>1. ASSUME InTransit' \subseteq InTransit
      PROVE  \E n \in InTransit : Carried(m, n)
  BY <1>1 DEF Carried
<1>2. CASE UNCHANGED authVars
  BY <1>1, <1>2 DEF authVars, InTransit
<1>3. ASSUME NEW s \in Servers, ServerLost(s), s = AuthServer
      PROVE  FALSE
  BY <1>3, BagEmpty DEF ServerLost, InTransit
<1>4. ASSUME NEW s \in Servers, ServerLost(s), s # AuthServer
      PROVE  \E n \in InTransit : Carried(m, n)
  BY <1>2, <1>4 DEF ServerLost, authVars, InTransit, Carried
<1>5. ASSUME NEW c \in Clients, NEW u \in Accounts[c], LoginReq(c, u)
      PROVE  \/ \E n \in InTransit : Carried(m, n)
             \/ m.uid \in Accounts[m.from]
  <2>1. PICK r \in Logins : /\ r.uid = u /\ r.from = c
                            /\ InTransit' \subseteq InTransit \cup {r}
    BY <1>5, LoginReqSends, ConstantFacts DEF KeysOK
  <2> QED
    BY <2>1 DEF Carried
<1>6. ASSUME MessagesKept
      PROVE  \E n \in InTransit : Carried(m, n)
  BY <1>6 DEF MessagesKept
<1>7. ASSUME NEW c \in Clients, LoginOutReq(c)
      PROVE  \E n \in InTransit : Carried(m, n)
  BY <1>6, <1>7, LoginOutReqSends DEF KeysOK
<1>8. CASE AuthTakes
  BY <1>6, <1>8, AuthTakesKeeps DEF KeysOK
<1>9. ASSUME NEW n \in BagToSet(auth_db), NEW ok \in BOOLEAN, AuthAnswers(n, ok)
      PROVE  \E o \in InTransit : Carried(m, o)
  BY <1>6, <1>9, AuthAnswersKeeps DEF KeysOK
<1>15. ASSUME NEW n \in BagToSet(auth_db), AuthForgets(n)
       PROVE  \E o \in InTransit : Carried(m, o)
  BY <1>1, <1>15, AuthForgetsKeeps DEF KeysOK
<1>10. CASE FromAuth
  BY <1>1, <1>10, AnswerTaken DEF FromAuth, LoginResDropped, LoginResRefused, LoginResOK,
                                  LoginOutRes, KeysOK
<1>11. CASE check_session_connect
  BY <1>2, <1>11 DEF check_session_connect
<1>12. ASSUME NEW s \in Servers, Connected(s) \/ ConnectFailed(s) \/ ConnectStalls(s)
       PROVE  \E n \in InTransit : Carried(m, n)
  BY <1>1, <1>12 DEF Connected, ConnectFailed, ConnectStalls, authVars, InTransit
<1>13. ASSUME NEW c \in Clients, ClientConnects(c) \/ ClientCloses(c)
       PROVE  \E n \in InTransit : Carried(m, n)
  BY <1>1, <1>13 DEF ClientConnects, ClientCloses, authVars, InTransit
<1>14. CASE UNCHANGED vars
  BY <1>2, <1>14 DEF vars
<1> QED
  BY <1>3, <1>4, <1>5, <1>7, <1>8, <1>9, <1>10, <1>11, <1>12, <1>13, <1>14, <1>15
     DEF Next, AuthAnswer, LookupEnds

\* The client a successful login is answered to asked for that account.
LEMMA AnswerOfAsker ==
    ASSUME KeysOK, OwnAccounts, LoginResOK
    PROVE  LET m == Head(from_auth)
               c == client_session_utag[m.utag]
           IN  /\ m.utag \in Ukeys /\ m.uid \in Uids /\ c \in Clients
               /\ m.uid \in Accounts[c]
<1> DEFINE m == Head(from_auth)
           c == client_session_utag[m.utag]
<1>1. m \in LoginAnswers \cup LogOuts /\ m.kind = "login" /\ m \in Items(from_auth)
  BY ItemsHeadTail DEF LoginResOK, KeysOK, MessageTypes
<1>2. m \in LoginAnswers /\ m \in InTransit
  BY <1>1, Transit DEF LogOuts
<1>3. m.utag \in Ukeys /\ m.uid \in Uids
  BY <1>2 DEF LoginAnswers
<1>4. c \in Clients
  BY <1>3 DEF LoginResOK, KeysOK, KeyTypes
<1>5. utag[c] = m.utag
  BY <1>3, <1>4 DEF KeysOK, KeysOwned
<1>6. c = m.from
  BY <1>1, <1>2, <1>4, <1>5 DEF KeysOK, LoginsAsked, Asked
<1> QED
  BY <1>1, <1>2, <1>3, <1>4, <1>6 DEF OwnAccounts

LEMMA RoutesInit == Init => RoutesOK
<1> SUFFICES ASSUME Init PROVE RoutesOK
  OBVIOUS
<1>1. InTransit = {}
  BY BagEmpty DEF Init, InTransit
<1>2. OwnAccounts
  BY <1>1, ConstantFacts DEF Init, OwnAccounts
<1>3. RoutedToOwner /\ TablesOpen
  BY ConstantFacts DEF Init, RoutedToOwner, TablesOpen
<1> QED
  BY <1>2, <1>3 DEF RoutesOK

LEMMA OwnAccountsStep ==
    ASSUME KeysOK, OwnAccounts, [Next]_vars
    PROVE  OwnAccounts'
<1>1. ASSUME NEW m \in InTransit', m.kind = "login"
      PROVE  m.uid \in Accounts[m.from]
  <2>1. CASE m.uid \in Accounts[m.from]
    BY <2>1
  <2>2. ASSUME NEW n \in InTransit, Carried(m, n)
        PROVE  m.uid \in Accounts[m.from]
    BY <1>1, <2>2 DEF OwnAccounts, Carried
  <2> QED
    BY <1>1, <2>1, <2>2, MessagesStep
<1>2. ASSUME NEW c \in Clients, uid'[c] # 0
      PROVE  uid'[c] \in Accounts[c]
  <2>1. CASE uid' = uid
    BY <1>2, <2>1 DEF OwnAccounts
  <2>2. CASE LoginResOK
    <3>1. PICK d, u : /\ d = client_session_utag[Head(from_auth).utag]
                      /\ u = Head(from_auth).uid
      OBVIOUS
    <3>2. d \in Clients /\ u \in Accounts[d] /\ uid' = [uid EXCEPT ![d] = u]
      BY <2>2, <3>1, AnswerOfAsker DEF LoginResOK
    <3> QED
      BY <1>2, <3>2 DEF OwnAccounts, KeysOK, UidTypes
  <2>3. CASE LoginOutRes
    <3>1. \/ uid' = uid
          \/ uid' = [uid EXCEPT ![client_session_uid[Head(from_auth).utag]] = 0]
      BY <2>3 DEF LoginOutRes
    <3>2. uid'[c] \in {uid[c], 0}
      BY <3>1 DEF KeysOK, UidTypes
    <3> QED
      BY <1>2, <3>2 DEF OwnAccounts
  <2>4. CASE LoginResRefused
    <3>1. uid'[c] \in {uid[c], 0}
      BY <2>4, RefusedOne DEF KeysOK, UidTypes
    <3> QED
      BY <1>2, <3>1 DEF OwnAccounts
  <2> QED
    BY <2>1, <2>2, <2>3, <2>4 DEF Next, vars, sessionVars, check_session_connect, Connected,
       ConnectFailed, ConnectStalls, ServerLost, ClientConnects, ClientCloses, LoginReq,
       LoginOutReq, AuthTakes, AuthAnswer, LookupEnds, AuthAnswers, AuthForgets, FromAuth,
       LoginResDropped
<1>3. ASSUME NEW u \in Uids, NEW c \in Clients, client_session_uid'[u] = c
      PROVE  u \in Accounts[c]
  <2>1. ASSUME client_session_uid'[u] \in {client_session_uid[u], Nil}
        PROVE  u \in Accounts[c]
    BY <1>3, <2>1, ConstantFacts DEF OwnAccounts
  <2>2. CASE LoginResOK
    <3>1. PICK d, v : /\ d = client_session_utag[Head(from_auth).utag]
                      /\ v = Head(from_auth).uid
      OBVIOUS
    <3>2. d \in Clients /\ v \in Accounts[d] /\ v \in Uids
      BY <2>2, <3>1, AnswerOfAsker
    <3>3. PICK table : /\ table \in {client_session_uid, UidTableWithout(d)}
                       /\ client_session_uid' = [table EXCEPT ![v] = d]
      BY <2>2, <3>1 DEF LoginResOK
    <3>4. /\ table \in [Uids \cup {0} -> Clients \cup {Nil}]
          /\ table[u] \in {client_session_uid[u], Nil}
      BY <3>2, <3>3 DEF UidTableWithout, UidMapped, KeysOK, UidTypes
    <3>5. CASE u = v
      BY <1>3, <3>2, <3>3, <3>4, <3>5
    <3>6. CASE u # v
      BY <2>1, <3>3, <3>4, <3>6
    <3> QED
      BY <3>5, <3>6
  <2>3. CASE LoginOutRes
    BY <2>1, <2>3 DEF LoginOutRes, LoggedOut, KeysOK, UidTypes
  <2>4. CASE LoginResRefused
    <3>1. PICK d \in Clients : client_session_uid' = [client_session_uid EXCEPT ![0] = d]
      BY <2>4, RefusedOne
    <3>2. u # 0
      BY ConstantFacts
    <3> QED
      BY <2>1, <3>1, <3>2 DEF KeysOK, UidTypes
  <2>5. ASSUME NEW d \in Clients, ClientCloses(d)
        PROVE  u \in Accounts[c]
    BY <2>1, <2>5 DEF ClientCloses, UidTableWithout, UidMapped, KeysOK, UidTypes
  <2>6. CASE client_session_uid' = client_session_uid
    BY <2>1, <2>6
  <2> QED
    BY <2>2, <2>3, <2>4, <2>5, <2>6 DEF Next, vars, tableVars, check_session_connect,
       Connected, ConnectFailed, ConnectStalls, ServerLost, ClientConnects, LoginReq,
       LoginOutReq, AuthTakes, AuthAnswer, LookupEnds, AuthAnswers, AuthForgets, FromAuth,
       LoginResDropped
<1> QED
  BY <1>1, <1>2, <1>3 DEF OwnAccounts

\* What leaves the tables alone, or empties entries of them, keeps the routes.
LEMMA RoutesKept ==
    ASSUME RoutesOK, UNCHANGED <<socket, uid, refused>>,
           \A t \in Ukeys : client_session_utag'[t] \in {client_session_utag[t], Nil},
           \A u \in Uids \cup {0} : client_session_uid'[u] \in {client_session_uid[u], Nil}
    PROVE  RoutedToOwner' /\ TablesOpen'
<1>1. RoutedToOwner'
  BY ConstantFacts DEF RoutesOK, RoutedToOwner, OneLogin
<1>2. TablesOpen'
  BY ConstantFacts DEF RoutesOK, TablesOpen, OneLogin
<1> QED
  BY <1>1, <1>2

\* on_gw_session_disconnect for a client takes all its entries out of the tables.
LEMMA ClosedLeavesTables ==
    ASSUME KeysOK, RoutesOK, NEW c \in Clients
    PROVE  /\ \A t \in Ukeys : UtagTableWithout(c)[t] \in {client_session_utag[t], Nil}
           /\ \A u \in Uids \cup {0} : UidTableWithout(c)[u] \in {client_session_uid[u], Nil}
           /\ \A t \in Ukeys : UtagTableWithout(c)[t] # c
           /\ UidTableWithout(c) \in [Uids \cup {0} -> Clients \cup {Nil}]
<1>1. \A t \in Ukeys : UtagTableWithout(c)[t] \in {client_session_utag[t], Nil}
  BY DEF UtagTableWithout, UtagMapped, KeysOK, KeyTypes
<1>2. \A u \in Uids \cup {0} : UidTableWithout(c)[u] \in {client_session_uid[u], Nil}
  BY DEF UidTableWithout, UidMapped, KeysOK, UidTypes
<1>3. ASSUME NEW t \in Ukeys, UtagTableWithout(c)[t] = c
      PROVE  FALSE
  <2>1. client_session_utag[t] = c /\ utag[c] = t
    BY <1>1, <1>3, ConstantFacts DEF KeysOK, KeysOwned
  <2>2. UtagMapped(c)
    BY <2>1, ConstantFacts DEF UtagMapped
  <2> QED
    BY <1>3, <2>1, <2>2, ConstantFacts DEF UtagTableWithout, KeysOK, KeyTypes
<1>4. UidTableWithout(c) \in [Uids \cup {0} -> Clients \cup {Nil}]
  BY DEF UidTableWithout, UidMapped, KeysOK, UidTypes
<1> QED
  BY <1>1, <1>2, <1>3, <1>4

LEMMA RoutesClientCloses ==
    ASSUME KeysOK, RoutesOK, NEW c \in Clients, ClientCloses(c)
    PROVE  RoutedToOwner' /\ TablesOpen'
<1>1. /\ socket' = [socket EXCEPT ![c] = "closed"]
      /\ client_session_utag' = UtagTableWithout(c)
      /\ client_session_uid' = UidTableWithout(c)
      /\ UNCHANGED <<uid, refused>>
  BY DEF ClientCloses
<1>2. RoutedToOwner'
  BY <1>1, ClosedLeavesTables, ConstantFacts DEF RoutesOK, RoutedToOwner, OneLogin
<1>3. OneLogin(c) => \A u \in Uids \cup {0} : client_session_uid'[u] # c
  <2> SUFFICES ASSUME OneLogin(c), NEW u \in Uids \cup {0}, client_session_uid'[u] = c
               PROVE  FALSE
    OBVIOUS
  <2>1. client_session_uid[u] = c /\ uid[c] = u
    BY <1>1, ClosedLeavesTables, ConstantFacts DEF RoutesOK, RoutedToOwner
  <2>2. UidMapped(c)
    BY <2>1, ConstantFacts DEF UidMapped
  <2> QED
    BY <1>1, <2>1, <2>2, ConstantFacts DEF UidTableWithout, KeysOK, UidTypes
<1>4. TablesOpen'
  <2> SUFFICES ASSUME NEW d \in Clients, socket'[d] # "open"
               PROVE  /\ \A t \in Ukeys : client_session_utag'[t] # d
                      /\ OneLogin(d) => \A u \in Uids \cup {0} : client_session_uid'[u] # d
    BY <1>1 DEF TablesOpen, OneLogin
  <2>1. CASE d = c
    BY <1>1, <1>3, <2>1, ClosedLeavesTables
  <2>2. CASE d # c
    <3>1. socket[d] # "open"
      BY <1>1, <2>2 DEF KeysOK, SocketTypes
    <3> QED
      BY <1>1, <3>1, ClosedLeavesTables, ConstantFacts DEF RoutesOK, TablesOpen
  <2> QED
    BY <2>1, <2>2
<1> QED
  BY <1>2, <1>4

\* The one that logs in again under an account of its own takes it over.
LEMMA RoutesLoginResOK ==
    ASSUME KeysOK, RoutesOK, LoginResOK
    PROVE  RoutedToOwner' /\ TablesOpen'
<1>1. PICK k, u, d : /\ k = Head(from_auth).utag /\ u = Head(from_auth).uid
                     /\ d = client_session_utag[k]
  OBVIOUS
<1>2. k \in Ukeys /\ u \in Uids /\ d \in Clients /\ u \in Accounts[d]
  BY <1>1, AnswerOfAsker DEF RoutesOK
<1>3. PICK b \in BOOLEAN : b = Relogin(u, d)
  BY DEF Relogin
<1>4. /\ client_session_utag' =
            [(IF b THEN UtagTableWithout(d) ELSE client_session_utag) EXCEPT ![k] = Nil]
      /\ client_session_uid' =
            [(IF b THEN UidTableWithout(d) ELSE client_session_uid) EXCEPT ![u] = d]
      /\ uid' = [uid EXCEPT ![d] = u]
      /\ socket' = socket /\ refused' = refused
  BY <1>1, <1>3 DEF LoginResOK
<1>5. socket[d] = "open"
  BY <1>1, <1>2 DEF RoutesOK, TablesOpen
<1>6. \A t \in Ukeys : client_session_utag'[t] \in {client_session_utag[t], Nil}
  <2> DEFINE table == IF b THEN UtagTableWithout(d) ELSE client_session_utag
  <2>1. table \in [Ukeys -> Clients \cup {Nil}]
    <3>1. CASE b
      BY <1>2, <3>1, KeysDropped
    <3>2. CASE ~b
      BY <3>2 DEF KeysOK, KeyTypes
    <3> QED
      BY <3>1, <3>2
  <2>2. \A t \in Ukeys : table[t] \in {client_session_utag[t], Nil}
    <3>1. CASE b
      BY <1>2, <3>1, ClosedLeavesTables
    <3>2. CASE ~b
      BY <3>2
    <3> QED
      BY <3>1, <3>2
  <2>3. client_session_utag' = [table EXCEPT ![k] = Nil]
    BY <1>4
  <2> HIDE DEF table
  <2> QED
    BY <2>1, <2>2, <2>3
<1>7. \A v \in Uids \cup {0} : v # u => client_session_uid'[v] \in {client_session_uid[v], Nil}
  <2> DEFINE table == IF b THEN UidTableWithout(d) ELSE client_session_uid
  <2>1. table \in [Uids \cup {0} -> Clients \cup {Nil}]
    <3>1. CASE b
      BY <1>2, <3>1, ClosedLeavesTables
    <3>2. CASE ~b
      BY <3>2 DEF KeysOK, UidTypes
    <3> QED
      BY <3>1, <3>2
  <2>2. \A v \in Uids \cup {0} : table[v] \in {client_session_uid[v], Nil}
    <3>1. CASE b
      BY <1>2, <3>1, ClosedLeavesTables
    <3>2. CASE ~b
      BY <3>2
    <3> QED
      BY <3>1, <3>2
  <2>3. client_session_uid' = [table EXCEPT ![u] = d]
    BY <1>4
  <2> HIDE DEF table
  <2> QED
    BY <2>1, <2>2, <2>3
<1>8. client_session_uid'[u] = d /\ uid'[d] = u
  BY <1>2, <1>4, ClosedLeavesTables DEF KeysOK, UidTypes
<1>9. RoutedToOwner'
  <2> SUFFICES ASSUME NEW v \in Uids \cup {0}, NEW e \in Clients, v # u, OneLogin(e),
                      client_session_uid'[v] = e
               PROVE  v # 0 /\ uid'[e] = v
    BY <1>2, <1>4, <1>8, ConstantFacts DEF RoutedToOwner, OneLogin
  <2>1. client_session_uid[v] = e
    BY <1>7, ConstantFacts DEF KeysOK, UidTypes
  <2>2. v # 0 /\ uid[e] = v
    BY <2>1 DEF RoutesOK, RoutedToOwner
  <2>3. v \in Accounts[e]
    BY <2>2, ConstantFacts DEF RoutesOK, OwnAccounts
  <2>4. e # d
    BY <1>2, <2>3 DEF OneLogin
  <2> QED
    BY <1>4, <2>1, <2>2, <2>4 DEF KeysOK, UidTypes
<1>10. TablesOpen'
  <2> SUFFICES ASSUME NEW e \in Clients, socket[e] # "open"
               PROVE  /\ \A t \in Ukeys : client_session_utag'[t] # e
                      /\ OneLogin(e) => \A v \in Uids \cup {0} : client_session_uid'[v] # e
    BY <1>4 DEF TablesOpen, OneLogin
  <2>1. \A t \in Ukeys : client_session_utag'[t] # e
    BY <1>6, ConstantFacts DEF RoutesOK, TablesOpen
  <2>2. OneLogin(e) => \A v \in Uids \cup {0} : client_session_uid'[v] # e
    BY <1>5, <1>7, <1>8, ConstantFacts DEF RoutesOK, TablesOpen
  <2> QED
    BY <2>1, <2>2
<1> QED
  BY <1>9, <1>10

LEMMA RoutesLoginOutRes ==
    ASSUME KeysOK, RoutesOK, LoginOutRes
    PROVE  RoutedToOwner' /\ TablesOpen'
<1>1. PICK u : u = Head(from_auth).utag
  OBVIOUS
<1>2. u \in Uids \cup {0}
  <2>1. Head(from_auth) \in LoginAnswers \cup LogOuts /\ Head(from_auth).kind = "out"
    BY ItemsHeadTail DEF LoginOutRes, KeysOK, MessageTypes
  <2> QED
    BY <1>1, <2>1 DEF LoginAnswers, LogOuts
<1>3. CASE client_session_uid[u] # Nil
  <2>1. PICK d \in Clients : d = client_session_uid[u]
    BY <1>2, <1>3 DEF KeysOK, UidTypes
  <2>2. /\ uid' = [uid EXCEPT ![d] = 0]
        /\ client_session_uid' = [client_session_uid EXCEPT ![u] = Nil]
        /\ client_session_utag' = client_session_utag /\ socket' = socket
        /\ refused' = refused
    BY <1>1, <1>3, <2>1 DEF LoginOutRes, LoggedOut
  <2>3. RoutedToOwner'
    <3> SUFFICES ASSUME NEW v \in Uids \cup {0}, NEW e \in Clients, OneLogin(e),
                        client_session_uid'[v] = e
                 PROVE  v # 0 /\ uid'[e] = v
      BY <2>2 DEF RoutedToOwner, OneLogin
    <3>1. v # u /\ client_session_uid[v] = e
      BY <2>2, ConstantFacts DEF KeysOK, UidTypes
    <3>2. v # 0 /\ uid[e] = v
      BY <3>1 DEF RoutesOK, RoutedToOwner
    <3>3. e # d
      BY <1>2, <1>3, <2>1, <3>1, <3>2 DEF RoutesOK, RoutedToOwner
    <3> QED
      BY <2>2, <3>2, <3>3 DEF KeysOK, UidTypes
  <2>4. TablesOpen'
    <3>1. \A v \in Uids \cup {0} : client_session_uid'[v] \in {client_session_uid[v], Nil}
      BY <2>2 DEF KeysOK, UidTypes
    <3> QED
      BY <2>2, <3>1, ConstantFacts DEF RoutesOK, TablesOpen, OneLogin
  <2> QED
    BY <2>3, <2>4
<1>4. CASE client_session_uid[u] = Nil
  BY <1>1, <1>4, RoutesKept DEF LoginOutRes
<1> QED
  BY <1>3, <1>4

\* A refused session is stored under 0, and is none of those promised anything.
LEMMA RoutesLoginResRefused ==
    ASSUME KeysOK, RoutesOK, LoginResRefused
    PROVE  RoutedToOwner' /\ TablesOpen'
<1>1. PICK k \in Ukeys, d \in Clients :
              /\ client_session_utag' = [client_session_utag EXCEPT ![k] = Nil]
              /\ client_session_uid' = [client_session_uid EXCEPT ![0] = d]
              /\ uid' = [uid EXCEPT ![d] = 0]
              /\ refused' = refused \cup {d}
              /\ UNCHANGED socket
  BY RefusedOne
<1>2. ASSUME NEW e \in Clients, OneLogin(e)'
      PROVE  e # d /\ OneLogin(e)
  BY <1>1, <1>2 DEF OneLogin
<1>3. ASSUME NEW v \in Uids \cup {0}, NEW e \in Clients, e # d, client_session_uid'[v] = e
      PROVE  client_session_uid[v] = e /\ uid'[e] = uid[e]
  BY <1>1, <1>3 DEF KeysOK, UidTypes
<1>4. RoutedToOwner'
  BY <1>2, <1>3 DEF RoutedToOwner, RoutesOK
<1>5. \A t \in Ukeys, e \in Clients : client_session_utag'[t] = e => client_session_utag[t] = e
  BY <1>1, ConstantFacts DEF KeysOK, KeyTypes
<1>6. TablesOpen'
  BY <1>1, <1>2, <1>3, <1>5 DEF TablesOpen, RoutesOK
<1> QED
  BY <1>4, <1>6

LEMMA RoutesStep ==
    ASSUME KeysOK, RoutesOK, [Next]_vars
    PROVE  RoutesOK'
<1>1. OwnAccounts'
  BY OwnAccountsStep DEF RoutesOK
<1>2. CASE UNCHANGED <<socket, uid, refused, client_session_utag, client_session_uid>>
  BY <1>1, <1>2, RoutesKept DEF RoutesOK
<1>3. ASSUME NEW c \in Clients, ClientConnects(c)
      PROVE  RoutesOK'
  <2>1. socket' = [socket EXCEPT ![c] = "open"]
    BY <1>3 DEF ClientConnects
  <2>2. UNCHANGED <<uid, refused, client_session_utag, client_session_uid>>
    BY <1>3 DEF ClientConnects, sessionVars, tableVars
  <2>3. \A d \in Clients : socket'[d] # "open" => socket[d] # "open"
    BY <2>1 DEF KeysOK, SocketTypes
  <2> QED
    BY <1>1, <2>2, <2>3 DEF RoutesOK, RoutedToOwner, TablesOpen, OneLogin
<1>4. ASSUME NEW c \in Clients, ClientCloses(c)
      PROVE  RoutesOK'
  BY <1>1, <1>4, RoutesClientCloses DEF RoutesOK
<1>5. ASSUME NEW c \in Clients, NEW u \in Accounts[c], LoginReq(c, u)
      PROVE  RoutesOK'
  <2>1. PICK t \in Ukeys : /\ client_session_utag' = [client_session_utag EXCEPT ![t] = c]
                           /\ UNCHANGED <<socket, uid, refused, client_session_uid>>
    <3>1. (IF utag[c] = 0 THEN g_ukey ELSE utag[c]) \in Ukeys
      BY <1>5, ConstantFacts DEF LoginReq, KeysOK, KeyTypes, Ukeys
    <3> QED
      BY <1>5, <3>1 DEF LoginReq, RememberUtag
  <2>2. socket[c] = "open"
    BY <1>5 DEF LoginReq, CanSend
  <2>3. \A k \in Ukeys : client_session_utag'[k] \in {client_session_utag[k], c}
    BY <2>1 DEF KeysOK, KeyTypes
  <2>4. RoutedToOwner'
    BY <2>1 DEF RoutesOK, RoutedToOwner, OneLogin
  <2>5. TablesOpen'
    BY <2>1, <2>2, <2>3 DEF RoutesOK, TablesOpen, OneLogin
  <2> QED
    BY <1>1, <2>4, <2>5 DEF RoutesOK
<1>6. CASE LoginResOK
  BY <1>1, <1>6, RoutesLoginResOK DEF RoutesOK
<1>7. CASE LoginOutRes
  BY <1>1, <1>7, RoutesLoginOutRes DEF RoutesOK
<1>8. CASE LoginResRefused
  BY <1>1, <1>8, RoutesLoginResRefused DEF RoutesOK
<1> QED
  BY <1>2, <1>3, <1>4, <1>5, <1>6, <1>7, <1>8 DEF Next, vars, sessionVars, tableVars,
     check_session_connect, Connected, ConnectFailed, ConnectStalls, ServerLost,
     LoginOutReq, AuthTakes, AuthAnswer, LookupEnds, AuthAnswers, AuthForgets, FromAuth,
     LoginResDropped

LEMMA RoutesInductive == Spec => [](KeysOK /\ RoutesOK)
<1>1. Init => KeysOK /\ RoutesOK
  BY KeysInit, RoutesInit
<1>2. KeysOK /\ RoutesOK /\ [Next]_vars => KeysOK' /\ RoutesOK'
  BY KeysStep, RoutesStep
<1> QED
  BY <1>1, <1>2, PTL DEF Spec

\* The session that messages for an account go to is logged in as that account,
\* relogins and logouts included, if its connection logs in to one account only and
\* was never refused a login; no other connection can change that, also not one that
\* is refused and stored under 0.
THEOREM RoutedToOwnerCorrect == Spec => []RoutedToOwner
<1>1. RoutesOK => RoutedToOwner
  BY DEF RoutesOK
<1> QED
  BY <1>1, RoutesInductive, PTL

\* No table keeps a session whose socket is gone, but the table by uid that of a
\* connection that logs in to two accounts or was refused a login.
THEOREM NoDeadSessionCorrect == Spec => []NoDeadSession
<1>1. RoutesOK => NoDeadSession
  BY DEF RoutesOK, TablesOpen, NoDeadSession
<1> QED
  BY <1>1, RoutesInductive, PTL

------------------------------------------------------------------------------
(* Who waits for the answer to a login                                     *)

\* The login of a client that waits is under way, with a key that the table gives
\* to it.
LoginUnderWay ==
    \A c \in waiting : \E m \in InTransit :
        m.kind = "login" /\ m.from = c /\ client_session_utag[m.utag] = c

SameLogin(m, n) == m.kind = "login" /\ m.utag = n.utag /\ m.from = n.from

\* Of the logins under way the step takes at most the first answer away.
LoginsStay ==
    \A n \in InTransit : n.kind = "login" => \E m \in InTransit' : SameLogin(m, n)

OthersStay ==
    \A n \in InTransit : n = Head(from_auth) \/ n \in InTransit'

LEMMA BagAddIsBag ==
    ASSUME NEW B, NEW e, IsABag(B)
    PROVE  IsABag(B (+) SetToBag({e}))
  BY DEF IsABag, SetToBag, (+)

LEMMA BagRemoveIsBag ==
    ASSUME NEW B, NEW e, IsABag(B)
    PROVE  /\ IsABag(B (-) SetToBag({e}))
           /\ BagToSet(B) \subseteq BagToSet(B (-) SetToBag({e})) \cup {e}
  BY DEF IsABag, BagToSet, SetToBag, (-)

LEMMA BagEmptyIsBag == IsABag(EmptyBag)
  BY DEF IsABag, SetToBag, EmptyBag

LEMMA ItemsBehindHead ==
    ASSUME NEW S, NEW s \in Seq(S), s # <<>>
    PROVE  Items(s) \subseteq Items(Tail(s)) \cup {Head(s)}
<1>1. DOMAIN s = 1 .. Len(s) /\ Len(s) \in Nat \ {0} /\ Head(s) = s[1]
  OBVIOUS
<1>2. DOMAIN Tail(s) = 1 .. Len(s) - 1
  OBVIOUS
<1>3. ASSUME NEW i \in 1 .. Len(s), i # 1
      PROVE  s[i] \in Items(Tail(s))
  <2>1. i - 1 \in 1 .. Len(s) - 1 /\ Tail(s)[i - 1] = s[i]
    BY <1>1, <1>3
  <2> QED
    BY <1>2, <2>1 DEF Items
<1> QED
  BY <1>1, <1>3 DEF Items

LEMMA AuthTakesStay ==
    ASSUME MessageTypes, IsABag(auth_db), AuthTakes
    PROVE  LoginsStay /\ IsABag(auth_db')
<1> DEFINE h == Head(to_auth)
<1>1. to_auth # <<>> /\ to_auth' = Tail(to_auth)
  BY DEF AuthTakes
<1>2. Items(to_auth) \subseteq Items(to_auth') \cup {h}
  BY <1>1, ItemsBehindHead DEF MessageTypes
<1>3. CASE h.kind = "out"
  <2>1. from_auth' = Append(from_auth, h) /\ auth_db' = auth_db
    BY <1>3 DEF AuthTakes
  <2>2. Items(from_auth') = Items(from_auth) \cup {h}
    BY <2>1, ItemsAppend DEF MessageTypes
  <2> QED
    BY <1>2, <2>1, <2>2, Transit DEF LoginsStay, SameLogin
<1>4. CASE h.kind # "out"
  <2>1. from_auth' = from_auth /\ auth_db' = auth_db (+) SetToBag({h})
    BY <1>4 DEF AuthTakes
  <2>2. BagToSet(auth_db') = BagToSet(auth_db) \cup {h} /\ IsABag(auth_db')
    BY <2>1, BagAdd, BagAddIsBag
  <2> QED
    BY <1>2, <2>1, <2>2, Transit DEF LoginsStay, SameLogin
<1> QED
  BY <1>3, <1>4

LEMMA AuthAnswersStay ==
    ASSUME MessageTypes, IsABag(auth_db), NEW m \in BagToSet(auth_db), NEW ok \in BOOLEAN,
           AuthAnswers(m, ok)
    PROVE  LoginsStay /\ IsABag(auth_db')
<1> DEFINE a == [kind |-> "login", utag |-> m.utag, uid |-> m.uid, from |-> m.from,
                 ok |-> ok]
<1>1. /\ auth_db' = auth_db (-) SetToBag({m})
      /\ to_auth' = to_auth
      /\ from_auth' = Append(from_auth, a)
  BY DEF AuthAnswers
<1>2. IsABag(auth_db') /\ BagToSet(auth_db) \subseteq BagToSet(auth_db') \cup {m}
  BY <1>1, BagRemoveIsBag
<1>3. Items(from_auth') = Items(from_auth) \cup {a}
  BY <1>1, ItemsAppend DEF MessageTypes
<1>4. InTransit \subseteq InTransit' \cup {m} /\ a \in InTransit'
  BY <1>1, <1>2, <1>3, Transit
<1>5. SameLogin(a, m)
  BY DEF SameLogin
<1> QED
  BY <1>2, <1>4, <1>5 DEF LoginsStay, SameLogin

LEMMA LoginReqStay ==
    ASSUME MessageTypes, KeyTypes, NEW c \in Clients, NEW u \in Uids, LoginReq(c, u)
    PROVE  /\ InTransit \subseteq InTransit'
           /\ \E m \in InTransit' : m.kind = "login" /\ m.utag = utag'[c] /\ m.from = c
<1> DEFINE t == IF utag[c] = 0 THEN g_ukey ELSE utag[c]
           m == [kind |-> "login", utag |-> t, uid |-> u, from |-> c]
<1>1. to_auth' = Append(to_auth, m) /\ auth_db' = auth_db /\ from_auth' = from_auth
  BY DEF LoginReq
<1>2. utag'[c] = t
  BY DEF LoginReq, KeyTypes
<1>3. Items(to_auth') = Items(to_auth) \cup {m}
  BY <1>1, ItemsAppend DEF MessageTypes
<1>4. m.kind = "login" /\ m.utag = utag'[c] /\ m.from = c
  BY <1>2
<1> HIDE DEF m
<1> QED
  BY <1>1, <1>3, <1>4, Transit

LEMMA LoginOutReqStay ==
    ASSUME MessageTypes, NEW c \in Clients, LoginOutReq(c)
    PROVE  InTransit \subseteq InTransit'
<1> DEFINE m == [kind |-> "out", utag |-> uid[c]]
<1>1. to_auth' = Append(to_auth, m) /\ auth_db' = auth_db /\ from_auth' = from_auth
  BY DEF LoginOutReq
<1>2. Items(to_auth') = Items(to_auth) \cup {m}
  BY <1>1, ItemsAppend DEF MessageTypes
<1> QED
  BY <1>1, <1>2, Transit

LEMMA AnswerTakenStay ==
    ASSUME MessageTypes, from_auth # <<>>, from_auth' = Tail(from_auth),
           to_auth' = to_auth, auth_db' = auth_db
    PROVE  OthersStay
<1>1. Items(from_auth) \subseteq Items(from_auth') \cup {Head(from_auth)}
  BY ItemsBehindHead DEF MessageTypes
<1> QED
  BY <1>1, Transit DEF OthersStay

\* A lookup that ends unanswered takes only the login it was for.
LEMMA AuthForgetsStay ==
    ASSUME MessageTypes, IsABag(auth_db), LoginUnderWay, NEW m \in BagToSet(auth_db),
           AuthForgets(m)
    PROVE  LoginUnderWay' /\ IsABag(auth_db')
<1>1. /\ auth_db' = auth_db (-) SetToBag({m})
      /\ to_auth' = to_auth /\ from_auth' = from_auth
      /\ waiting' = waiting \ {m.from}
      /\ client_session_utag' = client_session_utag
  BY DEF AuthForgets, tableVars
<1>2. IsABag(auth_db') /\ BagToSet(auth_db) \subseteq BagToSet(auth_db') \cup {m}
  BY <1>1, BagRemoveIsBag
<1>3. InTransit \subseteq InTransit' \cup {m}
  BY <1>1, <1>2, Transit
<1> QED
  BY <1>1, <1>2, <1>3 DEF LoginUnderWay

\* Steps that take no login and no key away from who waits.
LEMMA UnderWayKept ==
    ASSUME LoginUnderWay, LoginsStay, waiting' \subseteq waiting,
           UNCHANGED client_session_utag
    PROVE  LoginUnderWay'
<1> SUFFICES ASSUME NEW c \in waiting'
             PROVE  \E m \in InTransit' : /\ m.kind = "login" /\ m.from = c
                                          /\ client_session_utag'[m.utag] = c
  BY DEF LoginUnderWay
<1>1. PICK n \in InTransit : /\ n.kind = "login" /\ n.from = c
                             /\ client_session_utag[n.utag] = c
  BY DEF LoginUnderWay
<1>2. PICK m \in InTransit' : SameLogin(m, n)
  BY <1>1 DEF LoginsStay
<1> QED
  BY <1>1, <1>2 DEF SameLogin

\* An answer takes only the login of the client whose key it names.
LEMMA UnderWayAnswered ==
    ASSUME KeysOK, LoginUnderWay, OthersStay, NEW k, k = Head(from_auth).utag,
           \A c \in waiting' : /\ c \in waiting /\ c # client_session_utag[k]
                               /\ \A t \in Ukeys : client_session_utag[t] = c
                                                     => client_session_utag'[t] = c
    PROVE  LoginUnderWay'
<1> SUFFICES ASSUME NEW c \in waiting'
             PROVE  \E m \in InTransit' : /\ m.kind = "login" /\ m.from = c
                                          /\ client_session_utag'[m.utag] = c
  BY DEF LoginUnderWay
<1>1. PICK n \in InTransit : /\ n.kind = "login" /\ n.from = c
                             /\ client_session_utag[n.utag] = c
  BY DEF LoginUnderWay
<1>2. n.utag \in Ukeys
  BY <1>1, Transit, ItemsTyped DEF KeysOK, MessageTypes, Logins, LoginAnswers, LogOuts
<1>3. n # Head(from_auth)
  BY <1>1
<1> QED
  BY <1>1, <1>2, <1>3 DEF OthersStay

LEMMA UnderWayClientCloses ==
    ASSUME KeysOK, LoginUnderWay, NEW c \in Clients, ClientCloses(c)
    PROVE  LoginUnderWay'
<1> SUFFICES ASSUME NEW d \in waiting'
             PROVE  \E m \in InTransit' : /\ m.kind = "login" /\ m.from = d
                                          /\ client_session_utag'[m.utag] = d
  BY DEF LoginUnderWay
<1>1. d \in waiting /\ d # c /\ InTransit' = InTransit
  BY DEF ClientCloses, authVars, InTransit
<1>2. PICK n \in InTransit : /\ n.kind = "login" /\ n.from = d
                             /\ client_session_utag[n.utag] = d
  BY <1>1 DEF LoginUnderWay
<1>3. n.utag \in Ukeys
  BY <1>2, Transit, ItemsTyped DEF KeysOK, MessageTypes, Logins, LoginAnswers, LogOuts
<1>4. client_session_utag'[n.utag] = d
  BY <1>1, <1>2, <1>3 DEF ClientCloses, UtagTableWithout, UtagMapped, KeysOK, KeyTypes
<1> QED
  BY <1>1, <1>2, <1>4

LEMMA UnderWayLoginReq ==
    ASSUME KeysOK, LoginUnderWay, NEW c \in Clients, NEW u \in Uids, LoginReq(c, u)
    PROVE  LoginUnderWay'
<1> DEFINE t == IF utag[c] = 0 THEN g_ukey ELSE utag[c]
<1>1. t \in Ukeys
  BY ConstantFacts DEF LoginReq, KeysOK, KeyTypes, Ukeys
<1>2. /\ utag' = [utag EXCEPT ![c] = t]
      /\ client_session_utag' = [client_session_utag EXCEPT ![t] = c]
      /\ waiting' = waiting \cup {c}
  BY DEF LoginReq, RememberUtag
<1>3. InTransit \subseteq InTransit'
  BY LoginReqStay DEF KeysOK
<1>4. PICK m \in InTransit' : m.kind = "login" /\ m.utag = utag'[c] /\ m.from = c
  BY LoginReqStay DEF KeysOK
<1>5. client_session_utag'[m.utag] = c
  BY <1>1, <1>2, <1>4 DEF KeysOK, KeyTypes
<1>6. ASSUME NEW d \in waiting, d # c
      PROVE  \E n \in InTransit' : /\ n.kind = "login" /\ n.from = d
                                   /\ client_session_utag'[n.utag] = d
  <2>1. PICK n \in InTransit : /\ n.kind = "login" /\ n.from = d
                               /\ client_session_utag[n.utag] = d
    BY DEF LoginUnderWay
  <2>2. n.utag \in Ukeys
    BY <2>1, Transit, ItemsTyped DEF KeysOK, MessageTypes, Logins, LoginAnswers, LogOuts
  <2>3. d \in Clients /\ utag[d] = n.utag
    BY <2>1, <2>2 DEF KeysOK, SocketTypes, KeysOwned
  <2>4. /\ n.utag # g_ukey
        /\ utag[c] # 0 => n.utag # utag[c]
    BY <1>6, <2>2, <2>3, ConstantFacts DEF KeysOK, KeysOwned, KeyTypes
  <2>5. n.utag # t
    BY <2>4
  <2>6. client_session_utag'[n.utag] = d
    BY <1>2, <2>1, <2>2, <2>5 DEF KeysOK, KeyTypes
  <2> QED
    BY <1>3, <2>1, <2>6
<1> QED
  BY <1>2, <1>4, <1>5, <1>6 DEF LoginUnderWay

LEMMA UnderWayLoginResOK ==
    ASSUME KeysOK, LoginUnderWay, LoginResOK
    PROVE  LoginUnderWay'
<1>1. PICK k, u : k = Head(from_auth).utag /\ u = Head(from_auth).uid
  OBVIOUS
<1>2. k \in Ukeys /\ client_session_utag[k] \in Clients
  <2>1. Head(from_auth) \in LoginAnswers \cup LogOuts /\ Head(from_auth).kind = "login"
    BY ItemsHeadTail DEF LoginResOK, KeysOK, MessageTypes
  <2>2. k \in Ukeys
    BY <1>1, <2>1 DEF LoginAnswers, LogOuts
  <2> QED
    BY <1>1, <2>2 DEF LoginResOK, KeysOK, KeyTypes
<1>3. PICK d \in Clients : d = client_session_utag[k]
  BY <1>2
<1>4. PICK b \in BOOLEAN : b = Relogin(u, d)
  BY DEF Relogin
<1>5. /\ client_session_utag' =
            [(IF b THEN UtagTableWithout(d) ELSE client_session_utag) EXCEPT ![k] = Nil]
      /\ waiting' = waiting \ {d}
  BY <1>1, <1>3, <1>4 DEF LoginResOK
<1>6. ASSUME NEW c \in waiting', NEW t \in Ukeys, client_session_utag[t] = c
      PROVE  client_session_utag'[t] = c
  <2>1. c # d /\ t # k
    BY <1>3, <1>5, <1>6
  <2>2. UtagTableWithout(d)[t] = c
    BY <1>6, <2>1 DEF UtagTableWithout, UtagMapped, KeysOK, KeyTypes
  <2>3. CASE b
    BY <1>5, <2>1, <2>2, <2>3, KeysDropped
  <2>4. CASE ~b
    BY <1>5, <1>6, <2>1, <2>4 DEF KeysOK, KeyTypes
  <2> QED
    BY <2>3, <2>4
<1>7. OthersStay
  BY AnswerTakenStay DEF LoginResOK, KeysOK
<1> QED
  BY <1>1, <1>3, <1>5, <1>6, <1>7, UnderWayAnswered

UnderWayOK == IsABag(auth_db) /\ LoginUnderWay

LEMMA UnderWayStep ==
    ASSUME KeysOK, UnderWayOK, [Next]_vars
    PROVE  UnderWayOK'
<1>1. ASSUME UNCHANGED <<client_session_utag, to_auth, auth_db, from_auth, waiting>>
      PROVE  UnderWayOK'
  BY <1>1 DEF UnderWayOK, LoginUnderWay, InTransit
<1>2. ASSUME NEW s \in Servers, ServerLost(s)
      PROVE  UnderWayOK'
  <2>1. CASE s = AuthServer
    BY <1>2, <2>1, BagEmptyIsBag DEF ServerLost, UnderWayOK, LoginUnderWay
  <2>2. CASE s # AuthServer
    BY <1>1, <1>2, <2>2 DEF ServerLost, authVars, tableVars
  <2> QED
    BY <2>1, <2>2
<1>3. ASSUME NEW c \in Clients, ClientCloses(c)
      PROVE  UnderWayOK'
  BY <1>3, UnderWayClientCloses DEF UnderWayOK, ClientCloses, authVars
<1>4. ASSUME NEW c \in Clients, NEW u \in Accounts[c], LoginReq(c, u)
      PROVE  UnderWayOK'
  BY <1>4, UnderWayLoginReq, ConstantFacts DEF UnderWayOK, LoginReq
<1>5. ASSUME LoginsStay, IsABag(auth_db'), UNCHANGED <<client_session_utag, waiting>>
      PROVE  UnderWayOK'
  BY <1>5, UnderWayKept DEF UnderWayOK
<1>6. ASSUME NEW c \in Clients, LoginOutReq(c)
      PROVE  UnderWayOK'
  <2>1. InTransit \subseteq InTransit'
    BY <1>6, LoginOutReqStay DEF KeysOK
  <2>2. LoginsStay
    BY <2>1 DEF LoginsStay, SameLogin
  <2> QED
    BY <1>5, <1>6, <2>2 DEF LoginOutReq, tableVars, UnderWayOK
<1>7. ASSUME AuthTakes
      PROVE  UnderWayOK'
  BY <1>5, <1>7, AuthTakesStay DEF AuthTakes, tableVars, KeysOK, UnderWayOK
<1>8. ASSUME NEW m \in BagToSet(auth_db), NEW ok \in BOOLEAN, AuthAnswers(m, ok)
      PROVE  UnderWayOK'
  BY <1>5, <1>8, AuthAnswersStay DEF AuthAnswers, tableVars, KeysOK, UnderWayOK
<1>18. ASSUME NEW m \in BagToSet(auth_db), AuthForgets(m)
       PROVE  UnderWayOK'
  BY <1>18, AuthForgetsStay DEF KeysOK, UnderWayOK
<1>9. ASSUME FromAuth
      PROVE  OthersStay /\ IsABag(auth_db')
  <2>1. /\ from_auth # <<>> /\ from_auth' = Tail(from_auth)
        /\ to_auth' = to_auth /\ auth_db' = auth_db
    BY <1>9 DEF FromAuth, LoginResDropped, LoginResRefused, LoginResOK, LoginOutRes
  <2> QED
    BY <2>1, AnswerTakenStay DEF KeysOK, UnderWayOK
<1>10. CASE LoginResDropped
  <2>1. UNCHANGED <<client_session_utag, waiting>> /\ Head(from_auth).kind = "login"
        /\ client_session_utag[Head(from_auth).utag] = Nil
    BY <1>10 DEF LoginResDropped, tableVars
  <2>2. waiting \subseteq Clients
    BY DEF KeysOK, SocketTypes
  <2>3. LoginUnderWay'
    BY <1>9, <1>10, <2>1, <2>2, ConstantFacts, UnderWayAnswered DEF FromAuth, UnderWayOK
  <2> QED
    BY <1>9, <1>10, <2>3 DEF FromAuth, UnderWayOK
<1>11. CASE LoginResRefused
  <2>1. PICK k \in Ukeys, d \in Clients :
            /\ k = Head(from_auth).utag /\ d = client_session_utag[k]
            /\ client_session_utag' = [client_session_utag EXCEPT ![k] = Nil]
            /\ waiting' = waiting \ {d}
    BY <1>11, RefusedOne
  <2>2. ASSUME NEW c \in waiting', NEW t \in Ukeys, client_session_utag[t] = c
        PROVE  client_session_utag'[t] = c
    BY <2>1, <2>2 DEF KeysOK, KeyTypes
  <2>3. LoginUnderWay'
    BY <1>9, <1>11, <2>1, <2>2, UnderWayAnswered DEF FromAuth, UnderWayOK
  <2> QED
    BY <1>9, <1>11, <2>3 DEF FromAuth, UnderWayOK
<1>12. CASE LoginResOK
  BY <1>9, <1>12, UnderWayLoginResOK DEF FromAuth, UnderWayOK
<1>13. CASE LoginOutRes
  <2>1. Head(from_auth).kind = "out" /\ UNCHANGED <<client_session_utag, waiting>>
    BY <1>13 DEF LoginOutRes
  <2>2. LoginsStay
    BY <1>9, <1>13, <2>1 DEF FromAuth, OthersStay, LoginsStay, SameLogin
  <2> QED
    BY <1>5, <1>9, <1>13, <2>1, <2>2 DEF FromAuth
<1>14. CASE check_session_connect
  BY <1>1, <1>14 DEF check_session_connect, tableVars, authVars
<1>15. ASSUME NEW s \in Servers, Connected(s) \/ ConnectFailed(s) \/ ConnectStalls(s)
       PROVE  UnderWayOK'
  BY <1>1, <1>15 DEF Connected, ConnectFailed, ConnectStalls, tableVars, authVars
<1>16. ASSUME NEW c \in Clients, ClientConnects(c)
       PROVE  UnderWayOK'
  BY <1>1, <1>16 DEF ClientConnects, tableVars, authVars
<1>17. CASE UNCHANGED vars
  BY <1>1, <1>17 DEF vars, tableVars, authVars
<1> QED
  BY <1>2, <1>3, <1>4, <1>6, <1>7, <1>8, <1>10, <1>11, <1>12, <1>13, <1>14, <1>15, <1>16,
     <1>17, <1>18 DEF Next, AuthAnswer, LookupEnds, FromAuth

\* What LoginAnswered rests on: as long as a client waits for the answer to a login,
\* that login is under way and its key still leads to the client, so that the answer
\* is not dropped.  Neither answers to other clients nor its own logouts, nor a
\* relogin of the account elsewhere, take the key away.
THEOREM LoginUnderWayCorrect == Spec => []LoginUnderWay
<1>1. Init => KeysOK /\ UnderWayOK
  BY KeysInit, BagEmptyIsBag DEF Init, UnderWayOK, LoginUnderWay
<1>2. KeysOK /\ UnderWayOK /\ [Next]_vars => KeysOK' /\ UnderWayOK'
  BY KeysStep, UnderWayStep
<1>3. UnderWayOK => LoginUnderWay
  BY DEF UnderWayOK
<1> QED
  BY <1>1, <1>2, <1>3, PTL DEF Spec
=============================================================================
