-------------------------- MODULE LogicServerProofs --------------------------
(***************************************************************************)
(* Proofs about LogicServer, for every number of users, objects, rooms and *)
(* seats.  IInv is the inductive invariant: beside the properties          *)
(* themselves it says what the handlers rely on without testing it.        *)
(***************************************************************************)
EXTENDS LogicServer, FiniteSetTheorems, TLAPS

\* player:init calls back for an object that has its uid.
LoadingBound == \A p \in loading : uid[p] \in Uids

\* The matching loop only visits entries that are there.
TodoWaiting ==
    \A z \in Zones, u \in Uids :
        <<z, u>> \in match_todo => zone_wait_list[z][u] # Nil

\* A room is stored under its own zone, and only after room:init.
RoomsListed ==
    \A z \in Zones : \A r \in room_list[z] :
        room_state[r] # "new" /\ room_zid[r] = z

NewRoomsEmpty ==
    \A r \in Rooms : room_state[r] = "new" =>
        \A s \in Seats : inview_players[r][s] = Nil

\* The robots search_idle_robot offers sit nowhere.
IdleRobotUnseated ==
    \A b \in Robots : roomid[b] = -1 =>
        \A r \in Rooms, s \in Seats : inview_players[r][s] # b

TableExists == \A p \in Plays : zid[p] # -1 => zid[p] \in wait_tables

\* What rooms, seats and robots keep together.
RoomInv ==
    /\ RoomsListed
    /\ NewRoomsEmpty
    /\ PlayingIffSeated
    /\ GatheringListed
    /\ IdleRobotUnseated
    /\ RobotSeatedOnce

IInv ==
    /\ TypeOK
    /\ LoadingBound
    /\ TodoWaiting
    /\ RoomInv
    /\ TableExists
    /\ OnlineNum

------------------------------------------------------------------------------
(* The constants                                                           *)

LEMMA ConstantFacts ==
    /\ SEATS \in Nat \ {0} /\ SEATS \in Seats /\ Seats \subseteq Nat
    /\ Plays \subseteq Objs /\ Robots \subseteq Objs
    /\ Nil \notin Objs
    /\ SGYD \in Zones /\ ASSY \in Zones /\ -1 \notin Zones
    /\ Rooms \subseteq Nat
  BY PlayerNumAssumption, ObjectsAssumption, ZoneAssumption, BoundsAssumption
     DEF SEATS, Seats, Objs, Zones, Rooms

------------------------------------------------------------------------------
(* What room:enter_room does                                               *)

\* enter_room keeps the types, touches no room but r, gives away at most one
\* free seat, and remembers the room.
LEMMA EnterRoomEffect ==
    ASSUME TypeOK, NEW r \in Rooms, NEW p \in Objs, enter_room(r, p)
    PROVE  /\ roomid' = [roomid EXCEPT ![p] = room_id[r]]
           /\ seatid' \in [Objs -> Seats \cup {-1}]
           /\ inview_players' \in [Rooms -> [Seats -> Objs \cup {Nil}]]
           /\ \A q \in Rooms \ {r} : inview_players'[q] = inview_players[q]
           /\ \A s \in Seats : \/ inview_players'[r][s] = inview_players[r][s]
                               \/ /\ inview_players[r][s] = Nil
                                  /\ inview_players'[r][s] = p
           /\ \A s, t \in Seats :
                /\ inview_players'[r][s] # inview_players[r][s]
                /\ inview_players'[r][t] # inview_players[r][t]
                => s = t
<1>1. TakeSeat(r, p)
  BY DEF enter_room
<1>2. roomid' = [roomid EXCEPT ![p] = room_id[r]]
  BY <1>1 DEF TakeSeat
<1>3. CASE UNCHANGED <<inview_players, seatid>>
  BY <1>2, <1>3 DEF TypeOK
<1>4. CASE \E s \in FreeSeats(r) :
             /\ inview_players' = [inview_players EXCEPT ![r][s] = p]
             /\ seatid' = [seatid EXCEPT ![p] = s]
  <2>1. PICK s \in FreeSeats(r) :
             /\ inview_players' = [inview_players EXCEPT ![r][s] = p]
             /\ seatid' = [seatid EXCEPT ![p] = s]
    BY <1>4
  <2>2. s \in Seats /\ inview_players[r][s] = Nil
    BY <2>1 DEF FreeSeats
  <2>3. /\ seatid' \in [Objs -> Seats \cup {-1}]
        /\ inview_players' \in [Rooms -> [Seats -> Objs \cup {Nil}]]
    BY <2>1, <2>2 DEF TypeOK
  <2>4. /\ \A q \in Rooms \ {r} : inview_players'[q] = inview_players[q]
        /\ inview_players'[r] = [inview_players[r] EXCEPT ![s] = p]
    BY <2>1, <2>2 DEF TypeOK
  <2>5. inview_players[r] \in [Seats -> Objs \cup {Nil}]
    BY DEF TypeOK
  <2>6. /\ inview_players'[r][s] = p
        /\ \A t \in Seats \ {s} : inview_players'[r][t] = inview_players[r][t]
    BY <2>2, <2>4, <2>5
  <2> QED
    BY <1>2, <2>2, <2>3, <2>4, <2>6
<1> QED
  BY <1>1, <1>3, <1>4 DEF TakeSeat

\* Either no game starts, or r starts and exactly those seated in it are marked.
LEMMA EnterRoomStart ==
    ASSUME TypeOK, NEW r \in Rooms, NEW p \in Objs, enter_room(r, p)
    PROVE  \/ UNCHANGED <<room_state, status>>
           \/ /\ room_state' = [room_state EXCEPT ![r] = "Playing"]
              /\ status' = [o \in Objs |->
                    IF \E s \in Seats : inview_players'[r][s] = o
                    THEN "Playing" ELSE status[o]]
  BY DEF enter_room, StartIfFull

LEMMA EnterRoomTypes ==
    ASSUME TypeOK, NEW r \in Rooms, NEW p \in Objs, enter_room(r, p)
    PROVE  /\ roomid' \in [Objs -> Nat \cup {-1}]
           /\ room_state' \in [Rooms -> {"new", "InView", "Playing"}]
           /\ status' \in [Objs -> {"InView", "Playing"}]
<1>1. roomid' \in [Objs -> Nat \cup {-1}]
  BY EnterRoomEffect DEF TypeOK
<1>2. CASE UNCHANGED <<room_state, status>>
  BY <1>1, <1>2 DEF TypeOK
<1>3. CASE /\ room_state' = [room_state EXCEPT ![r] = "Playing"]
           /\ status' = [o \in Objs |->
                    IF \E s \in Seats : inview_players'[r][s] = o
                    THEN "Playing" ELSE status[o]]
  BY <1>1, <1>3 DEF TypeOK
<1> QED
  BY <1>2, <1>3, EnterRoomStart

------------------------------------------------------------------------------
(* Types                                                                   *)

LEMMA EntryIsPlay ==
    ASSUME TypeOK, TodoWaiting, NEW z \in Zones, NEW u \in Uids,
           <<z, u>> \in match_todo
    PROVE  zone_wait_list[z][u] \in Plays /\ zone_wait_list[z][u] \in Objs
  BY ConstantFacts DEF TypeOK, TodoWaiting

LEMMA OnlineIsPlay ==
    ASSUME TypeOK, NEW u \in Uids, online_player_map[u] # Nil
    PROVE  online_player_map[u] \in Plays /\ online_player_map[u] \in Objs
  BY ConstantFacts DEF TypeOK

LEMMA GatheringRooms ==
    ASSUME TypeOK, RoomsListed, NEW z \in Zones, NEW r \in Gathering(z)
    PROVE  r \in Rooms /\ room_state[r] = "InView" /\ room_zid[r] = z
  BY DEF Gathering, TypeOK, RoomsListed

LEMMA TypeStep ==
    ASSUME TypeOK, LoadingBound, TodoWaiting, RoomsListed, [Next]_vars
    PROVE  TypeOK'
<1> USE ConstantFacts
<1>1. ASSUME NEW u \in Uids, NEW p \in Plays, LoginStart(u, p)
      PROVE  TypeOK'
  BY <1>1 DEF LoginStart, TypeOK, onlineVars, waitVars, roomVars, matchVars
<1>2. ASSUME NEW u \in Uids, on_player_disconnect(u)
      PROVE  TypeOK'
  <2>1. online_player_map[u] \in Plays /\ online_player_map[u] \in Objs
    BY <1>2, OnlineIsPlay DEF on_player_disconnect
  <2>2. /\ online_player_map' \in [Uids -> Plays \cup {Nil}]
        /\ online_player_num' \in Nat
        /\ zid' \in [Objs -> Zones \cup {-1}]
    BY <1>2, <2>1 DEF on_player_disconnect, TypeOK
  <2>3. zone_wait_list' \in [Zones -> [Uids -> Plays \cup {Nil}]]
    BY <1>2, <2>1 DEF on_player_disconnect, TypeOK
  <2> QED
    BY <1>2, <2>2, <2>3 DEF on_player_disconnect, TypeOK, roomVars, matchVars
<1>3. ASSUME NEW u \in Uids, NEW z \in Zones, logic_enter_zone(u, z)
      PROVE  TypeOK'
  <2>1. online_player_map[u] \in Plays /\ online_player_map[u] \in Objs
    BY <1>3, OnlineIsPlay DEF logic_enter_zone
  <2>2. /\ wait_tables' \subseteq Zones
        /\ zid' \in [Objs -> Zones \cup {-1}]
        /\ zone_wait_list' \in [Zones -> [Uids -> Plays \cup {Nil}]]
    BY <1>3, <2>1 DEF logic_enter_zone, WithTable, TypeOK
  <2> QED
    BY <1>3, <2>2 DEF logic_enter_zone, TypeOK, onlineVars, roomVars, matchVars
<1>4. ASSUME NEW u \in Uids, ExitRoomReq(u)
      PROVE  TypeOK'
  <2>1. online_player_map[u] \in Plays /\ online_player_map[u] \in Objs
    BY <1>4, OnlineIsPlay DEF ExitRoomReq
  <2>2. PICK r \in RoomsAt(zid[online_player_map[u]], roomid[online_player_map[u]]) :
          inview_players' =
                [inview_players EXCEPT ![r] =
                    [s \in Seats |-> IF s = seatid[online_player_map[u]] THEN Nil ELSE @[s]]]
    BY <1>4 DEF ExitRoomReq
  <2>3. r \in Rooms
    BY <1>4, <2>1, <2>2 DEF ExitRoomReq, RoomsAt, TypeOK
  <2>4. inview_players' \in [Rooms -> [Seats -> Objs \cup {Nil}]]
    BY <2>2, <2>3 DEF TypeOK
  <2>5. /\ zid' \in [Objs -> Zones \cup {-1}]
        /\ seatid' \in [Objs -> Seats \cup {-1}]
    BY <1>4, <2>1 DEF ExitRoomReq, TypeOK
  <2> QED
    BY <1>4, <2>4, <2>5 DEF ExitRoomReq, TypeOK, onlineVars, waitVars, matchVars
<1>5. ASSUME NEW p \in Plays, LoginLoaded(p)
      PROVE  TypeOK'
  <2>1. uid[p] \in Uids
    BY <1>5 DEF LoginLoaded, LoadingBound
  <2>2. /\ online_player_map' \in [Uids -> Plays \cup {Nil}]
        /\ online_player_num' \in Nat
    BY <1>5, <2>1 DEF LoginLoaded, TypeOK, onlineVars
  <2>3. uinfo' \in [Objs -> BOOLEAN]
    BY <1>5 DEF LoginLoaded, TypeOK
  <2> QED
    BY <1>5, <2>2, <2>3 DEF LoginLoaded, TypeOK, waitVars, roomVars, matchVars
<1>6. ASSUME NEW p \in Plays, LoginFailed(p)
      PROVE  TypeOK'
  BY <1>6 DEF LoginFailed, TypeOK, onlineVars, waitVars, playVars, roomVars, matchVars
<1>7. CASE on_gateway_disconnect
  BY <1>7 DEF on_gateway_disconnect, TypeOK, onlineVars, waitVars, playVars, roomVars, matchVars
<1>8. CASE on_gateway_connect
  BY <1>8 DEF on_gateway_connect, TypeOK, onlineVars, waitVars, playVars, roomVars, matchVars
<1>9. CASE MatchTick
  BY <1>9 DEF MatchTick, Waiting, TypeOK, onlineVars, waitVars, playVars, roomVars
<1>10. ASSUME NEW z \in Zones, NEW u \in Uids, NEW r \in Rooms, CreateRoom(z, u, r)
      PROVE  TypeOK'
  BY <1>10 DEF CreateRoom, RoomsAt, g_room_id, TypeOK, onlineVars, waitVars, playVars
<1>11. ASSUME NEW z \in Zones, NEW u \in Uids, NEW r \in Rooms, MatchEnter(z, u, r)
      PROVE  TypeOK'
  <2> DEFINE p == zone_wait_list[z][u]
  <2>1. p \in Objs
    BY <1>11, EntryIsPlay DEF MatchEnter, Visiting
  <2>2. /\ seatid' \in [Objs -> Seats \cup {-1}]
        /\ inview_players' \in [Rooms -> [Seats -> Objs \cup {Nil}]]
        /\ roomid' \in [Objs -> Nat \cup {-1}]
        /\ room_state' \in [Rooms -> {"new", "InView", "Playing"}]
        /\ status' \in [Objs -> {"InView", "Playing"}]
    <3>1. CASE status[p] # "InView"
      BY <1>11, <3>1 DEF MatchEnter, TypeOK
    <3>2. CASE enter_room(r, p)
      BY <2>1, <3>2, EnterRoomEffect, EnterRoomTypes
    <3> QED
      BY <1>11, <3>1, <3>2 DEF MatchEnter
  <2>3. /\ match_todo' \subseteq match_todo
        /\ \/ zone_wait_list' = zone_wait_list
           \/ zone_wait_list' = [zone_wait_list EXCEPT ![z][u] = Nil]
        /\ match_zone' \in {SGYD, z}
    BY <1>11 DEF MatchEnter
  <2>4. match_todo' \subseteq Zones \X Uids
    BY <2>3 DEF TypeOK
  <2>5. zone_wait_list' \in [Zones -> [Uids -> Plays \cup {Nil}]]
    <3>1. zone_wait_list \in [Zones -> [Uids -> Plays \cup {Nil}]]
      BY DEF TypeOK
    <3>2. [zone_wait_list[z] EXCEPT ![u] = Nil] \in [Uids -> Plays \cup {Nil}]
      BY <3>1
    <3> QED
      BY <2>3, <3>1, <3>2
  <2>6. match_zone' \in Zones
    BY <2>3 DEF Zones
  <2> QED
    BY <1>11, <2>2, <2>4, <2>5, <2>6 DEF MatchEnter, TypeOK, onlineVars
<1>12. CASE do_new_robot_play
  BY <1>12, BoundsAssumption
     DEF do_new_robot_play, TypeOK, onlineVars, waitVars, roomVars, matchVars
<1>13. ASSUME NEW b \in Robots, RobotUinfoLoaded(b)
      PROVE  TypeOK'
  BY <1>13 DEF RobotUinfoLoaded, TypeOK, onlineVars, waitVars, roomVars, matchVars
<1>14. ASSUME NEW r \in Rooms, NEW b \in Robots, do_push_to_match(r, b)
      PROVE  TypeOK'
  <2>1. enter_room(r, b) /\ b \in Objs
    BY <1>14 DEF do_push_to_match
  <2>2. zid' \in [Objs -> Zones \cup {-1}]
    BY <1>14 DEF do_push_to_match, TypeOK
  <2> QED
    BY <1>14, <2>1, <2>2, EnterRoomEffect, EnterRoomTypes
       DEF do_push_to_match, TypeOK, onlineVars, waitVars, matchVars
<1>15. CASE UNCHANGED vars
  BY <1>15 DEF vars, TypeOK, onlineVars, waitVars, playVars, roomVars, matchVars
<1> QED
  BY <1>1, <1>2, <1>3, <1>4, <1>5, <1>6, <1>7, <1>8, <1>9, <1>10, <1>11, <1>12,
     <1>13, <1>14, <1>15 DEF Next

------------------------------------------------------------------------------
(* Logins, waiting lists, tables                                           *)

LEMMA LoadingStep ==
    ASSUME TypeOK, LoadingBound, Next
    PROVE  LoadingBound'
<1>1. ASSUME NEW u \in Uids, NEW p \in Plays, LoginStart(u, p)
      PROVE  LoadingBound'
  BY <1>1 DEF LoginStart, LoadingBound, TypeOK
<1>2. CASE loading' \subseteq loading /\ uid' = uid
  BY <1>2 DEF LoadingBound
<1> QED
  BY <1>1, <1>2
     DEF Next, on_player_disconnect, logic_enter_zone, ExitRoomReq,
         LoginLoaded, LoginFailed, on_gateway_disconnect, on_gateway_connect,
         MatchTick, CreateRoom, MatchEnter, do_new_robot_play,
         RobotUinfoLoaded, do_push_to_match, playVars

\* While entries are still to be visited only the loop itself runs, and it
\* takes no entry off the list but the one it visits.
LEMMA TodoStep ==
    ASSUME TypeOK, TodoWaiting, Next
    PROVE  TodoWaiting'
<1>1. CASE match_todo' = {}
  BY <1>1 DEF TodoWaiting
<1>2. CASE MatchTick
  BY <1>2 DEF MatchTick, Waiting, TodoWaiting, waitVars
<1>3. CASE UNCHANGED <<match_todo, zone_wait_list>>
  BY <1>3 DEF TodoWaiting
<1>4. ASSUME NEW z \in Zones, NEW u \in Uids, NEW r \in Rooms, MatchEnter(z, u, r)
      PROVE  TodoWaiting'
  <2>1. CASE UNCHANGED zone_wait_list /\ match_todo' \subseteq match_todo
    BY <2>1 DEF TodoWaiting
  <2>2. CASE /\ match_todo' = match_todo \ {<<z, u>>}
             /\ zone_wait_list' = [zone_wait_list EXCEPT ![z][u] = Nil]
    <3> SUFFICES ASSUME NEW y \in Zones, NEW v \in Uids, <<y, v>> \in match_todo'
                 PROVE  zone_wait_list'[y][v] # Nil
      BY DEF TodoWaiting
    <3>1. zone_wait_list[y][v] # Nil /\ <<y, v>> # <<z, u>>
      BY <2>2 DEF TodoWaiting
    <3>2. zone_wait_list'[y][v] = zone_wait_list[y][v]
      BY <2>2, <3>1 DEF TypeOK
    <3> QED
      BY <3>1, <3>2
  <2> QED
    BY <1>4, <2>1, <2>2 DEF MatchEnter
<1>5. ASSUME NEW z \in Zones, NEW u \in Uids, NEW r \in Rooms, CreateRoom(z, u, r)
      PROVE  TodoWaiting'
  BY <1>3, <1>5 DEF CreateRoom, waitVars
<1>6. CASE LoopIdle /\ UNCHANGED match_todo
  BY <1>1, <1>6 DEF LoopIdle
<1> QED
  BY <1>2, <1>4, <1>5, <1>6
     DEF Next, LoginStart, on_player_disconnect, logic_enter_zone,
         ExitRoomReq, LoginLoaded, LoginFailed, on_gateway_disconnect,
         on_gateway_connect, do_new_robot_play, RobotUinfoLoaded,
         do_push_to_match, CanReceive, matchVars

LEMMA TableStep ==
    ASSUME TypeOK, TableExists, Next
    PROVE  TableExists'
<1> USE ConstantFacts
<1>1. CASE wait_tables \subseteq wait_tables' /\ \A p \in Plays : zid'[p] \in {zid[p], -1}
  BY <1>1 DEF TableExists
<1>2. ASSUME NEW u \in Uids, NEW z \in Zones, logic_enter_zone(u, z)
      PROVE  TableExists'
  <2>1. online_player_map[u] \in Objs
    BY <1>2, OnlineIsPlay DEF logic_enter_zone
  <2> QED
    BY <1>2, <2>1 DEF logic_enter_zone, WithTable, TableExists, TypeOK
<1>3. ASSUME NEW u \in Uids, on_player_disconnect(u)
      PROVE  TableExists'
  BY <1>1, <1>3, OnlineIsPlay DEF on_player_disconnect, TypeOK
<1>4. ASSUME NEW u \in Uids, ExitRoomReq(u)
      PROVE  TableExists'
  BY <1>1, <1>4, OnlineIsPlay DEF ExitRoomReq, waitVars, TypeOK
<1>5. CASE do_new_robot_play
  BY <1>1, <1>5, ObjectsAssumption DEF do_new_robot_play, waitVars
<1>6. ASSUME NEW r \in Rooms, NEW b \in Robots, do_push_to_match(r, b)
      PROVE  TableExists'
  BY <1>1, <1>6, ObjectsAssumption DEF do_push_to_match, waitVars, TypeOK
<1>7. CASE UNCHANGED <<wait_tables, zid>>
  BY <1>1, <1>7
<1> QED
  BY <1>2, <1>3, <1>4, <1>5, <1>6, <1>7
     DEF Next, LoginStart, LoginLoaded, LoginFailed,
         on_gateway_disconnect, on_gateway_connect, MatchTick, CreateRoom,
         MatchEnter, RobotUinfoLoaded, waitVars, playVars

\* The check in LoginLoaded is what keeps the count right.
LEMMA OnlineStep ==
    ASSUME TypeOK, LoadingBound, OnlineNum, Next
    PROVE  OnlineNum'
<1> DEFINE On == {u \in Uids : online_player_map[u] # Nil}
<1>1. IsFiniteSet(On)
  BY UidsAssumption, FS_Subset
<1>2. online_player_num = Cardinality(On)
  BY DEF OnlineNum
<1>3. CASE UNCHANGED onlineVars
  BY <1>3 DEF OnlineNum, onlineVars
<1>4. ASSUME NEW p \in Plays, LoginLoaded(p)
      PROVE  OnlineNum'
  <2>1. uid[p] \in Uids /\ p # Nil
    BY <1>4, ConstantFacts DEF LoginLoaded, LoadingBound
  <2>2. CASE online_player_map[uid[p]] = Nil
    <3>1. On' = On \cup {uid[p]} /\ uid[p] \notin On
      BY <1>4, <2>1, <2>2 DEF LoginLoaded, AlreadyOnline, TypeOK
    <3>2. Cardinality(On') = Cardinality(On) + 1
      BY <1>1, <3>1, FS_AddElement
    <3>3. online_player_num' = online_player_num + 1
      BY <1>4, <2>2 DEF LoginLoaded, AlreadyOnline
    <3> QED
      BY <1>2, <3>2, <3>3 DEF OnlineNum
  <2> QED
    BY <1>3, <1>4, <2>2 DEF LoginLoaded, AlreadyOnline
<1>5. ASSUME NEW u \in Uids, on_player_disconnect(u)
      PROVE  OnlineNum'
  <2>1. On' = On \ {u} /\ u \in On
    BY <1>5 DEF on_player_disconnect, TypeOK
  <2>2. Cardinality(On') = Cardinality(On) - 1
    BY <1>1, <2>1, FS_RemoveElement
  <2>3. Cardinality(On) # 0
    BY <1>1, <2>1, FS_EmptySet
  <2>4. online_player_num' = online_player_num - 1
    BY <1>2, <1>5, <2>3 DEF on_player_disconnect
  <2> QED
    BY <1>2, <2>2, <2>4 DEF OnlineNum
<1> QED
  BY <1>3, <1>4, <1>5
     DEF Next, LoginStart, logic_enter_zone, ExitRoomReq,
         LoginFailed, on_gateway_disconnect, on_gateway_connect, MatchTick,
         CreateRoom, MatchEnter, do_new_robot_play, RobotUinfoLoaded,
         do_push_to_match

------------------------------------------------------------------------------
(* Rooms, seats and robots                                                 *)

LEMMA RoomsUntouched ==
    ASSUME RoomInv, UNCHANGED <<roomVars, roomid, status>>
    PROVE  RoomInv'
  BY DEF RoomInv, roomVars, RoomsListed, NewRoomsEmpty, PlayingIffSeated,
         GatheringListed, Gathering, IdleRobotUnseated, RobotSeatedOnce

\* Leaving frees a seat of a gathering room.
LEMMA ExitKeepsRooms ==
    ASSUME TypeOK, RoomInv, NEW u \in Uids, ExitRoomReq(u)
    PROVE  RoomInv'
<1> USE ConstantFacts
<1> DEFINE p == online_player_map[u]
<1>1. p \in Plays /\ p \in Objs
  BY OnlineIsPlay DEF ExitRoomReq
<1>2. PICK r \in RoomsAt(zid[p], roomid[p]) :
          /\ MayExit(p, r)
          /\ inview_players' =
                [inview_players EXCEPT ![r] =
                    [s \in Seats |-> IF s = seatid[p] THEN Nil ELSE @[s]]]
  BY DEF ExitRoomReq
<1>3. r \in Rooms /\ room_state[r] = "InView"
  BY <1>1, <1>2 DEF ExitRoomReq, RoomsAt, MayExit, TypeOK
<1>4. \A q \in Rooms, s \in Seats :
          inview_players'[q][s] \in {inview_players[q][s], Nil}
  BY <1>2, <1>3 DEF TypeOK
<1>5. \A q \in Rooms : q # r => inview_players'[q] = inview_players[q]
  BY <1>2, <1>3 DEF TypeOK
<1>6. UNCHANGED <<room_list, room_state, room_id, room_zid, roomid, status>>
  BY DEF ExitRoomReq
<1>7. RoomsListed' /\ GatheringListed'
  BY <1>6 DEF RoomInv, RoomsListed, GatheringListed, Gathering
<1>8. NewRoomsEmpty'
  BY <1>3, <1>5, <1>6 DEF RoomInv, NewRoomsEmpty
<1>9. PlayingIffSeated'
  BY <1>3, <1>5, <1>6 DEF RoomInv, PlayingIffSeated
<1>10. IdleRobotUnseated' /\ RobotSeatedOnce'
  BY <1>4, <1>6 DEF RoomInv, IdleRobotUnseated, RobotSeatedOnce
<1> QED
  BY <1>7, <1>8, <1>9, <1>10 DEF RoomInv

\* A room is made only for a zone without a gathering room; what it replaces
\* in room_list is therefore not gathering.
LEMMA CreateKeepsRooms ==
    ASSUME TypeOK, RoomInv, NEW z \in Zones, NEW u \in Uids, NEW r \in Rooms,
           CreateRoom(z, u, r)
    PROVE  RoomInv'
<1>1. room_state[r] = "new" /\ Gathering(z) = {}
  BY DEF CreateRoom, FreshRooms, search_inview
<1>2. /\ room_state' = [room_state EXCEPT ![r] = "InView"]
      /\ room_zid' = [room_zid EXCEPT ![r] = z]
      /\ room_list' = [room_list EXCEPT ![z] = (@ \ RoomsAt(z, g_room_id)) \cup {r}]
      /\ UNCHANGED <<inview_players, roomid, status>>
  BY DEF CreateRoom, playVars
<1>3. /\ room_list'[z] = (room_list[z] \ RoomsAt(z, g_room_id)) \cup {r}
      /\ \A y \in Zones : y # z => room_list'[y] = room_list[y]
      /\ room_state'[r] = "InView" /\ room_zid'[r] = z
      /\ \A q \in Rooms : q # r =>
            room_state'[q] = room_state[q] /\ room_zid'[q] = room_zid[q]
  BY <1>2 DEF TypeOK
<1>4. \A y \in Zones : r \notin room_list[y]
  BY <1>1 DEF RoomInv, RoomsListed
<1>5. \A y \in Zones : room_list[y] \subseteq Rooms
  BY DEF TypeOK
<1>6. RoomsListed'
  BY <1>3, <1>4, <1>5 DEF RoomInv, RoomsListed
<1>7. NewRoomsEmpty'
  BY <1>2, <1>3 DEF RoomInv, NewRoomsEmpty
<1>8. PlayingIffSeated'
  BY <1>1, <1>2, <1>3 DEF RoomInv, PlayingIffSeated
<1>9. GatheringListed'
  <2> SUFFICES ASSUME NEW q \in Rooms, room_state'[q] = "InView"
               PROVE  Gathering(room_zid[q])' = {q}
    BY DEF GatheringListed
  <2>1. CASE q = r
    BY <1>1, <1>3, <1>4, <1>5, <2>1 DEF Gathering
  <2>2. CASE q # r
    <3>1. Gathering(room_zid[q]) = {q} /\ room_zid'[q] = room_zid[q]
      BY <1>3, <2>2 DEF RoomInv, GatheringListed
    <3>2. room_zid[q] \in Zones /\ room_zid[q] # z
      BY <1>1, <3>1 DEF TypeOK
    <3>3. room_list'[room_zid[q]] = room_list[room_zid[q]]
      BY <1>3, <3>2
    <3>4. \A x \in room_list[room_zid[q]] : room_state'[x] = room_state[x]
      BY <1>3, <1>4, <1>5, <3>2
    <3> QED
      BY <3>1, <3>3, <3>4 DEF Gathering
  <2> QED
    BY <2>1, <2>2
<1>10. IdleRobotUnseated'
  BY <1>2 DEF RoomInv, IdleRobotUnseated
<1>11. RobotSeatedOnce'
  BY <1>1, <1>2, <1>3 , ConstantFacts, ObjectsAssumption
     DEF RoomInv, RobotSeatedOnce, NewRoomsEmpty
<1> QED
  BY <1>6, <1>7, <1>8, <1>9, <1>10, <1>11 DEF RoomInv

\* Entering a gathering room gives one object one seat; the game that may
\* start marks exactly the seated.
LEMMA EnterKeepsRooms ==
    ASSUME TypeOK, RoomInv, NEW z \in Zones, NEW r \in Gathering(z), NEW p \in Objs,
           p \in Robots => p \in idle_robots /\ z = SGYD,
           enter_room(r, p), UNCHANGED <<room_list, room_id, room_zid>>
    PROVE  RoomInv'
<1> USE ConstantFacts
<1>1. r \in Rooms /\ room_state[r] = "InView" /\ room_zid[r] = z
  BY GatheringRooms DEF RoomInv
<1> USE <1>1
<1>2. /\ roomid' = [roomid EXCEPT ![p] = room_id[r]]
      /\ \A q \in Rooms \ {r} : inview_players'[q] = inview_players[q]
      /\ \A s \in Seats : \/ inview_players'[r][s] = inview_players[r][s]
                          \/ /\ inview_players[r][s] = Nil
                             /\ inview_players'[r][s] = p
      /\ \A s, t \in Seats :
            /\ inview_players'[r][s] # inview_players[r][s]
            /\ inview_players'[r][t] # inview_players[r][t]
            => s = t
  BY EnterRoomEffect
<1>3. \/ UNCHANGED <<room_state, status>>
      \/ /\ room_state' = [room_state EXCEPT ![r] = "Playing"]
         /\ status' = [o \in Objs |->
                IF \E s \in Seats : inview_players'[r][s] = o
                THEN "Playing" ELSE status[o]]
  BY EnterRoomStart
<1>4. \A q \in Rooms : /\ q # r => room_state'[q] = room_state[q]
                       /\ room_state'[r] \in {"InView", "Playing"}
  BY <1>3 DEF TypeOK
<1>5. \A y \in Zones : room_list[y] \subseteq Rooms
  BY DEF TypeOK
<1>6. RoomsListed'
  BY <1>4, <1>5 DEF RoomInv, RoomsListed
<1>7. NewRoomsEmpty'
  BY <1>2, <1>4 DEF RoomInv, NewRoomsEmpty
<1>8. PlayingIffSeated'
  <2>1. CASE UNCHANGED <<room_state, status>>
    BY <1>2, <2>1 DEF RoomInv, PlayingIffSeated
  <2>2. CASE /\ room_state' = [room_state EXCEPT ![r] = "Playing"]
             /\ status' = [o \in Objs |->
                    IF \E s \in Seats : inview_players'[r][s] = o
                    THEN "Playing" ELSE status[o]]
    <3> SUFFICES ASSUME NEW o \in Objs
                 PROVE  status'[o] = "Playing" <=>
                          \E q \in Rooms, s \in Seats :
                            room_state'[q] = "Playing" /\ inview_players'[q][s] = o
      BY DEF PlayingIffSeated
    <3>1. room_state'[r] = "Playing"
      BY <2>2 DEF TypeOK
    <3>2. status[o] = "Playing" <=>
             \E q \in Rooms \ {r}, s \in Seats :
                room_state[q] = "Playing" /\ inview_players[q][s] = o
      BY DEF RoomInv, PlayingIffSeated
    <3>3. status'[o] = "Playing" <=>
             \/ \E s \in Seats : inview_players'[r][s] = o
             \/ status[o] = "Playing"
      BY <2>2
    <3> QED
      BY <1>2, <1>4, <3>1, <3>2, <3>3
  <2> QED
    BY <1>3, <2>1, <2>2
<1>9. GatheringListed'
  <2> SUFFICES ASSUME NEW q \in Rooms, room_state'[q] = "InView"
               PROVE  Gathering(room_zid[q])' = {q}
    BY DEF GatheringListed
  <2>1. room_state[q] = "InView" /\ Gathering(room_zid[q]) = {q}
    BY <1>4 DEF RoomInv, GatheringListed
  <2>2. room_zid[q] \in Zones
    BY DEF TypeOK
  <2>3. \A x \in room_list[room_zid[q]] :
            room_state'[x] = "InView" <=> room_state[x] = "InView"
    BY <1>4, <1>5, <2>1, <2>2 DEF Gathering, RoomInv, RoomsListed
  <2> QED
    BY <2>1, <2>3 DEF Gathering
<1>10. IdleRobotUnseated'
  <2> SUFFICES ASSUME NEW b \in Robots, roomid'[b] = -1,
                      NEW q \in Rooms, NEW s \in Seats
               PROVE  inview_players'[q][s] # b
    BY DEF IdleRobotUnseated
  <2>1. b # p
    BY <1>2 DEF TypeOK
  <2>2. roomid[b] = -1
    BY <1>2, <2>1 DEF TypeOK
  <2>3. inview_players[q][s] # b
    BY <2>2 DEF RoomInv, IdleRobotUnseated
  <2>4. inview_players'[q][s] \in {inview_players[q][s], p}
    BY <1>2
  <2> QED
    BY <2>1, <2>3, <2>4
<1>11. RobotSeatedOnce'
  <2> SUFFICES ASSUME NEW b \in Robots, NEW q \in Rooms, NEW x \in Rooms,
                      NEW s \in Seats, NEW t \in Seats,
                      inview_players'[q][s] = b, inview_players'[x][t] = b
               PROVE  q = x /\ s = t /\ room_zid[q] = SGYD
    BY DEF RobotSeatedOnce
  <2>1. CASE b # p
    BY <1>2, <2>1 DEF RoomInv, RobotSeatedOnce
  <2>2. CASE b = p
    <3>1. z = SGYD /\ \A y \in Rooms, w \in Seats : inview_players[y][w] # b
      BY <2>2 DEF idle_robots, RoomInv, IdleRobotUnseated
    <3>2. q = r /\ x = r
      BY <1>2, <3>1
    <3>3. /\ inview_players'[r][s] # inview_players[r][s]
          /\ inview_players'[r][t] # inview_players[r][t]
      BY <3>1, <3>2
    <3>4. s = t
      BY <1>2, <3>3
    <3> QED
      BY <3>1, <3>2, <3>4
  <2> QED
    BY <2>1, <2>2
<1> QED
  BY <1>6, <1>7, <1>8, <1>9, <1>10, <1>11 DEF RoomInv

LEMMA RoomStep ==
    ASSUME TypeOK, TodoWaiting, RoomInv, Next
    PROVE  RoomInv'
<1>1. CASE UNCHANGED <<roomVars, roomid, status>>
  BY <1>1, RoomsUntouched
<1>2. ASSUME NEW u \in Uids, ExitRoomReq(u)
      PROVE  RoomInv'
  BY <1>2, ExitKeepsRooms
<1>3. ASSUME NEW z \in Zones, NEW u \in Uids, NEW r \in Rooms, CreateRoom(z, u, r)
      PROVE  RoomInv'
  BY <1>3, CreateKeepsRooms
<1>4. ASSUME NEW z \in Zones, NEW u \in Uids, NEW r \in Rooms, MatchEnter(z, u, r)
      PROVE  RoomInv'
  <2> DEFINE p == zone_wait_list[z][u]
  <2>1. p \in Objs /\ p \notin Robots
    BY <1>4, EntryIsPlay, ObjectsAssumption DEF MatchEnter, Visiting
  <2>2. r \in Gathering(z) /\ UNCHANGED <<room_list, room_id, room_zid>>
    BY <1>4 DEF MatchEnter, search_inview
  <2>3. CASE enter_room(r, p)
    BY <2>1, <2>2, <2>3, EnterKeepsRooms
  <2>4. CASE ~enter_room(r, p)
    BY <1>1, <1>4, <2>2, <2>4 DEF MatchEnter, roomVars
  <2> QED
    BY <2>3, <2>4
<1>5. ASSUME NEW r \in Rooms, NEW b \in Robots, do_push_to_match(r, b)
      PROVE  RoomInv'
  <2>1. /\ r \in Gathering(SGYD) /\ b \in idle_robots
        /\ enter_room(r, b) /\ UNCHANGED <<room_list, room_id, room_zid>>
    BY <1>5 DEF do_push_to_match
  <2> QED
    BY <2>1, EnterKeepsRooms, ConstantFacts
<1> QED
  BY <1>1, <1>2, <1>3, <1>4, <1>5
     DEF Next, LoginStart, on_player_disconnect, logic_enter_zone,
         LoginLoaded, LoginFailed, on_gateway_disconnect, on_gateway_connect,
         MatchTick, do_new_robot_play, RobotUinfoLoaded, playVars

------------------------------------------------------------------------------
(* The theorems                                                            *)

LEMMA InitIInv == Init => IInv
<1> SUFFICES ASSUME Init PROVE IInv
  OBVIOUS
<1> USE ConstantFacts DEF Init
<1>1. TypeOK
  BY DEF TypeOK
<1>2. LoadingBound /\ TodoWaiting /\ TableExists
  BY DEF LoadingBound, TodoWaiting, TableExists
<1>3. RoomInv
  BY ObjectsAssumption
     DEF RoomInv, RoomsListed, NewRoomsEmpty, PlayingIffSeated, GatheringListed,
         IdleRobotUnseated, RobotSeatedOnce
<1>4. {u \in Uids : online_player_map[u] # Nil} = {}
  OBVIOUS
<1>5. OnlineNum
  BY <1>4, FS_EmptySet DEF OnlineNum
<1> QED
  BY <1>1, <1>2, <1>3, <1>5 DEF IInv

LEMMA IInvStep == IInv /\ [Next]_vars => IInv'
<1> SUFFICES ASSUME IInv, [Next]_vars PROVE IInv'
  OBVIOUS
<1>1. TypeOK'
  BY TypeStep DEF IInv, RoomInv
<1>2. CASE Next
  BY <1>1, <1>2, LoadingStep, TodoStep, TableStep, OnlineStep, RoomStep DEF IInv
<1>3. CASE UNCHANGED vars
  <2>1. RoomInv'
    BY <1>3, RoomsUntouched DEF IInv, vars, playVars
  <2>2. LoadingBound' /\ TodoWaiting' /\ TableExists' /\ OnlineNum'
    BY <1>3 DEF IInv, vars, onlineVars, waitVars, playVars, matchVars,
                LoadingBound, TodoWaiting, TableExists, OnlineNum
  <2> QED
    BY <1>1, <2>1, <2>2 DEF IInv
<1> QED
  BY <1>2, <1>3

LEMMA Inductive == Spec => []IInv
  BY InitIInv, IInvStep, PTL DEF Spec

\* Every variable keeps its type: no handler seats a player outside of the
\* room's seats or indexes a list by a value that is no zone.
THEOREM TypeCorrect == Spec => []TypeOK
<1>1. IInv => TypeOK
  BY DEF IInv
<1> QED
  BY <1>1, Inductive, PTL

\* online_player_num counts the players online.
THEOREM OnlineNumCorrect == Spec => []OnlineNum
<1>1. IInv => OnlineNum
  BY DEF IInv
<1> QED
  BY <1>1, Inductive, PTL

\* Exactly the objects that sit in a running game are marked Playing.
THEOREM PlayingIffSeatedCorrect == Spec => []PlayingIffSeated
<1>1. IInv => PlayingIffSeated
  BY DEF IInv, RoomInv
<1> QED
  BY <1>1, Inductive, PTL

\* A gathering room is the only one of its zone, and can be found.
THEOREM GatheringListedCorrect == Spec => []GatheringListed
<1>1. IInv => GatheringListed
  BY DEF IInv, RoomInv
<1> QED
  BY <1>1, Inductive, PTL

\* A robot holds at most one seat, in a room of zone SGYD.
THEOREM RobotSeatedOnceCorrect == Spec => []RobotSeatedOnce
<1>1. IInv => RobotSeatedOnce
  BY DEF IInv, RoomInv
<1> QED
  BY <1>1, Inductive, PTL

\* The waiting table of an online player's zone exists.
THEOREM ZoneTableExistsCorrect == Spec => []ZoneTableExists
<1>1. IInv => ZoneTableExists
  BY DEF IInv, TypeOK, TableExists, ZoneTableExists
<1> QED
  BY <1>1, Inductive, PTL

\* No step changes a room whose game runs.
THEOREM GameFrozenCorrect == Spec => GameFrozen
<1> DEFINE Frozen == \A r \in Rooms : room_state[r] = "Playing" =>
                        /\ room_state'[r] = "Playing"
                        /\ inview_players'[r] = inview_players[r]
<1>1. ASSUME IInv, [Next]_vars
      PROVE  [Frozen]_vars
  <2> USE ConstantFacts
  <2>1. TypeOK /\ TodoWaiting /\ RoomsListed
    BY <1>1 DEF IInv, RoomInv
  <2>2. CASE UNCHANGED <<room_state, inview_players>>
    BY <2>2
  <2>3. ASSUME NEW r \in Rooms, NEW z \in Zones, r \in Gathering(z),
               NEW p \in Objs, enter_room(r, p)
        PROVE  Frozen
    <3>1. room_state[r] = "InView"
      BY <2>1, <2>3, GatheringRooms
    <3>2. \A q \in Rooms \ {r} : inview_players'[q] = inview_players[q]
      BY <2>1, <2>3, EnterRoomEffect
    <3>3. \A q \in Rooms \ {r} : room_state'[q] = room_state[q]
      BY <2>1, <2>3, EnterRoomStart DEF TypeOK
    <3> QED
      BY <3>1, <3>2, <3>3
  <2>4. ASSUME NEW z \in Zones, NEW u \in Uids, NEW r \in Rooms, MatchEnter(z, u, r)
        PROVE  Frozen
    <3> DEFINE p == zone_wait_list[z][u]
    <3>1. p \in Objs
      BY <2>1, <2>4, EntryIsPlay DEF MatchEnter, Visiting
    <3>2. CASE enter_room(r, p)
      BY <2>3, <2>4, <3>1, <3>2 DEF MatchEnter, search_inview
    <3>3. CASE ~enter_room(r, p)
      BY <2>2, <2>4, <3>3 DEF MatchEnter
    <3> QED
      BY <3>2, <3>3
  <2>5. ASSUME NEW r \in Rooms, NEW b \in Robots, do_push_to_match(r, b)
        PROVE  Frozen
    BY <2>3, <2>5 DEF do_push_to_match
  <2>6. ASSUME NEW u \in Uids, ExitRoomReq(u)
        PROVE  Frozen
    <3> DEFINE p == online_player_map[u]
    <3>1. PICK r \in RoomsAt(zid[p], roomid[p]) :
              /\ MayExit(p, r)
              /\ inview_players' =
                    [inview_players EXCEPT ![r] =
                        [s \in Seats |-> IF s = seatid[p] THEN Nil ELSE @[s]]]
      BY <2>6 DEF ExitRoomReq
    <3>2. room_state[r] = "InView" /\ UNCHANGED room_state
      BY <2>6, <3>1 DEF ExitRoomReq, MayExit
    <3> QED
      BY <2>1, <3>1, <3>2 DEF TypeOK
  <2>7. ASSUME NEW z \in Zones, NEW u \in Uids, NEW r \in Rooms, CreateRoom(z, u, r)
        PROVE  Frozen
    <3>1. room_state[r] = "new" /\ UNCHANGED inview_players
      BY <2>7 DEF CreateRoom, FreshRooms
    <3>2. room_state' = [room_state EXCEPT ![r] = "InView"]
      BY <2>7 DEF CreateRoom
    <3> QED
      BY <2>1, <3>1, <3>2 DEF TypeOK
  <2> QED
    BY <1>1, <2>2, <2>4, <2>5, <2>6, <2>7
       DEF Next, vars, LoginStart, on_player_disconnect,
           logic_enter_zone, LoginLoaded, LoginFailed, on_gateway_disconnect,
           on_gateway_connect, MatchTick, do_new_robot_play,
           RobotUinfoLoaded, roomVars
<1> QED
  BY <1>1, Inductive, PTL DEF Spec, GameFrozen

------------------------------------------------------------------------------
(* A game starts with every seat taken                                     *)

\* Who is online or waits has its profile, and so do the robots unless their
\* profiles may be late (SlowUinfo), and everyone that sits anywhere.
ProfilesLoaded ==
    /\ \A u \in Uids : online_player_map[u] # Nil => uinfo[online_player_map[u]]
    /\ \A z \in Zones, u \in Uids :
            zone_wait_list[z][u] # Nil => uinfo[zone_wait_list[z][u]]
    /\ ~SlowUinfo => \A b \in zone_robot_list : uinfo[b]
    /\ ~SlowUinfo => \A r \in Rooms, s \in Seats :
            inview_players[r][s] # Nil => uinfo[inview_players[r][s]]

\* The last seat of a room is taken by the entry that starts its game.
LastSeatFree ==
    \A r \in Rooms : room_state[r] # "Playing" => inview_players[r][SEATS] = Nil

\* When no profile is missing, the entry that takes the last seat finds all
\* others taken, and does start the game.
LEMMA EnterRoomCompletes ==
    ASSUME TypeOK, LastSeatFree, GameStartsFull,
           NEW r \in Rooms, room_state[r] # "Playing",
           NEW p \in Objs, enter_room(r, p), ~EnterRaises(r, p)
    PROVE  LastSeatFree' /\ GameStartsFull'
<1> USE ConstantFacts
<1>1. SEATS \in FreeSeats(r)
  BY DEF FreeSeats, LastSeatFree
<1>2. PICK s \in FreeSeats(r) :
          /\ \A t \in FreeSeats(r) : s <= t
          /\ inview_players' = [inview_players EXCEPT ![r][s] = p]
  BY <1>1 DEF enter_room, TakeSeat
<1>3. /\ inview_players'[r] = [inview_players[r] EXCEPT ![s] = p]
      /\ \A q \in Rooms \ {r} : inview_players'[q] = inview_players[q]
  BY <1>2 DEF TypeOK
<1>4. s \in Seats /\ inview_players[r] \in [Seats -> Objs \cup {Nil}]
  BY DEF FreeSeats, TypeOK
<1>5. /\ inview_players'[r][s] = p
      /\ \A t \in Seats \ {s} : inview_players'[r][t] = inview_players[r][t]
  BY <1>3, <1>4
<1>6. CASE s = SEATS
  <2>1. \A t \in Seats : t <= SEATS
    BY DEF Seats
  <2>2. \A t \in Seats \ {s} : inview_players[r][t] # Nil
    <3> SUFFICES ASSUME NEW t \in Seats \ {s}, inview_players[r][t] = Nil
                 PROVE  FALSE
      OBVIOUS
    <3>1. t \in FreeSeats(r)
      BY DEF FreeSeats
    <3>2. s <= t
      BY <1>2, <3>1
    <3>3. t <= s /\ t # s
      BY <1>6, <2>1
    <3>4. s \in Int /\ t \in Int
      BY <1>4 DEF Seats
    <3> QED
      BY <3>2, <3>3, <3>4
  <2>3. \A t \in Seats : inview_players'[r][t] # Nil
    BY <1>5, <2>2
  <2>4. room_state' = [room_state EXCEPT ![r] = "Playing"]
    BY <2>3 DEF enter_room, StartIfFull, SeatsCounted
  <2>5. room_state'[r] = "Playing" /\ \A q \in Rooms \ {r} : room_state'[q] = room_state[q]
    BY <2>4 DEF TypeOK
  <2>6. LastSeatFree'
    BY <1>3, <2>5 DEF LastSeatFree
  <2>7. GameStartsFull'
    BY <1>3, <2>3, <2>5 DEF GameStartsFull
  <2> QED
    BY <2>6, <2>7
<1>7. CASE s # SEATS
  <2>1. inview_players'[r][SEATS] = Nil
    BY <1>5, <1>7 DEF LastSeatFree
  <2>2. room_state' = room_state
    BY <2>1 DEF enter_room, StartIfFull, SeatsCounted
  <2> QED
    BY <1>3, <2>1, <2>2 DEF LastSeatFree, GameStartsFull
<1> QED
  BY <1>6, <1>7

\* An object that has its profile takes a seat only beside others that have
\* theirs, and enter_room does not raise.
LEMMA EnterRoomReads ==
    ASSUME TypeOK, ProfilesLoaded, ~SlowUinfo,
           NEW r \in Rooms, NEW p \in Objs, uinfo[p]
    PROVE  ~EnterRaises(r, p)
  BY DEF ProfilesLoaded, EnterRaises, Companions, TypeOK

LEMMA InitProfiles == Init => ProfilesLoaded /\ LastSeatFree /\ GameStartsFull
  BY ConstantFacts DEF Init, ProfilesLoaded, LastSeatFree, GameStartsFull

LEMMA ProfilesStep ==
    ASSUME IInv, ProfilesLoaded, Next
    PROVE  ProfilesLoaded'
<1> USE ConstantFacts
<1>0. TypeOK /\ TodoWaiting /\ RoomsListed
  BY DEF IInv, RoomInv
<1>1. \A o \in Objs : o \in Plays \/ ~SlowUinfo => (uinfo[o] => uinfo'[o])
  <2>1. CASE uinfo' = uinfo
    BY <2>1
  <2>2. ASSUME NEW p \in Objs, uinfo' = [uinfo EXCEPT ![p] = TRUE]
        PROVE  \A o \in Objs : uinfo[o] => uinfo'[o]
    BY <1>0, <2>2 DEF TypeOK
  <2>3. CASE do_new_robot_play
    BY <1>0, <2>3, ObjectsAssumption DEF do_new_robot_play
  <2>4. CASE \E p \in Plays : LoginLoaded(p)
    BY <2>2, <2>4 DEF LoginLoaded
  <2>5. CASE \E b \in Robots : RobotUinfoLoaded(b)
    BY <2>2, <2>5 DEF RobotUinfoLoaded
  <2> QED
    BY <2>1, <2>3, <2>4, <2>5
       DEF Next, LoginStart, on_player_disconnect, logic_enter_zone,
           ExitRoomReq, LoginFailed, on_gateway_disconnect, on_gateway_connect,
           MatchTick, CreateRoom, MatchEnter, do_push_to_match, playVars
<1>2. ASSUME NEW u \in Uids, online_player_map'[u] # Nil
      PROVE  uinfo'[online_player_map'[u]]
  <2>1. CASE \E v \in Uids : on_player_disconnect(v)
    BY <1>0, <1>1, <1>2, <2>1, OnlineIsPlay
       DEF on_player_disconnect, TypeOK, ProfilesLoaded
  <2>2. ASSUME NEW p \in Plays, LoginLoaded(p)
        PROVE  uinfo'[online_player_map'[u]]
    <3>1. uid[p] \in Uids /\ uinfo'[p]
      BY <1>0, <2>2 DEF LoginLoaded, IInv, LoadingBound, TypeOK
    <3>2. CASE online_player_map' = online_player_map
      BY <1>0, <1>1, <1>2, <3>2, OnlineIsPlay DEF ProfilesLoaded
    <3>3. CASE online_player_map' = [online_player_map EXCEPT ![uid[p]] = p]
      <4>1. CASE u = uid[p]
        BY <1>0, <3>1, <3>3, <4>1 DEF TypeOK
      <4>2. CASE u # uid[p]
        <5>1. online_player_map'[u] = online_player_map[u]
          BY <1>0, <3>3, <4>2 DEF TypeOK
        <5> QED
          BY <1>0, <1>1, <1>2, <5>1, OnlineIsPlay DEF ProfilesLoaded
      <4> QED
        BY <4>1, <4>2
    <3> QED
      BY <2>2, <3>2, <3>3 DEF LoginLoaded, onlineVars
  <2>3. CASE online_player_map' = online_player_map
    BY <1>0, <1>1, <1>2, <2>3, OnlineIsPlay DEF ProfilesLoaded
  <2> QED
    BY <2>1, <2>2, <2>3
       DEF Next, LoginStart, logic_enter_zone, ExitRoomReq, LoginFailed,
           on_gateway_disconnect, on_gateway_connect, MatchTick, CreateRoom,
           MatchEnter, do_new_robot_play, RobotUinfoLoaded, do_push_to_match,
           onlineVars
<1>3. ASSUME NEW z \in Zones, NEW u \in Uids, zone_wait_list'[z][u] # Nil
      PROVE  uinfo'[zone_wait_list'[z][u]]
  <2>1. CASE zone_wait_list'[z][u] = zone_wait_list[z][u]
    BY <1>0, <1>1, <1>3, <2>1 DEF ProfilesLoaded, TypeOK
  <2>2. CASE zone_wait_list'[z][u] # zone_wait_list[z][u]
    <3>1. ASSUME NEW v \in Uids, on_player_disconnect(v)
          PROVE  zone_wait_list'[z][u] = Nil
      <4> DEFINE p == online_player_map[v]
      <4>1. zid[p] \in Zones /\ zone_wait_list' = [zone_wait_list EXCEPT ![zid[p]][v] = Nil]
        BY <1>0, <2>2, <3>1, OnlineIsPlay DEF on_player_disconnect, TypeOK
      <4> QED
        BY <1>0, <2>2, <4>1 DEF TypeOK
    <3>2. ASSUME NEW v \in Uids, NEW y \in Zones, logic_enter_zone(v, y)
          PROVE  u = v /\ zone_wait_list'[z][u] = online_player_map[v]
      BY <1>0, <2>2, <3>2 DEF logic_enter_zone, TypeOK
    <3>3. ASSUME NEW y \in Zones, NEW v \in Uids, NEW r \in Rooms, MatchEnter(y, v, r)
          PROVE  zone_wait_list'[z][u] = Nil
      <4>1. zone_wait_list' = [zone_wait_list EXCEPT ![y][v] = Nil]
        BY <2>2, <3>3 DEF MatchEnter
      <4> QED
        BY <1>0, <2>2, <4>1 DEF TypeOK
    <3>4. online_player_map[u] # Nil /\ zone_wait_list'[z][u] = online_player_map[u]
      BY <1>3, <2>2, <3>1, <3>2, <3>3
         DEF Next, LoginStart, logic_enter_zone, ExitRoomReq, LoginLoaded,
             LoginFailed, on_gateway_disconnect, on_gateway_connect, MatchTick,
             CreateRoom, do_new_robot_play, RobotUinfoLoaded, do_push_to_match,
             waitVars
    <3> QED
      BY <1>0, <1>1, <3>4, OnlineIsPlay DEF ProfilesLoaded
  <2> QED
    BY <2>1, <2>2
<1>4. ASSUME ~SlowUinfo, NEW b \in zone_robot_list'
      PROVE  uinfo'[b]
  <2>1. CASE do_new_robot_play
    BY <1>0, <1>4, <2>1 DEF do_new_robot_play, TypeOK
  <2>2. CASE zone_robot_list' = zone_robot_list
    BY <1>0, <1>1, <1>4, <2>2 DEF ProfilesLoaded, TypeOK
  <2> QED
    BY <2>1, <2>2
       DEF Next, LoginStart, on_player_disconnect, logic_enter_zone,
           ExitRoomReq, LoginLoaded, LoginFailed, on_gateway_disconnect,
           on_gateway_connect, MatchTick, CreateRoom, MatchEnter,
           RobotUinfoLoaded, do_push_to_match
<1>5. ASSUME ~SlowUinfo, NEW r \in Rooms, NEW s \in Seats, inview_players'[r][s] # Nil
      PROVE  uinfo'[inview_players'[r][s]]
  <2>1. CASE inview_players'[r][s] = inview_players[r][s]
    <3>1. inview_players[r][s] \in Objs /\ inview_players[r][s] # Nil
      BY <1>0, <1>5, <2>1 DEF TypeOK
    <3>2. uinfo[inview_players[r][s]]
      BY <1>5, <3>1 DEF ProfilesLoaded
    <3> QED
      BY <1>1, <1>5, <2>1, <3>1, <3>2
  <2>2. ASSUME NEW q \in Rooms, NEW p \in Objs, enter_room(q, p), uinfo[p]
        PROVE  uinfo'[inview_players'[r][s]]
    <3>1. inview_players'[r][s] = inview_players[r][s] \/ inview_players'[r][s] = p
      BY <1>0, <2>2, EnterRoomEffect
    <3> QED
      BY <1>1, <1>5, <2>1, <2>2, <3>1
  <2>3. ASSUME NEW z \in Zones, NEW u \in Uids, NEW q \in Rooms, MatchEnter(z, u, q)
        PROVE  uinfo'[inview_players'[r][s]]
    <3> DEFINE p == zone_wait_list[z][u]
    <3>1. p \in Objs /\ p # Nil
      BY <1>0, <2>3, EntryIsPlay DEF MatchEnter, Visiting
    <3>2. uinfo[p]
      BY <3>1 DEF ProfilesLoaded
    <3>3. CASE enter_room(q, p)
      BY <2>2, <3>1, <3>2, <3>3
    <3>4. CASE ~enter_room(q, p)
      BY <2>1, <2>3, <3>4 DEF MatchEnter
    <3> QED
      BY <3>3, <3>4
  <2>4. ASSUME NEW q \in Rooms, NEW b \in Robots, do_push_to_match(q, b)
        PROVE  uinfo'[inview_players'[r][s]]
    BY <1>0, <1>5, <2>2, <2>4 DEF do_push_to_match, idle_robots, ProfilesLoaded, TypeOK
  <2>5. ASSUME NEW u \in Uids, ExitRoomReq(u)
        PROVE  uinfo'[inview_players'[r][s]]
    <3>1. inview_players'[r][s] \in {inview_players[r][s], Nil}
      BY <1>0, <2>5 DEF ExitRoomReq, RoomsAt, TypeOK
    <3> QED
      BY <1>5, <2>1, <3>1
  <2> QED
    BY <2>1, <2>3, <2>4, <2>5
       DEF Next, LoginStart, on_player_disconnect, logic_enter_zone,
           LoginLoaded, LoginFailed, on_gateway_disconnect, on_gateway_connect,
           MatchTick, CreateRoom, do_new_robot_play, RobotUinfoLoaded, roomVars
<1> QED
  BY <1>2, <1>3, <1>4, <1>5 DEF ProfilesLoaded

LEMMA SeatsStep ==
    ASSUME IInv, ProfilesLoaded, ~SlowUinfo, LastSeatFree, GameStartsFull, Next
    PROVE  LastSeatFree' /\ GameStartsFull'
<1> USE ConstantFacts
<1>0. TypeOK /\ TodoWaiting /\ RoomsListed /\ NewRoomsEmpty
  BY DEF IInv, RoomInv
<1>1. CASE UNCHANGED <<room_state, inview_players>>
  BY <1>1 DEF LastSeatFree, GameStartsFull
<1>2. ASSUME NEW z \in Zones, NEW u \in Uids, NEW r \in Rooms, MatchEnter(z, u, r)
      PROVE  LastSeatFree' /\ GameStartsFull'
  <2> DEFINE p == zone_wait_list[z][u]
  <2>1. p \in Objs /\ p # Nil
    BY <1>0, <1>2, EntryIsPlay DEF MatchEnter, Visiting
  <2>2. ~EnterRaises(r, p)
    <3>1. uinfo[p]
      BY <2>1 DEF ProfilesLoaded
    <3> QED
      BY <1>0, <2>1, <3>1, EnterRoomReads
  <2>3. room_state[r] # "Playing"
    BY <1>2 DEF MatchEnter, search_inview, Gathering
  <2>4. CASE enter_room(r, p)
    BY <1>0, <2>1, <2>2, <2>3, <2>4, EnterRoomCompletes
  <2>5. CASE ~enter_room(r, p)
    BY <1>1, <1>2, <2>5 DEF MatchEnter
  <2> QED
    BY <2>4, <2>5
<1>3. ASSUME NEW r \in Rooms, NEW b \in Robots, do_push_to_match(r, b)
      PROVE  LastSeatFree' /\ GameStartsFull'
  <2>1. b \in Objs /\ uinfo[b] /\ room_state[r] # "Playing" /\ enter_room(r, b)
    BY <1>3 DEF do_push_to_match, idle_robots, ProfilesLoaded, Gathering
  <2>2. ~EnterRaises(r, b)
    BY <1>0, <2>1, EnterRoomReads
  <2> QED
    BY <1>0, <2>1, <2>2, EnterRoomCompletes
<1>4. ASSUME NEW u \in Uids, ExitRoomReq(u)
      PROVE  LastSeatFree' /\ GameStartsFull'
  <2>1. PICK r \in Rooms :
            /\ room_state[r] = "InView"
            /\ inview_players' =
                  [inview_players EXCEPT ![r] =
                      [s \in Seats |-> IF s = seatid[online_player_map[u]] THEN Nil ELSE @[s]]]
    <3> DEFINE p == online_player_map[u]
    <3>1. zid[p] \in Zones
      BY <1>0, <1>4, OnlineIsPlay DEF ExitRoomReq, TypeOK
    <3> QED
      BY <1>0, <1>4, <3>1 DEF ExitRoomReq, RoomsAt, MayExit, TypeOK
  <2>2. room_state' = room_state
    BY <1>4 DEF ExitRoomReq
  <2>3. inview_players'[r][SEATS] \in {Nil, inview_players[r][SEATS]}
    BY <1>0, <2>1 DEF TypeOK
  <2>4. \A q \in Rooms \ {r} : inview_players'[q] = inview_players[q]
    BY <1>0, <2>1 DEF TypeOK
  <2> QED
    BY <2>1, <2>2, <2>3, <2>4 DEF LastSeatFree, GameStartsFull
<1>5. ASSUME NEW z \in Zones, NEW u \in Uids, NEW r \in Rooms, CreateRoom(z, u, r)
      PROVE  LastSeatFree' /\ GameStartsFull'
  <2>1. /\ room_state[r] = "new"
        /\ room_state' = [room_state EXCEPT ![r] = "InView"]
        /\ inview_players' = inview_players
    BY <1>5 DEF CreateRoom, FreshRooms
  <2> QED
    BY <1>0, <2>1 DEF NewRoomsEmpty, LastSeatFree, GameStartsFull, TypeOK
<1> QED
  BY <1>1, <1>2, <1>3, <1>4, <1>5
     DEF Next, LoginStart, on_player_disconnect, logic_enter_zone,
         LoginLoaded, LoginFailed, on_gateway_disconnect, on_gateway_connect,
         MatchTick, do_new_robot_play, RobotUinfoLoaded, roomVars

Full == ProfilesLoaded /\ (~SlowUinfo => LastSeatFree /\ GameStartsFull)

LEMMA FullStep == IInv /\ Full /\ [Next]_vars => Full'
<1> SUFFICES ASSUME IInv, Full, [Next]_vars PROVE Full'
  OBVIOUS
<1>1. CASE Next
  BY <1>1, ProfilesStep, SeatsStep DEF Full
<1>2. CASE UNCHANGED vars
  <2>1. ProfilesLoaded'
    BY <1>2 DEF Full, vars, onlineVars, waitVars, playVars, roomVars, ProfilesLoaded
  <2>2. ~SlowUinfo => LastSeatFree' /\ GameStartsFull'
    BY <1>2 DEF Full, vars, roomVars, LastSeatFree, GameStartsFull
  <2> QED
    BY <2>1, <2>2 DEF Full
<1> QED
  BY <1>1, <1>2

LEMMA AlwaysFull == Spec => [](IInv /\ Full)
<1>1. Init => Full
  BY InitProfiles DEF Full
<1> QED
  BY <1>1, FullStep, Inductive, PTL DEF Spec

\* When no robot's profile is late, no game starts with an empty seat, whatever
\* exits and later entries do to the row of seats, and however many seats a room
\* has.
THEOREM GameStartsFullCorrect == Spec => [](~SlowUinfo => GameStartsFull)
<1>1. Full => (~SlowUinfo => GameStartsFull)
  BY DEF Full
<1> QED
  BY <1>1, AlwaysFull, PTL

------------------------------------------------------------------------------
(* The rooms implement MatchRooms                                          *)

\* Entering a gathering room is taking a seat, or starting the game of a room
\* without a free one, or nothing.
LEMMA EnterSits ==
    ASSUME IInv, IInv', Full', NEW z \in Zones, NEW r \in Gathering(z), NEW p \in Objs,
           status[p] = "InView",
           p \in Robots => p \in idle_robots /\ z = SGYD,
           enter_room(r, p), room_zid' = room_zid
    PROVE  [RoomLife!Next]_(RoomLife!vars)
<1>1. /\ TypeOK /\ PlayingIffSeated /\ IdleRobotUnseated
      /\ r \in Rooms /\ room_state[r] = "InView" /\ room_zid[r] = z
  BY GatheringRooms DEF IInv, RoomInv
<1>2. \/ inview_players' = inview_players
      \/ \E s \in Seats : inview_players[r][s] = Nil
                          /\ inview_players' = [inview_players EXCEPT ![r][s] = p]
  BY DEF enter_room, TakeSeat, FreeSeats
<1>3. room_state' = room_state \/ room_state' = [room_state EXCEPT ![r] = "Playing"]
  BY <1>1, EnterRoomStart
<1>4. ASSUME room_state' = [room_state EXCEPT ![r] = "Playing"] PROVE RoomLife!Start(r)
  <2>1. room_state'[r] = "Playing"
    BY <1>1, <1>4 DEF TypeOK
  <2>2. SlowUinfo \/ \A s \in Seats : inview_players'[r][s] # Nil
    BY <1>1, <2>1 DEF Full, GameStartsFull
  <2> QED
    BY <1>4, <2>2 DEF RoomLife!Start
<1>5. ~\E q \in Rooms : room_state[q] = "Playing" /\ RoomLife!Sits(p, q)
  BY <1>1 DEF PlayingIffSeated, RoomLife!Sits
<1>6. p \in Robots => room_zid[r] = SGYD /\ ~\E q \in Rooms : RoomLife!Sits(p, q)
  BY <1>1 DEF idle_robots, IdleRobotUnseated, RoomLife!Sits
<1>7. CASE inview_players' # inview_players
  <2>1. RoomLife!Sit(r, p)
    BY <1>1, <1>2, <1>3, <1>4, <1>5, <1>6, <1>7 DEF RoomLife!Sit
  <2> QED
    BY <1>1, <2>1 DEF RoomLife!Next
<1>8. CASE inview_players' = inview_players /\ room_state' # room_state
  <2>1. RoomLife!StartLate(r)
    BY <1>1, <1>3, <1>4, <1>8 DEF RoomLife!StartLate
  <2> QED
    BY <1>1, <2>1 DEF RoomLife!Next
<1>9. CASE inview_players' = inview_players /\ room_state' = room_state
  BY <1>9 DEF RoomLife!vars
<1> QED
  BY <1>7, <1>8, <1>9

\* An exit leaves a seat of a gathering room, or none.
LEMMA ExitLeaves ==
    ASSUME IInv, NEW u \in Uids, ExitRoomReq(u)
    PROVE  [RoomLife!Next]_(RoomLife!vars)
<1> DEFINE p == online_player_map[u]
<1>1. TypeOK /\ p \in Objs
  BY OnlineIsPlay DEF ExitRoomReq, IInv
<1>2. zid[p] \in Zones /\ seatid[p] \in Seats \cup {-1}
  BY <1>1 DEF ExitRoomReq, TypeOK
<1>3. PICK r \in Rooms :
          /\ room_state[r] = "InView"
          /\ inview_players' =
                [inview_players EXCEPT ![r] =
                    [s \in Seats |-> IF s = seatid[p] THEN Nil ELSE @[s]]]
  BY <1>1, <1>2 DEF ExitRoomReq, RoomsAt, MayExit, TypeOK
<1>4. UNCHANGED <<room_state, room_zid>>
  BY DEF ExitRoomReq
<1>5. /\ inview_players \in [Rooms -> [Seats -> Objs \cup {Nil}]]
      /\ inview_players[r] \in [Seats -> Objs \cup {Nil}]
  BY <1>1 DEF TypeOK
<1>6. CASE seatid[p] \in Seats
  <2> DEFINE t == seatid[p]
  <2>1. [s \in Seats |-> IF s = t THEN Nil ELSE inview_players[r][s]]
          = [inview_players[r] EXCEPT ![t] = Nil]
    BY <1>5
  <2>2. inview_players' = [inview_players EXCEPT ![r][t] = Nil]
    BY <1>3, <2>1
  <2>3. RoomLife!Leave(r, t)
    BY <1>3, <1>4, <2>2 DEF RoomLife!Leave
  <2> QED
    BY <1>6, <2>3 DEF RoomLife!Next
<1>7. CASE seatid[p] = -1
  <2>1. -1 \notin Seats
    BY ConstantFacts
  <2>2. [s \in Seats |-> IF s = seatid[p] THEN Nil ELSE inview_players[r][s]]
          = inview_players[r]
    BY <1>5, <1>7, <2>1
  <2>3. inview_players' = inview_players
    BY <1>3, <1>5, <2>2
  <2> QED
    BY <1>4, <2>3 DEF RoomLife!vars
<1> QED
  BY <1>2, <1>6, <1>7

\* A room is opened for a zone in which no room gathers.
LEMMA CreateOpens ==
    ASSUME IInv, NEW z \in Zones, NEW u \in Uids, NEW r \in Rooms, CreateRoom(z, u, r)
    PROVE  RoomLife!Next
<1>1. /\ room_state[r] = "new" /\ Gathering(z) = {}
      /\ room_state' = [room_state EXCEPT ![r] = "InView"]
      /\ room_zid' = [room_zid EXCEPT ![r] = z]
      /\ inview_players' = inview_players
  BY DEF CreateRoom, FreshRooms, search_inview
<1>2. \A q \in Rooms : ~(room_state[q] = "InView" /\ room_zid[q] = z)
  BY <1>1 DEF IInv, RoomInv, GatheringListed
<1>3. RoomLife!Open(r, z)
  BY <1>1, <1>2 DEF RoomLife!Open
<1> QED
  BY <1>3 DEF RoomLife!Next

\* The rooms live as MatchRooms says, for every number of users, objects, rooms
\* and seats: whatever logins, disconnections, exits and late profiles happen in
\* between, search_inview_match_mgr opens a room only where none gathers,
\* room:enter_room gives a free seat to one who is in no running game and starts
\* the game once, and ExitRoomReq changes no seat of a running game.
THEOREM ImplementsMatchRoomsCorrect == Spec => ImplementsMatchRooms
<1>1. Init => RoomLife!Init
  BY ConstantFacts DEF Init, RoomLife!Init
<1>2. IInv /\ IInv' /\ Full' /\ [Next]_vars => [RoomLife!Next]_(RoomLife!vars)
  <2> SUFFICES ASSUME IInv, IInv', Full', [Next]_vars
               PROVE  [RoomLife!Next]_(RoomLife!vars)
    OBVIOUS
  <2>1. CASE UNCHANGED <<room_state, room_zid, inview_players>>
    BY <2>1 DEF RoomLife!vars
  <2>2. ASSUME NEW z \in Zones, NEW u \in Uids, NEW r \in Rooms, MatchEnter(z, u, r)
        PROVE  [RoomLife!Next]_(RoomLife!vars)
    <3> DEFINE p == zone_wait_list[z][u]
    <3>1. p \in Objs /\ p \notin Robots
      BY <2>2, EntryIsPlay, ObjectsAssumption DEF MatchEnter, Visiting, IInv
    <3>2. r \in Gathering(z) /\ room_zid' = room_zid
      BY <2>2 DEF MatchEnter, search_inview
    <3>3. CASE status[p] = "InView"
      <4>1. enter_room(r, p)
        BY <2>2, <3>3 DEF MatchEnter
      <4> QED
        BY <3>1, <3>2, <3>3, <4>1, EnterSits
    <3>4. CASE status[p] # "InView"
      BY <2>1, <2>2, <3>2, <3>4 DEF MatchEnter
    <3> QED
      BY <3>3, <3>4
  <2>3. ASSUME NEW r \in Rooms, NEW b \in Robots, do_push_to_match(r, b)
        PROVE  [RoomLife!Next]_(RoomLife!vars)
    <3>1. /\ r \in Gathering(SGYD) /\ b \in idle_robots /\ status[b] = "InView"
          /\ enter_room(r, b) /\ room_zid' = room_zid
      BY <2>3 DEF do_push_to_match
    <3> QED
      BY <3>1, EnterSits, ConstantFacts
  <2> QED
    BY <2>1, <2>2, <2>3, ExitLeaves, CreateOpens
       DEF Next, vars, LoginStart, on_player_disconnect, logic_enter_zone,
           LoginLoaded, LoginFailed, on_gateway_disconnect, on_gateway_connect,
           MatchTick, do_new_robot_play, RobotUinfoLoaded, roomVars
<1> QED
  BY <1>1, <1>2, AlwaysFull, PTL DEF Spec, ImplementsMatchRooms, RoomLife!Spec
==============================================================================
