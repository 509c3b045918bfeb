----------------------------- MODULE LogicServer -----------------------------
(***************************************************************************)
(* The logic (battle) server: which players are online, who waits for a    *)
(* match in which zone, and how waiting players and robots are seated in   *)
(* rooms until a game starts.  Sources, all under src/src/script/:         *)
(* logic_server/logic_game_mgr.lua, room.lua, logic_player.lua, robot.lua. *)
(* The session that an object stores is in Sessions.                       *)
(*                                                                         *)
(* The server is one libuv loop: a message handler, a timer callback or a  *)
(* database callback runs to its end before the next one starts.  Every    *)
(* action below is one such callback, except the matching timer, whose     *)
(* loop over the waiting players is a sequence of steps (MatchTick, then   *)
(* CreateRoom and MatchEnter for every entry); while match_todo is not     *)
(* empty that callback is still running and no other action is enabled.    *)
(*                                                                         *)
(* A Lua error inside a handler ends the handler where it stands; what was *)
(* assigned before the error stays.                                        *)
(***************************************************************************)
EXTENDS Integers, FiniteSets

CONSTANTS
    Uids,         \* account ids
    Plays,        \* the objects player:new() can make (one per login)
    Robots,       \* the robot objects
    RobotRank,    \* robot -> its place in the order of pairs(zone_robot_list[SGYD])
    MaxRooms,     \* bound: room objects made in a behaviour
    Nil,          \* Lua's nil
    PLAYER_NUM,   \* players of one side (PLAYER_NUM_3v3)
    SGYD, ASSY,   \* the two zones
    GatewayBreaks, \* bound: TRUE if the connection of the gateway may break
    SlowUinfo     \* TRUE: a robot's profile may be missing when it is matched

ASSUME PlayerNumAssumption == PLAYER_NUM \in Nat \ {0}
ASSUME UidsAssumption == IsFiniteSet(Uids)
ASSUME ObjectsAssumption == /\ Plays \cap Robots = {}
                            /\ Nil \notin Plays \cup Robots \cup Uids
ASSUME RankAssumption == RobotRank \in [Robots -> Nat]
ASSUME ZoneAssumption == SGYD \in Nat /\ ASSY \in Nat /\ SGYD # ASSY
ASSUME BoundsAssumption == /\ MaxRooms \in Nat
                           /\ GatewayBreaks \in BOOLEAN
                           /\ SlowUinfo \in BOOLEAN

Zones == {SGYD, ASSY}
Objs == Plays \cup Robots
Rooms == 1 .. MaxRooms     \* the objects room_moduel:new() makes, in order
SEATS == 2 * PLAYER_NUM
Seats == 1 .. SEATS

VARIABLES
    online_player_map,  \* uid -> player object or Nil
    online_player_num,
    zone_wait_list,     \* zone -> uid -> player object or Nil
    wait_tables,        \* the zones whose table in zone_wait_list exists
    zone_robot_list,    \* the robots of zone SGYD (ASSY never gets any)
    room_list,          \* zone -> the rooms stored under it
    \* per player object
    uid, zid, roomid, seatid, status, uinfo,
    loading,            \* objects whose player:init has not called back
    \* per room object
    room_state, room_id, room_zid, inview_players,
    gateway_up,         \* is the connection of the gateway open
    \* the waiting entries the running matching callback has yet to visit,
    \* and the zone it is in
    match_todo, match_zone

onlineVars == <<online_player_map, online_player_num>>
waitVars == <<zone_wait_list, wait_tables>>
playVars == <<uid, zid, roomid, seatid, status, uinfo>>
roomVars == <<room_list, room_state, room_id, room_zid, inview_players>>
matchVars == <<match_todo, match_zone>>
vars == <<onlineVars, waitVars, zone_robot_list, playVars, loading, roomVars,
          gateway_up, matchVars>>

TypeOK ==
    /\ online_player_map \in [Uids -> Plays \cup {Nil}]
    /\ online_player_num \in Nat
    /\ zone_wait_list \in [Zones -> [Uids -> Plays \cup {Nil}]]
    /\ wait_tables \subseteq Zones
    /\ zone_robot_list \subseteq Robots
    /\ room_list \in [Zones -> SUBSET Rooms]
    /\ uid \in [Plays -> Uids \cup {Nil}]
    /\ zid \in [Objs -> Zones \cup {-1}]
    /\ roomid \in [Objs -> Nat \cup {-1}]
    /\ seatid \in [Objs -> Seats \cup {-1}]
    /\ status \in [Objs -> {"InView", "Playing"}]
    /\ uinfo \in [Objs -> BOOLEAN]
    /\ loading \subseteq Plays
    /\ room_state \in [Rooms -> {"new", "InView", "Playing"}]
    /\ room_id \in [Rooms -> Nat]
    /\ room_zid \in [Rooms -> Zones]
    /\ inview_players \in [Rooms -> [Seats -> Objs \cup {Nil}]]
    /\ gateway_up \in BOOLEAN
    /\ match_todo \subseteq Zones \X Uids
    /\ match_zone \in Zones

Init ==
    /\ online_player_map = [u \in Uids |-> Nil]
    /\ online_player_num = 0
    /\ zone_wait_list = [z \in Zones |-> [u \in Uids |-> Nil]]
    /\ wait_tables = {}
    /\ zone_robot_list = {}
    /\ room_list = [z \in Zones |-> {}]
    /\ uid = [p \in Plays |-> Nil]
    /\ zid = [o \in Objs |-> -1]
    /\ roomid = [o \in Objs |-> -1]
    /\ seatid = [o \in Objs |-> -1]
    /\ status = [o \in Objs |-> "InView"]
    /\ uinfo = [o \in Objs |-> FALSE]
    /\ loading = {}
    /\ room_state = [r \in Rooms |-> "new"]
    /\ room_id = [r \in Rooms |-> 0]
    /\ room_zid = [r \in Rooms |-> SGYD]
    /\ inview_players = [r \in Rooms |-> [s \in Seats |-> Nil]]
    /\ gateway_up = TRUE
    /\ match_todo = {}
    /\ match_zone = SGYD

------------------------------------------------------------------------------
\* The loop takes the next callback only when none is running.
LoopIdle == match_todo = {}

\* A message of the gateway can arrive.
CanReceive == LoopIdle /\ gateway_up

FreshRooms == {r \in Rooms : room_state[r] = "new"}

\* The (at most one) room stored under key id of room_list[z].
RoomsAt(z, id) == {r \in room_list[z] : room_id[r] = id}

FreeSeats(r) == {s \in Seats : inview_players[r][s] = Nil}

\* Objects other than p in a seat of r.
Companions(r, p) == {inview_players[r][s] : s \in Seats} \ {Nil, p}

\* g_room_id is a local that nothing assigns after its declaration:
\* room:init increments a global named roomid instead.
g_room_id == 1

------------------------------------------------------------------------------
(* Login, disconnection and the connection to the gateway                  *)

\* login_server_enter for a uid that is not online: a new object starts to load
\* (for one that is, only the session of its object is replaced, see Sessions).
\* A second request of the same uid while the first one loads makes a second
\* object.
LoginStart(u, p) ==
    /\ CanReceive
    /\ online_player_map[u] = Nil
    /\ uid[p] = Nil
    /\ uid' = [uid EXCEPT ![p] = u]
    /\ loading' = loading \cup {p}
    /\ UNCHANGED <<onlineVars, waitVars, zone_robot_list, roomVars, gateway_up,
                   matchVars, zid, roomid, seatid, status, uinfo>>

\* Mutant of AlreadyOnline: the check is forgotten.
AlreadyOnline_Unchecked(u) == FALSE

\* The check of the callback of player:init: another login of the same user
\* may have come first.
AlreadyOnline(u) == online_player_map[u] # Nil

\* The callback of player:init: the game record and the profile were read.
LoginLoaded(p) ==
    /\ LoopIdle
    /\ p \in loading
    /\ loading' = loading \ {p}
    /\ uinfo' = [uinfo EXCEPT ![p] = TRUE]
    /\ IF AlreadyOnline(uid[p])
       THEN UNCHANGED onlineVars
       ELSE /\ online_player_map' = [online_player_map EXCEPT ![uid[p]] = p]
            /\ online_player_num' = online_player_num + 1
    /\ UNCHANGED <<waitVars, zone_robot_list, roomVars, gateway_up, matchVars,
                   uid, zid, roomid, seatid, status>>

\* The callback of player:init with an error: SystemErr is answered.
LoginFailed(p) ==
    /\ LoopIdle
    /\ p \in loading
    /\ loading' = loading \ {p}
    /\ UNCHANGED <<onlineVars, waitVars, zone_robot_list, playVars, roomVars,
                   gateway_up, matchVars>>

\* The gateway reports that the connection of user u is lost.  The player
\* leaves the waiting list of its zone and the online map; a seat it holds
\* stays taken.
on_player_disconnect(u) ==
    LET p == online_player_map[u] IN
    /\ CanReceive
    /\ p # Nil
    /\ zid' = [zid EXCEPT ![p] = -1]
    /\ zone_wait_list' = IF zid[p] = -1 THEN zone_wait_list
                         ELSE [zone_wait_list EXCEPT ![zid[p]][u] = Nil]
    /\ online_player_map' = [online_player_map EXCEPT ![u] = Nil]
    /\ online_player_num' = IF online_player_num = 0 THEN 0
                            ELSE online_player_num - 1
    /\ UNCHANGED <<wait_tables, zone_robot_list, loading, roomVars, gateway_up,
                   matchVars, uid, roomid, seatid, status, uinfo>>

\* The connection to the gateway breaks: the players stay online.
on_gateway_disconnect ==
    /\ GatewayBreaks
    /\ CanReceive
    /\ gateway_up' = FALSE
    /\ UNCHANGED <<onlineVars, waitVars, zone_robot_list, playVars, loading, roomVars,
                   matchVars>>

\* The gateway has connected again.
on_gateway_connect ==
    /\ LoopIdle
    /\ ~gateway_up
    /\ gateway_up' = TRUE
    /\ UNCHANGED <<onlineVars, waitVars, zone_robot_list, playVars, loading, roomVars,
                   matchVars>>

------------------------------------------------------------------------------
(* Waiting lists and rooms                                                 *)

\* Mutant of WithTable: only the table of the first zone is made.
WithTable_OnlyFirst(z) == wait_tables \cup {SGYD}

\* The first entry of a zone makes the table of the zone.
WithTable(z) == wait_tables \cup {z}

\* EnterZoneReq: refused (no state change) unless the player is online and in
\* no zone.
logic_enter_zone(u, z) ==
    LET p == online_player_map[u] IN
    /\ CanReceive
    /\ p # Nil
    /\ zid[p] = -1
    /\ wait_tables' = WithTable(z)
    /\ zid' = [zid EXCEPT ![p] = z]
    /\ zone_wait_list' = [zone_wait_list EXCEPT ![z][u] = p]
    /\ UNCHANGED <<onlineVars, zone_robot_list, loading, roomVars, gateway_up,
                   matchVars, uid, roomid, seatid, status, uinfo>>

\* Mutant of MayExit: whether the game has started is not asked.
MayExit_Always(p, r) == TRUE

\* Only a player that is not in a game may exit, and only from a gathering room.
MayExit(p, r) == status[p] = "InView" /\ room_state[r] = "InView"

\* ExitRoomReq with room:exit_room.  The room is looked up by the zone and the
\* room id the object remembers (room_list[-1] is a Lua error: no change); the
\* seat that is freed is the seat number it remembers.  roomid is not reset,
\* and the waiting list is not touched.
ExitRoomReq(u) ==
    LET p == online_player_map[u] IN
    /\ CanReceive
    /\ p # Nil
    /\ zid[p] # -1
    /\ \E r \in RoomsAt(zid[p], roomid[p]) :
          /\ MayExit(p, r)
          /\ inview_players' =
                [inview_players EXCEPT ![r] =
                    [s \in Seats |-> IF s = seatid[p] THEN Nil ELSE @[s]]]
    /\ zid' = [zid EXCEPT ![p] = -1]
    /\ seatid' = [seatid EXCEPT ![p] = -1]
    /\ UNCHANGED <<onlineVars, waitVars, zone_robot_list, loading, room_list,
                   room_state, room_id, room_zid, gateway_up, matchVars, uid,
                   roomid, status, uinfo>>

\* room:enter_room, past its check that both room and object are InView: the
\* lowest free seat is taken first; then the profiles of p and of everyone
\* seated are read (EnterRaises: the Lua error of a missing one, after the seat
\* was taken and before the room is started); then the room starts its game if
\* it is full.
TakeSeat(r, p) ==
    /\ roomid' = [roomid EXCEPT ![p] = room_id[r]]
    /\ \/ /\ FreeSeats(r) = {}
          /\ UNCHANGED <<inview_players, seatid>>
       \/ \E s \in FreeSeats(r) :
             /\ \A t \in FreeSeats(r) : s <= t
             /\ inview_players' = [inview_players EXCEPT ![r][s] = p]
             /\ seatid' = [seatid EXCEPT ![p] = s]

EnterRaises(r, p) == \E o \in {p} \cup Companions(r, p) : ~uinfo[o]

\* Mutant of SeatsCounted: > SEATS - 2 instead of >= SEATS.
SeatsCounted_OneEarly(players) == players[SEATS - 1] # Nil

\* #inview_players >= PLAYER_NUM_3v3 * 2.  The array part of the table has
\* exactly SEATS slots once the last seat is taken (Lua 5.3 doubles it: 1, 2,
\* 4), and then # answers SEATS whenever the last slot is not nil.
SeatsCounted(players) == players[SEATS] # Nil

\* Mutant of StartIfFull: only the room is marked.
StartIfFull_RoomOnly(r) ==
    /\ room_state' = IF SeatsCounted(inview_players'[r])
                     THEN [room_state EXCEPT ![r] = "Playing"] ELSE room_state
    /\ UNCHANGED status

\* room:game_start (with update_play_status), run by the entry that completes
\* the room.
StartIfFull(r) ==
    IF SeatsCounted(inview_players'[r])
    THEN /\ room_state' = [room_state EXCEPT ![r] = "Playing"]
         /\ status' = [o \in Objs |->
                IF \E s \in Seats : inview_players'[r][s] = o
                THEN "Playing" ELSE status[o]]
    ELSE UNCHANGED <<room_state, status>>

enter_room(r, p) ==
    /\ TakeSeat(r, p)
    /\ IF EnterRaises(r, p)
       THEN UNCHANGED <<room_state, status>>
       ELSE StartIfFull(r)

\* Mutant of NoWaitList: the length is compared with 1.
NoWaitList_NeedTwo == Zones \ wait_tables # {}

\* #zone_wait_list == 0, the first test of do_match_sgyd_map: it is true as long
\* as zone 1 (SGYD) has no table, whoever waits elsewhere.
NoWaitList == SGYD \notin wait_tables

Waiting == {e \in Zones \X Uids : zone_wait_list[e[1]][e[2]] # Nil}

Gathering(z) == {r \in room_list[z] : room_state[r] = "InView"}

\* Bound: the callback starts only while MaxRooms leaves a new room for every
\* waiting entry beyond the free seats of the gathering room of its zone.
RoomsSuffice ==
    LET Excess(z) ==
            LET w == Cardinality({e \in Waiting : e[1] = z})
                f == Cardinality(UNION {{r} \X FreeSeats(r) : r \in Gathering(z)})
            IN IF w > f THEN w - f ELSE 0
    IN Excess(SGYD) + Excess(ASSY) <= Cardinality(FreshRooms)

\* do_match_sgyd_map begins.
MatchTick ==
    /\ LoopIdle
    /\ ~NoWaitList
    /\ Waiting # {}
    /\ RoomsSuffice
    /\ match_todo' = Waiting
    /\ match_zone' \in Zones
    /\ UNCHANGED <<onlineVars, waitVars, zone_robot_list, playVars, loading,
                   roomVars, gateway_up>>

\* The zones are visited one after the other, the entries of a zone in any
\* order.
Visiting(z, u) ==
    /\ <<z, u>> \in match_todo
    /\ z = match_zone \/ \A e \in match_todo : e[1] # match_zone

\* Mutant of search_inview: the search never finds the room it made.
search_inview_Nothing(z) == {}

\* The rooms the search of search_inview_match_mgr can return.
search_inview(z) == Gathering(z)

\* search_inview_match_mgr finds no gathering room and makes one; it is stored
\* under its id and replaces the room stored there.
CreateRoom(z, u, r) ==
    /\ Visiting(z, u)
    /\ search_inview(z) = {}
    /\ r \in FreshRooms
    /\ \A q \in FreshRooms : r <= q
    /\ match_zone' = z
    /\ room_state' = [room_state EXCEPT ![r] = "InView"]
    /\ room_id' = [room_id EXCEPT ![r] = g_room_id]
    /\ room_zid' = [room_zid EXCEPT ![r] = z]
    /\ room_list' = [room_list EXCEPT ![z] = (@ \ RoomsAt(z, g_room_id)) \cup {r}]
    /\ UNCHANGED <<onlineVars, waitVars, zone_robot_list, playVars, loading,
                   inview_players, gateway_up, match_todo>>

\* One turn of the loop of do_match_sgyd_map with a gathering room r: the entry
\* is removed when enter_room returns true, stays when it returns false, and
\* ends the whole callback when it raises.
MatchEnter(z, u, r) ==
    LET p == zone_wait_list[z][u] IN
    /\ Visiting(z, u)
    /\ r \in search_inview(z)
    /\ IF status[p] # "InView"
       THEN /\ match_todo' = match_todo \ {<<z, u>>}
            /\ UNCHANGED <<zone_wait_list, roomid, seatid, status, room_state,
                           inview_players>>
       ELSE /\ enter_room(r, p)
            /\ IF EnterRaises(r, p)
               THEN /\ match_todo' = {}
                    /\ UNCHANGED zone_wait_list
               ELSE /\ match_todo' = match_todo \ {<<z, u>>}
                    /\ zone_wait_list' = [zone_wait_list EXCEPT ![z][u] = Nil]
    /\ match_zone' = IF match_todo' = {} THEN SGYD ELSE z
    /\ UNCHANGED <<onlineVars, wait_tables, zone_robot_list, loading, room_list,
                   room_id, room_zid, gateway_up, uid, zid, uinfo>>

------------------------------------------------------------------------------
(* Robots                                                                  *)

\* do_new_robot_play, at the end of the load_robots chain: every robot goes to
\* zone SGYD.  Its own profile is read afterwards, by player:init.
do_new_robot_play ==
    /\ LoopIdle
    /\ zone_robot_list = {}
    /\ Robots # {}
    /\ zone_robot_list' = Robots
    /\ zid' = [o \in Objs |-> IF o \in Robots THEN SGYD ELSE zid[o]]
    /\ uinfo' = [o \in Objs |-> IF o \in Robots THEN ~SlowUinfo ELSE uinfo[o]]
    /\ UNCHANGED <<onlineVars, waitVars, loading, roomVars, gateway_up, matchVars,
                   uid, roomid, seatid, status>>

\* The callback that stores a robot's profile.
RobotUinfoLoaded(b) ==
    /\ LoopIdle
    /\ b \in zone_robot_list
    /\ ~uinfo[b]
    /\ uinfo' = [uinfo EXCEPT ![b] = TRUE]
    /\ UNCHANGED <<onlineVars, waitVars, zone_robot_list, loading, roomVars,
                   gateway_up, matchVars, uid, zid, roomid, seatid, status>>

\* Mutants of idle_robots: a seated robot counts as idle; the zone is tested
\* instead of the room.
idle_robots_All == zone_robot_list
idle_robots_NoZone == {b \in zone_robot_list : zid[b] = -1}

\* search_idle_robot: a robot that was never given a room.
idle_robots == {b \in zone_robot_list : roomid[b] = -1}

\* do_push_to_match: a gathering room of the robots' zone gets the idle robot that
\* pairs comes to first; the table does not change any more, nor does its order.
do_push_to_match(r, b) ==
    /\ LoopIdle
    /\ r \in Gathering(SGYD)
    /\ b \in idle_robots
    /\ \A c \in idle_robots : RobotRank[b] <= RobotRank[c]
    /\ status[b] = "InView"
    /\ enter_room(r, b)
    /\ zid' = [zid EXCEPT ![b] = SGYD]
    /\ UNCHANGED <<onlineVars, waitVars, zone_robot_list, loading, room_list,
                   room_id, room_zid, gateway_up, matchVars, uid, uinfo>>

------------------------------------------------------------------------------
Next ==
    \/ \E u \in Uids : \/ \E p \in Plays : LoginStart(u, p)
                       \/ on_player_disconnect(u)
                       \/ \E z \in Zones : logic_enter_zone(u, z)
                       \/ ExitRoomReq(u)
    \/ \E p \in Plays : LoginLoaded(p) \/ LoginFailed(p)
    \/ on_gateway_disconnect
    \/ on_gateway_connect
    \/ MatchTick
    \/ \E z \in Zones, u \in Uids, r \in Rooms : CreateRoom(z, u, r)
    \/ \E z \in Zones, u \in Uids, r \in Rooms : MatchEnter(z, u, r)
    \/ do_new_robot_play
    \/ \E b \in Robots : RobotUinfoLoaded(b)
    \/ \E r \in Rooms, b \in Robots : do_push_to_match(r, b)

Spec == Init /\ [][Next]_vars

MatchStep == \E z \in Zones, u \in Uids, r \in Rooms :
                CreateRoom(z, u, r) \/ MatchEnter(z, u, r)

\* A running callback ends (weak fairness: only its own steps are enabled).
\* The repeating timers and the database callback wait only while another
\* callback runs, and libuv runs every due one in each turn of the loop: they
\* are not passed over for ever (strong fairness).
Fairness ==
    /\ WF_vars(MatchStep)
    /\ SF_vars(MatchTick)
    /\ SF_vars(do_new_robot_play)
    /\ SF_vars(\E r \in Rooms, b \in Robots : do_push_to_match(r, b))

FairSpec == Spec /\ Fairness

------------------------------------------------------------------------------
(* What the server keeps right                                             *)

\* online_player_num is the number of players in online_player_map, although
\* logins complete in callbacks that may find their uid already there.
OnlineNum ==
    online_player_num = Cardinality({u \in Uids : online_player_map[u] # Nil})

\* An object is marked Playing exactly when it sits in a room whose game runs:
\* no player is locked out of the lobby without a game, and no game holds a
\* player the lobby still treats as free.
PlayingIffSeated ==
    \A o \in Objs :
        status[o] = "Playing" <=>
            \E r \in Rooms, s \in Seats :
                room_state[r] = "Playing" /\ inview_players[r][s] = o

\* A room that still gathers players can be found: it is stored in the list of
\* its zone and it is the only gathering room there.  Rooms share one id and
\* overwrite each other, but what is overwritten is never a gathering room.
GatheringListed ==
    \A r \in Rooms : room_state[r] = "InView" => Gathering(room_zid[r]) = {r}

\* A robot never holds two seats, and only sits in rooms of zone SGYD.
RobotSeatedOnce ==
    \A b \in Robots, q, r \in Rooms, s, t \in Seats :
        inview_players[q][s] = b /\ inview_players[r][t] = b =>
            q = r /\ s = t /\ room_zid[q] = SGYD

\* The table that on_player_disconnect and ExitRoomReq index by the zone of an
\* online player exists.
ZoneTableExists ==
    \A u \in Uids : LET p == online_player_map[u] IN
        p # Nil /\ zid[p] # -1 => zid[p] \in wait_tables

\* Once a game runs, its room keeps its state and every seat, whatever logins,
\* disconnections, exits and timers do.
GameFrozen ==
    [][\A r \in Rooms : room_state[r] = "Playing" =>
            /\ room_state'[r] = "Playing"
            /\ inview_players'[r] = inview_players[r]]_vars

\* The rooms live as MatchRooms says: whatever logins, disconnections, exits and
\* late profiles happen in between, one room gathers in a zone at a time, a seat
\* goes to one who is in no running game, and the game starts once, with every
\* seat taken if no profile is late, and keeps its seats.
RoomLife == INSTANCE MatchRooms WITH state <- room_state, zone <- room_zid,
                seats <- inview_players, RobotZone <- SGYD, MayStartShort <- SlowUinfo

ImplementsMatchRooms == RoomLife!Spec

\* A game runs with every seat taken, although exits leave holes in the row of
\* seats and the room counts it with #.  Only without SlowUinfo.
GameStartsFull ==
    \A r \in Rooms : room_state[r] = "Playing" =>
        \A s \in Seats : inview_players[r][s] # Nil

\* Who waits in a zone is taken off the list (seated, disconnected), unless a
\* game it already plays keeps it from any other room; in zone ASSY this takes
\* somebody who ever entered SGYD (see NoWaitList).
WaitingServed ==
    \A z \in Zones, u \in Uids, p \in Plays :
        zone_wait_list[z][u] = p /\ SGYD \in wait_tables ~>
            zone_wait_list[z][u] # p \/ status[p] = "Playing"

\* With enough idle robots a gathering room of their zone gets its game, even
\* when players keep entering and leaving; the one thing that can prevent it is
\* a seated robot losing its seat to the exit of a player that remembers
\* it from another room (room.lua:58), because it then never counts as idle again.
Evicted(b) == /\ roomid[b] # -1
              /\ \A r \in Rooms, s \in Seats : inview_players[r][s] # b

RobotsFillRoom ==
    \A r \in Rooms :
        (/\ r \in Gathering(SGYD)
         /\ Cardinality({b \in zone_robot_list : roomid[b] = -1}) >= SEATS)
        ~> (room_state[r] = "Playing" \/ \E b \in Robots : Evicted(b))

==============================================================================
