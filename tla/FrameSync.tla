------------------------------ MODULE FrameSync ------------------------------
(***************************************************************************)
(* Frame synchronisation of running games: 66 ms timer, frame log, and the *)
(* UDP datagrams between a room and its players, which may be lost,        *)
(* duplicated and reordered: a datagram stays in udp_down or udp_up and is *)
(* delivered any number of times, or never.  Sources: logic_server/        *)
(* room.lua and logic_game_mgr.lua (on_next_fream_recv).                   *)
(*                                                                         *)
(* The rooms are those of one zone.  They all have the id 1 (see           *)
(* LogicServer), so a NextFrameOpts names the room stored last, whichever  *)
(* room its sender sits in.  The players' side is not in the repository;   *)
(* it follows from proto/game.proto and from what the server expects: a    *)
(* player applies the frames that are newer than its last one and sends    *)
(* its operations for the next one.  Seats of robots are left out: nothing *)
(* is sent to a robot, and it sends nothing.                               *)
(***************************************************************************)
EXTENDS Integers, Sequences, SequencesExt

CONSTANTS
    Rooms,       \* the rooms made in the zone, numbered in order
    Seats,       \* the seats of a room that players take, not robots
    MaxFrames,   \* bound: frames of a game
    MaxOpts      \* bound: operations of a frame

ASSUME RoomsAssumption == Rooms \subseteq Nat \ {0}
ASSUME FrameBounds == MaxFrames \in Nat /\ MaxOpts \in Nat

VARIABLES
    listed,             \* the room stored under the id, 0: none
    room_state,
    frameid,            \* the frame whose operations are being collected
    all_frame_list,
    next_frame_list,    \* the operations collected for it
    cur_sync_frame_id,  \* room -> seat -> the last frame the server thinks applied
    frames,             \* room -> seat -> the frames the player applied
    udp_down, udp_up,   \* datagrams sent to players, to the server
    session,            \* room -> seat -> "set"; "nil" while the gateway is away;
                        \* "gone" once the player has left
    addressed           \* room -> the seats whose player has an UDP address and port

roomVars == <<listed, room_state, frameid, all_frame_list, next_frame_list,
              cur_sync_frame_id>>
playerVars == <<session, addressed>>
vars == <<roomVars, frames, udp_down, udp_up, playerVars>>

\* An operation says whose it is and which frame its player saw last.
Opts == [room : Rooms, seatid : Seats, after : 0 .. MaxFrames]
FrameOpts == [frameid : 1 .. MaxFrames, opts : BoundedSeq(Opts, MaxOpts)]

LastFrame(r, s) == IF frames[r][s] = <<>> THEN 0 ELSE Last(frames[r][s]).frameid

TypeOK ==
    /\ listed \in Rooms \cup {0}
    /\ room_state \in [Rooms -> {"new", "InView", "Playing"}]
    /\ frameid \in [Rooms -> 0 .. MaxFrames + 1]
    /\ all_frame_list \in [Rooms -> Seq(FrameOpts)]
    /\ next_frame_list \in [Rooms -> BoundedSeq(Opts, MaxOpts)]
    /\ cur_sync_frame_id \in [Rooms -> [Seats -> 0 .. MaxFrames]]
    /\ frames \in [Rooms -> [Seats -> Seq(FrameOpts)]]
    /\ udp_down \subseteq [room : Rooms, seatid : Seats, frameid : 1 .. MaxFrames,
                           unsync_frames : Seq(FrameOpts) \ {<<>>}]
    /\ udp_up \subseteq [seatid : Seats, frameid : 1 .. MaxFrames + 1, opts : Seq(Opts)]
    /\ session \in [Rooms -> [Seats -> {"set", "nil", "gone"}]]
    /\ addressed \in [Rooms -> SUBSET Seats]

Init ==
    /\ listed = 0
    /\ room_state = [r \in Rooms |-> "new"]
    /\ frameid = [r \in Rooms |-> 0]
    /\ all_frame_list = [r \in Rooms |-> <<>>]
    /\ next_frame_list = [r \in Rooms |-> <<>>]
    /\ cur_sync_frame_id = [r \in Rooms |-> [s \in Seats |-> 0]]
    /\ frames = [r \in Rooms |-> [s \in Seats |-> <<>>]]
    /\ udp_down = {}
    /\ udp_up = {}
    /\ session = [r \in Rooms |-> [s \in Seats |-> "set"]]
    /\ addressed \in [Rooms -> SUBSET Seats]

------------------------------------------------------------------------------
\* search_inview_match_mgr makes the next room, once no room gathers players,
\* and stores it in the place of the one before.
room_created(r) ==
    /\ room_state[r] = "new"
    /\ \A q \in Rooms : q < r => room_state[q] = "Playing"
    /\ room_state' = [room_state EXCEPT ![r] = "InView"]
    /\ listed' = r
    /\ UNCHANGED <<frameid, all_frame_list, next_frame_list, cur_sync_frame_id,
                   frames, udp_down, udp_up, playerVars>>

\* room:game_start; enter_room has set cur_sync_frame_id to 0 before.
game_start(r) ==
    /\ room_state[r] = "InView"
    /\ room_state' = [room_state EXCEPT ![r] = "Playing"]
    /\ frameid' = [frameid EXCEPT ![r] = 1]
    /\ all_frame_list' = [all_frame_list EXCEPT ![r] = <<>>]
    /\ next_frame_list' = [next_frame_list EXCEPT ![r] = <<>>]
    /\ UNCHANGED <<listed, cur_sync_frame_id, frames, udp_down, udp_up, playerVars>>

\* Mutant of unsync_frames: one frame too few.
unsync_frames_Short(log, synced) == SubSeq(log, synced + 2, Len(log))

\* The frames send_unsync_frame puts in the datagram of a player.
unsync_frames(log, synced) == SubSeq(log, synced + 1, Len(log))

\* udp_send_cmd sends nothing to a player without a session or an address.
Reachable(r, s) == session[r][s] = "set" /\ s \in addressed[r]

FrameAfter(f) == f + 1

\* The timer of room r: the frame collected so far ends.
do_logic_frame_sync(r) ==
    LET log == Append(all_frame_list[r],
                      [frameid |-> frameid[r], opts |-> next_frame_list[r]])
    IN
    /\ room_state[r] = "Playing"
    /\ Len(log) <= MaxFrames
    /\ all_frame_list' = [all_frame_list EXCEPT ![r] = log]
    /\ udp_down' = udp_down \cup
          {m \in {[room |-> r, seatid |-> s, frameid |-> frameid[r],
                   unsync_frames |-> unsync_frames(log, cur_sync_frame_id[r][s])] :
                  s \in {t \in Seats : Reachable(r, t)}} :
           m.unsync_frames # <<>>}
    /\ frameid' = [frameid EXCEPT ![r] = FrameAfter(@)]
    /\ next_frame_list' = [next_frame_list EXCEPT ![r] = <<>>]
    /\ UNCHANGED <<listed, room_state, cur_sync_frame_id, frames, udp_up, playerVars>>

\* Mutant of SyncedBy: the frame the player is about to send counts as applied.
SyncedBy_Next(m) == m.frameid

\* The last frame the sender of m must have applied.
SyncedBy(m) == m.frameid - 1

\* Mutant of ForThisFrame: the frame is not compared.
ForThisFrame_Any(m, r) == TRUE

ForThisFrame(m, r) == m.frameid = frameid[r]

\* on_next_fream_recv and push_next_frame.
push_next_frame(m) ==
    LET r == listed
        accepted == ForThisFrame(m, r)
    IN
    /\ m \in udp_up
    /\ r # 0
    /\ room_state[r] = "Playing"
    /\ accepted => Len(next_frame_list[r] \o m.opts) <= MaxOpts
    /\ cur_sync_frame_id' =
          [cur_sync_frame_id EXCEPT ![r][m.seatid] = IF @ < SyncedBy(m) THEN SyncedBy(m) ELSE @]
    /\ next_frame_list' =
          IF accepted THEN [next_frame_list EXCEPT ![r] = @ \o m.opts] ELSE next_frame_list
    /\ UNCHANGED <<listed, room_state, frameid, all_frame_list, frames, udp_down, udp_up,
                   playerVars>>

------------------------------------------------------------------------------
(* The connections of the players, through the gateway                     *)

\* on_gateway_disconnect: no online player has a session.
on_gateway_disconnect ==
    /\ session' = [r \in Rooms |-> [s \in Seats |->
                      IF session[r][s] = "set" THEN "nil" ELSE session[r][s]]]
    /\ UNCHANGED <<roomVars, frames, udp_down, udp_up, addressed>>

\* on_gateway_connect: every online player has the new one.
on_gateway_connect ==
    /\ session' = [r \in Rooms |-> [s \in Seats |->
                      IF session[r][s] = "nil" THEN "set" ELSE session[r][s]]]
    /\ UNCHANGED <<roomVars, frames, udp_down, udp_up, addressed>>

\* A player in a room leaves: its object keeps seat and address, but will not get a
\* session again, also if the user comes back, as another object.
on_player_disconnect(r, s) ==
    /\ room_state[r] # "new"
    /\ session[r][s] = "set"
    /\ session' = [session EXCEPT ![r][s] = "gone"]
    /\ UNCHANGED <<roomVars, frames, udp_down, udp_up, addressed>>

\* A player that is online logs in again, with an UDP port this time.
login_server_enter(r, s) ==
    /\ session[r][s] = "set"
    /\ addressed' = [addressed EXCEPT ![r] = @ \cup {s}]
    /\ UNCHANGED <<roomVars, frames, udp_down, udp_up, session>>

------------------------------------------------------------------------------
\* A player receives a LogicFrame and applies the frames of it from the first
\* one on that it has not applied.
LogicFrame(m) ==
    LET new == m.unsync_frames
        last == LastFrame(m.room, m.seatid)
    IN
    /\ m \in udp_down
    /\ \E i \in DOMAIN new :
          /\ new[i].frameid > last
          /\ \A j \in 1 .. i - 1 : new[j].frameid <= last
          /\ frames' = [frames EXCEPT ![m.room][m.seatid] = @ \o SubSeq(new, i, Len(new))]
    /\ UNCHANGED <<roomVars, udp_down, udp_up, playerVars>>

\* A player in a game sends its operations for the next frame.  (One operation
\* stands for them; a datagram without any acts like one whose operation is late.
\* Bound: none is sent after the last frame.)
NextFrameOpts(r, s) ==
    LET last == LastFrame(r, s)
        op == [room |-> r, seatid |-> s, after |-> last]
    IN
    /\ room_state[r] = "Playing"
    /\ last < MaxFrames
    /\ udp_up' = udp_up \cup {[seatid |-> s, frameid |-> last + 1, opts |-> <<op>>]}
    /\ UNCHANGED <<roomVars, frames, udp_down, playerVars>>

Next ==
    \/ \E r \in Rooms : room_created(r) \/ game_start(r) \/ do_logic_frame_sync(r)
    \/ \E m \in udp_up : push_next_frame(m)
    \/ \E m \in udp_down : LogicFrame(m)
    \/ on_gateway_disconnect \/ on_gateway_connect
    \/ \E r \in Rooms, s \in Seats : \/ on_player_disconnect(r, s)
                                     \/ login_server_enter(r, s)
                                     \/ NextFrameOpts(r, s)

Spec == Init /\ [][Next]_vars

------------------------------------------------------------------------------
(* What the players of a game can rely on                                  *)

\* The collected frame is the one after the log, and the log has no gap.
FramesNumbered ==
    \A r \in Rooms : room_state[r] = "Playing" =>
        /\ frameid[r] = Len(all_frame_list[r]) + 1
        /\ \A i \in DOMAIN all_frame_list[r] : all_frame_list[r][i].frameid = i

\* An operation is carried out in the frame right after the last one its
\* player had seen, however late or often its datagram arrives.
OpsInTheirFrame ==
    \A r \in Rooms : \A i \in DOMAIN all_frame_list[r] :
        \A op \in Range(all_frame_list[r][i].opts) : op.after = i - 1

\* The game that the zone's first room plays.  Datagrams of its players reach only
\* it, until a later room is stored under the id; from then on none reaches it.
FirstGames == {r \in Rooms : \A q \in Rooms : r <= q}

\* Every end of a frame sends each player that can be sent to, in one datagram, all
\* it lacks: one delivered datagram is enough to catch up, whatever was lost, or not
\* sent while the gateway was away or the address unknown.
EveryTickCatchesUp ==
    [][\A r \in FirstGames : Len(all_frame_list'[r]) > Len(all_frame_list[r]) =>
          \A s \in {t \in Seats : Reachable(r, t)} : \E m \in udp_down' :
              /\ m.room = r /\ m.seatid = s
              /\ Head(m.unsync_frames).frameid <= LastFrame(r, s) + 1
              /\ Last(m.unsync_frames) = Last(all_frame_list'[r])]_vars

\* Every player applies the same log, in order and without a gap.
Log == INSTANCE FrameLog WITH Games <- FirstGames, Players <- Seats, Frames <- FrameOpts,
                              log <- [r \in FirstGames |-> all_frame_list[r]],
                              seen <- [r \in FirstGames |-> frames[r]]

ImplementsFrameLog == Log!Spec

(* What the code's comments say, and the code does only for the first game *)

\* room.lua:225-237, the frames a player has not synchronised are sent: the
\* server never takes a frame for applied that its player has not applied.
NoFrameSkipped ==
    \A r \in FirstGames, s \in Seats : cur_sync_frame_id[r][s] <= LastFrame(r, s)
==============================================================================
