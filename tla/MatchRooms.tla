----------------------------- MODULE MatchRooms -----------------------------
(***************************************************************************)
(* What the lobby promises about its rooms: a room gathers for one zone,   *)
(* where no other room gathers, fills and empties seat by seat, then runs  *)
(* a game whose seats nobody takes, leaves or changes any more.            *)
(***************************************************************************)
EXTENDS Integers

CONSTANTS
    Rooms, Zones, Seats,
    Objs,          \* players and robots
    Robots,
    Nil,
    RobotZone,     \* the zone of the robots
    MayStartShort  \* TRUE: a game may start with an empty seat

VARIABLES
    state,         \* room -> "new", "InView" (it gathers) or "Playing"
    zone,          \* room -> the zone it gathers for
    seats          \* room -> seat -> who sits there, or Nil

vars == <<state, zone, seats>>

Init ==
    /\ state = [r \in Rooms |-> "new"]
    /\ zone \in [Rooms -> Zones]
    /\ seats = [r \in Rooms |-> [s \in Seats |-> Nil]]

Sits(o, r) == \E s \in Seats : seats[r][s] = o

Open(r, z) ==
    /\ state[r] = "new"
    /\ \A q \in Rooms : ~(state[q] = "InView" /\ zone[q] = z)
    /\ state' = [state EXCEPT ![r] = "InView"]
    /\ zone' = [zone EXCEPT ![r] = z]
    /\ UNCHANGED seats

Start(r) ==
    /\ MayStartShort \/ \A s \in Seats : seats'[r][s] # Nil
    /\ state' = [state EXCEPT ![r] = "Playing"]

\* Players are not in a running game, robots nowhere else.
Sit(r, o) ==
    /\ state[r] = "InView"
    /\ ~\E q \in Rooms : state[q] = "Playing" /\ Sits(o, q)
    /\ o \in Robots => zone[r] = RobotZone /\ ~\E q \in Rooms : Sits(o, q)
    /\ \E s \in Seats : seats[r][s] = Nil /\ seats' = [seats EXCEPT ![r][s] = o]
    /\ UNCHANGED state \/ Start(r)
    /\ UNCHANGED zone

\* The game starts although nobody sits down now.
StartLate(r) ==
    /\ state[r] = "InView"
    /\ Start(r)
    /\ UNCHANGED <<zone, seats>>

Leave(r, s) ==
    /\ state[r] = "InView"
    /\ seats' = [seats EXCEPT ![r][s] = Nil]
    /\ UNCHANGED <<state, zone>>

Next ==
    \E r \in Rooms :
        \/ \E z \in Zones : Open(r, z)
        \/ \E o \in Objs : Sit(r, o)
        \/ StartLate(r)
        \/ \E s \in Seats : Leave(r, s)

Spec == Init /\ [][Next]_vars
=============================================================================
