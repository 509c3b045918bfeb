CONSTANTS
    Uids = {u1}
    Plays = {p1}
    Robots = {b1, b2, b3, b4}
    MaxRooms = 3
    Nil = Nil
    RobotRank <- MCRobotRank
    PLAYER_NUM = 2
    SGYD = 1
    ASSY = 2
    GatewayBreaks = FALSE
    SlowUinfo = FALSE
SPECIFICATION FairSpec
INVARIANT GameStartsFull
PROPERTY WaitingServed
PROPERTY RobotsFillRoom
CHECK_DEADLOCK FALSE
