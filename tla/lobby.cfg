CONSTANTS
    Uids = {u1, u2}
    Plays = {p1, p2, p3}
    Robots = {b1}
    MaxRooms = 2
    Nil = Nil
    RobotRank <- MCRobotRank
    PLAYER_NUM = 1
    SGYD = 1
    ASSY = 2
    GatewayBreaks = TRUE
    SlowUinfo = TRUE
SPECIFICATION Spec
SYMMETRY MCSymmetry
INVARIANT OnlineNum
INVARIANT PlayingIffSeated
INVARIANT GatheringListed
INVARIANT RobotSeatedOnce
INVARIANT ZoneTableExists
PROPERTY ImplementsMatchRooms
CHECK_DEADLOCK FALSE
