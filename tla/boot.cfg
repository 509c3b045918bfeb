CONSTANTS
    NumRobots = 2
    Players = {p1}
    MaxFails = 1
    MaxLost = 1
SPECIFICATION FairSpec
INVARIANT OneAttempt
INVARIANT RobotNeverSilent
PROPERTY RetriedLinksConnect
PROPERTY PollingEnds
PROPERTY LoginCalledBack
CHECK_DEADLOCK FALSE
