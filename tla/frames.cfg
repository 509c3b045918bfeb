CONSTANTS
    Rooms = {1}
    Seats = {s1, s2}
    MaxFrames = 3
    MaxOpts = 2
SPECIFICATION Spec
SYMMETRY MCSymmetry
INVARIANT OpsInTheirFrame
INVARIANT NoFrameSkipped
PROPERTY EveryTickCatchesUp
PROPERTY ImplementsFrameLog
CHECK_DEADLOCK FALSE
