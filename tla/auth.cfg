CONSTANTS
    k1 = k1
    n1 = n1
    Keys = {k1, k2}
    Names = {n1}
    Profiles = {a, b}
    Reqs = {q1, q2}
    NewProfile = a
    OldRows <- MCOldRows
    Nil = Nil
    MaxUid = 3
    MaxCame = 3
    MaxLost = 1
SPECIFICATION FairSpec
INVARIANT CacheAgrees
PROPERTY GuestStaysOut
PROPERTY GuestAnswered
CHECK_DEADLOCK FALSE
