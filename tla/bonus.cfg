CONSTANTS
    q1 = q1
    q2 = q2
    u1 = u1
    u2 = u2
    Users = {u1}
    Reqs = {q1, q2}
    UserOf <- MCOneUser
    Nil = Nil
    login_bonues <- MCBonues
    MaxDay = 4
    Midnight = FALSE
    MaxLost = 1
SPECIFICATION FairSpec
INVARIANT PaidAfterGrant
PROPERTY StreakCounts
PROPERTY RequestEnds
CHECK_DEADLOCK FALSE
