CONSTANTS
    q1 = q1
    q2 = q2
    u1 = u1
    u2 = u2
    Users = {u1, u2}
    Reqs = {q1, q2}
    UserOf <- MCTwoUsers
    Nil = Nil
    login_bonues <- MCBonues
    MaxDay = 2
    Midnight = FALSE
    MaxLost = 0
SPECIFICATION Spec
INVARIANT PaidPerGrant
CHECK_DEADLOCK FALSE
