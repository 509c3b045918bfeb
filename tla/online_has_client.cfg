CONSTANTS
    u1 = u1
    Clients = {c1}
    Uids = {u1}
    Accounts <- MCOneAccount
    Servers = {auth, logic}
    AuthServer = auth
    LogicServer = logic
    Refusable = {c1}
    Nil = Nil
    MaxUkey = 2
    MaxFlight = 1
    MaxDowns = 0
    MaxAsk = 2
    MaxLoadFails = 0
SPECIFICATION SessionsSpec
INVARIANT OnlineHasClient
CHECK_DEADLOCK FALSE
