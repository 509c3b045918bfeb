CONSTANTS
    u1 = u1
    Clients = {c1, c2}
    Uids = {u1}
    Accounts <- MCOneAccount
    Servers = {auth, logic}
    AuthServer = auth
    LogicServer = logic
    Refusable = {c2}
    Nil = Nil
    MaxUkey = 2
    MaxFlight = 1
    MaxDowns = 1
    MaxAsk = 2
    MaxLoadFails = 1
SPECIFICATION SessionsFairSpec
 
PROPERTY SessionNeverGoesBack
PROPERTY EnterIsAnswered
CHECK_DEADLOCK FALSE
