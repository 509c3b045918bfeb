CONSTANTS
    u1 = u1
    Clients = {c1, c2}
    Uids = {u1}
    Accounts <- MCOneAccount
    Servers = {auth}
    AuthServer = auth
    Refusable = {c2}
    Nil = Nil
    MaxUkey = 3
    MaxFlight = 2
    MaxDowns = 2
SPECIFICATION FairSpec
INVARIANT LoginAnsweredToAsker
INVARIANT NoDeadSession
INVARIANT RoutedToOwner
INVARIANT OneConnection
PROPERTY LoginAnswered
PROPERTY LinkRestored
CHECK_DEADLOCK FALSE
