CONSTANTS
    Kinds = {"bin"}
    Bodies = {1, 3}
    MAX_PKG_SIZE = 9
    MAX_RECV_SIZE = 3
    RequestLen = 5
    KeyAt = 4
    MaxSent = 2
SPECIFICATION Spec
PROPERTY ReadReturns
CHECK_DEADLOCK FALSE
