CONSTANTS
    Kinds <- MCKinds
    Bodies = {1, 3, 8}
    MAX_PKG_SIZE = 9
    MAX_RECV_SIZE = 3
    RequestLen = 5
    KeyAt = 4
    MaxSent = 3
SPECIFICATION Spec
INVARIANT ClosedOnce
INVARIANT DeliveredInOrder
PROPERTY ImplementsChannel
PROPERTY WholeReadsDelivered
PROPERTY EndIsTold
CHECK_DEADLOCK FALSE
