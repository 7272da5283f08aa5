SPECIFICATION Spec
CONSTANTS
    w1 = w1
    w2 = w2
    w3 = w3
    k1 = k1
    k2 = k2
    Worker = {w1, w2}
    Key = {k1}
    Serves <- OneServer
    Resetter = {w2}
    Emailable = {k1}
    MaxOrder = 1
    Free = Free
    NoKey = NoKey
INVARIANT EventsHaveTheirOrder
CHECK_DEADLOCK FALSE
