SPECIFICATION Spec
CONSTANTS
    w1 = w1
    w2 = w2
    w3 = w3
    k1 = k1
    k2 = k2
    Worker = {w1, w2}
    Key = {k1}
    Serves <- SharedKeys
    Resetter = {}
    Emailable = {k1}
    MaxOrder = 2
    Free = Free
    NoKey = NoKey
INVARIANT AtMostOneLiveOrder
CHECK_DEADLOCK FALSE
