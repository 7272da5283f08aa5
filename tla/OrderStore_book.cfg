SPECIFICATION Spec
CONSTANTS
    w1 = w1
    w2 = w2
    w3 = w3
    k1 = k1
    k2 = k2
    Worker = {w1, w2, w3}
    Key = {k1, k2}
    Serves <- OwnKeys
    Resetter = {w3}
    Emailable = {k1}
    MaxOrder = 3
    Free = Free
    NoKey = NoKey
PROPERTY KeepsTheBook
CHECK_DEADLOCK FALSE
