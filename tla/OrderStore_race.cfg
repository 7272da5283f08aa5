SPECIFICATION FairSpec
CONSTANTS
    w1 = w1
    w2 = w2
    w3 = w3
    k1 = k1
    k2 = k2
    Worker = {w1, w2}
    Key = {k1}
    Serves <- SharedKeys
    Resetter = {w1, w2}
    Emailable = {k1}
    MaxOrder = 3
    Free = Free
    NoKey = NoKey
INVARIANT TypeOK
INVARIANT NoSequentialDuplicate
INVARIANT ConfirmedHasEvent
INVARIANT OnlyResetsDeadlock
PROPERTY ConfirmationSticks
PROPERTY RequestsAnswered
CHECK_DEADLOCK FALSE
