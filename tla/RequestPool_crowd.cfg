SPECIFICATION FairSpec
CONSTANTS
    Request = {r1, r2, r3, r4, r5}
    Recommits = {r1, r2}
    Threads = 3
    Connections = 2
INVARIANT TypeOK
INVARIANT NobodyWaitsUnlessCrowded
PROPERTY RequestsAnswered
