SPECIFICATION Spec
CONSTANTS
    Addresses = {a1, a2}
    NoAddress = NoAddress
    Requests = {r1, r2}
    Visitors = {v1, v2, v3}
    NoVisitor = NoVisitor
    Period = 1
    Burst = 1
    Idle = 3
    SweepEvery = 1
    Stall = 1
    MaxClock = 7
SYMMETRY Symmetry
INVARIANTS
    TypeOK
    RateBound
PROPERTIES
    ForgetsIdle
    IsTokenBucket
