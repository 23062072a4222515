CONSTANTS
    Songs = {s1, s2}
    MaxAttempts = 2
    LeaseTicks = 2
    RetryTicks = 1
    Workers = {w1, w2}
    NoSong = NoSong
    MaxFaults = 1
SYMMETRY Symmetry
SPECIFICATION Spec
INVARIANTS
    TypeOK
    ReadyAudioExists
    InputKept
    UniqueAttempt
    NoOutputCollision
PROPERTIES
    LostLeaseWritesNothing
    LifecycleSafety
