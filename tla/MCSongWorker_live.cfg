CONSTANTS
    Songs = {s1}
    MaxAttempts = 2
    LeaseTicks = 2
    RetryTicks = 1
    Workers = {w1, w2}
    NoSong = NoSong
    MaxFaults = 1
SPECIFICATION FairSpec
PROPERTIES
    LifecycleProgress
    AttemptEnds
