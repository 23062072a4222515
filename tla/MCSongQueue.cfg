\* Three songs, the code's three attempts, a lease of two ticks so that a
\* renewal can come early, late or too late, and retry delays of 1 and 2 ticks.
CONSTANTS
    Songs = {s1, s2, s3}
    MaxAttempts = 3
    LeaseTicks = 2
    RetryTicks = 1
SYMMETRY SongSymmetry
SPECIFICATION QueueSpec
INVARIANTS
    QueueTypeOK
    RowsAgree
    NeverStranded
    PathsOfWinner
PROPERTIES
    LeaseRevivedByClaim
    TerminalIsFinal
