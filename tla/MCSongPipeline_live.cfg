CONSTANTS
    Songs = {s1}
    MaxAttempts = 2
    LeaseTicks = 2
    RetryTicks = 1
    Workers = {w1}
    NoSong = NoSong
    MaxFaults = 2
    Prompt = {"upload", "commit", "cutoff", "lease"}
    MaxLapses = 2
SPECIFICATION PipelineFairSpec
PROPERTIES
    MediaSettles
