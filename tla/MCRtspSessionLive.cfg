SPECIFICATION FairSpec
CONSTANTS
    t1 = t1
    t2 = t2
    c1 = c1
    w1 = w1
    Tracks = {t1}
    Closers = {c1}
    Waiters = {}
    Preference = "UDPThenTCP"
    Replies = {"ok", "refused"}
    FreshNonces = TRUE
    MaxFrames = 0
    MaxTicks = 0
    MaxGen = 0
    MaxNc = 2
PROPERTIES
    ShutdownCompletes
    VerbReturns
    WatchdogFires
