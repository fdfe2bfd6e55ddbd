SPECIFICATION FairSpec
CONSTANTS
    c1 = c1
    w1 = w1
    cb = cb
    Closers = {c1}
    Waiters = {w1}
    Callback = cb
    Errors = {"nil", "lost", "redirect"}
    Retryable = {"nil", "lost"}
    MaxSessions = 2
    MaxAttempts = 1
    MaxFrames = 1
INVARIANTS
    TerminalConsistent
    WaitAfterTerminal
    NoLeak
PROPERTIES
    StatsMonotone
    ImplementsSource
    ShutdownCompletes
    ReconnectsOrEnds
