SPECIFICATION Spec
CONSTANTS
    t1 = t1
    t2 = t2
    c1 = c1
    w1 = w1
    Tracks = {t1}
    Closers = {}
    Waiters = {w1}
    Preference = "TCP"
    Replies = {"ok", "unauth", "stale"}
    FreshNonces = TRUE
    MaxFrames = 1
    MaxTicks = 1
    MaxGen = 2
    MaxNc = 2
INVARIANTS
    NoFalseTimeout
PROPERTIES
    NonceOrder
    ImplementsSource
