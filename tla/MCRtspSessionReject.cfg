SPECIFICATION Spec
CONSTANTS
    t1 = t1
    t2 = t2
    c1 = c1
    w1 = w1
    Tracks = {t1}
    Closers = {c1}
    Waiters = {}
    Preference = "TCP"
    Replies = {"ok", "unauth", "badTransport"}
    FreshNonces = TRUE
    MaxFrames = 0
    MaxTicks = 0
    MaxGen = 1
    MaxNc = 2
PROPERTIES
    NonceOrder
