SPECIFICATION Spec
CONSTANTS
    t1 = t1
    t2 = t2
    c1 = c1
    w1 = w1
    Tracks = {t1, t2}
    Closers = {}
    Waiters = {}
    Preference = "UDPThenTCP"
    Replies = {"ok", "refused", "badTransport"}
    FreshNonces = TRUE
    MaxFrames = 1
    MaxTicks = 0
    MaxGen = 0
    MaxNc = 2
SYMMETRY TrackSymmetry
INVARIANTS
    NoSocketLeak
    Joined
    InterruptSticks
PROPERTIES
    TransportPinned
