SPECIFICATION Spec
CONSTANTS
    Closers = {c1}
    Waiters = {w1}
    Workers <- MCWorkers
    Scenarios <- MCScenarios
    Replies <- MCReplies
    HeaderLen = 2
    FrameLen = 3
    TagLen = 3
    RBuf = 4
    FrameBytes = 2
    MaxPreData = 9
    ProbeLen = 6
INVARIANTS
    OpenVerdict
    NothingLeaks
    AuthDiscipline
    DeliveryExact
PROPERTIES
    ImplementsSource
