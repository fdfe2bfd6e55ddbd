SPECIFICATION Spec
CONSTANTS
    Closers = {c1}
    Waiters = {w1}
    Workers <- MCWorkers
    Streams <- MCStreams
    HeaderLen = 2
    FrameLen = 3
    TagLen = 3
    CCMod = 4
    MaxSegments = 3
    MaxSeqNo = 9
    MaxInt = 4
    Window = 2
    MaxReloads = 2
INVARIANTS
    LossReported
    NoSplice
    FragmentBounded
    CodecTold
PROPERTIES
    ImplementsSource
