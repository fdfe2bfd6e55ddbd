SPECIFICATION PathSpec
CONSTANTS
    s1 = s1
    s2 = s2
    SeqMod = 12
    Window = 2
    CycleMod = 2
    TsMod = 32
    Step = 3
    Sources = {s1, s2}
    MaxPos = 26
    MaxArrivals = 4
    MaxPackets = 5
INVARIANTS
    Conservation
    AccountingExact
    FedInOrder
\* A passive value: nothing has to happen after the last packet.
CHECK_DEADLOCK FALSE
