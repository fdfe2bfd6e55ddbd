SPECIFICATION Spec
CONSTANTS
    s1 = s1
    s2 = s2
    c1 = c1
    w1 = w1
    Sources = {s1, s2}
    Closers = {c1}
    Waiters = {w1}
    Window = 2
    Units <- MCUnits
    MaxDatagrams = 3
    MaxReports = 1
    MaxFiltered = 1
    Setups <- MCSetups
SYMMETRY SourceSymmetry
INVARIANTS
    ClockOfSource
    NoSplice
    LossAccounted
PROPERTIES
    ImplementsSource
