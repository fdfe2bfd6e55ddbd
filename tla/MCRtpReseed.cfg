SPECIFICATION Spec
CONSTANTS
    s1 = s1
    s2 = s2
    media = media
    event = event
    tone = tone
    c1 = c1
    c2 = c2
    Sources = {s1, s2}
    PayloadTypes = {media, event, tone}
    Declared = media
    Configs = {c1, c2}
    AdoptThreshold = 2
    MaxResyncBytes = 1
    Seeds = {1}
    Setups <- SeededSetups
    Window = 2
    Units <- MCUnits
    MaxUnits = 4
    MaxReports = 1
SYMMETRY SourceSymmetry
INVARIANTS
    CodecTold
\* A peer may stop sending at any time.
CHECK_DEADLOCK FALSE
