SPECIFICATION Spec
CONSTANTS
    Devices = {d1}
    Reachable = {d1}
    Scans = {s1, s2}
    Rollups = {r1}
    MaxInFlight = 2
    MaxHits = 2
    MaxPending = 1
    Failures = TRUE
    NONE = NONE
SYMMETRY Symmetry
VIEW View
INVARIANTS
    TypeOK
    StatusCoversUnlessRaced
PROPERTIES
    DoubledOnlyByOverlap
    LostOnlyToDoubles
