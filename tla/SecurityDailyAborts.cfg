SPECIFICATION Spec
CONSTANTS
    Devices = {d1, d2}
    Reachable = {d1, d2}
    Scans = {s1}
    Rollups = {r1}
    MaxInFlight = 1
    MaxHits = 0
    MaxPending = 2
    Failures = FALSE
    NONE = NONE
PROPERTY
    AnomaliesReported
