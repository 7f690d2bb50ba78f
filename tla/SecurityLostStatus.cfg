SPECIFICATION Spec
CONSTANTS
    Devices = {d1}
    Reachable = {d1}
    Scans = {s1}
    Rollups = {r1}
    MaxInFlight = 2
    MaxHits = 1
    MaxPending = 0
    Failures = FALSE
    NONE = NONE
INVARIANT
    StatusCoversSignals
