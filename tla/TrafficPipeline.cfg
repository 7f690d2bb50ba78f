SPECIFICATION FairSpec
CONSTANTS
    m1 = m1
    m2 = m2
    x = x
    y = y
    Macs = {m1, m2}
    Flows <- ThreeFlows
    Rollups = {q1, q2}
    Clients = {c1}
    MaxFrames = 2
    MaxFaults = 2
    EMPTY = EMPTY
    NONE = NONE
INVARIANTS
    TypeOK
    FramesStoredOnce
    BandwidthFollowsFlows
PROPERTIES
    EmptyOnlyFirst
    WindowFlushed
    FeedConverges
