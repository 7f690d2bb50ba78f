SPECIFICATION FairSpec
CONSTANTS
    r1 = r1
    r2 = r2
    r3 = r3
    d1 = d1
    d2 = d2
    Requests = {r1, r2, r3}
    Devices = {d1, d2}
    DeviceOf <- TwoDevices
    Polls = {p1, p2}
    MaxFaults = 3
    NONE = NONE
INVARIANTS
    TypeOK
    DeliveredOnce
    NothingForgotten
PROPERTIES
    ClaimedEventually
    OneWay
