SPECIFICATION Spec
CONSTANTS
    Handlers = {h1, h2}
    Macs = {m1}
    Hosts = {n1}
    Ips = {a1}
    DeviceIds = {1, 2}
    Incarnations = {1, 2}
    Placeholder = Placeholder
    NONE = NONE
    Failures = TRUE
SYMMETRY Symmetry
VIEW LiveAlerts
INVARIANTS
    TypeOK
    PlaceholderNeverStored
    HistoryOnlyOwnMacs
    ScanTargetIsOwn
    MacKeyIsOwn
    NoPhantomCard
    OneAlertUnlessRaced
    IInv
