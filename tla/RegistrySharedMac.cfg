SPECIFICATION Spec
CONSTANTS
    Handlers = {h1}
    Macs = {m1}
    Hosts = {n1}
    Ips = {a1}
    DeviceIds = {1, 2}
    Incarnations = {1}
    Placeholder = Placeholder
    NONE = NONE
    Failures = FALSE
INVARIANT
    MacMatchesOneDevice
