SPECIFICATION Spec
CONSTANTS
    Handlers = {h1, h2}
    Macs = {m1}
    Hosts = {n1}
    Ips = {a1}
    DeviceIds = {1}
    Incarnations = {1, 2}
    Placeholder = Placeholder
    NONE = NONE
    Failures = FALSE
INVARIANT
    ExactlyOneAlert
