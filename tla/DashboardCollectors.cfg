SPECIFICATION Spec
CONSTANTS
    m1 = m1
    m2 = m2
    m3 = m3
    i1 = i1
    i2 = i2
    c1 = c1
    c2 = c2
    p1 = p1
    p2 = p2
    NONE = NONE
    Modules <- MCModules
    Interfaces <- MCInterfaces
    Clients <- MCClients
    Passwords <- MCPasswords
    Systems <- MCSystems
SYMMETRY Symmetry
INVARIANTS
    CollectorsRunOnce
