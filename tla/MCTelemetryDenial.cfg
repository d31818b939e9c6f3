SPECIFICATION Spec
CONSTANTS
    Installations = {n1}
    Person = Person
    Workloads = {w1}
    None = None
    MaxPolicy = 1
    Additional = {}
    Past = 0
    Skew = 1
    LastWrite = 1
    Horizon = 3
CHECK_DEADLOCK FALSE
INVARIANT DeniedKeyGetsNoToken
