SPECIFICATION FairSpec
CONSTANTS
    Installations = {n1}
    Person = Person
    Workloads = {w1}
    None = None
    MaxPolicy = 2
    Additional = {}
    Past = 0
    Skew = 1
    LastWrite = 0
    Horizon = 2
CHECK_DEADLOCK FALSE
INVARIANTS
    ErasedHasNoPreference
    DenialStopsTokens
    ErasedHasNoConsent
PROPERTIES
    DenialEmitsOnce
    NoBackdating
    DenialLands
