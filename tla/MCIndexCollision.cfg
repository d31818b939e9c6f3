SPECIFICATION Spec
CONSTANTS
    Verifications = {v1, v2, v3}
    Persons = {p1}
    Installations = {}
    Instances = {a}
    Emails = {e1}
    GlobalEmails = {}
    None = None
    MaxVersion = 2
    Deployments <- Rotation
    TTL = 2
    Lease = 1
    Delay = 0
    CleanupLimit = 1
    LastBegin = 0
    Horizon = 1
SYMMETRY RegistrationSymmetry
CHECK_DEADLOCK FALSE
INVARIANTS
    NoIndexCollision
