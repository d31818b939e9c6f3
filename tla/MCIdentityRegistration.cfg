SPECIFICATION Spec
CONSTANTS
    Verifications = {v1, v2}
    Persons = {p1, p2}
    Installations = {n1}
    Instances = {a, b}
    Emails = {e1}
    GlobalEmails = {}
    None = None
    MaxVersion = 2
    Deployments <- Rotation
    TTL = 2
    Lease = 1
    Delay = 1
    CleanupLimit = 1
    LastBegin = 0
    Horizon = 2
SYMMETRY RegistrationSymmetry
CHECK_DEADLOCK FALSE
INVARIANTS
    OnePersonPerEmail
    IndexesFindIdentity
    EvidenceReplacesVerification
    AliasFollowsLink
    ErasedLeavesNoTrace
PROPERTIES
    LiveClaimKept
