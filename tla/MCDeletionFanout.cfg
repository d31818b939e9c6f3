SPECIFICATION FairFanoutSpec
CONSTANTS
    Verifications = {v1, v2}
    Persons = {p1}
    Installations = {n1}
    Instances = {a}
    Emails = {e1}
    GlobalEmails = {e1}
    Requests = {r1}
    None = None
    MaxVersion = 1
    Deployments = {}
    TTL = 2
    Lease = 1
    Delay = 1
    CleanupLimit = 1
    LastBegin = 1
    Horizon = 4
CHECK_DEADLOCK FALSE
PROPERTIES
    FannedOutOrLate
    VerificationEnds
