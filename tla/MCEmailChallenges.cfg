SPECIFICATION Spec
CONSTANTS
    Challenges = {c1, c2}
    Installations = {i1}
    Emails = {m1}
    Senders = {s1}
    None = None
    DailyLimit = 2
    MaxAttempts = 2
    QueueTTL = 3
    CodeTTL = 2
    Lease = 1
    RetryDelay = 1
    ContactWindow = 1
    ContactMax = 2
    ResendWindow = 0
    DailyWindow = 1
    SendWindow = 0
    Retention = 1
    CleanupLimit = 2
    Horizon = 6
    LastRequest = 2
SYMMETRY ChallengeSymmetry
CHECK_DEADLOCK FALSE
INVARIANTS
    NewestOnly
    CodeOnlyWhileUsable
    LockedAtLimit
