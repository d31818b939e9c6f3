SPECIFICATION FairSpec
CONSTANTS
    Challenges = {c1}
    Installations = {i1}
    Emails = {m1}
    Senders = {s1, s2}
    None = None
    DailyLimit = 1
    MaxAttempts = 2
    QueueTTL = 3
    CodeTTL = 2
    Lease = 1
    RetryDelay = 1
    ContactWindow = 1
    ContactMax = 2
    ResendWindow = 0
    DailyWindow = 1
    SendWindow = 0
    Retention = 1
    CleanupLimit = 2
    Horizon = 7
    LastRequest = 2
CHECK_DEADLOCK FALSE
INVARIANTS
    MailedOnce
    RowsExpireTogether
    SendBudget
PROPERTIES
    FollowsFSM
    ChallengeEnds
