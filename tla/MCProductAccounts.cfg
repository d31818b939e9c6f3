SPECIFICATION DirectorySpec
CONSTANTS
    Sessions = {x1, x2, x3}
    Tokens = {t1, t2, t3}
    Installations = {i1, i2}
    Accounts = {1, 2}
    None = None
    CleanupLimit = 1
    PageLimit = 1
SYMMETRY ClientSymmetry
CHECK_DEADLOCK FALSE
INVARIANTS
    UsableIsCurrent
    OneUnusedToken
    ReplayBarrier
    ErasedLeavesNothing
    ProfileBacksSession
    ScanComplete
PROPERTIES
    ClosedStaysClosed
    DeletionFences
