SPECIFICATION Spec
CONSTANTS
    Requests = {r1}
    Aliases = {a1, a2}
    OutboxWorkers = {w1, w2}
    PrivacyWorkers = {p1, p2}
    MaxAttempts = 2
    OutboxBatch = 2
    ErasureBatch = 2
    Nobody = Nobody
SYMMETRY WorkerSymmetry
CHECK_DEADLOCK FALSE
INVARIANTS
    TypeOK
    ErasedAfterReceipts
    WithdrawnLeavesNoTrace
PROPERTIES
    TerminalIsFinal
    KeepsPromise
