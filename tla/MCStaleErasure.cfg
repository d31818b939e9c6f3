SPECIFICATION Spec
CONSTANTS
    Requests = {r1}
    Aliases = {a1}
    OutboxWorkers = {w1, w2}
    PrivacyWorkers = {p1, p2}
    MaxAttempts = 2
    OutboxBatch = 1
    ErasureBatch = 1
    Nobody = Nobody
CHECK_DEADLOCK FALSE
PROPERTIES
    StaleErasureRejected
