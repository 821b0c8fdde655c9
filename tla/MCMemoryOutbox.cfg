SPECIFICATION MCFairOutboxSpec
CONSTANTS
    s1 = s1
    s2 = s2
    m1 = m1
    m2 = m2
    w1 = w1
    w2 = w2
    None = None
    Students = {s1, s2}
    Memories = {m1, m2}
    Workers = {w1, w2}
    Owner <- TwoOwners
    MaxVersion = 1
    RetryDelay <- OneRetry
    Lease = 1
    BatchSize = 2
    MaxTime = 1
    RemembersKeys = TRUE
    MaxAttempts = 1
INVARIANTS
    ClaimsHold
    SettledWasApplied
PROPERTIES
    EveryRowSettles
CHECK_DEADLOCK FALSE
