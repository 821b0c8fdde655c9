SPECIFICATION MCDeletionSpec
CONSTANTS
 s1 = s1 s2 = s2 m1 = m1 m2 = m2 w1 = w1 w2 = w2 None = None
 Students = {s1} Memories = {m1} Workers = {w1, w2} Owner <- OneOwner
 MaxVersion = 1 RetryDelay <- OneRetry Lease = 1 BatchSize = 2 MaxTime = 1
 RemembersKeys = FALSE MaxAttempts = 1
INVARIANTS
    DeletedStudentHasNoWork
    VerifiedMeansEmpty
    RebuildRestores

    
CHECK_DEADLOCK FALSE
