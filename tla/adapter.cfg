SPECIFICATION LiveSpec
CONSTANTS
    a = a
    b = b
    c = c
    q1 = q1
    q2 = q2
    q3 = q3
    Jobs = {a, b, c}
    SyncJobs = {a}
    Queries = {q1, q2}
    Unsupported = {q2}
    MaxSubmitting = 2
    MaxQueueDepth = 1
    MaxConcurrentQueries = 1
    PollTicks = 2
    Rounds = 2
    MaxCrashes = 1
INVARIANT TypeOK
INVARIANT CompletedHasAllResults
INVARIANT NoDuplicateWork
INVARIANT QueueBounded
PROPERTY JobsSettle
CHECK_DEADLOCK FALSE
