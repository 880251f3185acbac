\* One session over two turns, a crash, a deletion.
SPECIFICATION Spec
CONSTANTS
    t1 = t1  t2 = t2  s1 = s1  s2 = s2
    Sessions = {s1}
    Threads = {t1}
    SessionOf <- Alone
    Torn = Torn
    Texts = {x, code}
    Excluded = {code}
    MinRecall = 2
    JobWorkers = 2
    MaxJobs = 3
    None = None
    MaxLength = 2
    MaxTurns = 2
    MaxCrashes = 1
    MaxDeletes = 1
INVARIANTS
    LatestIsKept
    JobAccounted
    LockReleased
PROPERTIES
    CoverageGrows
CHECK_DEADLOCK FALSE
