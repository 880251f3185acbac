\* Not a passing run: of two threads in turns of one session, one that waited for
\* an older memory drops the newer one.
SPECIFICATION Spec
CONSTANTS
    t1 = t1  t2 = t2  s1 = s1  s2 = s2
    Sessions = {s1}
    Threads = {t1, t2}
    SessionOf <- Shared
    Torn = Torn
    Texts = {x}
    Excluded = {x}
    MinRecall = 2
    JobWorkers = 1
    MaxJobs = 2
    None = None
    MaxLength = 2
    MaxTurns = 1
    MaxCrashes = 0
    MaxDeletes = 0
INVARIANTS
    LatestIsKept
CHECK_DEADLOCK FALSE
