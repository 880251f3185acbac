\* One session over two turns, each of which may schedule a dream.
SPECIFICATION Spec
CONSTANTS
    t1 = t1  t2 = t2  s1 = s1  s2 = s2
    Sessions = {s1}
    Threads = {t1}
    SessionOf <- Alone
    Torn = Torn
    Texts = {x, y}
    Excluded = {}
    MinRecall = 2
    JobWorkers = 2
    MaxJobs = 4
    None = None
    MaxLength = 2
    MaxTurns = 2
    MaxCrashes = 0
    MaxDeletes = 0
INVARIANT
    SweepsExclusive
CHECK_DEADLOCK FALSE
