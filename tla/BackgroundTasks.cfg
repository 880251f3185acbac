\* A background task and a verifier share one pool thread; the records are
\* shared objects or files, and with files the host may be restarted once.
SPECIFICATION FairSpec
CONSTANTS
    Background = {t1}
    Verifiers = {v}
    Host = host
    MaxWorkers = 1
    MaxTicks <- OncePerBackground
    MaxKills <- OncePerBackground
    MaxNotes = 2
    MaxRestarts = 1
    Storages = {"memory", "file"}
INVARIANTS
    NotifiedOnce
    OutcomeLogged
PROPERTIES
    OutcomeStays
    TaskFinishes
CHECK_DEADLOCK FALSE
