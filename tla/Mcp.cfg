\* Two threads; the server answers every line, may die, may write a line unasked, and may refuse a call.
SPECIFICATION FairSpec
CONSTANTS
    read = read
    write = write
    admin = admin
    both = both
    Threads = {t1, t2}
    Mounter = t1
    Wires = {"stdio", "http"}
    Tools <- ThreeTools
    PageSize = 2
    Scopes = {read, write, admin}
    Needs <- Needed
    TokenFor <- Tokens
    Discoveries <- Named
    MaxAsides = 1
    MaxFaults = 1
    MaxCalls = 2
    Nobody = nobody
INVARIANTS
    OwnAnswer
    ListComplete
    RunsAtMostOnce
PROPERTIES
    RequestReturns
CHECK_DEADLOCK FALSE
