\* Not a passing run: the token of a step-up is the one of its last scope, and a
\* call that needs two is refused a second time; one thread is enough.
SPECIFICATION Spec
CONSTANTS
    read = read
    write = write
    admin = admin
    both = both
    Threads = {t1}
    Mounter = t1
    Wires = {"http"}
    Tools <- ThreeTools
    PageSize = 2
    Scopes = {read, write, admin}
    Needs <- Needed
    TokenFor <- Tokens
    Discoveries <- Named
    MaxAsides = 0
    MaxFaults = 0
    MaxCalls = 2
    Nobody = nobody
INVARIANTS
    StepUpSuffices
CHECK_DEADLOCK FALSE
