\* Not a passing run: the turn_failed of a rejected approval is put into the
\* record after the last save, and no log has it.
SPECIFICATION Spec
CONSTANTS
    Batches <- OneAsk
    MaxTurns = 1
    MaxIterations = 1
    Threshold = 2
    MaxRetries = 0
    MaxTicks = 0
INVARIANT
    EndIsLogged
CHECK_DEADLOCK FALSE
