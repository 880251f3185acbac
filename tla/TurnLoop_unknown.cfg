\* Not a passing run: the model names a tool that is not registered.  With the
\* lines in comments instead, AskUserQuestion stops the turn and is approved.
SPECIFICATION Spec
CONSTANTS
    Batches <- OneUnknown
\*  Batches <- OneQuestion
    MaxTurns = 1
    MaxIterations = 2
    Threshold = 2
    MaxRetries = 0
    MaxTicks = 0
INVARIANT
    TurnHasOutcome
\*  ApprovalResumes
CHECK_DEADLOCK FALSE
