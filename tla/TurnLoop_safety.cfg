\* Two turns of three iterations with every kind of batch, one retry, crashes anywhere;
\* the loop's thread is scheduled fairly.
SPECIFICATION FairSpec
CONSTANTS
    Batches <- MixedBatches
    MaxTurns = 2
    MaxIterations = 3
    Threshold = 2
    MaxRetries = 1
    MaxTicks = 1
INVARIANTS
    ResumePoint
    AnsweredOnce
    ModelSeesAnswers
    OutcomeStands
PROPERTIES
    TurnEnds
VIEW EndsOnly
CHECK_DEADLOCK FALSE
