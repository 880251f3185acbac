\* A budget of six tokens, compaction to three messages, recovery to two.
SPECIFICATION RequestSpec
CONSTANTS
    a = a
    b = b
    MaxTokens = 6
    WarningTokens = 4
    CompactTo = 3
    OverflowTo = 2
    ReserveTokens = 1
    MinimumTokens = 1
    ExternalizeAt = 3
    ToolTokens = 1
    ContextSize = 0
    Families = {"openai", "anthropic"}
    Retries = 1
    Sizes = {1, 4, 6}
    Listed = {shell, none}
    Texts <- Answers
    MaxMessages = 6
    MaxActions = 2
    MaxPartials = 2
    None = none
INVARIANTS
    NewestUserIsSent
    RecoveryConverges
    AttemptsStayApart
CHECK_DEADLOCK FALSE
