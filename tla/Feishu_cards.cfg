\* The cards of a prompt: failing calls, retries by two threads, a click, a crash;
\* and two deliveries of a prompt and of a command.
SPECIFICATION MCSpec
CONSTANTS
    Messages = {m1, m2}
    Prompts = {m1}
    Scripts <- Turns
    Answered <- Approvals
    None = None
    MaxDeliveries = 2
    MaxClicks = 1
    MaxFails = 2
    MaxCrashes = 1
INVARIANTS
    HandledOnce
    DoneWasShown
    SavedIsShown
PROPERTIES
    CardsDelivered
CHECK_DEADLOCK FALSE
