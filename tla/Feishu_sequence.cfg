\* A message with its card: deliveries, clicks, failing calls, a crash.
SPECIFICATION Spec
CONSTANTS
    Messages = {m1, m2}
    Prompts = {m1}
    Scripts <- Turns
    Answered <- Approvals
    None = None
    MaxDeliveries = 2
    MaxClicks = 2
    MaxFails = 1
    MaxCrashes = 1
INVARIANTS
    SequenceIncreases
CHECK_DEADLOCK FALSE
