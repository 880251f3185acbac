\* Not a passing run: a stale copy replaces the record of a newer card that is
\* still to be delivered, and the chat never shows that card.
SPECIFICATION FairSpec
CONSTANTS
    Messages = {m1}
    Prompts = {m1}
    Scripts <- Turns
    Answered <- Approvals
    None = None
    MaxDeliveries = 1
    MaxClicks = 1
    MaxFails = 2
    MaxCrashes = 0
PROPERTIES
    LastCardDelivered
CHECK_DEADLOCK FALSE
