\* Two deliveries of any messages, two connections, one crash.
SPECIFICATION FairSpec
CONSTANTS
    question = question
    again = again
    command = command
    other = other
    Handlers = {h1, h2}
    Messages = {question, again, command, other}
    IdOf <- Digests
    Commands = {command}
    Ignored = {other}
    Free = nobody
    MaxLinks = 2
    MaxAnswers = 2
    BaseDelay = 1
    MaxDelay = 3
    MaxCrashes = 1
INVARIANTS
    GivenOnce
PROPERTIES
    StaysClosed
    Reconnects
CHECK_DEADLOCK FALSE
