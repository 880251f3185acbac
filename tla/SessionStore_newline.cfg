\* Not a passing run: a crash that left a line without its newline lets the
\* next save glue its first line to it.  That save returns, and every later
\* load raises.
SPECIFICATION MCSpec
CONSTANTS
    Writers = {w1, w2}
    Owner = w1
    Entries = {a, b}
    Common = a
    Sides = {idle, waiting}
    FreshSide = idle
    MaxMessages = 2
    MaxEvents = 2
    MaxLosses = 1
INVARIANT
    OwnSaveCanBeLoaded
