\* A lone writer that may crash anywhere; or two writers and one lost file.
SPECIFICATION MCSpec
CONSTANTS
    Writers = {w1, w2}
    Owner = w1
    Entries = {a, b}
    Common = a
    Sides = {idle, waiting}
    FreshSide = idle
    MaxMessages = 2
    MaxEvents = 2
    MaxLosses = 1
VIEW Seen
INVARIANTS
    TypeOK
    StateBehindLogs
    OwnRecordExtendsLogs
    OwnRefusedOnlyAfterDamage
PROPERTIES
    NoAppendAfterLoss
    OwnLogsAreDurable
