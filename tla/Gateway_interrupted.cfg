\* A chat interrupts its session and writes again.
SPECIFICATION Spec
CONSTANTS
    h1 = h1
    h2 = h2
    t1 = t1
    t2 = t2
    c1 = c1
    c2 = c2
    idA = idA
    idB = idB
    Hosts = {h1}
    Threads = {t1}
    Chats = {c1}
    Sessions = {1}
    HostOf <- Solo
    Serves <- Alone
    GatewayId <- SingleId
    Names <- OnlyOne
    NoId = NoId
    MaxLog = 1
INVARIANT
    WriterHoldsLease
