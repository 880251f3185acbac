\* One host, two chats with a thread each; one has a second session.
SPECIFICATION Spec
CONSTANTS
    h1 = h1
    h2 = h2
    t1 = t1
    t2 = t2
    c1 = c1
    c2 = c2
    idA = idA
    idB = idB
    Hosts = {h1}
    Threads = {t1, t2}
    Chats = {c1, c2}
    Sessions = {1, 2}
    HostOf <- OneHost
    Serves <- OneEach
    GatewayId <- SingleId
    Names <- Both
    NoId = NoId
    MaxLog = 1
INVARIANTS
    AtMostOnce
    OffsetInLog
