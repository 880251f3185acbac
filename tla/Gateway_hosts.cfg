\* Two hosts with ids of their own on one session.
SPECIFICATION FairSpec
CONSTANTS
    h1 = h1
    h2 = h2
    t1 = t1
    t2 = t2
    c1 = c1
    c2 = c2
    idA = idA
    idB = idB
    Hosts = {h1, h2}
    Threads = {t1, t2}
    Chats = {c1, c2}
    Sessions = {1}
    HostOf <- TwoHosts
    Serves <- OneEach
    GatewayId <- OwnIds
    Names <- JustOne
    NoId = NoId
    MaxLog = 1
PROPERTIES
    RequestEnds
