\* Two processes, one of them with a connection; one of them may die.
SPECIFICATION FairHostSpec
CONSTANTS
    p1 = p1
    p2 = p2
    m1 = m1
    m2 = m2
    a1 = a1
    feishu = feishu
    wechat = wechat
    id = id
    Procs = {p1, p2}
    Actors = {m1, m2, a1}
    ProcOf <- TwoProcs
    Main <- Mains
    Channels = {feishu, wechat}
    Feishu = feishu
    Terminal = terminal
    Keys = {id}
    Preloaded <- FeishuFirst
    Required <- NeedsId
    KeysOf <- NeedsId
    Free = nobody
    MaxDeaths = 1
INVARIANTS
    OneConsumer
PROPERTIES
    LoadReturns
CHECK_DEADLOCK FALSE
