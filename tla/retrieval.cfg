CONSTANTS
    p1 = p1  k1 = k1  k2 = k2  a1 = a1  a2 = a2  w1 = w1  w2 = w2  n = n
    None = n
    Paras = {p1}
    Kbs = {k1, k2}
    Home <- HomeK1
    Lists <- OneAndBoth
    Askers = {a1}
    Writers = {w1, w2}
    Ops = {"disable", "enable", "edit", "delete", "batch_delete", "migrate", "embed", "redis_error"}
    MaxRequests = 2
SPECIFICATION FairSpec
INVARIANTS TypeOK StaleIsExplained StoreMirrorsParagraphs SettledIsNotShown
PROPERTIES DirtIsSwept
