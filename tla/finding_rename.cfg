CONSTANTS
    d1 = d1  w1 = w1  w2 = w2  u1 = u1  u2 = u2  n = n
    None = n
    Docs <- OneDoc
    Paras = {1, 2}
    Extra = {}
    DocOf <- AllInD1
    Workers = {w1, w2}
    Users = {u1}
    StateLists <- AllOnly
    PageSize = 1
    Env = {"upload", "rename"}
    MaxRequests = 2
    MaxVersion = 1
SPECIFICATION FairSpec
PROPERTIES BusyEnds
