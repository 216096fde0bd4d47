CONSTANTS
    u1 = u1  u2 = u2  v1 = v1  v2 = v2
    Users = {u1, u2}
    Voters = {v1, v2}
    CacheSize = 2
    ReopenSize = 1
    Limit = 1
    Kinds = {"simple", "workflow"}
    Ops = {"ask", "vote", "error", "disconnect", "expire", "clean", "reset"}
    MaxRequests = 3
    MaxFaults = 1
SYMMETRY Symmetry
SPECIFICATION Spec
INVARIANTS TypeOK MemoryIsTheTail LatestIsRemembered RecordsSayWhatWasTold VotesStay LimitHolds
