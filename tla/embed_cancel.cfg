CONSTANTS
    d1 = d1  w1 = w1  w2 = w2  u1 = u1  u2 = u2  n = n
    None = n
    Docs <- OneDoc
    Paras = {1, 2}
    Extra = {}
    DocOf <- AllInD1
    Workers = {w1, w2}
    Users = {u1, u2}
    StateLists <- UiStateLists
    PageSize = 1
    Env = {"upload", "reindex", "cancel", "delete_paragraph", "delete_document", "embed_error", "task_error", "once_expiry", "lock_expiry", "model_error"}
    MaxRequests = 5
    MaxVersion = 1
SPECIFICATION FairSpec
INVARIANTS SettledDocument SettledParagraph
PROPERTIES BusyEnds
