CONSTANTS
    d1 = d1  w1 = w1  w2 = w2  u1 = u1  u2 = u2  n = n
    None = n
    Docs <- OneDoc
    Paras = {1, 2, 3}
    Extra = {3}
    DocOf <- AllInD1
    Workers = {w1, w2}
    Users = {u1, u2}
    StateLists <- UiStateLists
    PageSize = 1
    Env = {"upload", "reindex", "refresh", "rename", "create", "delete_paragraph", "delete_document", "crash", "restart", "embed_error", "task_error", "once_expiry", "model_error"}
    MaxRequests = 4
    MaxVersion = 1
SPECIFICATION Spec
INVARIANTS OneCopy SuccessIsSearchable
