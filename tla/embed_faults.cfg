CONSTANTS
    d1 = d1  w1 = w1  w2 = w2  u1 = u1  u2 = u2  n = n
    None = n
    Docs <- OneDoc
    Paras = {1, 2}
    Extra = {2}
    DocOf <- AllInD1
    Workers = {w1, w2}
    Users = {u1}
    StateLists <- AllOnly
    PageSize = 1
    Env = {"upload", "refresh", "reindex", "cancel", "rename", "edit", "create", "delete_paragraph", "delete_document", "crash", "restart", "lock_expiry", "once_expiry", "embed_error", "task_error", "task_raises", "model_error"}
    MaxRequests = 4
    MaxVersion = 2
SPECIFICATION Spec
INVARIANTS TypeOK LockInv OneWorkerPerDocument
PROPERTIES ImplementsLease
