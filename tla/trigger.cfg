CONSTANTS
    t1 = t1  s1 = s1  s2 = s2  c1 = c1  c2 = c2  ev = ev  keep = keep
    u1 = u1  u2 = u2  w1 = w1  w2 = w2  r1 = r1
    Triggers = {t1}
    Sources = {s1, s2}
    Schedules = {c1, c2}
    Event = ev
    Keep = keep
    Creations <- BothActive
    Edits <- SomeEdits
    Users = {u1, u2}
    Workers = {w1, w2}
    Runs = {r1}
    Ops = {"insert", "edit", "switch", "delete", "batch_delete", "source_delete", "app_delete", "kill"}
    MaxRequests = 2
SPECIFICATION FairSpec
INVARIANTS TypeOK JobsAreTheLastMessage LastMessageIsTheRows
PROPERTIES Converges RecordsEnd
