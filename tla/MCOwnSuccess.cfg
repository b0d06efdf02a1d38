CONSTANTS
    n1 = n1
    n2 = n2
    c1 = c1
    c2 = c2
    s1 = s1
    t1 = t1
    NoStore = NoStore
    NoPayload = NoPayload
    NoInfo = NoInfo
    Node = {n1, n2}
    Caller = {c1, c2}
    Request <- CreateRequests
    Entry = {}
    Heartbeats = {}
    Junk = {NoStore}
    ResultCap = 1
    Store = {s1}
    Address = {}
    MaxItems = 2
    SnapshotCap = 3
    MaxLog = 3
    MaxCalls = 3
SPECIFICATION Spec
SYMMETRY Alike
CHECK_DEADLOCK FALSE
INVARIANTS
    OwnSuccess
