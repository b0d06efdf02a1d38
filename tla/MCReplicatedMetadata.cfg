CONSTANTS
    n1 = n1
    n2 = n2
    s1 = s1
    s2 = s2
    a1 = a1
    t1 = t1
    t2 = t2
    j1 = j1
    j2 = j2
    NoStore = NoStore
    NoPayload = NoPayload
    NoInfo = NoInfo
    Node = {n1, n2}
    Entry <- Entries
    Heartbeats = {1}
    Junk = {j1, j2}
    Store = {s1, s2}
    Address = {a1}
    MaxItems = 1
    SnapshotCap = 3
    MaxLog = 4
SPECIFICATION ReplicaSpec
SYMMETRY Alike
CHECK_DEADLOCK FALSE
INVARIANTS
    ReplicasAgree
    SnapshotFaithful
    StopsAtFirstRefusal
    HandedOutOnce
PROPERTIES
    ResultFinal
