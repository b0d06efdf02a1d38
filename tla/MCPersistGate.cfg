\* A candidate and the node itself in two terms, a log of two entries, a queue of one write.
CONSTANTS
    p1 = p1
    self = self
    nobody = nobody
    v = v
    Peer = {p1}
    Self = self
    Nobody = nobody
    Payload = {v}
    Term = {0, 1, 2}
    QueueLimit = 1
    MaxTerm = 2
    MaxIndex = 2
    MaxCompletions = 1
    MaxRequests = 3
SPECIFICATION FairSpec
CHECK_DEADLOCK FALSE
INVARIANTS
    StableIsStoredUnlessCut
    LogPromiseStoredUnlessCut
    VotePromiseStoredUnlessOverlap
PROPERTY
    HardStateWrittenUnlessMissed
