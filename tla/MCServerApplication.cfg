\* A peer and a node that is none, two calls, an event queue and a peer queue that
\* fill up.
CONSTANTS
    p1 = p1
    s1 = s1
    Nobody = Nobody
    Peer = {p1}
    Stranger = {s1}
    EventCap = 1
    PeerCap = 2
    MaxRpcs = 2
    MaxTicks = 1
SPECIFICATION FairSpec
\* A process that has ended stops.
CHECK_DEADLOCK FALSE
INVARIANTS
    ExitedIsUnused
PROPERTIES
    AnswersTakenInOrder
    SignalEndsProcess
