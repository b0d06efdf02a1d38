\* The reply to a request whose changes are not written yet.
CONSTANTS
    p1 = p1
    s1 = s1
    Nobody = Nobody
    Peer = {p1}
    Stranger = {s1}
    EventCap = 2
    PeerCap = 2
    MaxRpcs = 2
    MaxTicks = 1
SPECIFICATION ServerSpec
\* A process that has ended stops.
CHECK_DEADLOCK FALSE
INVARIANT
    AnswerIsStored
