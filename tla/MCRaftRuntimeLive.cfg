\* Two proposals, a storage and a state machine that accept everything, an event
\* queue with room for every completion.
CONSTANTS
    Proposal = {1, 2}
    Change = {}
    Refused = {}
    EventCap = 10
    PersistCap = 1
    ApplyCap = 1
    ResultCap = 2
    MaxTicks = 1
    MaxFaults = 0
SPECIFICATION FairSpec
\* A node that has shut down stops.
CHECK_DEADLOCK FALSE
INVARIANTS
    ResultOnce
PROPERTIES
    EveryProposalAnswered
    EveryEntryApplied
    ShutdownEnds
