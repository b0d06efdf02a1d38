\* A proposal, a membership change, nothing that fails.
CONSTANTS
    Proposal = {1}
    Change = {1}
    Refused = {}
    EventCap = 6
    PersistCap = 2
    ApplyCap = 1
    ResultCap = 2
    MaxTicks = 1
    MaxFaults = 0
SPECIFICATION FairSpec
\* A node that has shut down stops.
CHECK_DEADLOCK FALSE
PROPERTIES
    EveryEntryApplied
