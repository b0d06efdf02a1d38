\* Two proposals, one membership change, one refused command, a failing storage
\* and queues that fill up.
CONSTANTS
    Proposal = {1, 2}
    Change = {1}
    Refused = {2}
    EventCap = 2
    PersistCap = 1
    ApplyCap = 1
    ResultCap = 1
    MaxTicks = 1
    MaxFaults = 1
SPECIFICATION Spec
\* A node that has shut down stops.
CHECK_DEADLOCK FALSE
INVARIANTS
    AppliedIsDurable
    AppliedIndexIsTrue
    SuccessIsApplied
