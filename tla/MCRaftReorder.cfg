\* Three voters, two terms, two messages that overtake each other.
CONSTANTS
    n1 = n1
    n2 = n2
    n3 = n3
    Server = {n1, n2, n3}
    Learner = {}
    Nobody = Nobody
    Payload = {n1, n2, n3}
    Term = {0, 1, 2}
    MaxTerm = 2
    MaxLog = 2
    MaxInFlight = 2
SPECIFICATION Spec
SYMMETRY Symmetry
VIEW View
\* At the bounds no message is left to send and no term to start.
CHECK_DEADLOCK FALSE
CONSTRAINTS
    LeakFree
    OvertakenOnShortLogs
INVARIANTS
    ElectionSafety
    LogMatchingUnlessUsurped
