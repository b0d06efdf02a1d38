\* A leader that hears of a later term keeps its role.
CONSTANTS
    n1 = n1
    n2 = n2
    n3 = n3
    Server = {n1, n2, n3}
    Learner = {}
    Nobody = Nobody
    Payload = {n1, n2, n3}
    Term = {0, 1, 2, 3}
    MaxTerm = 3
    MaxLog = 1
    MaxInFlight = 2
SPECIFICATION Spec
SYMMETRY Symmetry
VIEW View
\* At the bounds no message is left to send and no term to start.
CHECK_DEADLOCK FALSE
INVARIANTS
    OneLeaderPerTerm
