\* Three voters over four terms, one message on the way at a time: enough terms for
\* an entry of an earlier term to be replicated by a later leader and overruled.
CONSTANTS
    n1 = n1
    n2 = n2
    n3 = n3
    Server = {n1, n2, n3}
    Learner = {}
    Nobody = Nobody
    Payload = {n1, n2, n3}
    Term = {0, 1, 2, 3, 4}
    MaxTerm = 4
    MaxLog = 1
    MaxInFlight = 1
SPECIFICATION Spec
SYMMETRY Symmetry
VIEW View
\* At the bounds no message is left to send and no term to start.
CHECK_DEADLOCK FALSE
INVARIANTS
    ProgressWithinLog
    StateMachineSafetyUnlessLeak
    LeaderCompletenessUnlessLeak
PROPERTY
    CommittedNeverRewritten
