\* Three voters, each of which may leave, return as a learner and be promoted
\* again, in up to five changes; two leaders.
CONSTANTS
    n1 = n1
    n2 = n2
    n3 = n3
    Node = {n1, n2, n3}
    AddressOf <- OwnAddress
    Voters = {n1, n2, n3}
    Learners = {}
    MaxTerm = 2
    MaxLog = 4
    MaxPlain = 1
SPECIFICATION Spec
SYMMETRY Symmetry
VIEW View
\* Little is claimed of what follows a leak.
CONSTRAINTS
    LeakFree
    PlainInShortLogs
\* At the bounds no proposal and no election is left.
CHECK_DEADLOCK FALSE
INVARIANTS
    ChangesFollowUnlessLeak
    CommittedAgreementUnlessLeak
    ReportHoldsUnderOneLeader
    CommittedOnVotersUnlessLeak
