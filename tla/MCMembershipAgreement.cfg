\* Two removals and a leader of each end: the shortest disagreement has 17 steps.
CONSTANTS
    n1 = n1
    n2 = n2
    n3 = n3
    Node = {n1, n2, n3}
    AddressOf <- OwnAddress
    Voters = {n1, n2, n3}
    Learners = {}
    MaxTerm = 2
    MaxLog = 3
    MaxPlain = 1
SPECIFICATION Spec
SYMMETRY Symmetry
VIEW View
\* A hasty election is enough.
CONSTRAINT HastyAlone
CHECK_DEADLOCK FALSE
INVARIANT ChangesPreserveAgreement
