\* Terms 0..2 with 0 the refused initial term, two payloads, up to four entries.
CONSTANTS
    Term = {0, 1, 2}
    Payload = {p1, p2}
    MaxIndex = 4
    MaxBatch = 2
SPECIFICATION Spec
INVARIANTS
    TypeOK
    LogInvariant
    CompactionFaithful
PROPERTY
    RefinesCommittedLog
