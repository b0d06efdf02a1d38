\* Logs of three entries in two terms, appended in batches of two.
CONSTANTS
    MaxTerm = 2
    MaxIndex = 3
    MaxBatch = 2
SPECIFICATION Spec
INVARIANTS
    AlwaysLoads
    LoadIsFaithful
    MemoryIsFaithful
PROPERTY RefinesDurableStorage
