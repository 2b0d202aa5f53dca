SPECIFICATION Spec
CONSTANTS
    Pairs = {ethusdc}
    finalize_every = 1
    MaxChunks = 2
    MaxFaults = 1
    MaxSnapshots = 1
    MaxRestarts = 1
INVARIANTS
    RowsPaidOnce
    ConfirmedIsSettled
    NoBatchForgotten
PROPERTIES
    RetriesSettle
