SPECIFICATION Spec
CONSTANTS
    Pairs = {ethusdc}
    finalize_every = 1
    MaxChunks = 2
    MaxFaults = 0
    MaxSnapshots = 0
    MaxRestarts = 0
INVARIANTS
    ChunksStaySettleable
