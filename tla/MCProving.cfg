CONSTANTS
    P = 37
    SIZE_BITS = 2
    SOLVENCY_DIFF_BITS = 4
    SCALE_FACTOR = 2
    IVC_BATCH_SIZE = 2
    MERKLE_LEAVES = 2
    Payloads <- MCPayloads
    Balances <- MCBalances
    Policies <- MCPolicies
    DEFAULT_POLICY <- MCDefaultPolicy
    Rows <- MCRows
    Phantoms <- MCPhantoms
    BATCH_SIZE = 2
    MaxRounds = 2
    MaxPlaced = 3
SPECIFICATION Spec
INVARIANTS
    RowsMeanTrades
    ProofBindsBatch
    
