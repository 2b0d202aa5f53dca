SPECIFICATION Spec
CONSTANTS
    c1 = c1
    c2 = c2
    c3 = c3
    c4 = c4
    alice = alice
    bob = bob
    ethusdc = ethusdc
    Ciphertexts = {c1, c2, c3, c4}
    Plain <- MCPlain
    Pairs = {ethusdc}
    Config <- MCConfig
    Tasks = {p1, p2}
    MAX_ACTIVE_ORDERS = 2
    MAX_ACTIVE_ORDERS_PER_TRADER = 1
    MAX_ORDER_TTL = 1
    batch_size = 1
    MaxSeq = 6
    MaxTime = 0
    TornAppends = TRUE
    MaxFailures = 1
    MaxRestarts = 0
SYMMETRY TaskSymmetry
INVARIANTS
    DelistedPairIsEmpty
    ReplayKeysSpentOnce
    SecretsFollowOrders
    CapacityHeld
PROPERTIES
    MatchesAreLegal
CHECK_DEADLOCK FALSE
