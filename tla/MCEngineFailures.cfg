SPECIFICATION Spec
CONSTANTS
    c1 = c1
    c2 = c2
    c3 = c3
    c4 = c4
    alice = alice
    bob = bob
    ethusdc = ethusdc
    Ciphertexts = {c1, c2, c3}
    Plain <- MCPlain
    Pairs = {ethusdc}
    Config <- MCConfig
    Tasks = {p1}
    MAX_ACTIVE_ORDERS = 2
    MAX_ACTIVE_ORDERS_PER_TRADER = 1
    MAX_ORDER_TTL = 1
    batch_size = 1
    MaxSeq = 7
    MaxTime = 1
    TornAppends = FALSE
    MaxFailures = 1
    MaxRestarts = 1
INVARIANTS
    LiveIsReplay
    FillsConserved
PROPERTIES
    ExpiredNotMatched
    NoResurrection
CHECK_DEADLOCK FALSE
