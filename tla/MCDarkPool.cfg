SPECIFICATION Spec
CONSTANTS
    alice = alice
    bob = bob
    base = base
    quote = quote
    Traders = {alice, bob}
    Tokens = {base, quote}
    Treasuries = {treasury}
    Operators = {op}
    BatchIds = {b1}
    AuctionIds = {a1, a2}
    SessionIds = {s1}
    Policies = {p1}
    ONE = 4
    WEI_TO_CIRCUIT_SCALE = 2
    PROTOCOL_FEE_BPS = 1
    BPS_DENOMINATOR = 2
    MAX_BATCH_SIZE = 2
    MAX_IVC_SETTLE_MATCHES = 1
    UNRESERVE_DELAY = 1
    Amounts = {1, 2}
    MaxHeld = 2
    MaxTime = 1
    MaxOwnerCalls = 2
    Scale <- MCScale
    MatchLists <- MCMatchLists
SYMMETRY AuctionSymmetry
INVARIANTS
    TypeOK
    EscrowSeasoned
    LedgerBacked
    SettledOnce
PROPERTIES
    EscrowHeld
CHECK_DEADLOCK FALSE
