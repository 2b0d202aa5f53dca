SPECIFICATION RoundsSpec
CONSTANTS
    Addresses = {t1, t2, t3}
    Prices = {1, 2, 4}
    Sizes = {1, 2}
    MaxOrders = 4
SYMMETRY TraderSymmetry
INVARIANTS
    FillsAcceptable
    RoundMaximisesVolume
    PriceTimePriority
    NothingEligibleLeft
