SPECIFICATION Spec
CONSTANTS
    b1 = b1
    b2 = b2
    h1 = h1
    h2 = h2
    User = user
    Bills = {b1, b2}
    Products <- MCProducts
    Handlers = {h1, h2}
    Spends = {g1}
    Freshness = 0
    MaxNow = 1
    MaxFaults = 1
INVARIANTS TypeOK NoSlidingAccess RefundsConfirmed UnsettledIsOwed
PROPERTY PeriodsAddUp
SYMMETRY Symmetry
