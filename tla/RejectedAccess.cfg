SPECIFICATION Spec
CONSTANTS
    Users <- MCUsers
    Purchases <- UnlistedPurchases
    Events <- UnlistedEvents
    Spends = {g1}
    NoTxn = NoTxn
INVARIANT AccessFollowsJournal
CHECK_DEADLOCK FALSE
