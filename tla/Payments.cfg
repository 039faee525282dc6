SPECIFICATION FairSpec
CONSTANTS
    Users <- MCUsers
    Purchases <- AllPurchases
    Events <- AllEvents
    Spends = {g1}
    NoTxn = NoTxn
INVARIANTS TypeOK GrantedOnce JournalMatchesLedger ReversalBounded
PROPERTY RefundsGetThrough
CHECK_DEADLOCK FALSE
