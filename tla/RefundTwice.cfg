SPECIFICATION FairSpec
CONSTANTS
    Users <- MCUsers
    Purchases <- AllPurchases
    Events <- AllEvents
    Spends = {g1}
    NoTxn = NoTxn
PROPERTY TakenBackOnce
CHECK_DEADLOCK FALSE
