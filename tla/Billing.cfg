SPECIFICATION BillingSpec
CONSTANTS
    m1 = m1
    w1 = w1
    w2 = w2
    t1 = t1
    u1 = u1
    k1 = k1
    k2 = k2
    k3 = k3
    s1 = s1
    s2 = s2
    Users = {u1}
    Keys = {k1, k2, k3}
    Sessions = {s1, s2}
    Amounts <- MCAmounts
    Messages = {m1}
    Workers = {w1, w2}
    User = user
    Price = 1
    TopUps = {t1}
    TopUpAmount = 1
    MaxAttempt = 2
    JobAttempts = 2
    MaxInflight = 2
    DemoQuestions = 1
    MaxFaults = 1
INVARIANTS
    BillingTypeOK
    BalanceIsLedgerSum
    NonNegative
    OneRowPerKey
    AnswersAreTrue
    AuditMatchesLedger
    OneRunner
    AnchorOwned
    ChargesRecorded
    AnswerBacked
PROPERTIES
    LedgerSpec
    EveryCallEnds
    EveryJobEnds
CHECK_DEADLOCK FALSE
