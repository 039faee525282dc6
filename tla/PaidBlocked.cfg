SPECIFICATION Spec
CONSTANTS
    m1 = m1
    m2 = m2
    w1 = w1
    w2 = w2
    t1 = t1
    Messages = {m1}
    Workers = {w1, w2}
    User = user
    Price = 1
    TopUps = {t1}
    TopUpAmount = 1
    MaxAttempt = 1
    JobAttempts = 2
    MaxInflight = 2
    DemoQuestions = 1
    MaxFaults = 1
INVARIANT PaidNeverBlocked
CHECK_DEADLOCK FALSE
