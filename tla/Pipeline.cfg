SPECIFICATION PipelineSpec
CONSTANTS
    m1 = m1
    m2 = m2
    w1 = w1
    w2 = w2
    t1 = t1
    x = x
    y = y
    Messages = {m1, m2}
    Workers = {w1, w2}
    User = user
    Price = 1
    TopUps = {t1}
    TopUpAmount = 1
    MaxAttempt = 1
    JobAttempts = 2
    MaxInflight = 1
    DemoQuestions = 1
    MaxFaults = 0
    Docs = {m1, m2}
    Entities = {1, 2}
    HistoryTurns = 1
    Upsets = 1
    Idents = {x, y}
    Unfound = Unfound
    RawCitations <- SmallRaw
    Shelves <- SmallShelves
    KeyCount = 2
    ProxyCount = 2
    SinglePass = 3
    PartChars = 3
    MaxBatches = 2
    MaxCited = 2
    SummaryCredits = 2
    ExtraCredits = 1
    MaxCredits = 9
    VersionTexts <- SmallTexts
    Quotes <- SmallQuotes
    Target = 3
    MinQuote = 2
    MaxElided = 4
INVARIANTS
    BilledOnce
    PromptIsolated
    ReuseIsExact
    CitationsExact
    FailoverComplete
    RepliesBacked
    PartsAreSound
    NeverDearer
SYMMETRY Symmetry
CHECK_DEADLOCK FALSE
