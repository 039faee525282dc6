SPECIFICATION ReplyingSpec
CONSTANTS
    Idents = {x}
    Unfound = Unfound
    RawCitations <- MCRaw
    KeyCount = 1
    ProxyCount = 1
    Shelves <- MCShelves
    SinglePass = 3
    PartChars = 3
    MaxBatches = 4
    MaxCited = 2
    SummaryCredits = 2
    ExtraCredits = 1
    MaxCredits = 9
INVARIANT ShownIsCharged
CHECK_DEADLOCK FALSE
