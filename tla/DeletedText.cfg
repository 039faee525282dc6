SPECIFICATION ReadingSpec
CONSTANTS
    s1 = s1
    s2 = s2
    Docs = {s1, s2}
    Entities = {1, 2}
    HistoryTurns = 1
    Upsets = 1
INVARIANTS DeletedTextStaysOut
SYMMETRY Symmetry
CHECK_DEADLOCK FALSE
