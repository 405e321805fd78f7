SPECIFICATION Spec
CONSTANTS
    Procs = {p1, p2}
    Ids = {i1, i2}
    Types = {small, large}
    NoId = NoId
    TTLs = {0, 1}
    MaxNow = 2
    MaxFaults = 1
    MaxLives = 2
SYMMETRY FactsSymmetry
INVARIANTS TypeOK NoForeignFacts DegradedOnlyByOwnFailure StaleIsExcused
