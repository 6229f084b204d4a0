SPECIFICATION Spec
CONSTANTS
    Run = {r1, r2}
    Reader = {q1}
    Retention = 2
    StaleAfter = 1
    RunTime = 1
    Horizon = 5
SYMMETRY Symmetry
INVARIANTS
    PublishedIsSound
    RecordedIsRestorable
PROPERTIES
    NeverWithout
    RecordIsNewest
    OkMeansRecent
