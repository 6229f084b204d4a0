SPECIFICATION WakeSpec
CONSTANTS
    Task = {t1, t2}
    Worker = {w1}
    ShowTime <- MCShowTime
    Setting <- OneSetting
    Floor = 3
    Backoff <- ShortBackoff
    MailTime = 1
    FetchTime = 0
    IdleTime = 1
    Lease = 4
    Horizon = 9
    MaxPassed = 1
    NoTask = NoTask
    NoWorker = NoWorker
VIEW WithoutHistory
SYMMETRY Symmetry
CHECK_DEADLOCK FALSE
INVARIANTS
    WakeIsNotLost
    HintedTaskIsTaken
    NoStarvation
