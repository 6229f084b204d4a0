SPECIFICATION CrashSpec
CONSTANTS
    Task = {t1}
    Worker = {w1, w2}
    ShowTime <- MCShowTime
    Setting <- TwoSettings
    Floor = 3
    Backoff <- ShortBackoff
    MailTime = 1
    FetchTime = 1
    IdleTime = 1
    Lease = 4
    Horizon = 8
    MaxPassed = 1
    NoTask = NoTask
    NoWorker = NoWorker
SYMMETRY Symmetry
CHECK_DEADLOCK FALSE
INVARIANTS
    FloorLessMailTime
    SavedScheduleKept
    NoConcurrentFetch
