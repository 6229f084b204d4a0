SPECIFICATION Spec
CONSTANTS
    u1 = u1
    Task = {t1}
    Worker = {w1}
    User <- MCUser
    Target = {g1}
    OwnerOf <- MCOwnerOf
    TargetOf <- MCTargetOf
    MaxActive = 2
    TerminalLimit = 2
    RetryLimit = 1
    MayBeAccepted <- GarbledAnswers
    NoTask = NoTask
    NoWorker = NoWorker
    NoNote = NoNote
INVARIANTS
    AtMostOneMail
