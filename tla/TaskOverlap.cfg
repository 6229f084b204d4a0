SPECIFICATION Spec
CONSTANTS
    u1 = u1
    Task = {t1}
    Worker = {w1, w2}
    User <- MCUser
    Target = {g1}
    OwnerOf <- MCOwnerOf
    TargetOf <- MCTargetOf
    MaxActive = 1
    TerminalLimit = 2
    RetryLimit = 1
    MayBeAccepted <- DefiniteFailures
    NoTask = NoTask
    NoWorker = NoWorker
    NoNote = NoNote
SYMMETRY Symmetry
INVARIANTS
    TypeOK
    LiveOpeningMeansDetected
    CompletedIffOpeningSent
    AtMostOneMail
    NoContradictoryMails
    ClaimOnlyWhileMonitoring
    ScheduledIffMonitoring
    OutcomeIsAnnounced
PROPERTIES
    OvertakenCheckIsDiscarded
