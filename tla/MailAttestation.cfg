SPECIFICATION FairSpec
CONSTANTS
    Worker = {w1}
    Operator = {p1}
    MaxRequests = 2
    MaxRetries = 2
    NoWorker = NoWorker
INVARIANTS
    FlagFollowsStatus
    ClaimOnlyWhilePending
    BackoffBelongsToRetry
PROPERTIES
    OnlyItsTestSettlesARequest
    RequestIsAnswered
    MailRecovers
