SPECIFICATION WebSpec
CONSTANTS
    u0 = u0
    u1 = u1
    Task = {t0, t1, t2}
    tasksOfLegacy = {t0}
    User <- MCUser
    Request = {r1, r2}
    OwnerOf <- MCOwnerOf
    MaxActive = 1
    Invitation = {i1, i2}
    EmailOf <- MCEmailOf
    Legacy <- MCLegacy
VIEW MCView
SYMMETRY Symmetry
CHECK_DEADLOCK FALSE
INVARIANTS
    ActiveLimit
    OneAccountPerEmail
PROPERTIES
    AcceptedIsFinal
    NoTaskForDisabled
