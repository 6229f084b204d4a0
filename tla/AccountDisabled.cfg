SPECIFICATION Spec
CONSTANTS
    u1 = u1
    Task = {t1, t2}
    User <- MCUser
    Request = {r1, r2}
    OwnerOf <- MCOwnerOf
    MaxActive = 1
INVARIANTS
    DisabledMonitorsNothing
