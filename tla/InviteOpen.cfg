SPECIFICATION Spec
CONSTANTS
    e1 = e1
    Invitation = {i1, i2}
    Email <- MCEmail
    EmailOf <- MCEmailOf
    Legacy <- MCLegacy
    Request = {r1, r2}
CHECK_DEADLOCK FALSE
INVARIANTS
    OneOpenInvitation
