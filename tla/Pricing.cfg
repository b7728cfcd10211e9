SPECIFICATION Spec
CONSTANTS
    s1 = s1
    s2 = s2
    a1 = a1
    a2 = a2
    cron = cron
    admin = admin
    Products = {s1, s2}
    Usd = {1, 2}
    MaxOff = 2
    MaxChange = 1
    MaxPromo = 2
    Approvers = {a1, a2}
    Closers = {cron, admin}
    Cron = cron
    None = None
SYMMETRY MCSymmetry
CONSTRAINT MCBound
INVARIANTS   AppliedInFull
PROPERTIES OverwritesOnlyUnseen AppliedStays
CHECK_DEADLOCK FALSE
