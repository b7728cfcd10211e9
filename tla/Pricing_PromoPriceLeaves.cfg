SPECIFICATION Spec
CONSTANTS
    s1 = s1
    s2 = s2
    a1 = a1
    a2 = a2
    cron = cron
    admin = admin
    Products = {s1}
    Usd = {1, 2}
    MaxOff = 2
    MaxChange = 2
    MaxPromo = 2
    Approvers = {a1}
    Closers = {cron}
    Cron = cron
    None = None
INVARIANT PromoPriceLeaves
CHECK_DEADLOCK FALSE
