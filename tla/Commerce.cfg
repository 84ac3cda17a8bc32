CONSTANTS
    r1 = r1
    r2 = r2
    r3 = r3
    Request = {r1, r2, r3}
    Quota = {0, 1, 2}
    SoftWarnPct = 60
    LastMonth = 1
    MaxPlanChanges = 1
    h1 = h1
    h2 = h2
    s1 = s1
    s2 = s2
    Handler = {h1, h2}
    Session = {s1, s2}
    MaxEvents = 2
    MaxEdits = 1
SPECIFICATION Spec
INVARIANTS
    Consistent
    QuotaIsKept
    FollowsInOrder
PROPERTIES
    CheckoutIsFinal
CHECK_DEADLOCK FALSE
