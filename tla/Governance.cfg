CONSTANTS
    r1 = r1
    r2 = r2
    a = a
    b = b
    u1 = u1
    u2 = u2
    j1 = j1
    j2 = j2
    Row = {r1, r2}
    Target = {a, b}
    MinAge = 1
    MaxAge = 1
    Run = {u1, u2}
    MaxDay = 2
    MaxEdits = 2
    Job = {j1, j2}
    Ttl = 1
    JobMinAge = 2
    MaxTime = 5
    p1 = p1
    p2 = p2
    o1 = o1
    o2 = o2
    k1 = k1
    q1 = q1
    q2 = q2
    None = None
    Person = {p1, p2}
    Organization = {o1, o2}
    Key = {k1}
    Request = {q1, q2}
    MaxChanges = 2
SYMMETRY Symmetry
SPECIFICATION Spec
INVARIANTS
    Consistent
    AvailableForTtl
PROPERTIES
    LimitsHold
CHECK_DEADLOCK FALSE
