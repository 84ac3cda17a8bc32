CONSTANTS
    f1 = f1
    f2 = f2
    d1 = d1
    d2 = d2
    d3 = d3
    v1 = v1
    v2 = v2
    c1 = c1
    c2 = c2
    k1 = k1
    k2 = k2
    k3 = k3
    r1 = r1
    r2 = r2
    e1 = e1
    None = None
    x1 = x1
    x2 = x2
    Record = {x1, x2}
    Verifier = {c1}
    NoRun = NoRun
    File = {f1, f2}
    n1 = n1
    Key = {n1}
    KeyOf <- OneKey
    Document = {d1, d2, d3}
    Evidence = {e1}
    Client = {c1, c2}
    Run = {r1, r2}
    Reviewer = {v1, v2}
    Candidate = {k1, k2, k3}
    MaxFound = 2
    MaxReviews = 3
    q1 = q1
    q2 = q2
    p1 = p1
    p2 = p2
    p3 = p3
    s1 = s1
    a1 = a1
    w1 = w1
    w2 = w2
    i1 = i1
    NoConnector = NoConnector
    Request = {q1, q2}
    Contact = {p1, p2, p3}
    Ref = {s1}
    Question = {a1}
    Required = {a1}
    MaxPassports = 2
    MaxTime = 2
    Field = {w1, w2}
    Mandatory = {w1}
    Connector = {i1}
    MaxLines = 2
    MaxRuns = 1
SPECIFICATION Spec
INVARIANTS
    Consistent
    DocumentHasObject
    ChecksHoldUnlessRaced
    ReviewListIsCurrent
    VerifiedWasReviewed
    VerdictOnRecord
PROPERTIES
    ReviewIsFinal
    SubmissionsStand
    ImplementsStatesUnlessStale
SYMMETRY Symmetry
CHECK_DEADLOCK FALSE
