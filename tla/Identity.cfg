CONSTANTS
    u1 = u1
    u2 = u2
    c1 = c1
    c2 = c2
    i1 = i1
    g1 = g1
    g2 = g2
    t1 = t1
    t2 = t2
    s1 = s1
    s2 = s2
    k1 = k1
    None = None
    User = {u1, u2}
    Client = {c1, c2}
    Invitation = {i1}
    Group = {g1, g2}
    MaxRequests = 3
    Caller = {c1, c2}
    Link = {t1}
    Login = {t2}
    Session = {s1, s2}
    Code = {k1}
    MaxSignIns = 3
    MaxSecrets = 2
    Count = 1
    MaxScim = 3
    l1 = l1
    l2 = l2
    n1 = n1
    Tab = {l1, l2}
    Subject = {n1}
    Ttl = 1
    Skew = 0
    MaxTime = 1
    MaxAnswers = 1
    MaxMoves = 1
SPECIFICATION Spec
INVARIANTS
    Consistent
    AdministratorRemains
    SingleUse
PROPERTIES
    ScimKeepsToItsRoles
    InvitationsHold
    SecondFactorStands
SYMMETRY Symmetry
CHECK_DEADLOCK FALSE
