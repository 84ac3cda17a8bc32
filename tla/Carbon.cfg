CONSTANTS
    a1 = a1
    a2 = a2
    e1 = e1
    s1 = s1
    s2 = s2
    s3 = s3
    s4 = s4
    p1 = p1
    p2 = p2
    p3 = p3
    f1 = f1
    o1 = o1
    o2 = o2
    o3 = o3
    c1 = c1
    c2 = c2
    None = None
    Root = Root
SPECIFICATION Spec
INVARIANTS
    CarbonAddsUp
PROPERTIES
    CarbonSteps
SYMMETRY Symmetry
CHECK_DEADLOCK FALSE
