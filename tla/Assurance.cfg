CONSTANTS
    c1 = c1
    c2 = c2
    e1 = e1
    p1 = p1
    p2 = p2
    None = None
    d1 = d1
    d2 = d2
    d3 = d3
    s1 = s1
    s2 = s2
    s3 = s3
    ReportingPeriod = {p1, p2}
    PeriodOf <- OnePeriodEach
    Required = {1, 2}
    RuleOf <- Rules
    DisclosureOf <- OneDisclosure
    Candidate <- Candidates
    MaxQuestions = 3
    MaxReports = 3
    Scanner = {c1, c2}
    Client = {c1, c2}
    Datapoint = {1, 2}
    Evidence = {e1}
    MaxRequests = 3
    MaxCompliance = 3
SPECIFICATION Spec
INVARIANTS
    ViewsAgree
PROPERTIES
    DecisionsStand
    FiguresHold
    FilingsFormChains
SYMMETRY Symmetric
CHECK_DEADLOCK FALSE
