CONSTANTS
    e1 = e1
    d1 = d1
    d2 = d2
    a1 = a1
    a2 = a2
    Endpoint = {e1}
    Delivery = {d1, d2}
    Admin = {a1, a2}
    MaxAttempts = 1
    ExtraAttempts = 2
    Threshold = 2
    BatchLimit = 2
    MaxRetries = 3
    MaxEdits = 1
SPECIFICATION FairSpec
INVARIANTS
    Consistent
    FailingEndpointIsDisabled
PROPERTIES
    SuccessIsFinal
    EveryDeliverySettles
CHECK_DEADLOCK FALSE
