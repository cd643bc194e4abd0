SPECIFICATION Spec
CONSTANTS
    a1 = a1
    a2 = a2
    Contents = {1}
    Approvals = {}
    NoApproval = NoApproval
    Policy = "Always"
    MaxClaims = 1
    MaxGrants = 2
    MaxFaults = 1
    MaxPods = 1
    Window = 2
    StopGrace = 1
    LeaseGrace = 1
    Owners = {1, 2}
    NoOwner = 0
    Longest = 3
PROPERTY RetriedClaimGoesOn
CHECK_DEADLOCK FALSE
