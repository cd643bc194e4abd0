SPECIFICATION Spec
CONSTANTS
    a1 = a1
    a2 = a2
    Contents = {1}
    Approvals = {a1, a2}
    NoApproval = NoApproval
    Policy = "OnApproval"
    MaxClaims = 4
    MaxGrants = 4
    MaxFaults = 1
    MaxPods = 1
    Window = 2
    StopGrace = 1
    LeaseGrace = 1
    Owners = {1, 2, 3, 4, 5}
    NoOwner = 0
    Longest = 3
INVARIANT ApprovalAuthorizesOneRun
SYMMETRY Symmetry
CHECK_DEADLOCK FALSE
