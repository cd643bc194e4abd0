SPECIFICATION FairSpec
CONSTANTS
    a1 = a1
    a2 = a2
    Contents = {1, 2}
    Approvals = {}
    NoApproval = NoApproval
    Policy = "Always"
    MaxClaims = 2
    MaxGrants = 4
    MaxFaults = 1
    MaxPods = 1
    Window = 2
    StopGrace = 1
    LeaseGrace = 1
    Owners = {1, 2, 3}
    NoOwner = 0
    Longest = 3
PROPERTY ProofSettles
PROPERTY RetirementSettles
PROPERTY OwedReleaseIsPaid
PROPERTY DeletionCompletes
CHECK_DEADLOCK FALSE
