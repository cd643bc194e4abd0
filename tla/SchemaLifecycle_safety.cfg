SPECIFICATION Spec
CONSTANTS
    a1 = a1
    a2 = a2
    Contents = {1}
    Approvals = {}
    NoApproval = NoApproval
    Policy = "Always"
    MaxClaims = 2
    MaxGrants = 4
    MaxFaults = 2
    MaxPods = 2
    Window = 1
    StopGrace = 1
    LeaseGrace = 1
    Owners = {1, 2, 3}
    NoOwner = 0
    Longest = 2
INVARIANT TypeOK
INVARIANT WriterHoldsRealm
INVARIANT QuietWhenInSync
INVARIANT PlanIsOfCurrentBinding
INVARIANT RetirementHasItsClaim
INVARIANT ObligationsHoldObject
PROPERTY ReleasedOnlyWhenOver
PROPERTY CreditIsOwn
CHECK_DEADLOCK FALSE
