SPECIFICATION Spec
CONSTANTS
    g1 = g1
    g2 = g2
    m1 = m1
    m2 = m2
    a1 = a1
    a2 = a2
    Migrations = {g1}
    NoMigration = NoMigration
    Managers = {m1}
    Approvals = {a1, a2}
    NoApproval = NoApproval
    NeedsApproval = TRUE
    MaxClaims = 2
    MaxReads = 3
    MaxGrants = 3
    MaxFaults = 2
    Window = 1
    StopGrace = 1
    LeaseGrace = 0
    LateCreates = TRUE
    Owners = {1, 2}
    NoOwner = 0
    Longest = 2
INVARIANTS ApprovalAuthorizesOneRun TypeOK PartialIsRemembered RecordHasCopy ObligationsHoldObject
PROPERTIES NoReplay
SYMMETRY Symmetry
CHECK_DEADLOCK FALSE
