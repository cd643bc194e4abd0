SPECIFICATION Spec
CONSTANTS
    g1 = g1
    g2 = g2
    m1 = m1
    m2 = m2
    a1 = a1
    a2 = a2
    Migrations = {g1}
    NoMigration = NoMigration
    Managers = {m1, m2}
    Approvals = {}
    NoApproval = NoApproval
    NeedsApproval = FALSE
    MaxClaims = 2
    MaxReads = 2
    MaxGrants = 3
    MaxFaults = 1
    Window = 1
    StopGrace = 1
    LeaseGrace = 0
    LateCreates = TRUE
    Owners = {1, 2}
    NoOwner = 0
    Longest = 2
INVARIANTS PartialIsRemembered MarkCoversJob RecordHasCopy
PROPERTIES NoReplay
SYMMETRY Symmetry
CHECK_DEADLOCK FALSE
