SPECIFICATION FairSpec
CONSTANTS
    h1 = h1
    h2 = h2
    A = A
    B = B
    c1 = c1
    c2 = c2
    c3 = c3
    Holders = {h1, h2}
    NoHolder = NoHolder
    Lockers = {A, B}
    Callers = {c1, c2, c3}
    HolderOf <- MCHolderOf
    LockerOf <- MCLockerOf
    DurationOf <- MCDurationOf
    FirstEpoch <- MCFirstEpoch
    MaxAttempts = 1
    Horizon = 2
    MaxVersion = 3
    MaxFaults = 1
PROPERTIES AbandonedLeaseIsTaken
