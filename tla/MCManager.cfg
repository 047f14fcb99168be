\* Two competitors and a replica that cannot start.
CONSTANTS
    m1 = m1  m2 = m2  broken = broken
    Nobody = Nobody  Gone = Gone
    Managers = {m1, m2, broken}
    Electing = {m1, m2, broken}
    Required <- MCRequired
    EnvOf <- MCEnvOf
    LeaseDuration = 5
    RenewDeadline = 2
    RetryPeriod = 1
    MaxFaults = 1
    MaxExits = 1
SPECIFICATION FairSpec
INVARIANTS
    OverlapOnlyIfLate
    LeaseInv
PROPERTIES
    SomeoneLeads
CHECK_DEADLOCK FALSE
