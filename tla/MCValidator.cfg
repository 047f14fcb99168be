\* Changes before, between and after checks, and a List that fails.
CONSTANTS
    n1 = n1  n2 = n2
    pci = pci  zone = zone
    driver = driver
    None = None
    NoSelector = NoSelector
    DeviceConfigs = {a, b}
    Drivers = {driver}
    Nodes = {n1, n2}
    Labels = {pci, zone}
    PCILabel = pci
    LabelsOf <- MCLabelsOf
    UserSpecs <- MCUserSpecs
    MaxChanges = 4
    MaxErrors = 1
SPECIFICATION FairSpec
INVARIANTS
    TypeOK
    CheckInv
    SteadyConflictCaught
    ExactForSteadyNodes
PROPERTIES
    ConflictComesOut
CHECK_DEADLOCK FALSE
