\* One DeviceConfig with Module, node metrics and Service; no resync is needed to converge.
CONSTANTS
    d1 = d1  d2 = d2
    n1 = n1  n2 = n2  n3 = n3
    pci = pci  zone = zone
    old = old  new = new
    None = None
    NoSelector = NoSelector
    DeviceConfigs = {d1}
    Drivers = {old, new}
    Nodes = {n1, n3}
    Labels = {pci, zone}
    PCILabel = pci
    LabelsOf <- MCDisjointLabelsOf
    Chain <- MCModuleMetricsAndService
    UserSpecs <- MCTwoPools
    Env = {"edit", "delete"}
    MaxOps = 2
    MaxFaults = 1
    MaxCrashes = 0
SPECIFICATION FairSpec
PROPERTIES
    DeletionCompletes
    EventuallyConverged
CHECK_DEADLOCK FALSE
