\* Two DeviceConfigs in conflict until one is deleted; children vanish.
CONSTANTS
    d1 = d1  d2 = d2
    n1 = n1  n2 = n2  n3 = n3
    pci = pci  zone = zone
    old = old  new = new
    None = None
    NoSelector = NoSelector
    DeviceConfigs = {d1, d2}
    Drivers = {old, new}
    Nodes = {n1, n2, n3}
    Labels = {pci, zone}
    PCILabel = pci
    LabelsOf <- MCLabelsOf
    Chain <- MCModuleAndService
    UserSpecs <- MCOnePool
    Env = {"delete", "tamper"}
    MaxOps = 3
    MaxFaults = 0
    MaxCrashes = 0
SPECIFICATION ResyncSpec
INVARIANTS
    OneDriverPerNode
PROPERTIES
    EventuallyConverged
CHECK_DEADLOCK FALSE
