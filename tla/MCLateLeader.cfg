\* A DeviceConfig is edited, deleted and recreated around a change of leader.
CONSTANTS
    d1 = d1
    n1 = n1  n3 = n3
    pci = pci  zone = zone
    old = old  new = new
    None = None
    NoSelector = NoSelector
    DeviceConfigs = {d1}
    Drivers = {old, new}
    Nodes = {n1, n3}
    Labels = {pci, zone}
    PCILabel = pci
    LabelsOf <- MCLabelsOf
    Chain <- MCModuleOnly
    UserSpecs <- MCUserSpecs
    Env = {"edit", "delete"}
    MaxOps = 2
    MaxFaults = 0
    MaxCrashes = 0
    MaxBacklog = 1
    MaxLag = 1
SPECIFICATION FairSpec
INVARIANTS
    OwnedIsGuarded
PROPERTIES
    StatusForCurrentSpec
    SuccessorConverges
CHECK_DEADLOCK FALSE
