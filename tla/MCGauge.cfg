\* An edit makes the copy of a running reconcile stale.
CONSTANTS
    d1 = d1  d2 = d2
    n1 = n1  n2 = n2  n3 = n3
    pci = pci  zone = zone
    old = old  new = new
    None = None
    NoSelector = NoSelector
    DeviceConfigs = {d1}
    Drivers = {old, new}
    Nodes = {n1, n3}
    Labels = {pci, zone}
    PCILabel = pci
    LabelsOf <- MCDisjointLabelsOf
    Chain <- MCModuleOnly
    UserSpecs <- MCTwoPools
    Env = {"edit"}
    MaxOps = 2
    MaxFaults = 0
    MaxCrashes = 0
SPECIFICATION Spec
PROPERTIES
    GaugeReportsFailure
CHECK_DEADLOCK FALSE
