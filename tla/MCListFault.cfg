\* The List of the node selector check fails.
CONSTANTS
    d1 = d1  d2 = d2
    n1 = n1  n2 = n2  n3 = n3
    pci = pci  zone = zone
    old = old  new = new
    None = None
    NoSelector = NoSelector
    DeviceConfigs = {d1}
    Drivers = {old, new}
    Nodes = {n1, n3}
    Labels = {pci, zone}
    PCILabel = pci
    LabelsOf <- MCDisjointLabelsOf
    Chain <- MCModuleOnly
    UserSpecs <- MCTwoPools
    Env = {"listFault"}
    MaxOps = 1
    MaxFaults = 1
    MaxCrashes = 0
SPECIFICATION Spec
PROPERTIES
    ConflictEventIsTrue
CHECK_DEADLOCK FALSE
