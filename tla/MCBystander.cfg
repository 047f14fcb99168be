\* A third DeviceConfig that shares no node with the two that do.
CONSTANTS
    n1 = n1  n2 = n2
    pci = pci  zone = zone
    driver = driver
    None = None
    NoSelector = NoSelector
    DeviceConfigs = {a, b, c}
    Drivers = {driver}
    Nodes = {n1, n2}
    Labels = {pci, zone}
    PCILabel = pci
    LabelsOf <- MCLabelsOf
    UserSpecs <- MCUserSpecs
    MaxChanges = 4
    MaxErrors = 0
SPECIFICATION Spec
INVARIANTS
    RefusedForOwnNodes
SYMMETRY MCSymmetry
CHECK_DEADLOCK FALSE
