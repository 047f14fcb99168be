\* One DeviceConfig: edits, deletion and recreation, a failing call, a crash.
CONSTANTS
    d1 = d1  d2 = d2
    n1 = n1  n2 = n2  n3 = n3
    pci = pci  zone = zone
    old = old  new = new
    None = None
    NoSelector = NoSelector
    DeviceConfigs = {d1}
    Drivers = {old, new}
    Nodes = {n1, n3}
    Labels = {pci, zone}
    PCILabel = pci
    LabelsOf <- MCDisjointLabelsOf
    Chain <- MCModuleAndNodeLabeler
    UserSpecs <- MCTwoPools
    Env = {"edit", "delete"}
    MaxOps = 3
    MaxFaults = 1
    MaxCrashes = 1
SPECIFICATION Spec
INVARIANTS
    TypeOK
    FinalizerGuardsModule
    GuardInv
    SuccessorWaits
    ReadyImpliesDeployed
    RestsOnlyWhenDone
PROPERTIES
    StatusForCurrentSpec
    ImplementsLifecycle
CHECK_DEADLOCK FALSE
