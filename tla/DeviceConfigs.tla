---------------------------- MODULE DeviceConfigs ----------------------------
(***************************************************************************)
(* The data the operator works on: DeviceConfig specs, the node selector   *)
(* a spec stands for, the nodes it selects, and the fields of the children *)
(* the operator derives from a DeviceConfig.  No state.                    *)
(*                                                                         *)
(* A label stands for one key=value pair of a Kubernetes label map, and    *)
(* two labels never share a key, so a selector is a set of labels and      *)
(* matches the nodes that carry all of them.  A driver stands for a        *)
(* driverImage and driverVersion, the only two fields the Module's kernel  *)
(* mappings take from the spec.                                            *)
(***************************************************************************)
EXTENDS FiniteSets

CONSTANTS
    DeviceConfigs,  \* names of DeviceConfig objects in the watched namespace
    Drivers,        \* <image, version> pairs a spec may ask for
    Nodes,          \* nodes of the cluster
    Labels,         \* labels a node may carry
    PCILabel,       \* feature.node.kubernetes.io/pci-1da3.present=true
    LabelsOf,       \* the labels of each node
    NoSelector,     \* the nil map: no nodeSelector in the spec
    None            \* no such object; also: no driver in this kind of child

ASSUME LabelAssumption ==
    /\ PCILabel \in Labels
    /\ LabelsOf \in [Nodes -> SUBSET Labels]

ASSUME SentinelAssumption ==
    /\ \A selector \in SUBSET Labels : selector # NoSelector /\ selector # None
    /\ None \notin DeviceConfigs
    /\ None \notin Drivers

-----------------------------------------------------------------------------
(* DeviceConfigSpec: {} and nil are two different node selectors.          *)
Selectors == {NoSelector} \cup SUBSET Labels

Specs == [driver : Drivers, nodeSelector : Selectors]

(* The shadowed deviceType of the switch is always "", so every caller,    *)
(* with or without an argument, gets the PCI label for a nil selector.     *)
GetNodeSelector(spec) ==
    IF spec.nodeSelector = NoSelector THEN {PCILabel} ELSE spec.nodeSelector

(* labels.Set(...).AsSelector() in a List of Nodes; a node that left the   *)
(* cluster has no labels at all.                                           *)
NodesMatching(labels, selector) ==
    {n \in Nodes : labels[n] # None /\ selector \subseteq labels[n]}

SelectedNodes(selector) == NodesMatching(LabelsOf, selector)

(* What an object written by the Go client decodes to: `omitempty` drops   *)
(* an empty nodeSelector, so it comes back as nil.                         *)
Stored(spec) ==
    IF spec.nodeSelector = {}
    THEN [spec EXCEPT !.nodeSelector = NoSelector]
    ELSE spec

Overlap(selector1, selector2) ==
    SelectedNodes(selector1) \cap SelectedNodes(selector2) # {}

-----------------------------------------------------------------------------
(* Children, reduced to what depends on the DeviceConfig: the uid in the   *)
(* controller owner reference, the driver and the node selector.           *)
Kinds == {"Module", "NodeLabeler", "NodeMetrics", "Service"}

DesiredModule(dc) ==
    [owner |-> dc.uid, driver |-> dc.spec.driver,
     selector |-> GetNodeSelector(dc.spec)]

DesiredNodeLabelerDaemonSet(dc) ==
    [owner |-> dc.uid, driver |-> None, selector |-> GetNodeSelector(dc.spec)]

DesiredNodeMetricsDaemonSet(dc) ==
    [owner |-> dc.uid, driver |-> None, selector |-> GetNodeSelector(dc.spec)]

(* The Service selects pods by fixed labels: nothing of the spec is in it. *)
DesiredNodeMetricsService(dc) ==
    [owner |-> dc.uid, driver |-> None, selector |-> {}]

Desired(kind, dc) ==
    CASE kind = "Module"      -> DesiredModule(dc)
      [] kind = "NodeLabeler" -> DesiredNodeLabelerDaemonSet(dc)
      [] kind = "NodeMetrics" -> DesiredNodeMetricsDaemonSet(dc)
      [] kind = "Service"     -> DesiredNodeMetricsService(dc)

(* Mutant of MergePatch: the owner is only set when the child is created.  *)
MergePatchKeepsOwner(before, after, live) ==
    [owner    |-> live.owner,
     driver   |-> after.driver,
     selector |-> after.selector]

(* A JSON merge patch of before -> after, applied to live: a field that    *)
(* did not change is not in the patch, and a map is merged key by key.     *)
MergePatch(before, after, live) ==
    [owner    |-> IF before.owner = after.owner THEN live.owner ELSE after.owner,
     driver   |-> IF before.driver = after.driver THEN live.driver
                                                  ELSE after.driver,
     selector |-> (live.selector \ (before.selector \ after.selector))
                    \cup (after.selector \ before.selector)]
=============================================================================
