---------------------- MODULE MCDeviceConfigController ----------------------
(***************************************************************************)
(* Small instances of DeviceConfigController.                              *)
(***************************************************************************)
EXTENDS DeviceConfigController, TLC

CONSTANTS d1, d2, n1, n2, n3, pci, zone, old, new

(* n1 and n2 have an accelerator, n2 and n3 are in the zone: the default   *)
(* selector and {zone} overlap on n2.                                      *)
MCLabelsOf == (n1 :> {pci}) @@ (n2 :> {pci, zone}) @@ (n3 :> {zone})

(* The same cluster without n2: the two selectors are disjoint.            *)
MCDisjointLabelsOf == (n1 :> {pci}) @@ (n3 :> {zone})

SpecOf(driver, selector) == [driver |-> driver, nodeSelector |-> selector]

(* One driver on the default nodes, another on the nodes of the zone, and  *)
(* a nodeSelector that is given and empty.  With one pool, any two         *)
(* DeviceConfigs are in conflict.                                          *)
MCOnePool == {SpecOf(old, NoSelector)}
MCTwoPools == {SpecOf(old, NoSelector), SpecOf(new, {zone})}
MCTwoPoolsAndAll == MCTwoPools \cup {SpecOf(old, {})}

(* The order of Reconcile, and shorter chains where the children left out  *)
(* add nothing to the question.                                            *)
MCModuleAndNodeLabeler == <<"Module", "NodeLabeler">>
MCModuleMetricsAndService == <<"Module", "NodeMetrics", "Service">>
MCModuleAndService == <<"Module", "Service">>
MCModuleOnly == <<"Module">>
=============================================================================
