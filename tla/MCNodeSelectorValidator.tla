---------------------- MODULE MCNodeSelectorValidator ----------------------
(***************************************************************************)
(* A small instance of NodeSelectorValidator: three DeviceConfigs of two   *)
(* selectors, and two nodes, one of them matching both.                    *)
(***************************************************************************)
EXTENDS NodeSelectorValidator, TLC

CONSTANTS n1, n2, pci, zone, driver

MCLabelsOf == (n1 :> {pci}) @@ (n2 :> {zone})

MCUserSpecs ==
    {[driver |-> driver, nodeSelector |-> s] : s \in {NoSelector, {zone}}}

MCSymmetry == Permutations(DeviceConfigs)
=============================================================================
