---------------------------- MODULE MCLateLeader ----------------------------
(***************************************************************************)
(* A small instance of LateLeader: one DeviceConfig name, two drivers.     *)
(***************************************************************************)
EXTENDS LateLeader, TLC

CONSTANTS d1, n1, n3, pci, zone, old, new

MCLabelsOf == (n1 :> {pci}) @@ (n3 :> {zone})

(* Two drivers for the same nodes.                                         *)
MCUserSpecs ==
    {[driver |-> v, nodeSelector |-> NoSelector] : v \in Drivers}

MCModuleOnly == <<"Module">>
=============================================================================
