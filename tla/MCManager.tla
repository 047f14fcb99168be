------------------------------ MODULE MCManager ------------------------------
(***************************************************************************)
(* A small instance of Manager: two replicas that compete, and one whose   *)
(* Deployment forgot a variable.                                           *)
(***************************************************************************)
EXTENDS Manager, TLC

CONSTANTS m1, m2, broken

MCRequired ==
    {"DEVICE_PLUGIN_IMAGE", "DRIVER_HABANA_IMAGE_BASENAME",
     "NODE_METRICS_IMAGE", "NODE_LABELER_IMAGE"}

MCEnvOf ==
    [p \in Managers |-> IF p = broken
                        THEN MCRequired \ {"NODE_LABELER_IMAGE"}
                        ELSE MCRequired]
=============================================================================
