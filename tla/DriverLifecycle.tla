--------------------------- MODULE DriverLifecycle ---------------------------
(***************************************************************************)
(* What the deletion finalizer promises a cluster administrator: the       *)
(* Module that loads a driver on the nodes of a DeviceConfig is only there *)
(* while the DeviceConfig is, and the DeviceConfig outlives it.            *)
(***************************************************************************)
EXTENDS TLAPS

CONSTANTS
    DeviceConfigs,
    OthersUnload    \* may anyone but the operator delete a Module?

VARIABLES
    config,         \* the life of each DeviceConfig
    loaded          \* does the Module of the DeviceConfig exist?

vars == <<config, loaded>>

(* A DeviceConfig is protected once it carries the deletion finalizer.     *)
Lives == {"absent", "unprotected", "protected", "deleting"}

TypeOK ==
    /\ config \in [DeviceConfigs -> Lives]
    /\ loaded \in [DeviceConfigs -> BOOLEAN]

Init ==
    /\ config = [d \in DeviceConfigs |-> "absent"]
    /\ loaded = [d \in DeviceConfigs |-> FALSE]

Become(d, from, to) ==
    /\ config[d] = from
    /\ config' = [config EXCEPT ![d] = to]
    /\ UNCHANGED loaded

Create(d)        == Become(d, "absent", "unprotected")
Protect(d)       == Become(d, "unprotected", "protected")
Withdraw(d)      == Become(d, "unprotected", "absent")
RequestDelete(d) == Become(d, "protected", "deleting")

(* The finalizer is only given up once the driver is gone.                 *)
Release(d) == ~loaded[d] /\ Become(d, "deleting", "absent")

(* A reconcile that started before the deletion was requested may still    *)
(* create the Module after it.                                             *)
Load(d) ==
    /\ config[d] \in {"protected", "deleting"}
    /\ ~loaded[d]
    /\ loaded' = [loaded EXCEPT ![d] = TRUE]
    /\ UNCHANGED config

(* The operator unloads the driver of a DeviceConfig that is going away,   *)
(* and of no other.                                                        *)
Unload(d) ==
    /\ loaded[d]
    /\ config[d] = "deleting" \/ OthersUnload
    /\ loaded' = [loaded EXCEPT ![d] = FALSE]
    /\ UNCHANGED config

Next ==
    \E d \in DeviceConfigs :
        \/ Create(d) \/ Protect(d) \/ Withdraw(d) \/ RequestDelete(d)
        \/ Release(d) \/ Load(d) \/ Unload(d)

Spec == Init /\ [][Next]_vars

(* A loaded driver always belongs to a DeviceConfig that cannot vanish     *)
(* without the operator.                                                   *)
LoadedIsProtected ==
    \A d \in DeviceConfigs :
        loaded[d] => config[d] \in {"protected", "deleting"}

(* What the lifecycle is for: its rules alone keep every loaded driver     *)
(* protected.  (deviceconfig_controller.go:120-147)                        *)
THEOREM LifecycleProtects == Spec => []LoadedIsProtected
<1> DEFINE Inv == TypeOK /\ LoadedIsProtected
<1> USE DEF TypeOK, LoadedIsProtected, Lives
<1>1. Init => Inv
  BY DEF Init
<1>2. Inv /\ [Next]_vars => Inv'
  <2> SUFFICES ASSUME Inv, [Next]_vars PROVE Inv'
    OBVIOUS
  <2>1. ASSUME NEW d \in DeviceConfigs,
               Create(d) \/ Protect(d) \/ Withdraw(d) \/ RequestDelete(d)
        PROVE  Inv'
    BY <2>1 DEF Create, Protect, Withdraw, RequestDelete, Become
  <2>2. ASSUME NEW d \in DeviceConfigs, Release(d)
        PROVE  Inv'
    BY <2>2 DEF Release, Become
  <2>3. ASSUME NEW d \in DeviceConfigs, Load(d) \/ Unload(d)
        PROVE  Inv'
    BY <2>3 DEF Load, Unload
  <2>4. CASE UNCHANGED vars
    BY <2>4 DEF vars
  <2> QED BY <2>1, <2>2, <2>3, <2>4 DEF Next
<1> QED BY <1>1, <1>2, PTL DEF Spec
==============================================================================
