------------------------ MODULE NodeSelectorValidator ------------------------
(***************************************************************************)
(* CheckDeviceConfigForConflictingNodeSelector, step by step: one List of  *)
(* the DeviceConfigs, then one List of the matching nodes for each of      *)
(* them, while nodes join, leave and are relabelled between the Lists.     *)
(*                                                                         *)
(* DeviceConfigController takes the whole check as one step.  What is      *)
(* shown here is when that is exact, what it hides, and what becomes of a  *)
(* verdict that nodes, which nobody watches, have overtaken.               *)
(***************************************************************************)
EXTENDS DeviceConfigs, Naturals

CONSTANTS
    UserSpecs,      \* the specs of the DeviceConfigs
    MaxChanges,     \* bound on the changes of nodes and DeviceConfigs
    MaxErrors       \* bound on the Lists that fail

ASSUME ValidatorAssumption ==
    /\ UserSpecs \subseteq Specs
    /\ MaxChanges \in Nat
    /\ MaxErrors \in Nat

VARIABLES
    dcs,            \* cached DeviceConfigs: the spec of each
    nodeLabels,     \* cached Nodes: the labels of each
    pc,
    cr,             \* the DeviceConfig the check is for
    listed,         \* the DeviceConfigs of the List
    todo,           \* those the loop has not reached
    names,          \* how often each node name was collected
    verdict,
    gauge,          \* habana_ai_operator_reconciliation_failed
    changes, errors,    \* changes and errors still to come
    steady          \* history: nodes not changed since the List

checkVars == <<pc, cr, listed, todo, names, verdict, gauge, errors>>
vars == <<dcs, nodeLabels, checkVars, changes, steady>>

-----------------------------------------------------------------------------
NodeLabels == {None} \cup SUBSET Labels

NoConfigs == [d \in DeviceConfigs |-> None]

TypeOK ==
    /\ dcs \in [DeviceConfigs -> {None} \cup Specs]
    /\ nodeLabels \in [Nodes -> NodeLabels]
    /\ pc \in {"idle", "list", "nodes"}
    /\ cr \in DeviceConfigs \cup {None}
    /\ listed \in [DeviceConfigs -> {None} \cup Specs]
    /\ todo \subseteq DeviceConfigs
    /\ names \in [Nodes -> Nat]
    /\ verdict \in {"none", "valid", "conflict", "error"}
    /\ gauge \in [DeviceConfigs -> {"unset", "ok", "failed"}]
    /\ changes \in 0..MaxChanges /\ errors \in 0..MaxErrors
    /\ steady \subseteq Nodes

(* The nodes two DeviceConfigs of a list select under the given labels.    *)
Shared(configs, labels) ==
    {n \in Nodes : \E d, e \in DeviceConfigs :
        /\ d # e /\ configs[d] # None /\ configs[e] # None
        /\ n \in NodesMatching(labels, GetNodeSelector(configs[d]))
        /\ n \in NodesMatching(labels, GetNodeSelector(configs[e]))}

Init ==
    /\ dcs = NoConfigs /\ nodeLabels = LabelsOf
    /\ pc = "idle" /\ cr = None
    /\ listed = NoConfigs /\ todo = {}
    /\ names = [n \in Nodes |-> 0]
    /\ verdict = "none"
    /\ gauge = [d \in DeviceConfigs |-> "unset"]
    /\ changes = MaxChanges /\ errors = MaxErrors
    /\ steady = {}

-----------------------------------------------------------------------------
(* Mutant of Call: a DeviceConfig that passed is not checked again.        *)
CallUnlessOk(d) ==
    /\ pc = "idle"
    /\ dcs[d] # None /\ gauge[d] # "ok"
    /\ pc' = "list" /\ cr' = d
    /\ verdict' = "none"
    /\ names' = [n \in Nodes |-> 0]
    /\ UNCHANGED <<dcs, nodeLabels, listed, todo, gauge, changes, errors, steady>>

(* Mutant of Call: the names of the last check are still there.            *)
CallKeepingNames(d) ==
    /\ pc = "idle"
    /\ dcs[d] # None
    /\ pc' = "list" /\ cr' = d
    /\ verdict' = "none"
    /\ UNCHANGED <<dcs, nodeLabels, listed, todo, names, gauge, changes, errors,
                   steady>>

(* Reconcile calls the check for a DeviceConfig it has just read.          *)
Call(d) ==
    /\ pc = "idle"
    /\ dcs[d] # None
    /\ pc' = "list" /\ cr' = d
    /\ verdict' = "none"
    /\ names' = [n \in Nodes |-> 0]
    /\ UNCHANGED <<dcs, nodeLabels, listed, todo, gauge, changes, errors, steady>>

(* Mutant of Report: the verdict itself is the value of the gauge.         *)
ReportVerdict(result) == gauge' = [gauge EXCEPT ![cr] = result]

(* Reconcile sets the gauge: to 1 for a conflict and for an error of the   *)
(* check, to 0 when it has passed and the children are reconciled.         *)
Report(result) ==
    gauge' = [gauge EXCEPT ![cr] = IF result = "valid" THEN "ok" ELSE "failed"]

Return(result) == pc' = "idle" /\ verdict' = result /\ Report(result)

(* A List that fails ends the check.                                       *)
Error ==
    /\ errors > 0 /\ errors' = errors - 1
    /\ Return("error")

ListDeviceConfigs ==
    /\ pc = "list"
    /\ \/ /\ pc' = "nodes"
          /\ listed' = dcs
          /\ todo' = {d \in DeviceConfigs : dcs[d] # None}
          /\ steady' = Nodes
          /\ UNCHANGED <<verdict, gauge, errors>>
       \/ Error /\ UNCHANGED <<listed, todo, steady>>
    /\ UNCHANGED <<dcs, nodeLabels, cr, names, changes>>

(* Mutant of Collect: the names of the last DeviceConfig replace the rest. *)
CollectLast(d) ==
    LET selected == NodesMatching(nodeLabels, GetNodeSelector(listed[d]))
    IN  [n \in Nodes |-> IF n \in selected THEN 1 ELSE 0]

(* getDeviceConfigSelectedNodes for the next DeviceConfig of the loop; a   *)
(* List returns the objects in no particular order.                        *)
Collect(d) ==
    LET selected == NodesMatching(nodeLabels, GetNodeSelector(listed[d]))
    IN  [n \in Nodes |-> names[n] + (IF n \in selected THEN 1 ELSE 0)]

ListSelectedNodes(d) ==
    /\ pc = "nodes" /\ d \in todo
    /\ \/ /\ names' = Collect(d)
          /\ todo' = todo \ {d}
          /\ UNCHANGED <<pc, verdict, gauge, errors>>
       \/ Error /\ UNCHANGED <<names, todo>>
    /\ UNCHANGED <<dcs, nodeLabels, cr, listed, changes, steady>>

(* Mutant of containsDuplicates: one occurrence is taken for two.          *)
containsOne(count) == \E n \in Nodes : count[n] > 0

containsDuplicates(count) == \E n \in Nodes : count[n] > 1

Decide ==
    /\ pc = "nodes" /\ todo = {}
    /\ Return(IF containsDuplicates(names) THEN "conflict" ELSE "valid")
    /\ UNCHANGED <<dcs, nodeLabels, cr, listed, todo, names, changes, errors,
                   steady>>

-----------------------------------------------------------------------------
(* The caches move on: users edit DeviceConfigs, nodes change.             *)
ChangeDeviceConfig(d, spec) ==
    /\ changes > 0 /\ changes' = changes - 1
    /\ dcs[d] # spec
    /\ dcs' = [dcs EXCEPT ![d] = spec]
    /\ UNCHANGED <<nodeLabels, checkVars, steady>>

ChangeNode(n, labels) ==
    /\ changes > 0 /\ changes' = changes - 1
    /\ nodeLabels[n] # labels
    /\ nodeLabels' = [nodeLabels EXCEPT ![n] = labels]
    /\ steady' = steady \ {n}
    /\ UNCHANGED <<dcs, checkVars>>

Check == ListDeviceConfigs \/ Decide \/ \E d \in DeviceConfigs : ListSelectedNodes(d)

Next ==
    \/ Check
    \/ \E d \in DeviceConfigs : Call(d)
    \/ \E d \in DeviceConfigs, spec \in UserSpecs \cup {None} :
        ChangeDeviceConfig(d, spec)
    \/ \E n \in Nodes, labels \in NodeLabels : ChangeNode(n, labels)

Spec == Init /\ [][Next]_vars

(* The worker runs; resyncs put every DeviceConfig in the queue time and   *)
(* again, and the queue is first in, first out.                            *)
FairSpec ==
    Spec /\ WF_vars(Check) /\ \A d \in DeviceConfigs : SF_vars(Call(d))

-----------------------------------------------------------------------------
(* A check that passes saw no conflict that was there all along: a node    *)
(* that kept its labels since the List is selected by at most one of the   *)
(* listed DeviceConfigs.  (nodeselector.go:48-62)                          *)
SteadyConflictCaught ==
    verdict = "valid" => Shared(listed, nodeLabels) \cap steady = {}

(* The one-step check of DeviceConfigController is exact as long as the    *)
(* nodes stand still: the verdict is that of the listed DeviceConfigs.     *)
ExactForSteadyNodes ==
    verdict \in {"valid", "conflict"} /\ steady = Nodes
    => (verdict = "conflict" <=> Shared(listed, nodeLabels) # {})

(* Why: of the DeviceConfigs the loop is done with, the number of times a  *)
(* steady node was collected tells none, one and more than one apart; and  *)
(* there is a verdict only after the last of them.                         *)
Listed == {d \in DeviceConfigs : listed[d] # None}

Done == Listed \ todo

Selecting(n) ==
    {d \in Done : n \in NodesMatching(nodeLabels, GetNodeSelector(listed[d]))}

Counted(n) ==
    /\ names[n] = 0 <=> Selecting(n) = {}
    /\ names[n] > 1 <=> \E d, e \in Selecting(n) : d # e

Judged == verdict \in {"valid", "conflict"}

CheckInv ==
    /\ TypeOK /\ todo \subseteq Listed
    /\ pc = "list" => names = [n \in Nodes |-> 0]
    /\ pc # "idle" => verdict = "none"
    /\ pc = "nodes" \/ Judged => \A n \in steady : Counted(n)
    /\ Judged => /\ todo = {}
                 /\ verdict = "conflict" <=> containsDuplicates(names)

(* A DeviceConfig is only refused if its own selector includes a node that *)
(* is part of another DeviceConfig's selector.  (docs/design.md:65-67)     *)
RefusedForOwnNodes ==
    verdict = "conflict" /\ steady = Nodes /\ listed[cr] # None
    => \E e \in DeviceConfigs \ {cr} :
        /\ listed[e] # None
        /\ NodesMatching(nodeLabels, GetNodeSelector(listed[cr]))
            \cap NodesMatching(nodeLabels, GetNodeSelector(listed[e])) # {}

(* No node event starts a reconcile, and a verdict may be old when it is   *)
(* reported.  Still, once DeviceConfigs and nodes are left alone, the      *)
(* gauge of each comes to say whether two of them share a node.            *)
(* (nodeselector.go:79, deviceconfig_controller.go:131-145, 173)           *)
ConflictComesOut ==
    \A d \in DeviceConfigs : <>[](
        dcs[d] # None =>
            gauge[d] = IF Shared(dcs, nodeLabels) # {} THEN "failed" ELSE "ok")
=============================================================================
