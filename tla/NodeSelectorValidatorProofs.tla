--------------------- MODULE NodeSelectorValidatorProofs ---------------------
(***************************************************************************)
(* What a verdict of the node selector check is worth, for any number of   *)
(* DeviceConfigs, nodes, labels, changes and failed Lists.                 *)
(***************************************************************************)
EXTENDS NodeSelectorValidator, TLAPS

LEMMA InitType == Init => TypeOK
<1> SUFFICES ASSUME Init PROVE TypeOK
  OBVIOUS
<1>1. NoConfigs \in [DeviceConfigs -> {None} \cup Specs]
  BY DEF NoConfigs
<1>2. nodeLabels \in [Nodes -> NodeLabels]
  BY LabelAssumption DEF Init, NodeLabels
<1> QED BY <1>1, <1>2, ValidatorAssumption DEF Init, TypeOK

(* The end of a check, with any of its results.                            *)
LEMMA ReturnType ==
    ASSUME TypeOK, NEW result \in {"valid", "conflict", "error"}, Return(result)
    PROVE  /\ gauge' \in [DeviceConfigs -> {"unset", "ok", "failed"}]
           /\ pc' = "idle" /\ verdict' = result
BY DEF Return, Report, TypeOK

LEMMA ErrorType ==
    ASSUME TypeOK, Error
    PROVE  /\ gauge' \in [DeviceConfigs -> {"unset", "ok", "failed"}]
           /\ errors' \in 0..MaxErrors
           /\ pc' = "idle" /\ verdict' = "error"
<1>1. Return("error") /\ errors \in 0..MaxErrors /\ errors > 0
      /\ errors' = errors - 1
  BY DEF Error, TypeOK
<1>2. errors' \in 0..MaxErrors
  BY <1>1, ValidatorAssumption
<1> QED BY <1>1, <1>2, ReturnType

LEMMA CollectType ==
    ASSUME TypeOK, NEW d \in DeviceConfigs
    PROVE  Collect(d) \in [Nodes -> Nat]
BY DEF Collect, TypeOK

-----------------------------------------------------------------------------
(* The steps of the check.                                                 *)
LEMMA CallKeeps ==
    ASSUME CheckInv, NEW d \in DeviceConfigs, Call(d)
    PROVE  CheckInv'
<1>1. TypeOK'
  BY DEF CheckInv, Call, TypeOK
<1> QED BY <1>1 DEF CheckInv, Call, Judged, Listed

(* A check that fails has no verdict to be wrong about.                    *)
LEMMA ErrorKeeps ==
    ASSUME CheckInv, Error,
           UNCHANGED <<dcs, nodeLabels, cr, listed, todo, names, changes, steady>>
    PROVE  CheckInv'
<1>1. TypeOK /\ pc' = "idle" /\ verdict' = "error"
  BY ErrorType DEF CheckInv
<1>2. TypeOK'
  BY <1>1, ErrorType DEF TypeOK
<1> QED BY <1>1, <1>2 DEF CheckInv, Judged, Listed

LEMMA ListDeviceConfigsKeeps ==
    ASSUME CheckInv, ListDeviceConfigs
    PROVE  CheckInv'
<1>1. CASE Error /\ UNCHANGED <<listed, todo, steady>>
  BY <1>1, ErrorKeeps DEF ListDeviceConfigs
<1>2. CASE ~(Error /\ UNCHANGED <<listed, todo, steady>>)
  <2>1. /\ pc = "list" /\ pc' = "nodes" /\ verdict = "none"
        /\ listed' = dcs /\ todo' = {d \in DeviceConfigs : dcs[d] # None}
        /\ steady' = Nodes /\ names' = names /\ names = [n \in Nodes |-> 0]
        /\ UNCHANGED <<verdict, gauge, errors, dcs, nodeLabels, cr, changes>>
    BY <1>2 DEF ListDeviceConfigs, CheckInv
  <2>2. TypeOK'
    BY <2>1 DEF CheckInv, TypeOK
  <2>3. Done' = {}
    BY <2>1 DEF Done, Listed
  <2>4. ASSUME NEW n \in Nodes PROVE Counted(n)'
    <3>1. Selecting(n)' = {} /\ names'[n] = 0
      BY <2>1, <2>3 DEF Selecting
    <3> QED BY <3>1 DEF Counted
  <2> QED BY <2>1, <2>2, <2>4 DEF CheckInv, Judged, Listed
<1> QED BY <1>1, <1>2

(* One more DeviceConfig: a steady node it selects is collected once more, *)
(* and one more of those the loop is done with selects it.                 *)
LEMMA ListSelectedNodesKeeps ==
    ASSUME CheckInv, NEW d \in DeviceConfigs, ListSelectedNodes(d)
    PROVE  CheckInv'
<1>1. CASE Error /\ UNCHANGED <<names, todo>>
  BY <1>1, ErrorKeeps DEF ListSelectedNodes
<1>2. CASE ~(Error /\ UNCHANGED <<names, todo>>)
  <2>1. /\ TypeOK /\ pc = "nodes" /\ pc' = "nodes" /\ verdict = "none"
        /\ d \in todo /\ d \in Listed
        /\ names' = Collect(d) /\ todo' = todo \ {d}
        /\ UNCHANGED <<verdict, gauge, errors, dcs, nodeLabels, cr, listed,
                       changes, steady>>
    BY <1>2 DEF ListSelectedNodes, CheckInv
  <2>2. TypeOK'
    BY <2>1, CollectType DEF TypeOK
  <2>3. Done \subseteq Done' /\ Done' \subseteq Done \cup {d} /\ d \notin Done
    BY <2>1 DEF Done, Listed
  <2>4. ASSUME NEW n \in steady PROVE Counted(n)'
    <3> DEFINE selected == NodesMatching(nodeLabels, GetNodeSelector(listed[d]))
    <3>1. n \in Nodes /\ names[n] \in Nat /\ Counted(n)
      BY <2>1 DEF CheckInv, TypeOK
    <3>2. CASE n \in selected
      <4>1. names'[n] = names[n] + 1
        BY <2>1, <3>1, <3>2 DEF Collect
      <4>2. Selecting(n)' = Selecting(n) \cup {d} /\ d \notin Selecting(n)
        BY <2>1, <2>3, <3>2 DEF Selecting, Done, Listed
      <4> QED BY <3>1, <4>1, <4>2 DEF Counted
    <3>3. CASE n \notin selected
      <4>1. names'[n] = names[n]
        BY <2>1, <3>1, <3>3 DEF Collect
      <4>2. Selecting(n)' = Selecting(n)
        BY <2>1, <2>3, <3>3 DEF Selecting
      <4> QED BY <3>1, <4>1, <4>2 DEF Counted
    <3> QED BY <3>2, <3>3
  <2> QED BY <2>1, <2>2, <2>4 DEF CheckInv, Judged, Listed
<1> QED BY <1>1, <1>2

LEMMA DecideKeeps ==
    ASSUME CheckInv, Decide
    PROVE  CheckInv'
<1> DEFINE result == IF containsDuplicates(names) THEN "conflict" ELSE "valid"
<1>1. TypeOK /\ Return(result) /\ result \in {"valid", "conflict"}
      /\ pc = "nodes" /\ todo = {}
      /\ UNCHANGED <<dcs, nodeLabels, cr, listed, todo, names, changes, errors,
                     steady>>
  BY DEF CheckInv, Decide
<1>2. /\ gauge' \in [DeviceConfigs -> {"unset", "ok", "failed"}]
      /\ pc' = "idle" /\ verdict' = result
  BY <1>1, ReturnType
<1>3. TypeOK'
  BY <1>1, <1>2 DEF TypeOK
<1>4. \A n \in steady : Counted(n)'
  BY <1>1 DEF CheckInv, Counted, Selecting, Done, Listed
<1>5. verdict' = "conflict" <=> containsDuplicates(names')
  BY <1>1, <1>2
<1> QED BY <1>1, <1>2, <1>3, <1>4, <1>5 DEF CheckInv, Judged, Listed

-----------------------------------------------------------------------------
(* The steps around it.                                                    *)
LEMMA ChangeDeviceConfigKeeps ==
    ASSUME CheckInv, NEW d \in DeviceConfigs, NEW spec \in UserSpecs \cup {None},
           ChangeDeviceConfig(d, spec)
    PROVE  CheckInv'
<1>1. spec \in {None} \cup Specs
  BY ValidatorAssumption
<1>2. changes' \in 0..MaxChanges
  BY ValidatorAssumption DEF ChangeDeviceConfig, CheckInv, TypeOK
<1>3. TypeOK'
  BY <1>1, <1>2 DEF ChangeDeviceConfig, checkVars, CheckInv, TypeOK
<1>4. \A n \in steady : Counted(n)' <=> Counted(n)
  BY DEF ChangeDeviceConfig, checkVars, Counted, Selecting, Done, Listed
<1> QED BY <1>3, <1>4
        DEF ChangeDeviceConfig, checkVars, CheckInv, Judged, Listed,
            containsDuplicates

(* A node that changes is not steady any more, and the others keep their   *)
(* labels.                                                                 *)
LEMMA ChangeNodeKeeps ==
    ASSUME CheckInv, NEW m \in Nodes, NEW labels \in NodeLabels,
           ChangeNode(m, labels)
    PROVE  CheckInv'
<1>1. changes' \in 0..MaxChanges
  BY ValidatorAssumption DEF ChangeNode, CheckInv, TypeOK
<1>2. TypeOK'
  BY <1>1 DEF ChangeNode, checkVars, CheckInv, TypeOK
<1>3. ASSUME NEW n \in steady' PROVE n \in steady /\ (Counted(n)' <=> Counted(n))
  <2>1. n \in steady /\ n # m /\ n \in Nodes
    BY <1>3 DEF ChangeNode, CheckInv, TypeOK
  <2>2. nodeLabels'[n] = nodeLabels[n]
    BY <2>1 DEF ChangeNode, CheckInv, TypeOK
  <2>3. Selecting(n)' = Selecting(n)
    BY <2>2 DEF ChangeNode, checkVars, Selecting, Done, Listed, NodesMatching
  <2> QED BY <2>1, <2>3 DEF ChangeNode, checkVars, Counted
<1> QED BY <1>2, <1>3 DEF ChangeNode, checkVars, CheckInv, Judged, Listed,
                          containsDuplicates

-----------------------------------------------------------------------------
LEMMA CheckInductive == CheckInv /\ [Next]_vars => CheckInv'
<1> SUFFICES ASSUME CheckInv, [Next]_vars PROVE CheckInv'
  OBVIOUS
<1>1. CASE Check
  BY <1>1, ListDeviceConfigsKeeps, DecideKeeps, ListSelectedNodesKeeps DEF Check
<1>2. CASE \E d \in DeviceConfigs : Call(d)
  BY <1>2, CallKeeps
<1>3. CASE \E d \in DeviceConfigs, spec \in UserSpecs \cup {None} :
                ChangeDeviceConfig(d, spec)
  BY <1>3, ChangeDeviceConfigKeeps
<1>4. CASE \E n \in Nodes, labels \in NodeLabels : ChangeNode(n, labels)
  BY <1>4, ChangeNodeKeeps
<1>5. CASE UNCHANGED vars
  <2>1. \A n \in steady : Counted(n)' <=> Counted(n)
    BY <1>5 DEF vars, checkVars, Counted, Selecting, Done, Listed
  <2> QED BY <1>5, <2>1 DEF vars, checkVars, CheckInv, TypeOK, Judged, Listed,
                            containsDuplicates
<1> QED BY <1>1, <1>2, <1>3, <1>4, <1>5 DEF Next

(* The inductive invariant of the check: what was collected of the steady  *)
(* nodes, and when there is a verdict.  (nodeselector.go:41-65)            *)
THEOREM CheckInvariant == Spec => []CheckInv
<1>1. Init => CheckInv
  BY InitType DEF Init, CheckInv, Judged, Listed
<1> QED BY <1>1, CheckInductive, PTL DEF Spec

(* Type correctness of the check.  (nodeselector.go:41-93)                 *)
THEOREM CheckTypes == Spec => []TypeOK
<1>1. CheckInv => TypeOK
  BY DEF CheckInv
<1> QED BY <1>1, CheckInvariant, PTL

(* A check that passes misses no conflict on a node that kept its labels   *)
(* since the List.  (nodeselector.go:48-62)                                *)
THEOREM SteadyConflictsCaught == Spec => []SteadyConflictCaught
<1>1. CheckInv => SteadyConflictCaught
  <2> SUFFICES ASSUME CheckInv, verdict = "valid",
                      NEW n \in Shared(listed, nodeLabels), n \in steady
               PROVE  FALSE
    BY DEF SteadyConflictCaught
  <2>1. n \in Nodes /\ Counted(n) /\ todo = {} /\ ~containsDuplicates(names)
    BY DEF CheckInv, Judged, TypeOK
  <2>2. PICK d, e \in Selecting(n) : d # e
    BY <2>1 DEF Shared, Selecting, Done, Listed
  <2> QED BY <2>1, <2>2 DEF Counted, containsDuplicates
<1> QED BY <1>1, CheckInvariant, PTL

(* While nodes stand still the verdict is that of the listed               *)
(* DeviceConfigs, as one step would have it.  (nodeselector.go:41-65)      *)
THEOREM ExactWhileSteady == Spec => []ExactForSteadyNodes
<1>1. CheckInv => ExactForSteadyNodes
  <2> SUFFICES ASSUME CheckInv, Judged, steady = Nodes
               PROVE  verdict = "conflict" <=> Shared(listed, nodeLabels) # {}
    BY DEF ExactForSteadyNodes, Judged
  <2>1. todo = {} /\ (verdict = "conflict" <=> containsDuplicates(names))
    BY DEF CheckInv
  <2>2. ASSUME NEW n \in Nodes
        PROVE  names[n] > 1 <=> n \in Shared(listed, nodeLabels)
    <3>1. names[n] > 1 <=> \E d, e \in Selecting(n) : d # e
      BY DEF CheckInv, Counted
    <3>2. (\E d, e \in Selecting(n) : d # e) <=> n \in Shared(listed, nodeLabels)
      BY <2>1 DEF Selecting, Done, Listed, Shared
    <3> QED BY <3>1, <3>2
  <2>3. Shared(listed, nodeLabels) \subseteq Nodes
    BY DEF Shared
  <2> QED BY <2>1, <2>2, <2>3 DEF containsDuplicates
<1> QED BY <1>1, CheckInvariant, PTL
=============================================================================
