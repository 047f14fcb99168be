-------------------- MODULE DeviceConfigControllerProofs --------------------
(***************************************************************************)
(* Proofs about DeviceConfigController, for any set of DeviceConfigs, any  *)
(* cluster, any chain of children and any number of operations, faults and *)
(* crashes.                                                                *)
(***************************************************************************)
EXTENDS DeviceConfigController, TLAPS

-----------------------------------------------------------------------------
(* Sequences that grow at one end and shrink at the other.                 *)

(* What Append does to the window between a cache and the server.          *)
LEMMA AppendFacts ==
    ASSUME NEW S, NEW s \in Seq(S), NEW e \in S
    PROVE  /\ Append(s, e) \in Seq(S)
           /\ Len(Append(s, e)) = Len(s) + 1
           /\ Append(s, e)[Len(s) + 1] = e
           /\ \A i \in 1..Len(s) : Append(s, e)[i] = s[i]
    OBVIOUS

(* What the delivery of an event does to that window.                      *)
LEMMA TailFacts ==
    ASSUME NEW S, NEW s \in Seq(S), Len(s) > 1
    PROVE  /\ Tail(s) \in Seq(S)
           /\ Len(Tail(s)) = Len(s) - 1
           /\ Tail(s)[Len(s) - 1] = s[Len(s)]
           /\ \A i \in 1..(Len(s) - 1) : Tail(s)[i] = s[i + 1]
    OBVIOUS

(* Both ends of every view hold an object of the right kind, or none.      *)
LEMMA EndsTypeOK ==
    ASSUME ClusterTypeOK, NEW d \in DeviceConfigs
    PROVE  /\ dcView[Len(dcView)] \in DCMap /\ dcView[1] \in DCMap
           /\ Live(d) \in {None} \cup DCObject
           /\ Cached(d) \in {None} \cup DCObject
           /\ \A k \in Kinds : LiveChild(k, d) \in {None} \cup Child
                               /\ CachedChild(k, d) \in {None} \cup Child
<1>1. Len(dcView) \in Nat /\ Len(dcView) \in 1..Len(dcView) /\ 1 \in 1..Len(dcView)
  BY DEF ClusterTypeOK
<1>2. dcView[Len(dcView)] \in DCMap /\ dcView[1] \in DCMap
  BY <1>1 DEF ClusterTypeOK
<1>3. ASSUME NEW k \in Kinds
      PROVE  LiveChild(k, d) \in {None} \cup Child
             /\ CachedChild(k, d) \in {None} \cup Child
  <2> DEFINE s == childView[k][d]
  <2>1. s \in Seq({None} \cup Child) /\ Len(s) > 0
    BY DEF ClusterTypeOK
  <2>2. Len(s) \in Nat /\ Len(s) \in 1..Len(s) /\ 1 \in 1..Len(s)
    BY <2>1
  <2> QED BY <2>1, <2>2 DEF LiveChild, CachedChild
<1> QED BY <1>2, <1>3 DEF Live, Cached, DCMap

(* A write reaches the server's end of the view and no other object.       *)
LEMMA WriteDCFacts ==
    ASSUME ClusterTypeOK, NEW d \in DeviceConfigs,
           NEW object \in {None} \cup DCObject, WriteDC(d, object)
    PROVE  /\ dcView' \in Seq(DCMap) /\ Len(dcView') > 0
           /\ Live(d)' = object
           /\ \A e \in DeviceConfigs \ {d} : Live(e)' = Live(e)
           /\ \A e \in DeviceConfigs :
                Versions(e)' \subseteq Versions(e) \cup {Live(e)'}
<1> DEFINE new == [dcView[Len(dcView)] EXCEPT ![d] = object]
<1>1. CASE object = Live(d)
  <2>1. dcView' = dcView
    BY <1>1 DEF WriteDC
  <2> QED BY <1>1, <2>1 DEF ClusterTypeOK, Live, Versions
<1>2. CASE object # Live(d)
  <2>1. dcView' = Append(dcView, new)
    BY <1>2 DEF WriteDC
  <2>2. dcView[Len(dcView)] \in DCMap
    BY EndsTypeOK
  <2>3. new \in DCMap /\ new[d] = object
        /\ \A e \in DeviceConfigs \ {d} : new[e] = dcView[Len(dcView)][e]
    BY <2>2 DEF DCMap
  <2>4. /\ dcView' \in Seq(DCMap) /\ Len(dcView') = Len(dcView) + 1
        /\ dcView'[Len(dcView) + 1] = new
        /\ \A i \in 1..Len(dcView) : dcView'[i] = dcView[i]
    BY <2>1, <2>3, AppendFacts DEF ClusterTypeOK
  <2>5. Len(dcView) \in Nat /\ Len(dcView) > 0
    BY DEF ClusterTypeOK
  <2>6. \A e \in DeviceConfigs : Live(e)' = new[e]
    BY <2>4 DEF Live
  <2>7. ASSUME NEW e \in DeviceConfigs
        PROVE  Versions(e)' \subseteq Versions(e) \cup {Live(e)'}
    <3>1. ASSUME NEW i \in 1..Len(dcView')
          PROVE  dcView'[i][e] \in Versions(e) \cup {Live(e)'}
      <4>1. CASE i \in 1..Len(dcView)
        <5>1. dcView'[i][e] = dcView[i][e]
          BY <4>1, <2>4
        <5>2. dcView[i][e] \in Versions(e)
          BY <4>1 DEF Versions
        <5> QED BY <5>1, <5>2
      <4>2. CASE i = Len(dcView) + 1
        <5>1. dcView'[i][e] = new[e]
          BY <4>2, <2>4
        <5>2. Live(e)' = new[e]
          BY <2>6
        <5> QED BY <5>1, <5>2
      <4>3. i \in 1..Len(dcView) \/ i = Len(dcView) + 1
        BY <2>4, <2>5
      <4> QED BY <4>1, <4>2, <4>3
    <3>2. Versions(e)' = {dcView'[i][e] : i \in 1..Len(dcView')}
      BY DEF Versions
    <3> QED BY <3>1, <3>2
  <2> QED BY <2>3, <2>4, <2>5, <2>6, <2>7 DEF Live
<1> QED BY <1>1, <1>2

(* The same for a child.                                                   *)
LEMMA WriteChildFacts ==
    ASSUME ClusterTypeOK, NEW k \in Kinds, NEW d \in DeviceConfigs,
           NEW object \in {None} \cup Child, WriteChild(k, d, object)
    PROVE  /\ childView' \in [Kinds -> [DeviceConfigs -> Seq({None} \cup Child)]]
           /\ \A l \in Kinds, e \in DeviceConfigs : Len(childView'[l][e]) > 0
           /\ LiveChild(k, d)' = object
           /\ \A l \in Kinds, e \in DeviceConfigs :
                l # k \/ e # d => LiveChild(l, e)' = LiveChild(l, e)
<1>1. CASE object = LiveChild(k, d)
  BY <1>1 DEF WriteChild, ClusterTypeOK, LiveChild
<1>2. CASE object # LiveChild(k, d)
  <2> DEFINE s == childView[k][d]
  <2>1. childView' = [childView EXCEPT ![k][d] = Append(s, object)]
    BY <1>2 DEF WriteChild
  <2>2. s \in Seq({None} \cup Child) /\ Len(s) > 0 /\ Len(s) \in Nat
    BY DEF ClusterTypeOK
  <2>3. Append(s, object) \in Seq({None} \cup Child)
        /\ Len(Append(s, object)) = Len(s) + 1
        /\ Append(s, object)[Len(s) + 1] = object
    BY <2>2, AppendFacts
  <2>4. childView'[k][d] = Append(s, object)
    BY <2>1 DEF ClusterTypeOK
  <2>5. \A l \in Kinds, e \in DeviceConfigs :
            l # k \/ e # d => childView'[l][e] = childView[l][e]
    BY <2>1 DEF ClusterTypeOK
  <2>6. childView' \in [Kinds -> [DeviceConfigs -> Seq({None} \cup Child)]]
    BY <2>1, <2>3 DEF ClusterTypeOK
  <2>7. LiveChild(k, d)' = object
    BY <2>3, <2>4 DEF LiveChild
  <2>8. ASSUME NEW l \in Kinds, NEW e \in DeviceConfigs
        PROVE  /\ Len(childView'[l][e]) > 0
               /\ l # k \/ e # d => LiveChild(l, e)' = LiveChild(l, e)
    <3>1. CASE l = k /\ e = d
      BY <3>1, <2>2, <2>3, <2>4
    <3>2. CASE l # k \/ e # d
      BY <3>2, <2>5 DEF LiveChild, ClusterTypeOK
    <3> QED BY <3>1, <3>2
  <2> QED BY <2>6, <2>7, <2>8
<1> QED BY <1>1, <1>2

-----------------------------------------------------------------------------
(* The types of what the operators return.                                 *)

(* Chain holds kinds, and a kind has a reason.                             *)
LEMMA ChainFacts ==
    /\ Len(Chain) \in Nat /\ Len(Chain) > 0
    /\ \A i \in 1..Len(Chain) : Chain[i] \in Kinds
    /\ \A k \in Kinds : ReasonFor(k) \in Statuses
    /\ "Module" \in Kinds
BY ControllerAssumption DEF Statuses, Kinds

(* A spec that went through the Go client is a spec.                       *)
LEMMA StoredType ==
    ASSUME NEW spec \in Specs
    PROVE  Stored(spec) \in Specs
BY DEF Stored, Specs, Selectors

(* Every kind of child has a desired state for every DeviceConfig.         *)
LEMMA DesiredType ==
    ASSUME NEW k \in Kinds, NEW dc \in DCObject
    PROVE  Desired(k, dc) \in Child /\ Desired(k, dc).owner = dc.uid
<1>1. dc.uid \in Nat /\ dc.spec \in Specs
  BY DEF DCObject
<1>2. GetNodeSelector(dc.spec) \in SUBSET Labels /\ dc.spec.driver \in Drivers
  BY <1>1, LabelAssumption DEF GetNodeSelector, Specs, Selectors
<1>3. /\ DesiredModule(dc) \in Child /\ DesiredModule(dc).owner = dc.uid
      /\ DesiredNodeLabelerDaemonSet(dc) \in Child
      /\ DesiredNodeLabelerDaemonSet(dc).owner = dc.uid
      /\ DesiredNodeMetricsDaemonSet(dc) \in Child
      /\ DesiredNodeMetricsDaemonSet(dc).owner = dc.uid
      /\ DesiredNodeMetricsService(dc) \in Child
      /\ DesiredNodeMetricsService(dc).owner = dc.uid
  BY <1>1, <1>2 DEF DesiredModule, DesiredNodeLabelerDaemonSet,
     DesiredNodeMetricsDaemonSet, DesiredNodeMetricsService, Child
<1> QED BY <1>3 DEF Desired, Kinds

(* What an accepted CreateOrPatch leaves on the server is a child, owned   *)
(* by the owner it had or by the DeviceConfig of the reconcile.            *)
LEMMA AppliedType ==
    ASSUME ClusterTypeOK, NEW k \in Kinds, NEW d \in DeviceConfigs,
           cr \in DCObject, Accepted(k, d)
    PROVE  /\ Applied(k, d) \in Child
           /\ \/ Applied(k, d).owner = cr.uid
              \/ LiveChild(k, d) # None
                 /\ Applied(k, d).owner = LiveChild(k, d).owner
<1>1. Desired(k, cr) \in Child /\ Desired(k, cr).owner = cr.uid
  BY DesiredType
<1>2. CASE CachedChild(k, d) = None
  BY <1>1, <1>2 DEF Applied
<1>3. CASE CachedChild(k, d) # None
  <2>1. LiveChild(k, d) # None /\ LiveChild(k, d) \in Child
        /\ CachedChild(k, d) \in Child
    BY <1>3, EndsTypeOK DEF Accepted
  <2>2. Applied(k, d) = MergePatch(CachedChild(k, d), Desired(k, cr),
                                   LiveChild(k, d))
    BY <1>3 DEF Applied
  <2> QED BY <1>1, <2>1, <2>2 DEF MergePatch, Child
<1> QED BY <1>2, <1>3

(* The queue after a key was added.                                        *)
LEMMA AddType ==
    ASSUME QueueTypeOK, NEW d \in DeviceConfigs, Add(d)
    PROVE  queue' \in Seq(DeviceConfigs) /\ dirty' \subseteq DeviceConfigs
BY AppendFacts DEF Add, QueueTypeOK

(* The worker and the queue after a reconcile.                             *)
LEMMA FinishType ==
    ASSUME QueueTypeOK, key \in DeviceConfigs, NEW failed \in BOOLEAN,
           Finish(failed)
    PROVE  QueueTypeOK' /\ WorkerTypeOK' /\ pc' = "idle" /\ fresh' = FALSE
<1>1. queue' \in Seq(DeviceConfigs)
  BY AppendFacts DEF Finish, QueueTypeOK
<1>2. QueueTypeOK'
  BY <1>1 DEF Finish, QueueTypeOK
<1>3. Len(Chain) \in Nat
  BY ChainFacts
<1>4. fresh' \in BOOLEAN /\ found' \in BOOLEAN
  BY Zenon DEF Finish
<1>5. WorkerTypeOK'
  BY <1>3, <1>4 DEF Finish, WorkerTypeOK, Steps
<1> QED BY <1>2, <1>5 DEF Finish

-----------------------------------------------------------------------------
(* Type correctness, action by action.                                     *)

(* A fault is only taken from what is left.                                *)
LEMMA FaultType ==
    ASSUME faults \in 0..MaxFaults, Fault
    PROVE  faults' \in 0..MaxFaults
BY ControllerAssumption DEF Fault

(* An update writes the object, or nothing.                                *)
LEMMA UpdateEffect ==
    ASSUME NEW STATE object, NEW ACTION A, NEW ACTION B,
           faults \in 0..MaxFaults, Update(object, A, B)
    PROVE  /\ \/ A /\ fresh /\ WriteDC(key, object)
              \/ B /\ (UNCHANGED dcView \/ (fresh /\ WriteDC(key, object)))
           /\ faults' \in 0..MaxFaults
<1>1. faults' \in 0..MaxFaults
  BY FaultType DEF Update
<1>2. CASE fresh /\ WriteDC(key, object) /\ A /\ UNCHANGED faults
  BY <1>1, <1>2
<1>3. CASE ~fresh /\ B /\ UNCHANGED <<dcView, faults>>
  BY <1>1, <1>3
<1>4. CASE Fault /\ B /\ UNCHANGED dcView
  BY <1>1, <1>4
<1>5. CASE Fault /\ fresh /\ WriteDC(key, object) /\ B
  BY <1>1, <1>5
<1> QED BY <1>2, <1>3, <1>4, <1>5 DEF Update

(* The gauge only takes the two values a reconcile sets.                   *)
LEMMA GaugeType ==
    ASSUME gauge \in [DeviceConfigs -> {"unset", "ok", "failed"}],
           NEW value \in {"ok", "failed"}, SetGauge(value) \/ UNCHANGED gauge
    PROVE  gauge' \in [DeviceConfigs -> {"unset", "ok", "failed"}]
BY DEF SetGauge

(* Taking a key off the queue.                                             *)
LEMMA DequeueType ==
    ASSUME TypeOK, Dequeue
    PROVE  TypeOK'
<1>1. Head(queue) \in DeviceConfigs /\ Tail(queue) \in Seq(DeviceConfigs)
  BY DEF TypeOK, QueueTypeOK, Dequeue
<1>2. QueueTypeOK' /\ WorkerTypeOK'
  BY <1>1 DEF Dequeue, TypeOK, QueueTypeOK, WorkerTypeOK, Steps
<1>3. ClusterTypeOK'
  BY DEF Dequeue, TypeOK, ClusterTypeOK, clusterVars
<1> QED BY <1>2, <1>3 DEF Dequeue, TypeOK, budgetVars

(* Reading the DeviceConfig.                                               *)
LEMMA GetType ==
    ASSUME TypeOK, Get
    PROVE  TypeOK'
<1>1. key \in DeviceConfigs
  BY DEF Get, TypeOK, WorkerTypeOK
<1>2. ClusterTypeOK' /\ UNCHANGED <<ops, crashes>>
  BY DEF Get, TypeOK, ClusterTypeOK, clusterVars
<1>3. CASE Finished(Cached(key)) /\ SetGauge("ok") /\ Finish(FALSE)
           /\ UNCHANGED faults
  BY <1>1, <1>2, <1>3, FinishType, GaugeType DEF TypeOK
<1>4. CASE /\ ~Finished(Cached(key))
           /\ cr' = Cached(key)
           /\ fresh' = UpToDate(key)
           /\ IF Cached(key).deleting
              THEN SetGauge("ok") /\ Goto("DeleteModule")
              ELSE UNCHANGED gauge /\ Goto("Validate")
           /\ UNCHANGED <<child, found, faults>>
  <2>1. cr' \in DCObject
    BY <1>1, <1>4, EndsTypeOK DEF TypeOK, Finished
  <2>2. fresh' \in BOOLEAN
    BY <1>4, Zenon DEF UpToDate
  <2>3. pc' \in {"DeleteModule", "Validate"} /\ UNCHANGED <<queueVars, key>>
    BY <1>4 DEF Goto
  <2>4. QueueTypeOK' /\ WorkerTypeOK'
    BY <1>1, <1>4, <2>1, <2>2, <2>3 DEF TypeOK, QueueTypeOK, WorkerTypeOK,
       queueVars, Steps
  <2>5. gauge' \in [DeviceConfigs -> {"unset", "ok", "failed"}]
    BY <1>4, GaugeType DEF TypeOK
  <2> QED BY <1>2, <1>4, <2>4, <2>5 DEF TypeOK
<1>5. CASE Fault /\ Finish(TRUE) /\ UNCHANGED gauge
  BY <1>1, <1>2, <1>5, FinishType, FaultType DEF TypeOK
<1> QED BY <1>3, <1>4, <1>5 DEF Get

(* Checking the node selectors.                                            *)
LEMMA ValidateType ==
    ASSUME TypeOK, ValidateNodeSelector
    PROVE  TypeOK'
<1>1. key \in DeviceConfigs /\ pc = "Validate"
  BY DEF ValidateNodeSelector, TypeOK, WorkerTypeOK
<1>2. ClusterTypeOK' /\ UNCHANGED <<ops, crashes>>
  BY DEF ValidateNodeSelector, TypeOK, ClusterTypeOK, clusterVars
<1>3. CASE /\ IF cr.finalizer
              THEN Goto("GetChild") /\ child' = 1
              ELSE Goto("AddFinalizer") /\ UNCHANGED child
           /\ UNCHANGED <<cr, fresh, found, gauge, faults>>
  <2>1. QueueTypeOK'
    BY <1>3 DEF Goto, TypeOK, QueueTypeOK, queueVars
  <2>2. /\ \/ pc' = "GetChild" /\ child' = 1
           \/ pc' = "AddFinalizer" /\ child' = child
        /\ UNCHANGED <<key, cr, fresh, found>>
    BY <1>3 DEF Goto
  <2>3. WorkerTypeOK'
    <3>1. child' \in 0..Len(Chain)
      BY <2>2, ChainFacts DEF TypeOK, WorkerTypeOK
    <3> QED BY <1>1, <2>2, <3>1 DEF TypeOK, WorkerTypeOK, Steps
  <2> QED BY <1>2, <1>3, <2>1, <2>3 DEF TypeOK
<1>4. CASE /\ UNCHANGED faults \/ Fault
           /\ SetGauge("failed")
           /\ Finish(FALSE)
  <2>1. faults' \in 0..MaxFaults
    BY <1>4, FaultType DEF TypeOK
  <2> QED BY <1>1, <1>2, <1>4, <2>1, FinishType, GaugeType DEF TypeOK
<1> QED BY <1>3, <1>4 DEF ValidateNodeSelector

(* The cluster after an update of the worker.                              *)
LEMMA UpdateType ==
    ASSUME ClusterTypeOK, key \in DeviceConfigs,
           NEW STATE object, fresh => object \in {None} \cup DCObject,
           \/ fresh /\ WriteDC(key, object)
           \/ UNCHANGED dcView,
           UNCHANGED <<childView, lastUID>>
    PROVE  ClusterTypeOK'
<1>1. CASE fresh /\ WriteDC(key, object)
  <2>1. dcView' \in Seq(DCMap) /\ Len(dcView') > 0
    BY <1>1, WriteDCFacts
  <2> QED BY <2>1 DEF ClusterTypeOK
<1>2. CASE UNCHANGED dcView
  BY <1>2 DEF ClusterTypeOK
<1> QED BY <1>1, <1>2

(* Adding the finalizer to the copy and to the server's object.            *)
LEMMA AddFinalizerType ==
    ASSUME TypeOK, FreshInv, AddDeletionFinalizer
    PROVE  TypeOK'
<1> DEFINE object == [Live(key) EXCEPT !.finalizer = TRUE, !.spec = Stored(cr.spec)]
           A == /\ cr' = [cr EXCEPT !.finalizer = TRUE]
                /\ Goto("GetChild") /\ child' = 1
                /\ UNCHANGED <<fresh, found>>
           B == Finish(TRUE)
<1>1. key \in DeviceConfigs /\ cr \in DCObject /\ pc = "AddFinalizer"
  BY DEF AddDeletionFinalizer, TypeOK, WorkerTypeOK
<1>2. Update(object, A, B) /\ UNCHANGED <<childView, lastUID, gauge, ops, crashes>>
  BY Zenon DEF AddDeletionFinalizer
<1>3. /\ \/ A /\ fresh /\ WriteDC(key, object)
         \/ B /\ (UNCHANGED dcView \/ (fresh /\ WriteDC(key, object)))
      /\ faults' \in 0..MaxFaults
  <2>1. faults \in 0..MaxFaults
    BY DEF TypeOK
  <2> HIDE DEF object, A, B
  <2> QED BY <1>2, <2>1, UpdateEffect
<1>4. fresh => object \in DCObject
  <2>1. Stored(cr.spec) \in Specs
    BY <1>1, StoredType DEF DCObject
  <2>2. fresh => Live(key) \in DCObject
    BY <1>1, EndsTypeOK DEF FreshInv, TypeOK
  <2> QED BY <2>1, <2>2 DEF DCObject
<1>5. ClusterTypeOK'
  <2> HIDE DEF object, A, B
  <2> QED BY <1>1, <1>2, <1>3, <1>4, UpdateType DEF TypeOK
<1>6. QueueTypeOK' /\ WorkerTypeOK'
  <2>1. CASE A
    <3>1. cr' \in DCObject
      BY <1>1, <2>1 DEF DCObject
    <3>2. pc' = "GetChild" /\ child' = 1 /\ UNCHANGED <<queueVars, key, fresh, found>>
      BY <2>1 DEF Goto
    <3>3. QueueTypeOK'
      BY <3>2 DEF TypeOK, QueueTypeOK, queueVars
    <3>4. child' \in 0..Len(Chain)
      BY <3>2, ChainFacts
    <3> QED BY <1>1, <3>1, <3>2, <3>3, <3>4 DEF TypeOK, WorkerTypeOK, Steps
  <2>2. CASE B
    BY <1>1, <2>2, FinishType DEF TypeOK
  <2> QED BY <1>3, <2>1, <2>2
<1> QED BY <1>2, <1>3, <1>5, <1>6 DEF TypeOK

(* Reading a child.                                                        *)
LEMMA GetChildType ==
    ASSUME TypeOK, GetChild
    PROVE  TypeOK'
<1>1. pc = "GetChild" /\ key \in DeviceConfigs /\ child # 0 /\ cr \in DCObject
  BY DEF GetChild, TypeOK, WorkerTypeOK
<1>2. /\ UNCHANGED <<clusterVars, cr, fresh, child, gauge, ops, crashes>>
      /\ UNCHANGED <<queueVars, key>>
      /\ pc' \in {"CreateOrPatch", "SetErrored"}
  BY DEF GetChild, Goto
<1>3. found' \in BOOLEAN /\ faults' \in 0..MaxFaults
  <2>1. CASE /\ found' = (CachedChild(Chain[child], key) # None)
             /\ Goto("CreateOrPatch")
             /\ UNCHANGED faults
    BY <2>1 DEF TypeOK
  <2>2. CASE Fault /\ Goto("SetErrored") /\ UNCHANGED found
    BY <2>2, FaultType DEF TypeOK, WorkerTypeOK
  <2> QED BY <2>1, <2>2 DEF GetChild
<1>4. ClusterTypeOK' /\ QueueTypeOK'
  BY <1>2 DEF TypeOK, ClusterTypeOK, QueueTypeOK, clusterVars, queueVars
<1>5. WorkerTypeOK'
  BY <1>1, <1>2, <1>3 DEF TypeOK, WorkerTypeOK, Steps
<1> QED BY <1>2, <1>3, <1>4, <1>5 DEF TypeOK

(* CreateOrPatch writes the child it is for, or nothing.                   *)
LEMMA CreateOrPatchEffect ==
    ASSUME TypeOK, CreateOrPatch, NEW k \in Kinds, Chain[child] = k
    PROVE  /\ \/ Accepted(k, key) /\ WriteChild(k, key, Applied(k, key))
              \/ UNCHANGED childView
           /\ NextChild \/ ChildFailed
           /\ faults' \in 0..MaxFaults
<1>1. CASE /\ Accepted(k, key)
           /\ WriteChild(k, key, Applied(k, key))
           /\ NextChild
           /\ UNCHANGED faults
  BY <1>1 DEF TypeOK
<1>2. CASE ~Accepted(k, key) /\ ChildFailed /\ UNCHANGED <<childView, faults>>
  BY <1>2 DEF TypeOK
<1>3. CASE Fault /\ ChildFailed /\ UNCHANGED childView
  BY <1>3, FaultType DEF TypeOK
<1>4. CASE /\ Fault /\ Accepted(k, key)
           /\ WriteChild(k, key, Applied(k, key))
           /\ ChildFailed
  BY <1>4, FaultType DEF TypeOK
<1>5. CASE NothingToPatch(k, key) /\ NextChild /\ UNCHANGED <<childView, faults>>
  BY <1>5 DEF TypeOK
<1> QED BY <1>1, <1>2, <1>3, <1>4, <1>5 DEF CreateOrPatch

(* A write of a child keeps the cluster's types.                           *)
LEMMA ChildWriteType ==
    ASSUME ClusterTypeOK, NEW k \in Kinds, NEW d \in DeviceConfigs,
           NEW object \in {None} \cup Child,
           WriteChild(k, d, object) \/ UNCHANGED childView,
           UNCHANGED <<dcView, lastUID>>
    PROVE  ClusterTypeOK'
<1>1. CASE WriteChild(k, d, object)
  <2>1. /\ childView' \in [Kinds -> [DeviceConfigs -> Seq({None} \cup Child)]]
        /\ \A l \in Kinds, e \in DeviceConfigs : Len(childView'[l][e]) > 0
    BY <1>1, WriteChildFacts
  <2> QED BY <2>1 DEF ClusterTypeOK
<1>2. CASE UNCHANGED childView
  BY <1>2 DEF ClusterTypeOK
<1> QED BY <1>1, <1>2

(* Writing a child, and moving on to the next or to the error path.        *)
LEMMA CreateOrPatchType ==
    ASSUME TypeOK, CreateOrPatch
    PROVE  TypeOK'
<1>1. /\ pc = "CreateOrPatch" /\ key \in DeviceConfigs /\ cr \in DCObject
      /\ child \in 0..Len(Chain) /\ child # 0
  BY DEF CreateOrPatch, TypeOK, WorkerTypeOK
<1>2. PICK k \in Kinds : Chain[child] = k
  <2>1. child \in 1..Len(Chain)
    BY <1>1, ChainFacts
  <2> QED BY <2>1, ChainFacts
<1>3. UNCHANGED <<dcView, lastUID, cr, fresh, ops, crashes>>
  BY DEF CreateOrPatch
<1>4. ClusterTypeOK'
  <2>1. CASE Accepted(k, key) /\ WriteChild(k, key, Applied(k, key))
    <3>1. Applied(k, key) \in Child
      BY <1>1, <2>1, AppliedType DEF TypeOK
    <3> QED BY <1>1, <1>3, <2>1, <3>1, ChildWriteType DEF TypeOK
  <2>2. CASE UNCHANGED childView
    BY <1>3, <2>2 DEF TypeOK, ClusterTypeOK
  <2> QED BY <1>2, <2>1, <2>2, CreateOrPatchEffect
<1>5. QueueTypeOK' /\ WorkerTypeOK'
      /\ gauge' \in [DeviceConfigs -> {"unset", "ok", "failed"}]
  <2>1. CASE NextChild
    <3>1. CASE child < Len(Chain)
      <4>1. child' \in 0..Len(Chain) /\ child' # 0
        BY <1>1, <2>1, <3>1, ChainFacts DEF NextChild
      <4>2. /\ UNCHANGED gauge /\ UNCHANGED <<queueVars, key>>
            /\ found' = FALSE /\ pc' = "GetChild"
        BY <2>1, <3>1 DEF NextChild, Goto
      <4> QED BY <1>1, <1>3, <4>1, <4>2 DEF TypeOK, QueueTypeOK, queueVars,
              WorkerTypeOK, Steps
    <3>2. CASE ~(child < Len(Chain))
      <4>1. /\ SetGauge("ok") /\ UNCHANGED <<queueVars, key>>
            /\ found' = FALSE /\ pc' = "SetReady" /\ child' = 0
        BY <2>1, <3>2 DEF NextChild, Goto
      <4>2. gauge' \in [DeviceConfigs -> {"unset", "ok", "failed"}]
        BY <4>1, GaugeType DEF TypeOK
      <4>3. child' \in 0..Len(Chain)
        BY <4>1, ChainFacts
      <4> QED BY <1>1, <1>3, <4>1, <4>2, <4>3 DEF TypeOK, QueueTypeOK,
              queueVars, WorkerTypeOK, Steps
    <3> QED BY <3>1, <3>2
  <2>2. CASE ChildFailed
    <3>1. /\ UNCHANGED <<child, gauge>> /\ UNCHANGED <<queueVars, key>>
          /\ found' = FALSE /\ pc' = "SetErrored"
      BY <2>2 DEF ChildFailed, Goto
    <3> QED BY <1>1, <1>3, <3>1 DEF TypeOK, QueueTypeOK, queueVars,
            WorkerTypeOK, Steps
  <2> QED BY <1>2, <2>1, <2>2, CreateOrPatchEffect
<1>6. faults' \in 0..MaxFaults
  BY <1>2, CreateOrPatchEffect
<1> QED BY <1>3, <1>4, <1>5, <1>6 DEF TypeOK

(* The types after an update that ends the reconcile, whatever comes back. *)
LEMMA FinalUpdateType ==
    ASSUME TypeOK, NEW STATE object, fresh => object \in {None} \cup DCObject,
           key \in DeviceConfigs, NEW failed \in BOOLEAN,
           Update(object, Finish(failed), Finish(TRUE)),
           UNCHANGED <<childView, lastUID, ops, crashes>>
    PROVE  /\ ClusterTypeOK' /\ QueueTypeOK' /\ WorkerTypeOK'
           /\ ops' \in 0..MaxOps /\ faults' \in 0..MaxFaults
           /\ crashes' \in 0..MaxCrashes
           /\ pc' = "idle" /\ fresh' = FALSE
           /\ UNCHANGED dcView \/ (fresh /\ WriteDC(key, object))
<1> DEFINE A == Finish(failed)
           B == Finish(TRUE)
<1>1. Update(object, A, B)
  OBVIOUS
<1>2. /\ \/ A /\ fresh /\ WriteDC(key, object)
         \/ B /\ (UNCHANGED dcView \/ (fresh /\ WriteDC(key, object)))
      /\ faults' \in 0..MaxFaults
  <2>1. faults \in 0..MaxFaults
    BY DEF TypeOK
  <2> HIDE DEF A, B
  <2> QED BY <1>1, <2>1, UpdateEffect
<1>3. ClusterTypeOK'
  BY <1>2, UpdateType DEF TypeOK
<1>4. QueueTypeOK' /\ WorkerTypeOK' /\ pc' = "idle" /\ fresh' = FALSE
  BY <1>2, FinishType DEF TypeOK
<1> QED BY <1>2, <1>3, <1>4 DEF TypeOK

(* Writing the Errored condition.                                          *)
LEMMA SetErroredType ==
    ASSUME TypeOK, FreshInv, SetConditionsErrored
    PROVE  TypeOK'
<1> DEFINE object == [Live(key) EXCEPT !.status = ReasonFor(Chain[child])]
<1>1. /\ key \in DeviceConfigs /\ child \in 1..Len(Chain)
  BY ChainFacts DEF SetConditionsErrored, TypeOK, WorkerTypeOK
<1>2. fresh => object \in DCObject
  <2>1. ReasonFor(Chain[child]) \in Statuses
    BY <1>1, ChainFacts
  <2>2. fresh => Live(key) \in DCObject
    BY <1>1, EndsTypeOK DEF FreshInv, TypeOK
  <2> QED BY <2>1, <2>2 DEF DCObject
<1>3. /\ Update(object, Finish(TRUE), Finish(TRUE)) /\ SetGauge("failed")
      /\ UNCHANGED <<childView, lastUID, ops, crashes>>
  BY Zenon DEF SetConditionsErrored
<1>4. gauge' \in [DeviceConfigs -> {"unset", "ok", "failed"}]
  BY <1>3, GaugeType DEF TypeOK
<1> HIDE DEF object
<1> QED BY <1>1, <1>2, <1>3, <1>4, FinalUpdateType DEF TypeOK

(* Writing the Ready condition.                                            *)
LEMMA SetReadyType ==
    ASSUME TypeOK, FreshInv, SetConditionsReady
    PROVE  TypeOK'
<1> DEFINE object == [Live(key) EXCEPT !.status = "Ready"]
<1>1. key \in DeviceConfigs
  BY DEF SetConditionsReady, TypeOK, WorkerTypeOK
<1>2. fresh => object \in DCObject
  <2>1. fresh => Live(key) \in DCObject
    BY <1>1, EndsTypeOK DEF FreshInv, TypeOK
  <2> QED BY <2>1 DEF DCObject, Statuses
<1>3. /\ Update(object, Finish(FALSE), Finish(TRUE))
      /\ UNCHANGED <<childView, lastUID, ops, crashes>> /\ UNCHANGED gauge
  BY DEF SetConditionsReady
<1> HIDE DEF object
<1> QED BY <1>1, <1>2, <1>3, FinalUpdateType DEF TypeOK

(* Giving the DeviceConfig up.                                             *)
LEMMA RemoveFinalizerType ==
    ASSUME TypeOK, RemoveDeletionFinalizer
    PROVE  TypeOK'
<1>1. key \in DeviceConfigs
  BY DEF RemoveDeletionFinalizer, TypeOK, WorkerTypeOK
<1>2. /\ Update(None, Finish(FALSE), Finish(TRUE))
      /\ UNCHANGED <<childView, lastUID, ops, crashes>> /\ UNCHANGED gauge
  BY DEF RemoveDeletionFinalizer
<1> QED BY <1>1, <1>2, FinalUpdateType DEF TypeOK

(* Deleting the Module.                                                    *)
LEMMA DeleteModuleType ==
    ASSUME TypeOK, DeleteModule
    PROVE  TypeOK'
<1>1. key \in DeviceConfigs /\ cr \in DCObject /\ pc = "DeleteModule"
  BY DEF DeleteModule, TypeOK, WorkerTypeOK
<1>2. UNCHANGED <<dcView, lastUID, gauge, ops, crashes>>
  BY DEF DeleteModule
<1>3. ClusterTypeOK'
  <2>1. WriteChild("Module", key, None) \/ UNCHANGED childView
    BY DEF DeleteModule
  <2> QED BY <1>1, <1>2, <2>1, ChainFacts, ChildWriteType DEF TypeOK
<1>4. QueueTypeOK' /\ WorkerTypeOK' /\ faults' \in 0..MaxFaults
  <2>1. CASE Goto("RemoveFinalizer") /\ UNCHANGED <<cr, fresh, child, found, faults>>
    BY <1>1, <2>1 DEF Goto, TypeOK, QueueTypeOK, queueVars, WorkerTypeOK, Steps
  <2>2. CASE Fault /\ Finish(TRUE)
    BY <1>1, <2>2, FaultType, FinishType DEF TypeOK
  <2> QED BY <2>1, <2>2 DEF DeleteModule
<1> QED BY <1>2, <1>3, <1>4 DEF TypeOK

-----------------------------------------------------------------------------
(* The cluster's actions.                                                  *)

(* A delivery shortens the view of the DeviceConfigs at the cache's end.   *)
LEMMA DeliverDCFacts ==
    ASSUME ClusterTypeOK, DeliverDC
    PROVE  /\ dcView' \in Seq(DCMap) /\ Len(dcView') > 0
           /\ \A d \in DeviceConfigs : Live(d)' = Live(d)
           /\ \A d \in DeviceConfigs : Versions(d)' \subseteq Versions(d)
<1>1. dcView \in Seq(DCMap) /\ Len(dcView) > 1 /\ Len(dcView) \in Nat
      /\ dcView' = Tail(dcView)
  BY DEF DeliverDC, ClusterTypeOK
<1>2. /\ dcView' \in Seq(DCMap) /\ Len(dcView') = Len(dcView) - 1
      /\ dcView'[Len(dcView) - 1] = dcView[Len(dcView)]
      /\ \A i \in 1..(Len(dcView) - 1) : dcView'[i] = dcView[i + 1]
  BY <1>1, TailFacts
<1>3. \A d \in DeviceConfigs : Live(d)' = Live(d)
  BY <1>1, <1>2 DEF Live
<1>4. ASSUME NEW d \in DeviceConfigs
      PROVE  Versions(d)' \subseteq Versions(d)
  <2>1. \A i \in 1..Len(dcView') : i + 1 \in 1..Len(dcView)
                                     /\ dcView'[i] = dcView[i + 1]
    BY <1>1, <1>2
  <2> QED BY <2>1 DEF Versions
<1> QED BY <1>1, <1>2, <1>3, <1>4

(* A DeviceConfig's event reaches the cache.                               *)
LEMMA DeliverDCType ==
    ASSUME TypeOK, DeliverDC
    PROVE  TypeOK'
<1>1. ClusterTypeOK'
  BY DeliverDCFacts DEF TypeOK, ClusterTypeOK, DeliverDC
<1>2. QueueTypeOK'
  <2>1. PICK d \in DeviceConfigs : Add(d)
    BY DEF DeliverDC
  <2>2. queue' \in Seq(DeviceConfigs) /\ dirty' \subseteq DeviceConfigs
    BY <2>1, AddType DEF TypeOK
  <2> QED BY <2>2 DEF DeliverDC, TypeOK, QueueTypeOK
<1>3. UNCHANGED <<workerVars, gauge, budgetVars>>
  BY DEF DeliverDC
<1> QED BY <1>1, <1>2, <1>3 DEF TypeOK, WorkerTypeOK, workerVars, budgetVars

(* A delivery of a child leaves the server's end of its view alone.        *)
LEMMA DeliverChildFacts ==
    ASSUME ClusterTypeOK, NEW k \in Kinds, NEW d \in DeviceConfigs,
           DeliverChild(k, d)
    PROVE  /\ childView' \in [Kinds -> [DeviceConfigs -> Seq({None} \cup Child)]]
           /\ \A l \in Kinds, e \in DeviceConfigs : Len(childView'[l][e]) > 0
           /\ \A l \in Kinds, e \in DeviceConfigs :
                LiveChild(l, e)' = LiveChild(l, e)
<1> DEFINE s == childView[k][d]
<1>1. s \in Seq({None} \cup Child) /\ Len(s) > 1 /\ Len(s) \in Nat
  BY DEF ClusterTypeOK, DeliverChild
<1>2. Tail(s) \in Seq({None} \cup Child) /\ Len(Tail(s)) = Len(s) - 1
      /\ Tail(s)[Len(s) - 1] = s[Len(s)]
  BY <1>1, TailFacts
<1>3. childView' = [childView EXCEPT ![k][d] = Tail(s)]
  BY DEF DeliverChild
<1>4. /\ childView' \in [Kinds -> [DeviceConfigs -> Seq({None} \cup Child)]]
      /\ childView'[k][d] = Tail(s)
      /\ \A l \in Kinds, e \in DeviceConfigs :
            l # k \/ e # d => childView'[l][e] = childView[l][e]
  BY <1>2, <1>3 DEF ClusterTypeOK
<1>5. ASSUME NEW l \in Kinds, NEW e \in DeviceConfigs
      PROVE  Len(childView'[l][e]) > 0 /\ LiveChild(l, e)' = LiveChild(l, e)
  <2>1. CASE l = k /\ e = d
    BY <2>1, <1>1, <1>2, <1>4 DEF LiveChild
  <2>2. CASE l # k \/ e # d
    BY <2>2, <1>4 DEF LiveChild, ClusterTypeOK
  <2> QED BY <2>1, <2>2
<1> QED BY <1>4, <1>5

(* A child's event reaches the cache.                                      *)
LEMMA DeliverChildType ==
    ASSUME TypeOK, NEW k \in Kinds, NEW d \in DeviceConfigs, DeliverChild(k, d)
    PROVE  TypeOK'
<1>1. ClusterTypeOK'
  <2>1. UNCHANGED <<dcView, lastUID>>
    BY DEF DeliverChild
  <2> QED BY <2>1, DeliverChildFacts DEF TypeOK, ClusterTypeOK
<1>2. QueueTypeOK'
  <2>1. queue' \in Seq(DeviceConfigs) /\ dirty' \subseteq DeviceConfigs
    BY AddType DEF DeliverChild, TypeOK, QueueTypeOK
  <2> QED BY <2>1 DEF DeliverChild, TypeOK, QueueTypeOK
<1>3. UNCHANGED <<workerVars, gauge, budgetVars>>
  BY DEF DeliverChild
<1> QED BY <1>1, <1>2, <1>3 DEF TypeOK, WorkerTypeOK, workerVars, budgetVars

(* A timer adds its key.                                                   *)
LEMMA TimerType ==
    ASSUME TypeOK, NEW d \in DeviceConfigs, TimerFires(d)
    PROVE  TypeOK'
<1>1. queue' \in Seq(DeviceConfigs) /\ dirty' \subseteq DeviceConfigs
  BY AddType DEF TimerFires, TypeOK
<1>2. UNCHANGED <<clusterVars, workerVars, gauge, budgetVars>>
      /\ waiting' \subseteq DeviceConfigs
  BY DEF TimerFires, TypeOK, QueueTypeOK
<1> QED BY <1>1, <1>2 DEF TypeOK, ClusterTypeOK, QueueTypeOK, WorkerTypeOK,
        clusterVars, workerVars, budgetVars

(* The informers replay their caches.                                      *)
LEMMA ResyncType ==
    ASSUME TypeOK, Resync
    PROVE  TypeOK'
<1>1. UNCHANGED <<clusterVars, queue, dirty, workerVars, gauge, budgetVars>>
      /\ waiting' \subseteq DeviceConfigs
  BY DEF Resync, Replayed, TypeOK, QueueTypeOK
<1> QED BY <1>1 DEF TypeOK, ClusterTypeOK, QueueTypeOK, WorkerTypeOK,
        clusterVars, workerVars, budgetVars

(* What users do to a DeviceConfig leaves the operator's own state alone.  *)
LEMMA UserOpType ==
    ASSUME TypeOK, NEW d \in DeviceConfigs, NEW object \in {None} \cup DCObject,
           UserOp(d), WriteDC(d, object), UNCHANGED childView,
           lastUID' \in [DeviceConfigs -> Nat]
    PROVE  TypeOK'
<1>1. dcView' \in Seq(DCMap) /\ Len(dcView') > 0
  BY WriteDCFacts DEF TypeOK
<1>2. ClusterTypeOK'
  BY <1>1 DEF TypeOK, ClusterTypeOK
<1>3. fresh' \in BOOLEAN
  BY DEF UserOp, Outdate, TypeOK, WorkerTypeOK
<1>4. UNCHANGED <<queueVars, pc, key, cr, child, found, gauge, faults, crashes>>
      /\ ops' \in 0..MaxOps
  BY ControllerAssumption DEF UserOp, TypeOK
<1> QED BY <1>2, <1>3, <1>4 DEF TypeOK, QueueTypeOK, WorkerTypeOK, queueVars

(* A user creates a DeviceConfig.                                          *)
LEMMA CreateDCType ==
    ASSUME TypeOK, NEW d \in DeviceConfigs, NEW spec \in UserSpecs,
           CreateDC(d, spec)
    PROVE  TypeOK'
<1>1. lastUID[d] + 1 \in Nat /\ lastUID' \in [DeviceConfigs -> Nat]
  BY DEF CreateDC, TypeOK, ClusterTypeOK
<1> DEFINE object == [uid |-> lastUID[d] + 1, spec |-> spec, finalizer |-> FALSE,
                      deleting |-> FALSE, status |-> "Unknown"]
<1>2. object \in DCObject
  BY <1>1, ControllerAssumption DEF DCObject, Statuses
<1>3. UserOp(d) /\ WriteDC(d, object) /\ UNCHANGED childView
  BY DEF CreateDC
<1> QED BY <1>1, <1>2, <1>3, UserOpType

(* A user edits a DeviceConfig.                                            *)
LEMMA EditDCType ==
    ASSUME TypeOK, NEW d \in DeviceConfigs, NEW spec \in UserSpecs,
           EditDC(d, spec)
    PROVE  TypeOK'
<1> DEFINE object == [Live(d) EXCEPT !.spec = spec]
<1>1. object \in DCObject
  <2>1. Live(d) \in DCObject
    BY EndsTypeOK DEF EditDC, TypeOK
  <2> QED BY <2>1, ControllerAssumption DEF DCObject
<1>2. UserOp(d) /\ WriteDC(d, object) /\ UNCHANGED <<childView, lastUID>>
  BY DEF EditDC
<1> QED BY <1>1, <1>2, UserOpType DEF TypeOK, ClusterTypeOK

(* A user deletes a DeviceConfig.                                          *)
LEMMA DeleteDCType ==
    ASSUME TypeOK, NEW d \in DeviceConfigs, DeleteDC(d)
    PROVE  TypeOK'
<1> DEFINE object == IF Live(d).finalizer
                     THEN [Live(d) EXCEPT !.deleting = TRUE]
                     ELSE None
<1>1. object \in {None} \cup DCObject
  <2>1. Live(d) \in DCObject
    BY EndsTypeOK DEF DeleteDC, TypeOK
  <2> QED BY <2>1 DEF DCObject
<1>2. UserOp(d) /\ WriteDC(d, object) /\ UNCHANGED <<childView, lastUID>>
  BY DEF DeleteDC
<1> QED BY <1>1, <1>2, UserOpType DEF TypeOK, ClusterTypeOK

(* Removing a child, by whoever it is.                                     *)
LEMMA RemoveChildType ==
    ASSUME TypeOK, NEW k \in Kinds, NEW d \in DeviceConfigs,
           Tamper(k, d) \/ CollectGarbage(k, d)
    PROVE  TypeOK'
<1>1. /\ WriteChild(k, d, None)
      /\ UNCHANGED <<dcView, lastUID, queueVars, workerVars, gauge, faults,
                     crashes>>
      /\ ops' \in 0..MaxOps
  BY ControllerAssumption DEF Tamper, CollectGarbage, TypeOK, budgetVars
<1>2. ClusterTypeOK'
  BY <1>1, ChildWriteType DEF TypeOK
<1> QED BY <1>1, <1>2 DEF TypeOK, QueueTypeOK, WorkerTypeOK, queueVars,
        workerVars

(* After a restart both ends of every view are what the server had.        *)
LEMMA CrashFacts ==
    ASSUME ClusterTypeOK, Crash
    PROVE  /\ ClusterTypeOK'
           /\ \A d \in DeviceConfigs : Live(d)' = Live(d)
                                       /\ Versions(d)' = {Live(d)}
           /\ \A k \in Kinds, d \in DeviceConfigs :
                LiveChild(k, d)' = LiveChild(k, d)
<1>1. dcView' = <<dcView[Len(dcView)]>> /\ dcView[Len(dcView)] \in DCMap
      /\ dcView' \in Seq(DCMap)
  <2>1. Len(dcView) \in Nat /\ Len(dcView) > 0 /\ dcView \in Seq(DCMap)
    BY DEF ClusterTypeOK
  <2>2. dcView[Len(dcView)] \in DCMap
    BY <2>1
  <2> QED BY <2>2 DEF Crash
<1>2. /\ Len(dcView') = 1
      /\ \A d \in DeviceConfigs : Live(d)' = Live(d)
      /\ \A d \in DeviceConfigs : Versions(d)' = {Live(d)}
  BY <1>1 DEF Live, Versions
<1>3. childView' = [k \in Kinds |-> [d \in DeviceConfigs |-> <<LiveChild(k, d)>>]]
  BY DEF Crash
<1>4. ASSUME NEW k \in Kinds, NEW d \in DeviceConfigs
      PROVE  /\ <<LiveChild(k, d)>> \in Seq({None} \cup Child)
             /\ Len(childView'[k][d]) = 1
             /\ LiveChild(k, d)' = LiveChild(k, d)
  <2>1. LiveChild(k, d) \in {None} \cup Child
    BY EndsTypeOK
  <2>2. childView'[k][d] = <<LiveChild(k, d)>>
    BY <1>3
  <2>3. childView'[k][d][1] = LiveChild(k, d) /\ Len(childView'[k][d]) = 1
    BY <2>2
  <2>4. LiveChild(k, d)' = childView'[k][d][Len(childView'[k][d])]
    BY DEF LiveChild
  <2> QED BY <2>1, <2>3, <2>4
<1>5. childView' \in [Kinds -> [DeviceConfigs -> Seq({None} \cup Child)]]
  BY <1>3, <1>4
<1>6. ClusterTypeOK'
  BY <1>1, <1>2, <1>4, <1>5 DEF Crash, ClusterTypeOK
<1>7. \A k \in Kinds, d \in DeviceConfigs : LiveChild(k, d)' = LiveChild(k, d)
  BY <1>4
<1> QED BY <1>2, <1>6, <1>7

(* The operator restarts.                                                  *)
LEMMA CrashType ==
    ASSUME TypeOK, Crash
    PROVE  TypeOK'
<1>1. ClusterTypeOK'
  BY CrashFacts DEF TypeOK
<1>2. queue' = <<>> /\ dirty' = {} /\ waiting' \subseteq DeviceConfigs
  BY DEF Crash
<1>3. /\ pc' = "idle" /\ key' = None /\ cr' = None
      /\ fresh' = FALSE /\ child' = 0 /\ found' = FALSE
  BY DEF Crash
<1>4. QueueTypeOK'
  BY <1>2 DEF QueueTypeOK
<1>5. WorkerTypeOK'
  <2>1. 0 \in 0..Len(Chain)
    BY ChainFacts
  <2>2. fresh' \in BOOLEAN /\ found' \in BOOLEAN
    BY <1>3, Zenon
  <2> QED BY <1>3, <2>1, <2>2 DEF WorkerTypeOK, Steps
<1>6. /\ gauge' \in [DeviceConfigs -> {"unset", "ok", "failed"}]
      /\ ops' \in 0..MaxOps /\ faults' \in 0..MaxFaults
      /\ crashes' \in 0..MaxCrashes
  BY ControllerAssumption DEF Crash, TypeOK
<1> QED BY <1>1, <1>4, <1>5, <1>6 DEF TypeOK

(* Every step keeps the types, given that only live objects are updated.   *)
LEMMA TypeStep ==
    ASSUME TypeOK, FreshInv, [Next]_vars
    PROVE  TypeOK'
<1>1. CASE Next
  <2>1. CASE Dequeue
    BY <2>1, DequeueType
  <2>2. CASE Get
    BY <2>2, GetType
  <2>3. CASE ValidateNodeSelector
    BY <2>3, ValidateType
  <2>4. CASE AddDeletionFinalizer
    BY <2>4, AddFinalizerType
  <2>5. CASE GetChild
    BY <2>5, GetChildType
  <2>6. CASE CreateOrPatch
    BY <2>6, CreateOrPatchType
  <2>7. CASE SetConditionsErrored
    BY <2>7, SetErroredType
  <2>8. CASE SetConditionsReady
    BY <2>8, SetReadyType
  <2>9. CASE DeleteModule
    BY <2>9, DeleteModuleType
  <2>10. CASE RemoveDeletionFinalizer
    BY <2>10, RemoveFinalizerType
  <2>11. CASE Cluster
    BY <2>11, DeliverDCType, DeliverChildType, TimerType, ResyncType,
       CreateDCType, EditDCType, DeleteDCType, RemoveChildType, CrashType
       DEF Cluster
  <2> QED BY <1>1, <2>1, <2>2, <2>3, <2>4, <2>5, <2>6, <2>7, <2>8, <2>9, <2>10,
          <2>11 DEF Next, Reconcile, ReconcileModule,
          ReconcileNodeLabelerDaemonSet, ReconcileNodeMetricsDaemonSet,
          ReconcileNodeMetricsService, ReconcileChild
<1>2. CASE UNCHANGED vars
  BY <1>2 DEF TypeOK, ClusterTypeOK, QueueTypeOK, WorkerTypeOK, vars,
     clusterVars, queueVars, workerVars, budgetVars
<1> QED BY <1>1, <1>2

-----------------------------------------------------------------------------
(* The inductive invariant: what steps of one shape do to it.              *)

(* The server's version is one of the versions of the view.                *)
LEMMA LiveIsVersion ==
    ASSUME ClusterTypeOK, NEW d \in DeviceConfigs
    PROVE  Live(d) \in Versions(d)
BY DEF ClusterTypeOK, Live, Versions

(* A step that writes no DeviceConfig and at most removes Modules.         *)
LEMMA NoWriteInv ==
    ASSUME GuardInv,
           \A d \in DeviceConfigs :
             /\ Live(d)' = Live(d)
             /\ Versions(d)' \subseteq Versions(d)
             /\ LiveChild("Module", d)' \in {LiveChild("Module", d), None}
    PROVE  ViewInv' /\ FinalizerGuardsModule'
<1>1. ViewInv'
  BY DEF GuardInv, ViewInv
<1>2. FinalizerGuardsModule'
  BY DEF GuardInv, FinalizerGuardsModule, Owns
<1> QED BY <1>1, <1>2

(* A write of a DeviceConfig that keeps its uid and its finalizer.         *)
LEMMA KeepingWriteInv ==
    ASSUME GuardInv, NEW d \in DeviceConfigs,
           NEW object \in {None} \cup DCObject, WriteDC(d, object),
           UNCHANGED childView,
           Live(d) # None /\ Live(d).finalizer =>
             object # None /\ object.uid = Live(d).uid /\ object.finalizer
    PROVE  ViewInv' /\ FinalizerGuardsModule'
<1>1. /\ Live(d)' = object
      /\ \A e \in DeviceConfigs \ {d} : Live(e)' = Live(e)
      /\ \A e \in DeviceConfigs :
            Versions(e)' \subseteq Versions(e) \cup {Live(e)'}
  BY WriteDCFacts DEF GuardInv, TypeOK
<1>2. \A e \in DeviceConfigs : Live(e) # None /\ Live(e).finalizer =>
        Live(e)' # None /\ Live(e)'.uid = Live(e).uid /\ Live(e)'.finalizer
  BY <1>1
<1>3. ASSUME NEW e \in DeviceConfigs, NEW o \in Versions(e)',
             o # None /\ o.finalizer /\ ~o.deleting
      PROVE  Live(e)' # None /\ Live(e)'.uid = o.uid /\ Live(e)'.finalizer
  <2>1. CASE o = Live(e)'
    BY <1>3, <2>1
  <2>2. CASE o \in Versions(e)
    <3>1. Live(e) # None /\ Live(e).uid = o.uid /\ Live(e).finalizer
      BY <1>3, <2>2 DEF GuardInv, ViewInv
    <3> QED BY <1>2, <3>1
  <2> QED BY <1>1, <1>3, <2>1, <2>2
<1>4. ViewInv'
  BY <1>3 DEF ViewInv
<1>5. \A e \in DeviceConfigs :
        LiveChild("Module", e)' = LiveChild("Module", e)
  BY DEF LiveChild
<1>6. FinalizerGuardsModule'
  BY <1>2, <1>5 DEF GuardInv, FinalizerGuardsModule, Owns
<1> QED BY <1>4, <1>6

(* A worker that stands still while no DeviceConfig is written.            *)
LEMMA StillWorkerInv ==
    ASSUME GuardInv, UNCHANGED workerVars,
           \A d \in DeviceConfigs :
             /\ Live(d)' = Live(d)
             /\ Versions(d)' \subseteq Versions(d)
             /\ LiveChild("Module", d)' \in {LiveChild("Module", d), None}
    PROVE  FreshInv' /\ CopyInv' /\ DeletionInv'
<1>1. pc # "idle" => key \in DeviceConfigs
  BY DEF GuardInv, TypeOK, WorkerTypeOK
<1>2. pc' = pc /\ key' = key /\ cr' = cr /\ fresh' = fresh
  BY DEF workerVars
<1>3. key \in DeviceConfigs =>
        /\ Live(key)' = Live(key) /\ Versions(key)' \subseteq Versions(key)
        /\ LiveChild("Module", key)' \in {LiveChild("Module", key), None}
  <2>1. CASE key \in DeviceConfigs
    BY <1>2, <2>1 DEF Live, Versions, LiveChild
  <2> QED BY <2>1
<1>4. FreshInv'
  BY <1>1, <1>2, <1>3 DEF GuardInv, FreshInv
<1>5. CopyInv'
  BY <1>1, <1>2, <1>3 DEF GuardInv, CopyInv, NormalSteps
<1>6. DeletionInv'
  BY <1>1, <1>2, <1>3 DEF GuardInv, DeletionInv
<1> QED BY <1>4, <1>5, <1>6

(* A worker that has finished knows nothing and claims nothing.            *)
LEMMA IdleWorkerInv ==
    ASSUME pc' = "idle", fresh' = FALSE
    PROVE  FreshInv' /\ CopyInv' /\ DeletionInv'
BY DEF FreshInv, CopyInv, DeletionInv, NormalSteps

(* A worker whose copy others may have made stale.                         *)
LEMMA UserOpInv ==
    ASSUME GuardInv, NEW d \in DeviceConfigs,
           NEW object \in {None} \cup DCObject, WriteDC(d, object),
           UserOp(d), UNCHANGED childView,
           Live(d) # None /\ Live(d).finalizer =>
             object # None /\ object.uid = Live(d).uid /\ object.finalizer
    PROVE  /\ ViewInv' /\ FinalizerGuardsModule'
           /\ FreshInv' /\ CopyInv' /\ DeletionInv'
<1>1. ViewInv' /\ FinalizerGuardsModule'
  BY KeepingWriteInv
<1>2. /\ Live(d)' = object
      /\ \A e \in DeviceConfigs \ {d} : Live(e)' = Live(e)
      /\ \A e \in DeviceConfigs :
            Versions(e)' \subseteq Versions(e) \cup {Live(e)'}
  BY WriteDCFacts DEF GuardInv, TypeOK
<1>3. pc' = pc /\ key' = key /\ cr' = cr /\ (fresh' => fresh /\ d # key)
  BY DEF UserOp, Outdate
<1>4. pc # "idle" => key \in DeviceConfigs
  BY DEF GuardInv, TypeOK, WorkerTypeOK
<1>5. CASE key \in DeviceConfigs
  <2>1. Live(key)' = IF key = d THEN object ELSE Live(key)
    BY <1>2, <1>3, <1>5 DEF Live
  <2>2. key # d => Versions(key)' \subseteq Versions(key)
    <3>1. Live(key) \in Versions(key)
      BY <1>5, LiveIsVersion DEF GuardInv, TypeOK
    <3>2. Versions(key)' \subseteq Versions(key) \cup {Live(key)'}
      BY <1>2, <1>3, <1>5 DEF Versions, Live
    <3> QED BY <2>1, <3>1, <3>2
  <2>3. LiveChild("Module", key)' = LiveChild("Module", key)
    BY <1>3 DEF LiveChild
  <2>4. FreshInv'
    BY <1>3, <2>1 DEF GuardInv, FreshInv
  <2>5. CopyInv'
    BY <1>3, <2>1 DEF GuardInv, CopyInv, NormalSteps
  <2>6. DeletionInv'
    BY <1>3, <2>2, <2>3 DEF GuardInv, DeletionInv
  <2> QED BY <1>1, <2>4, <2>5, <2>6
<1>6. CASE pc = "idle"
  <2>1. fresh' = FALSE
    BY <1>3, <1>6 DEF GuardInv, FreshInv, UserOp, Outdate, TypeOK, WorkerTypeOK
  <2> QED BY <1>1, <1>3, <1>6, <2>1, IdleWorkerInv
<1> QED BY <1>4, <1>5, <1>6

-----------------------------------------------------------------------------
(* The inductive invariant, action by action.                              *)

Guarded == FreshInv /\ ViewInv /\ CopyInv /\ DeletionInv /\ FinalizerGuardsModule

(* A step that leaves both views alone.                                    *)
LEMMA SameClusterInv ==
    ASSUME GuardInv, UNCHANGED <<dcView, childView>>
    PROVE  /\ ViewInv' /\ FinalizerGuardsModule'
           /\ \A d \in DeviceConfigs :
                /\ Live(d)' = Live(d) /\ Versions(d)' = Versions(d)
                /\ LiveChild("Module", d)' = LiveChild("Module", d)
<1>1. \A d \in DeviceConfigs :
        /\ Live(d)' = Live(d) /\ Versions(d)' = Versions(d)
        /\ LiveChild("Module", d)' = LiveChild("Module", d)
  BY DEF Live, Versions, LiveChild
<1> QED BY <1>1, NoWriteInv

(* Taking a key off the queue.                                             *)
LEMMA DequeueInv ==
    ASSUME GuardInv, Dequeue
    PROVE  Guarded'
<1>1. ViewInv' /\ FinalizerGuardsModule'
  BY SameClusterInv DEF Dequeue, clusterVars
<1>2. pc' = "Get" /\ fresh' = fresh /\ pc = "idle"
  BY DEF Dequeue
<1>3. FreshInv' /\ CopyInv' /\ DeletionInv'
  BY <1>2 DEF GuardInv, FreshInv, CopyInv, DeletionInv, NormalSteps
<1> QED BY <1>1, <1>3 DEF Guarded

(* Reading the DeviceConfig: what ViewInv says of every version holds of   *)
(* the one the cache returns.                                              *)
LEMMA GetInv ==
    ASSUME GuardInv, Get
    PROVE  Guarded'
<1>1. key \in DeviceConfigs
  BY DEF Get, GuardInv, TypeOK, WorkerTypeOK
<1>2. UNCHANGED <<dcView, childView>>
  BY DEF Get, clusterVars
<1>3. ViewInv' /\ FinalizerGuardsModule'
  BY <1>2, SameClusterInv
<1>4. CASE /\ ~Finished(Cached(key))
           /\ cr' = Cached(key)
           /\ fresh' = UpToDate(key)
           /\ IF Cached(key).deleting
              THEN SetGauge("ok") /\ Goto("DeleteModule")
              ELSE UNCHANGED gauge /\ Goto("Validate")
  <2>1. /\ key' = key /\ cr' = Cached(key) /\ cr' # None
        /\ Cached(key) \in Versions(key) /\ Live(key) \in Versions(key)
    <3>1. Len(dcView) \in Nat /\ Len(dcView) > 0
      BY DEF GuardInv, TypeOK, ClusterTypeOK
    <3> QED BY <1>4, <3>1 DEF Goto, Finished, Versions, Cached, Live
  <2>2. Live(key)' = Live(key) /\ Versions(key)' = Versions(key)
    BY <1>2, <2>1 DEF Live, Versions
  <2>3. fresh' => \A object \in Versions(key)' : object = cr'
    BY <1>4, <2>1, <2>2 DEF UpToDate
  <2>4. FreshInv'
    BY <1>4, <2>1, <2>2, <2>3 DEF FreshInv, Goto
  <2>5. CopyInv'
    BY <1>1, <1>4, <2>1, <2>2 DEF CopyInv, Goto, NormalSteps, GuardInv, ViewInv
  <2>6. DeletionInv'
    BY <1>4, <2>1, <2>3 DEF DeletionInv, Goto
  <2> QED BY <1>3, <2>4, <2>5, <2>6 DEF Guarded
<1>5. CASE pc' = "idle" /\ fresh' = FALSE
  BY <1>3, <1>5, IdleWorkerInv DEF Guarded
<1>6. \A failed \in BOOLEAN : Finish(failed) => pc' = "idle" /\ fresh' = FALSE
  BY DEF Finish
<1> QED BY <1>4, <1>5, <1>6 DEF Get

(* The check of the selectors hands on the copy it was given.              *)
LEMMA ValidateInv ==
    ASSUME GuardInv, ValidateNodeSelector
    PROVE  Guarded'
<1>1. key \in DeviceConfigs /\ pc = "Validate"
  BY DEF ValidateNodeSelector, GuardInv, TypeOK, WorkerTypeOK
<1>2. UNCHANGED <<dcView, childView>>
  BY DEF ValidateNodeSelector, clusterVars
<1>3. ViewInv' /\ FinalizerGuardsModule'
  BY <1>2, SameClusterInv
<1>4. CASE /\ IF cr.finalizer
              THEN Goto("GetChild") /\ child' = 1
              ELSE Goto("AddFinalizer") /\ UNCHANGED child
           /\ UNCHANGED <<cr, fresh>>
  <2>1. /\ key' = key /\ cr' = cr /\ fresh' = fresh
        /\ \/ pc' = "GetChild" /\ cr.finalizer
           \/ pc' = "AddFinalizer"
    BY <1>4 DEF Goto
  <2>2. Live(key)' = Live(key)
    BY <1>2, <2>1 DEF Live
  <2>3. FreshInv' /\ CopyInv' /\ DeletionInv'
    BY <1>1, <2>1, <2>2 DEF GuardInv, FreshInv, CopyInv, DeletionInv, NormalSteps
  <2> QED BY <1>3, <2>3 DEF Guarded
<1>5. CASE Finish(FALSE)
  <2>1. pc' = "idle" /\ fresh' = FALSE
    BY <1>5 DEF Finish
  <2> QED BY <1>3, <2>1, IdleWorkerInv DEF Guarded
<1> QED BY <1>4, <1>5 DEF ValidateNodeSelector

(* An update that keeps uid and finalizer and ends the reconcile.          *)
LEMMA FinalUpdateInv ==
    ASSUME GuardInv, key \in DeviceConfigs, NEW object,
           fresh => object \in DCObject /\ object.uid = Live(key).uid
                                        /\ object.finalizer = Live(key).finalizer,
           UNCHANGED dcView \/ (fresh /\ WriteDC(key, object)),
           UNCHANGED childView,
           pc' = "idle", fresh' = FALSE
    PROVE  Guarded'
<1>1. ViewInv' /\ FinalizerGuardsModule'
  <2>1. CASE UNCHANGED dcView
    BY <2>1, SameClusterInv
  <2>2. CASE fresh /\ WriteDC(key, object)
    <3>1. object # None
      BY <2>2, NoneAssumption
    <3> QED BY <2>2, <3>1, KeepingWriteInv
  <2> QED BY <2>1, <2>2
<1> QED BY <1>1, IdleWorkerInv DEF Guarded

(* Adding the finalizer makes the copy one of a protected DeviceConfig.    *)
LEMMA AddFinalizerInv ==
    ASSUME GuardInv, AddDeletionFinalizer
    PROVE  Guarded'
<1> DEFINE object == [Live(key) EXCEPT !.finalizer = TRUE, !.spec = Stored(cr.spec)]
           A == /\ cr' = [cr EXCEPT !.finalizer = TRUE]
                /\ Goto("GetChild") /\ child' = 1
                /\ UNCHANGED <<fresh, found>>
           B == Finish(TRUE)
<1>1. key \in DeviceConfigs /\ cr \in DCObject /\ pc = "AddFinalizer"
  BY DEF AddDeletionFinalizer, GuardInv, TypeOK, WorkerTypeOK
<1>2. Update(object, A, B) /\ UNCHANGED childView
  BY Zenon DEF AddDeletionFinalizer
<1>3. \/ A /\ fresh /\ WriteDC(key, object)
      \/ B /\ (UNCHANGED dcView \/ (fresh /\ WriteDC(key, object)))
  <2>1. faults \in 0..MaxFaults
    BY DEF GuardInv, TypeOK
  <2> HIDE DEF object, A, B
  <2> QED BY <1>2, <2>1, UpdateEffect
<1>4. fresh => /\ object \in DCObject /\ object # None
               /\ object.uid = Live(key).uid /\ object.finalizer
               /\ object.uid = cr.uid
  <2>1. Stored(cr.spec) \in Specs
    BY <1>1, StoredType DEF DCObject
  <2>2. fresh => Live(key) \in DCObject /\ Live(key).uid = cr.uid
    BY <1>1, EndsTypeOK DEF FreshInv, GuardInv, TypeOK
  <2> QED BY <2>1, <2>2, NoneAssumption DEF DCObject
<1> HIDE DEF object
<1>5. ViewInv' /\ FinalizerGuardsModule'
  <2>1. CASE UNCHANGED dcView
    BY <1>2, <2>1, SameClusterInv
  <2>2. CASE fresh /\ WriteDC(key, object)
    BY <1>1, <1>2, <1>4, <2>2, KeepingWriteInv
  <2> QED BY <1>3, <2>1, <2>2
<1>6. CASE A /\ fresh /\ WriteDC(key, object)
  <2>1. Live(key)' = object
    <3>1. dcView'[Len(dcView')][key] = object
      BY <1>1, <1>4, <1>6, WriteDCFacts DEF GuardInv, TypeOK, Live
    <3> QED BY <1>6, <3>1 DEF Live, Goto
  <2>2. cr'.uid = cr.uid /\ cr'.deleting = cr.deleting /\ cr'.finalizer
        /\ pc' = "GetChild" /\ fresh' = fresh
    BY <1>1, <1>6 DEF Goto, DCObject
  <2>3. ~cr.deleting
    BY <1>1 DEF GuardInv, CopyInv, NormalSteps
  <2>4. FreshInv' /\ CopyInv' /\ DeletionInv'
    BY <1>4, <1>6, <2>1, <2>2, <2>3 DEF FreshInv, CopyInv, DeletionInv, NormalSteps
  <2> QED BY <1>5, <2>4 DEF Guarded
<1>7. CASE B
  <2>1. pc' = "idle" /\ fresh' = FALSE
    BY <1>7 DEF Finish
  <2> QED BY <1>5, <2>1, IdleWorkerInv DEF Guarded
<1> QED BY <1>3, <1>6, <1>7

(* Reading a child.                                                        *)
LEMMA GetChildInv ==
    ASSUME GuardInv, GetChild
    PROVE  Guarded'
<1>1. /\ UNCHANGED <<dcView, childView>>
      /\ UNCHANGED <<cr, fresh, key>>
      /\ pc = "GetChild" /\ pc' \in {"CreateOrPatch", "SetErrored"}
  BY DEF GetChild, Goto, clusterVars
<1>2. ViewInv' /\ FinalizerGuardsModule'
  BY <1>1, SameClusterInv
<1>3. Live(key)' = Live(key)
  BY <1>1 DEF Live
<1>4. FreshInv' /\ CopyInv' /\ DeletionInv'
  BY <1>1, <1>3 DEF GuardInv, FreshInv, CopyInv, DeletionInv, NormalSteps
<1> QED BY <1>2, <1>4 DEF Guarded

(* Writing a child: a Module that appears or changes hands is owned by the *)
(* DeviceConfig of the copy, which is protected.                           *)
LEMMA CreateOrPatchInv ==
    ASSUME GuardInv, CreateOrPatch
    PROVE  Guarded'
<1>1. /\ pc = "CreateOrPatch" /\ key \in DeviceConfigs /\ cr \in DCObject
      /\ child \in 1..Len(Chain)
  BY ChainFacts DEF CreateOrPatch, GuardInv, TypeOK, WorkerTypeOK
<1>2. PICK k \in Kinds : Chain[child] = k
  BY <1>1, ChainFacts
<1>3. /\ UNCHANGED <<dcView, cr, fresh>>
      /\ \/ Accepted(k, key) /\ WriteChild(k, key, Applied(k, key))
         \/ UNCHANGED childView
      /\ NextChild \/ ChildFailed
  BY <1>2, CreateOrPatchEffect DEF CreateOrPatch, GuardInv
<1>4. key' = key /\ pc' \in {"GetChild", "SetReady", "SetErrored"}
  BY <1>3 DEF NextChild, ChildFailed, Goto
<1>5. \A d \in DeviceConfigs : Live(d)' = Live(d) /\ Versions(d)' = Versions(d)
  BY <1>3 DEF Live, Versions
<1>6. Live(key)' = Live(key)
  BY <1>3, <1>4 DEF Live
<1>7. ViewInv'
  BY <1>5 DEF GuardInv, ViewInv
<1>8. FreshInv' /\ CopyInv' /\ DeletionInv'
  BY <1>1, <1>3, <1>4, <1>6 DEF GuardInv, FreshInv, CopyInv, DeletionInv,
     NormalSteps
<1>9. Live(key) # None /\ Live(key).uid = cr.uid /\ Live(key).finalizer
  BY <1>1 DEF GuardInv, CopyInv, NormalSteps
<1>10. FinalizerGuardsModule'
  <2>1. CASE UNCHANGED childView
    BY <1>3, <2>1, SameClusterInv
  <2>2. CASE Accepted(k, key) /\ WriteChild(k, key, Applied(k, key))
    <3> DEFINE new == Applied(k, key)
    <3>1. /\ new \in Child
          /\ \/ new.owner = cr.uid
             \/ LiveChild(k, key) # None /\ new.owner = LiveChild(k, key).owner
      BY <1>1, <2>2, AppliedType DEF GuardInv, TypeOK
    <3> HIDE DEF new
    <3>2. WriteChild(k, key, new)
      BY <2>2 DEF new
    <3>3. /\ dcView' = dcView /\ childView'[k][key][Len(childView'[k][key])] = new
          /\ \A l \in Kinds, e \in DeviceConfigs :
                l # k \/ e # key => LiveChild(l, e)' = LiveChild(l, e)
      BY <1>1, <1>3, <3>1, <3>2, WriteChildFacts DEF GuardInv, TypeOK, LiveChild
    <3>4. ASSUME NEW d \in DeviceConfigs, LiveChild("Module", d)' # None
          PROVE  Owns(d, LiveChild("Module", d))' /\ Live(d)'.finalizer
      <4>1. CASE k = "Module" /\ d = key
        <5>1. LiveChild("Module", d)' = new
          BY <3>3, <4>1 DEF LiveChild
        <5>2. new.owner = Live(key).uid
          BY <1>1, <1>9, <3>1, <4>1 DEF GuardInv, FinalizerGuardsModule, Owns
        <5> QED BY <1>5, <1>9, <4>1, <5>1, <5>2 DEF Owns
      <4>2. CASE k # "Module" \/ d # key
        <5>1. LiveChild("Module", d)' = LiveChild("Module", d)
          BY <3>3, <4>2, ChainFacts
        <5> QED BY <1>5, <3>4, <5>1 DEF GuardInv, FinalizerGuardsModule, Owns
      <4> QED BY <4>1, <4>2
    <3> QED BY <3>4 DEF FinalizerGuardsModule
  <2> QED BY <1>3, <2>1, <2>2
<1> QED BY <1>7, <1>8, <1>10 DEF Guarded

(* Writing the Errored condition.                                          *)
LEMMA SetErroredInv ==
    ASSUME GuardInv, SetConditionsErrored
    PROVE  Guarded'
<1> DEFINE object == [Live(key) EXCEPT !.status = ReasonFor(Chain[child])]
<1>1. key \in DeviceConfigs /\ child \in 1..Len(Chain)
  BY ChainFacts DEF SetConditionsErrored, GuardInv, TypeOK, WorkerTypeOK
<1>2. fresh => /\ object \in DCObject /\ object.uid = Live(key).uid
               /\ object.finalizer = Live(key).finalizer
  <2>1. ReasonFor(Chain[child]) \in Statuses
    BY <1>1, ChainFacts
  <2>2. fresh => Live(key) \in DCObject
    BY <1>1, EndsTypeOK DEF FreshInv, GuardInv, TypeOK
  <2> QED BY <2>1, <2>2 DEF DCObject
<1>3. /\ Update(object, Finish(TRUE), Finish(TRUE))
      /\ UNCHANGED <<childView, lastUID, ops, crashes>>
  BY Zenon DEF SetConditionsErrored
<1> HIDE DEF object
<1>4. /\ pc' = "idle" /\ fresh' = FALSE
      /\ UNCHANGED dcView \/ (fresh /\ WriteDC(key, object))
  BY <1>1, <1>2, <1>3, FinalUpdateType DEF GuardInv
<1> QED BY <1>1, <1>2, <1>3, <1>4, FinalUpdateInv

(* Writing the Ready condition.                                            *)
LEMMA SetReadyInv ==
    ASSUME GuardInv, SetConditionsReady
    PROVE  Guarded'
<1> DEFINE object == [Live(key) EXCEPT !.status = "Ready"]
<1>1. key \in DeviceConfigs
  BY DEF SetConditionsReady, GuardInv, TypeOK, WorkerTypeOK
<1>2. fresh => /\ object \in DCObject /\ object.uid = Live(key).uid
               /\ object.finalizer = Live(key).finalizer
  <2>1. fresh => Live(key) \in DCObject
    BY <1>1, EndsTypeOK DEF FreshInv, GuardInv, TypeOK
  <2> QED BY <2>1 DEF DCObject, Statuses
<1>3. /\ Update(object, Finish(FALSE), Finish(TRUE))
      /\ UNCHANGED <<childView, lastUID, ops, crashes>>
  BY DEF SetConditionsReady
<1> HIDE DEF object
<1>4. /\ pc' = "idle" /\ fresh' = FALSE
      /\ UNCHANGED dcView \/ (fresh /\ WriteDC(key, object))
  BY <1>1, <1>2, <1>3, FinalUpdateType DEF GuardInv
<1> QED BY <1>1, <1>2, <1>3, <1>4, FinalUpdateInv

(* Deleting the Module.                                                    *)
LEMMA DeleteModuleInv ==
    ASSUME GuardInv, DeleteModule
    PROVE  Guarded'
<1>1. key \in DeviceConfigs /\ pc = "DeleteModule" /\ UNCHANGED dcView
  BY DEF DeleteModule, GuardInv, TypeOK, WorkerTypeOK
<1>2. \A d \in DeviceConfigs : Live(d)' = Live(d) /\ Versions(d)' = Versions(d)
  BY <1>1 DEF Live, Versions
<1>3. CASE WriteChild("Module", key, None)
  <2>1. /\ childView'["Module"][key][Len(childView'["Module"][key])] = None
        /\ \A e \in DeviceConfigs :
            e # key => LiveChild("Module", e)' = LiveChild("Module", e)
    BY <1>1, <1>3, ChainFacts, WriteChildFacts DEF GuardInv, TypeOK, LiveChild
  <2>2. ViewInv' /\ FinalizerGuardsModule'
    <3>1. ASSUME NEW d \in DeviceConfigs
          PROVE  LiveChild("Module", d)' \in {LiveChild("Module", d), None}
      BY <2>1 DEF LiveChild
    <3> QED BY <1>2, <3>1, NoWriteInv
  <2>3. CASE Goto("RemoveFinalizer") /\ UNCHANGED <<cr, fresh>>
    <3>1. /\ pc' = "RemoveFinalizer" /\ key' = key /\ cr' = cr /\ fresh' = fresh
          /\ Live(key)' = Live(key) /\ Versions(key)' = Versions(key)
          /\ LiveChild("Module", key)' = None
      BY <1>1, <2>1, <2>3 DEF Goto, Live, Versions, LiveChild
    <3>2. FreshInv' /\ CopyInv' /\ DeletionInv'
      BY <1>1, <3>1 DEF GuardInv, FreshInv, CopyInv, DeletionInv, NormalSteps
    <3> QED BY <2>2, <3>2 DEF Guarded
  <2>4. CASE Finish(TRUE)
    <3>1. pc' = "idle" /\ fresh' = FALSE
      BY <2>4 DEF Finish
    <3> QED BY <2>2, <3>1, IdleWorkerInv DEF Guarded
  <2> QED BY <2>3, <2>4 DEF DeleteModule
<1>4. CASE UNCHANGED childView /\ Finish(TRUE)
  <2>1. ViewInv' /\ FinalizerGuardsModule'
    BY <1>1, <1>4, SameClusterInv
  <2>2. pc' = "idle" /\ fresh' = FALSE
    BY <1>4 DEF Finish
  <2> QED BY <2>1, <2>2, IdleWorkerInv DEF Guarded
<1> QED BY <1>3, <1>4 DEF DeleteModule

(* Giving up the DeviceConfig: every version of it that is left is being   *)
(* deleted, and its Module is gone.                                        *)
LEMMA RemoveFinalizerInv ==
    ASSUME GuardInv, RemoveDeletionFinalizer
    PROVE  Guarded'
<1>1. key \in DeviceConfigs /\ pc = "RemoveFinalizer"
  BY DEF RemoveDeletionFinalizer, GuardInv, TypeOK, WorkerTypeOK
<1>2. /\ Update(None, Finish(FALSE), Finish(TRUE))
      /\ UNCHANGED <<childView, lastUID, ops, crashes>>
  BY DEF RemoveDeletionFinalizer
<1>3. /\ pc' = "idle" /\ fresh' = FALSE
      /\ UNCHANGED dcView \/ (fresh /\ WriteDC(key, None))
  BY <1>1, <1>2, FinalUpdateType DEF GuardInv
<1>4. CASE UNCHANGED dcView
  BY <1>2, <1>3, <1>4, SameClusterInv, IdleWorkerInv DEF Guarded
<1>5. CASE fresh /\ WriteDC(key, None)
  <2>1. /\ \A object \in Versions(key) : object = cr
        /\ cr.deleting /\ LiveChild("Module", key) = None
    BY <1>1, <1>5 DEF GuardInv, DeletionInv
  <2>2. ASSUME NEW d \in DeviceConfigs, d # key
        PROVE  /\ Live(d)' = Live(d) /\ Versions(d)' \subseteq Versions(d)
    <3>1. Live(d)' = Live(d) /\ Versions(d)' \subseteq Versions(d) \cup {Live(d)'}
      BY <1>1, <1>5, <2>2, WriteDCFacts DEF GuardInv, TypeOK
    <3>2. Live(d) \in Versions(d)
      BY LiveIsVersion DEF GuardInv, TypeOK
    <3> QED BY <3>1, <3>2
  <2>3. ASSUME NEW d \in DeviceConfigs, d = key, NEW object \in Versions(d)'
        PROVE  object = None \/ object.deleting
    <3>1. Live(d)' = None /\ Versions(d)' \subseteq Versions(d) \cup {Live(d)'}
      BY <1>1, <1>5, <2>3, WriteDCFacts DEF GuardInv, TypeOK
    <3> QED BY <2>1, <2>3, <3>1
  <2>4. ViewInv'
    BY <2>2, <2>3 DEF GuardInv, ViewInv
  <2>5. \A d \in DeviceConfigs : LiveChild("Module", d)' = LiveChild("Module", d)
    BY <1>2 DEF LiveChild
  <2>6. FinalizerGuardsModule'
    BY <2>1, <2>2, <2>5 DEF GuardInv, FinalizerGuardsModule, Owns
  <2> QED BY <1>3, <2>4, <2>6, IdleWorkerInv DEF Guarded
<1> QED BY <1>3, <1>4, <1>5

(* The cluster's own steps: deliveries, timers, and children that go away. *)
LEMMA ClusterInv ==
    ASSUME GuardInv, UNCHANGED workerVars,
           \/ DeliverDC
           \/ Resync
           \/ \E d \in DeviceConfigs :
                \/ TimerFires(d)
                \/ \E k \in Kinds :
                    DeliverChild(k, d) \/ Tamper(k, d) \/ CollectGarbage(k, d)
    PROVE  Guarded'
<1>1. ASSUME NEW d \in DeviceConfigs
      PROVE  /\ Live(d)' = Live(d) /\ Versions(d)' \subseteq Versions(d)
             /\ LiveChild("Module", d)' \in {LiveChild("Module", d), None}
  <2>1. CASE UNCHANGED <<dcView, childView>>
    BY <2>1 DEF Live, Versions, LiveChild
  <2>2. CASE DeliverDC
    <3>1. Live(d)' = Live(d) /\ Versions(d)' \subseteq Versions(d)
      BY <2>2, DeliverDCFacts DEF GuardInv, TypeOK
    <3> QED BY <2>2, <3>1 DEF DeliverDC, LiveChild
  <2>3. ASSUME NEW e \in DeviceConfigs, NEW k \in Kinds, DeliverChild(k, e)
        PROVE  /\ UNCHANGED dcView
               /\ LiveChild("Module", d)' = LiveChild("Module", d)
    BY <2>3, DeliverChildFacts, ChainFacts DEF GuardInv, TypeOK, DeliverChild
  <2>4. ASSUME NEW e \in DeviceConfigs, NEW k \in Kinds,
               Tamper(k, e) \/ CollectGarbage(k, e)
        PROVE  /\ UNCHANGED dcView
               /\ LiveChild("Module", d)' \in {LiveChild("Module", d), None}
    <3>1. WriteChild(k, e, None) /\ UNCHANGED dcView
      BY <2>4 DEF Tamper, CollectGarbage
    <3> QED BY <3>1, WriteChildFacts, ChainFacts DEF GuardInv, TypeOK
  <2>5. UNCHANGED dcView => Live(d)' = Live(d) /\ Versions(d)' = Versions(d)
    BY DEF Live, Versions
  <2>6. Resync \/ TimerFires(d) => UNCHANGED <<dcView, childView>>
    BY DEF Resync, TimerFires, clusterVars
  <2> QED BY <2>1, <2>2, <2>3, <2>4, <2>5, <2>6 DEF TimerFires, clusterVars
<1> QED BY <1>1, NoWriteInv, StillWorkerInv DEF Guarded

(* What users do.                                                          *)
LEMMA UsersInv ==
    ASSUME GuardInv, NEW d \in DeviceConfigs,
           \/ DeleteDC(d)
           \/ \E spec \in UserSpecs : CreateDC(d, spec) \/ EditDC(d, spec)
    PROVE  Guarded'
<1>1. Live(d) \in {None} \cup DCObject
  BY EndsTypeOK DEF GuardInv, TypeOK
<1>2. CASE DeleteDC(d)
  <2> DEFINE object == IF Live(d).finalizer
                       THEN [Live(d) EXCEPT !.deleting = TRUE]
                       ELSE None
  <2>1. UserOp(d) /\ WriteDC(d, object) /\ UNCHANGED childView /\ Live(d) # None
    BY <1>2 DEF DeleteDC
  <2>2. /\ object \in {None} \cup DCObject
        /\ Live(d).finalizer =>
            object # None /\ object.uid = Live(d).uid /\ object.finalizer
    BY <1>1, <2>1, NoneAssumption DEF DCObject
  <2> HIDE DEF object
  <2> QED BY <2>1, <2>2, UserOpInv DEF Guarded
<1>3. ASSUME NEW spec \in UserSpecs, EditDC(d, spec)
      PROVE  Guarded'
  <2> DEFINE object == [Live(d) EXCEPT !.spec = spec]
  <2>1. UserOp(d) /\ WriteDC(d, object) /\ UNCHANGED childView /\ Live(d) # None
    BY <1>3 DEF EditDC
  <2>2. /\ object \in DCObject /\ object # None /\ object.uid = Live(d).uid
        /\ object.finalizer = Live(d).finalizer
    BY <1>1, <2>1, NoneAssumption, ControllerAssumption DEF DCObject
  <2> HIDE DEF object
  <2> QED BY <2>1, <2>2, UserOpInv DEF Guarded
<1>4. ASSUME NEW spec \in UserSpecs, CreateDC(d, spec)
      PROVE  Guarded'
  <2> DEFINE object == [uid |-> lastUID[d] + 1, spec |-> spec,
                        finalizer |-> FALSE, deleting |-> FALSE,
                        status |-> "Unknown"]
  <2>1. UserOp(d) /\ WriteDC(d, object) /\ UNCHANGED childView /\ Live(d) = None
    BY <1>4 DEF CreateDC
  <2>2. object \in DCObject
    BY ControllerAssumption DEF GuardInv, TypeOK, ClusterTypeOK, DCObject,
       Statuses
  <2> HIDE DEF object
  <2> QED BY <2>1, <2>2, UserOpInv DEF Guarded
<1> QED BY <1>2, <1>3, <1>4

(* A crash forgets everything the worker knew.                             *)
LEMMA CrashInv ==
    ASSUME GuardInv, Crash
    PROVE  Guarded'
<1>1. \A d \in DeviceConfigs :
        /\ Live(d)' = Live(d) /\ Versions(d)' \subseteq Versions(d)
        /\ LiveChild("Module", d)' \in {LiveChild("Module", d), None}
  BY CrashFacts, LiveIsVersion, ChainFacts DEF GuardInv, TypeOK
<1>2. pc' = "idle" /\ fresh' = FALSE
  BY DEF Crash
<1> QED BY <1>1, <1>2, NoWriteInv, IdleWorkerInv DEF Guarded

(* Every step keeps the invariant.                                         *)
LEMMA GuardStep ==
    ASSUME GuardInv, [Next]_vars
    PROVE  GuardInv'
<1>1. TypeOK'
  BY TypeStep DEF GuardInv
<1>2. CASE UNCHANGED vars
  <2>1. UNCHANGED <<dcView, childView>> /\ UNCHANGED workerVars
    BY <1>2 DEF vars, clusterVars
  <2>2. ViewInv' /\ FinalizerGuardsModule'
    BY <2>1, SameClusterInv
  <2>3. FreshInv' /\ CopyInv' /\ DeletionInv'
    BY <2>1, SameClusterInv, StillWorkerInv
  <2> QED BY <1>1, <2>2, <2>3 DEF GuardInv
<1>3. CASE Reconcile
  <2>1. GetChild \/ CreateOrPatch => Guarded'
    BY GetChildInv, CreateOrPatchInv
  <2>2. Guarded'
    BY <1>3, <2>1, DequeueInv, GetInv, ValidateInv, AddFinalizerInv,
       SetErroredInv, SetReadyInv, DeleteModuleInv, RemoveFinalizerInv
       DEF Reconcile, ReconcileModule, ReconcileNodeLabelerDaemonSet,
       ReconcileNodeMetricsDaemonSet, ReconcileNodeMetricsService,
       ReconcileChild
  <2> QED BY <1>1, <2>2 DEF GuardInv, Guarded
<1>4. CASE Cluster
  <2>1. CASE \/ DeliverDC
             \/ Resync
             \/ \E d \in DeviceConfigs :
                  \/ TimerFires(d)
                  \/ \E k \in Kinds :
                      DeliverChild(k, d) \/ Tamper(k, d) \/ CollectGarbage(k, d)
    <3>1. UNCHANGED workerVars
      BY <2>1 DEF DeliverDC, Resync, TimerFires, DeliverChild, Tamper,
         CollectGarbage
    <3> QED BY <1>1, <2>1, <3>1, ClusterInv DEF GuardInv, Guarded
  <2>2. CASE \E d \in DeviceConfigs :
                \/ DeleteDC(d)
                \/ \E spec \in UserSpecs : CreateDC(d, spec) \/ EditDC(d, spec)
    BY <1>1, <2>2, UsersInv DEF GuardInv, Guarded
  <2>3. CASE Crash
    BY <1>1, <2>3, CrashInv DEF GuardInv, Guarded
  <2> QED BY <1>4, <2>1, <2>2, <2>3 DEF Cluster
<1> QED BY <1>2, <1>3, <1>4 DEF Next

(* The invariant holds at the start, when nothing exists.                  *)
LEMMA GuardInit ==
    ASSUME Init
    PROVE  GuardInv
<1>1. /\ dcView \in Seq(DCMap) /\ Len(dcView) = 1
      /\ \A d \in DeviceConfigs : dcView[1][d] = None
  <2>1. [d \in DeviceConfigs |-> None] \in DCMap
    BY DEF DCMap
  <2> QED BY <2>1 DEF Init
<1>2. \A d \in DeviceConfigs : Live(d) = None /\ Versions(d) = {None}
  BY <1>1 DEF Live, Versions
<1>3. \A k \in Kinds, d \in DeviceConfigs :
        /\ childView[k][d] = <<None>> /\ LiveChild(k, d) = None
  BY DEF Init, LiveChild
<1>4. ClusterTypeOK
  <2>1. <<None>> \in Seq({None} \cup Child) /\ Len(<<None>>) = 1
    OBVIOUS
  <2>2. childView \in [Kinds -> [DeviceConfigs -> Seq({None} \cup Child)]]
    BY <2>1 DEF Init
  <2> QED BY <1>1, <1>3, <2>1, <2>2 DEF Init, ClusterTypeOK
<1>5. QueueTypeOK
  BY DEF Init, QueueTypeOK
<1>6. WorkerTypeOK
  <2>1. fresh \in BOOLEAN /\ found \in BOOLEAN
    BY Zenon DEF Init
  <2> QED BY <2>1, ChainFacts DEF Init, WorkerTypeOK, Steps
<1>7. TypeOK
  BY <1>4, <1>5, <1>6, ControllerAssumption DEF Init, TypeOK
<1>8. FreshInv /\ CopyInv /\ DeletionInv
  BY DEF Init, FreshInv, CopyInv, DeletionInv, NormalSteps
<1>9. ViewInv /\ FinalizerGuardsModule
  BY <1>2, <1>3, ChainFacts DEF ViewInv, FinalizerGuardsModule
<1> QED BY <1>7, <1>8, <1>9 DEF GuardInv

-----------------------------------------------------------------------------
(* The results.                                                            *)

(* What each step of a reconcile knows, however stale its copy of the      *)
(* DeviceConfig and however many crashes and failed calls came before, is  *)
(* enough to keep every Module guarded: GuardInv is an inductive invariant *)
(* of the controller.  (deviceconfig_controller.go:102-182)                *)
THEOREM GuardInvariant == Spec => []GuardInv
<1>1. Init => GuardInv
  BY GuardInit
<1>2. GuardInv /\ [Next]_vars => GuardInv'
  BY GuardStep
<1> QED BY <1>1, <1>2, PTL DEF Spec

(* Every variable keeps its type.                                          *)
THEOREM TypeCorrect == Spec => []TypeOK
<1>1. GuardInv => TypeOK
  BY DEF GuardInv
<1> QED BY <1>1, GuardInvariant, PTL

(* A Module that exists belongs to the DeviceConfig of its name, and that  *)
(* DeviceConfig carries the deletion finalizer, for any number of          *)
(* DeviceConfigs, children, user operations, failed calls and crashes.     *)
(* (deviceconfig_controller.go:120-147, finalizers.go:42-56)               *)
THEOREM ModuleGuarded == Spec => []FinalizerGuardsModule
<1>1. GuardInv => FinalizerGuardsModule
  BY DEF GuardInv
<1> QED BY <1>1, GuardInvariant, PTL
=============================================================================
