--------------------------- MODULE LateLeaderProofs ---------------------------
(***************************************************************************)
(* Two workers on one cluster: what they know of it, stale as it may be,   *)
(* does not lead one of them to create a driver of a living DeviceConfig   *)
(* that nothing guards, or to report on a spec it has not reconciled.  For *)
(* any number of DeviceConfigs, children, user operations and failed       *)
(* calls, and any interleaving of the two.                                 *)
(***************************************************************************)
EXTENDS LateLeader, TLAPS

(* What is proved of one controller that may not be alone.                 *)
First == INSTANCE ConditionsProofs WITH
    dcView <- dcView1, childView <- childView1, queue <- queue1,
    dirty <- dirty1, waiting <- waiting1, pc <- pc1, key <- key1, cr <- cr1,
    fresh <- fresh1, child <- child1, found <- found1, gauge <- gauge1

Second == INSTANCE ConditionsProofs WITH
    dcView <- dcView2, childView <- childView2, queue <- queue2,
    dirty <- dirty2, waiting <- waiting2, pc <- pc2, key <- key2, cr <- cr2,
    fresh <- fresh2, child <- child2, found <- found2, gauge <- gauge2

(* Both are controllers of the same kind: every action of one of them in   *)
(* LateLeader is a step of that controller.                                *)
LEMMA SameLeader == Leader!Next <=> First!Next
<1>1. /\ Leader!Dequeue <=> First!Dequeue
      /\ Leader!Get <=> First!Get
      /\ Leader!ValidateNodeSelector <=> First!ValidateNodeSelector
      /\ Leader!AddDeletionFinalizer <=> First!AddDeletionFinalizer
  BY Zenon DEF
   Leader!AddDeletionFinalizer, First!AddDeletionFinalizer, Leader!Cached,
   First!Cached, Leader!Conflicting, First!Conflicting, Leader!Dequeue,
   First!Dequeue, Leader!Fault, First!Fault, Leader!Finish, First!Finish,
   Leader!Finished, First!Finished, Leader!Get, First!Get,
   Leader!GetNodeSelector, First!GetNodeSelector, Leader!Goto, First!Goto,
   Leader!Live, First!Live, Leader!NodesMatching, First!NodesMatching,
   Leader!Overlap, First!Overlap, Leader!SelectedNodes, First!SelectedNodes,
   Leader!SetGauge, First!SetGauge, Leader!Stored, First!Stored,
   Leader!UpToDate, First!UpToDate, Leader!Update, First!Update,
   Leader!ValidateNodeSelector, First!ValidateNodeSelector, Leader!Versions,
   First!Versions, Leader!WriteDC, First!WriteDC, Leader!budgetVars,
   First!budgetVars, Leader!clusterVars, First!clusterVars,
   Leader!queueVars, First!queueVars
<1>2. /\ Leader!ReconcileModule <=> First!ReconcileModule
      /\ Leader!ReconcileNodeLabelerDaemonSet
         <=> First!ReconcileNodeLabelerDaemonSet
      /\ Leader!ReconcileNodeMetricsDaemonSet
         <=> First!ReconcileNodeMetricsDaemonSet
      /\ Leader!ReconcileNodeMetricsService
         <=> First!ReconcileNodeMetricsService
  BY Zenon DEF
   Leader!Accepted, First!Accepted, Leader!Applied, First!Applied,
   Leader!CachedChild, First!CachedChild, Leader!ChildFailed,
   First!ChildFailed, Leader!CreateOrPatch, First!CreateOrPatch,
   Leader!Desired, First!Desired, Leader!DesiredModule, First!DesiredModule,
   Leader!DesiredNodeLabelerDaemonSet, First!DesiredNodeLabelerDaemonSet,
   Leader!DesiredNodeMetricsDaemonSet, First!DesiredNodeMetricsDaemonSet,
   Leader!DesiredNodeMetricsService, First!DesiredNodeMetricsService,
   Leader!Fault, First!Fault, Leader!GetChild, First!GetChild,
   Leader!GetNodeSelector, First!GetNodeSelector, Leader!Goto, First!Goto,
   Leader!Kinds, First!Kinds, Leader!LiveChild, First!LiveChild,
   Leader!MergePatch, First!MergePatch, Leader!NextChild, First!NextChild,
   Leader!NothingToPatch, First!NothingToPatch,
   Leader!ReconcileChild, First!ReconcileChild, Leader!ReconcileModule,
   First!ReconcileModule, Leader!ReconcileNodeLabelerDaemonSet,
   First!ReconcileNodeLabelerDaemonSet,
   Leader!ReconcileNodeMetricsDaemonSet,
   First!ReconcileNodeMetricsDaemonSet, Leader!ReconcileNodeMetricsService,
   First!ReconcileNodeMetricsService, Leader!Selectors, First!Selectors,
   Leader!SetGauge, First!SetGauge, Leader!Specs, First!Specs,
   Leader!WriteChild, First!WriteChild, Leader!clusterVars,
   First!clusterVars, Leader!queueVars, First!queueVars
<1>3. /\ Leader!SetConditionsErrored <=> First!SetConditionsErrored
      /\ Leader!SetConditionsReady <=> First!SetConditionsReady
      /\ Leader!DeleteModule <=> First!DeleteModule
      /\ Leader!RemoveDeletionFinalizer <=> First!RemoveDeletionFinalizer
  BY Zenon DEF
   Leader!DeleteModule, First!DeleteModule, Leader!Fault, First!Fault,
   Leader!Finish, First!Finish, Leader!Goto, First!Goto, Leader!Live,
   First!Live, Leader!LiveChild, First!LiveChild, Leader!ReasonFor,
   First!ReasonFor, Leader!RemoveDeletionFinalizer,
   First!RemoveDeletionFinalizer, Leader!SetConditionsErrored,
   First!SetConditionsErrored, Leader!SetConditionsReady,
   First!SetConditionsReady, Leader!SetGauge, First!SetGauge, Leader!Update,
   First!Update, Leader!WriteChild, First!WriteChild, Leader!WriteDC,
   First!WriteDC, Leader!queueVars, First!queueVars
<1>4. Leader!Cluster <=> First!Cluster
  BY Zenon DEF
   Leader!Add, First!Add, Leader!Cached, First!Cached, Leader!CachedChild,
   First!CachedChild, Leader!Cluster, First!Cluster, Leader!CollectGarbage,
   First!CollectGarbage, Leader!Crash, First!Crash, Leader!CreateDC,
   First!CreateDC, Leader!DeleteDC, First!DeleteDC, Leader!DeliverChild,
   First!DeliverChild, Leader!DeliverDC, First!DeliverDC, Leader!EditDC,
   First!EditDC, Leader!Kinds, First!Kinds, Leader!Live, First!Live,
   Leader!LiveChild, First!LiveChild, Leader!Outdate, First!Outdate,
   Leader!Owned, First!Owned, Leader!Owns, First!Owns, Leader!Replayed,
   First!Replayed, Leader!Resync, First!Resync, Leader!Tamper, First!Tamper,
   Leader!TimerFires, First!TimerFires, Leader!UserOp, First!UserOp,
   Leader!WriteChild, First!WriteChild, Leader!WriteDC, First!WriteDC,
   Leader!budgetVars, First!budgetVars, Leader!clusterVars,
   First!clusterVars, Leader!queueVars, First!queueVars, Leader!workerVars,
   First!workerVars
<1> QED BY <1>1, <1>2, <1>3, <1>4
        DEF Leader!Next, First!Next, Leader!Reconcile, First!Reconcile

(* The same for the successor.                                             *)
LEMMA SameSuccessor == Successor!Next <=> Second!Next
<1>1. /\ Successor!Dequeue <=> Second!Dequeue
      /\ Successor!Get <=> Second!Get
      /\ Successor!ValidateNodeSelector <=> Second!ValidateNodeSelector
      /\ Successor!AddDeletionFinalizer <=> Second!AddDeletionFinalizer
  BY Zenon DEF
   Successor!AddDeletionFinalizer, Second!AddDeletionFinalizer,
   Successor!Cached, Second!Cached, Successor!Conflicting,
   Second!Conflicting, Successor!Dequeue, Second!Dequeue, Successor!Fault,
   Second!Fault, Successor!Finish, Second!Finish, Successor!Finished,
   Second!Finished, Successor!Get, Second!Get, Successor!GetNodeSelector,
   Second!GetNodeSelector, Successor!Goto, Second!Goto, Successor!Live,
   Second!Live, Successor!NodesMatching, Second!NodesMatching,
   Successor!Overlap, Second!Overlap, Successor!SelectedNodes,
   Second!SelectedNodes, Successor!SetGauge, Second!SetGauge,
   Successor!Stored, Second!Stored, Successor!UpToDate, Second!UpToDate,
   Successor!Update, Second!Update, Successor!ValidateNodeSelector,
   Second!ValidateNodeSelector, Successor!Versions, Second!Versions,
   Successor!WriteDC, Second!WriteDC, Successor!budgetVars,
   Second!budgetVars, Successor!clusterVars, Second!clusterVars,
   Successor!queueVars, Second!queueVars
<1>2. /\ Successor!ReconcileModule <=> Second!ReconcileModule
      /\ Successor!ReconcileNodeLabelerDaemonSet
         <=> Second!ReconcileNodeLabelerDaemonSet
      /\ Successor!ReconcileNodeMetricsDaemonSet
         <=> Second!ReconcileNodeMetricsDaemonSet
      /\ Successor!ReconcileNodeMetricsService
         <=> Second!ReconcileNodeMetricsService
  BY Zenon DEF
   Successor!Accepted, Second!Accepted, Successor!Applied, Second!Applied,
   Successor!CachedChild, Second!CachedChild, Successor!ChildFailed,
   Second!ChildFailed, Successor!CreateOrPatch, Second!CreateOrPatch,
   Successor!Desired, Second!Desired, Successor!DesiredModule,
   Second!DesiredModule, Successor!DesiredNodeLabelerDaemonSet,
   Second!DesiredNodeLabelerDaemonSet,
   Successor!DesiredNodeMetricsDaemonSet,
   Second!DesiredNodeMetricsDaemonSet, Successor!DesiredNodeMetricsService,
   Second!DesiredNodeMetricsService, Successor!Fault, Second!Fault,
   Successor!GetChild, Second!GetChild, Successor!GetNodeSelector,
   Second!GetNodeSelector, Successor!Goto, Second!Goto, Successor!Kinds,
   Second!Kinds, Successor!LiveChild, Second!LiveChild,
   Successor!MergePatch, Second!MergePatch, Successor!NextChild,
   Second!NextChild, Successor!NothingToPatch, Second!NothingToPatch,
   Successor!ReconcileChild, Second!ReconcileChild,
   Successor!ReconcileModule, Second!ReconcileModule,
   Successor!ReconcileNodeLabelerDaemonSet,
   Second!ReconcileNodeLabelerDaemonSet,
   Successor!ReconcileNodeMetricsDaemonSet,
   Second!ReconcileNodeMetricsDaemonSet,
   Successor!ReconcileNodeMetricsService,
   Second!ReconcileNodeMetricsService, Successor!Selectors,
   Second!Selectors, Successor!SetGauge, Second!SetGauge, Successor!Specs,
   Second!Specs, Successor!WriteChild, Second!WriteChild,
   Successor!clusterVars, Second!clusterVars, Successor!queueVars,
   Second!queueVars
<1>3. /\ Successor!SetConditionsErrored <=> Second!SetConditionsErrored
      /\ Successor!SetConditionsReady <=> Second!SetConditionsReady
      /\ Successor!DeleteModule <=> Second!DeleteModule
      /\ Successor!RemoveDeletionFinalizer <=> Second!RemoveDeletionFinalizer
  BY Zenon DEF
   Successor!DeleteModule, Second!DeleteModule, Successor!Fault,
   Second!Fault, Successor!Finish, Second!Finish, Successor!Goto,
   Second!Goto, Successor!Live, Second!Live, Successor!LiveChild,
   Second!LiveChild, Successor!ReasonFor, Second!ReasonFor,
   Successor!RemoveDeletionFinalizer, Second!RemoveDeletionFinalizer,
   Successor!SetConditionsErrored, Second!SetConditionsErrored,
   Successor!SetConditionsReady, Second!SetConditionsReady,
   Successor!SetGauge, Second!SetGauge, Successor!Update, Second!Update,
   Successor!WriteChild, Second!WriteChild, Successor!WriteDC,
   Second!WriteDC, Successor!queueVars, Second!queueVars
<1>4. Successor!Cluster <=> Second!Cluster
  BY Zenon DEF
   Successor!Add, Second!Add, Successor!Cached, Second!Cached,
   Successor!CachedChild, Second!CachedChild, Successor!Cluster,
   Second!Cluster, Successor!CollectGarbage, Second!CollectGarbage,
   Successor!Crash, Second!Crash, Successor!CreateDC, Second!CreateDC,
   Successor!DeleteDC, Second!DeleteDC, Successor!DeliverChild,
   Second!DeliverChild, Successor!DeliverDC, Second!DeliverDC,
   Successor!EditDC, Second!EditDC, Successor!Kinds, Second!Kinds,
   Successor!Live, Second!Live, Successor!LiveChild, Second!LiveChild,
   Successor!Outdate, Second!Outdate, Successor!Owned, Second!Owned,
   Successor!Owns, Second!Owns, Successor!Replayed, Second!Replayed,
   Successor!Resync, Second!Resync, Successor!Tamper, Second!Tamper,
   Successor!TimerFires, Second!TimerFires, Successor!UserOp, Second!UserOp,
   Successor!WriteChild, Second!WriteChild, Successor!WriteDC,
   Second!WriteDC, Successor!budgetVars, Second!budgetVars,
   Successor!clusterVars, Second!clusterVars, Successor!queueVars,
   Second!queueVars, Successor!workerVars, Second!workerVars
<1> QED BY <1>1, <1>2, <1>3, <1>4
        DEF Successor!Next, Second!Next, Successor!Reconcile, Second!Reconcile

(* The assumptions under which ConditionsProofs proves it.                 *)
LEMMA FirstAssumptions ==
    /\ Chain \in Seq(First!Kinds)
    /\ Len(Chain) > 0 /\ Chain[1] = "Module"
    /\ UserSpecs \subseteq First!Specs
    /\ Env \subseteq {"edit", "delete", "tamper", "listFault"}
    /\ MaxOps \in Nat /\ MaxFaults \in Nat /\ MaxCrashes \in Nat
    /\ None \notin First!DCObject /\ None \notin First!Child
BY LateAssumption, LateNoneAssumption
   DEF First!Kinds, Kinds, First!Specs, Specs, First!Selectors, Selectors,
       First!DCObject, Leader!DCObject, First!Child, Leader!Child,
       First!Statuses, Leader!Statuses, First!ReasonFor, Leader!ReasonFor,
       Leader!Kinds, Leader!Specs, Leader!Selectors

(* The same for the successor.                                             *)
LEMMA SecondAssumptions ==
    /\ Chain \in Seq(Second!Kinds)
    /\ Len(Chain) > 0 /\ Chain[1] = "Module"
    /\ UserSpecs \subseteq Second!Specs
    /\ Env \subseteq {"edit", "delete", "tamper", "listFault"}
    /\ MaxOps \in Nat /\ MaxFaults \in Nat /\ MaxCrashes \in Nat
    /\ None \notin Second!DCObject /\ None \notin Second!Child
BY LateAssumption, LateNoneAssumption
   DEF Second!Kinds, Kinds, Second!Specs, Specs, Second!Selectors, Selectors,
       Second!DCObject, Leader!DCObject, Second!Child, Leader!Child,
       Second!Statuses, Leader!Statuses, Second!ReasonFor, Leader!ReasonFor,
       Leader!Kinds, Leader!Specs, Leader!Selectors

(* Their objects, children and kinds are the same.                         *)
LEMMA SameTypes ==
    /\ First!DCObject = Second!DCObject /\ First!DCMap = Second!DCMap
    /\ First!Child = Second!Child
    /\ First!Kinds = Kinds /\ Second!Kinds = Kinds
BY DEF First!DCObject, Second!DCObject, First!DCMap, Second!DCMap,
       First!Child, Second!Child, First!Specs, Second!Specs, First!Selectors,
       Second!Selectors, First!Statuses, Second!Statuses, First!ReasonFor,
       Second!ReasonFor, First!Kinds, Second!Kinds, Kinds

-----------------------------------------------------------------------------
(* One server: the newest version in the view of one process is the newest *)
(* in that of the other.                                                   *)
SameServer ==
    /\ Last(dcView1) = Last(dcView2)
    /\ \A k \in Kinds, d \in DeviceConfigs :
        Last(childView1[k][d]) = Last(childView2[k][d])

(* Each of the two keeps what one that may not be alone can keep.          *)
LateInv == First!SharingInv /\ Second!SharingInv /\ SameServer

(* A view that follows another one ends in what was written, and leaves    *)
(* nothing else to read than before.                                       *)
LEMMA FollowFacts ==
    ASSUME NEW S, NEW view \in Seq(S), Len(view) > 0, NEW written \in S,
           NEW inUse \in BOOLEAN
    PROVE  /\ Follow(inUse, view, written) \in Seq(S)
           /\ Len(Follow(inUse, view, written)) > 0
           /\ Last(Follow(inUse, view, written)) = written
           /\ \A i \in 1..Len(Follow(inUse, view, written)) :
                \/ Follow(inUse, view, written)[i] = written
                \/ \E j \in 1..Len(view) :
                     Follow(inUse, view, written)[i] = view[j]
BY DEF Follow, Last

(* The newest version in a view is what its process takes for the live     *)
(* object.                                                                 *)
LEMMA LiveIsLast ==
    ASSUME NEW d \in DeviceConfigs
    PROVE  /\ First!Live(d) = Last(dcView1)[d]
           /\ Second!Live(d) = Last(dcView2)[d]
           /\ First!LiveChild("Module", d) = Last(childView1["Module"][d])
           /\ Second!LiveChild("Module", d) = Last(childView2["Module"][d])
BY DEF First!Live, Second!Live, First!LiveChild, Second!LiveChild, Last

(* And so it is after a step.                                              *)
LEMMA LiveIsLastNext ==
    ASSUME NEW d \in DeviceConfigs
    PROVE  /\ First!Live(d)' = Last(dcView1')[d]
           /\ Second!Live(d)' = Last(dcView2')[d]
           /\ First!LiveChild("Module", d)' = Last(childView1'["Module"][d])
           /\ Second!LiveChild("Module", d)' = Last(childView2'["Module"][d])
BY DEF First!Live, Second!Live, First!LiveChild, Second!LiveChild, Last

(* The leader's views of the server, as sequences.                         *)
LEMMA LeaderViews ==
    ASSUME First!TypeOK
    PROVE  /\ dcView1 \in Seq(First!DCMap) /\ Len(dcView1) > 0
           /\ Last(dcView1) \in First!DCMap
           /\ \A k \in Kinds, d \in DeviceConfigs :
                /\ childView1[k][d] \in Seq({None} \cup First!Child)
                /\ Len(childView1[k][d]) > 0
                /\ Last(childView1[k][d]) \in {None} \cup First!Child
BY SameTypes DEF First!TypeOK, First!ClusterTypeOK, Last

(* After a step.                                                           *)
LEMMA LeaderViewsNext ==
    ASSUME First!TypeOK'
    PROVE  /\ dcView1' \in Seq(First!DCMap) /\ Len(dcView1') > 0
           /\ Last(dcView1') \in First!DCMap
           /\ \A k \in Kinds, d \in DeviceConfigs :
                /\ childView1'[k][d] \in Seq({None} \cup First!Child)
                /\ Len(childView1'[k][d]) > 0
                /\ Last(childView1'[k][d]) \in {None} \cup First!Child
BY SameTypes DEF First!TypeOK, First!ClusterTypeOK, Last

(* The successor's.                                                        *)
LEMMA SuccessorViews ==
    ASSUME Second!TypeOK
    PROVE  /\ dcView2 \in Seq(First!DCMap) /\ Len(dcView2) > 0
           /\ Last(dcView2) \in First!DCMap
           /\ \A k \in Kinds, d \in DeviceConfigs :
                /\ childView2[k][d] \in Seq({None} \cup First!Child)
                /\ Len(childView2[k][d]) > 0
                /\ Last(childView2[k][d]) \in {None} \cup First!Child
BY SameTypes DEF Second!TypeOK, Second!ClusterTypeOK, Last

(* After a step.                                                           *)
LEMMA SuccessorViewsNext ==
    ASSUME Second!TypeOK'
    PROVE  /\ dcView2' \in Seq(First!DCMap) /\ Len(dcView2') > 0
           /\ Last(dcView2') \in First!DCMap
           /\ \A k \in Kinds, d \in DeviceConfigs :
                /\ childView2'[k][d] \in Seq({None} \cup First!Child)
                /\ Len(childView2'[k][d]) > 0
                /\ Last(childView2'[k][d]) \in {None} \cup First!Child
BY SameTypes DEF Second!TypeOK, Second!ClusterTypeOK, Last

(* The views of the successor when the leader, or the cluster in its view, *)
(* has acted.                                                              *)
LEMMA SuccessorFollowsFacts ==
    ASSUME First!TypeOK', Second!TypeOK, SuccessorFollows
    PROVE  /\ Second!TypeOK'
           /\ SameServer'
           /\ \A d \in DeviceConfigs :
                Second!Versions(d)'
                  \subseteq Second!Versions(d) \cup {Second!Live(d)'}
<1> DEFINE inUse == phase # "leader"
           written == Last(dcView1')
           next == Follow(inUse, dcView2, written)
           writtenChild(k, d) == Last(childView1'[k][d])
           nextChild(k, d) ==
             Follow(inUse, childView2[k][d], writtenChild(k, d))
<1>1. /\ dcView2' = next
      /\ childView2' =
           [k \in Kinds |-> [d \in DeviceConfigs |-> nextChild(k, d)]]
      /\ fresh2' = (fresh2 /\ Last(dcView1')[key2] = Last(dcView1)[key2])
      /\ UNCHANGED process2
  BY DEF SuccessorFollows
<1>2. /\ written \in First!DCMap /\ inUse \in BOOLEAN
      /\ dcView2 \in Seq(First!DCMap) /\ Len(dcView2) > 0
  BY LeaderViewsNext, SuccessorViews
<1>3. /\ next \in Seq(First!DCMap) /\ Len(next) > 0 /\ Last(next) = written
      /\ \A i \in 1..Len(next) :
           \/ next[i] = written
           \/ \E j \in 1..Len(dcView2) : next[i] = dcView2[j]
  <2> HIDE DEF inUse, written
  <2> QED BY <1>2, FollowFacts
<1>4. ASSUME NEW k \in Kinds, NEW d \in DeviceConfigs
      PROVE  /\ nextChild(k, d) \in Seq({None} \cup First!Child)
             /\ Len(nextChild(k, d)) > 0
             /\ Last(nextChild(k, d)) = writtenChild(k, d)
  <2> DEFINE view == childView2[k][d]
             versions == {None} \cup First!Child
             last == writtenChild(k, d)
  <2>1. last \in versions /\ inUse \in BOOLEAN
        /\ view \in Seq(versions) /\ Len(view) > 0
    BY LeaderViewsNext, SuccessorViews
  <2>2. /\ Follow(inUse, view, last) \in Seq(versions)
        /\ Len(Follow(inUse, view, last)) > 0
        /\ Last(Follow(inUse, view, last)) = last
    <3> HIDE DEF inUse, view, versions, last
    <3> QED BY <2>1, FollowFacts
  <2> QED BY <2>2
<1>5. ASSUME NEW d \in DeviceConfigs
      PROVE  Second!Versions(d)'
               \subseteq Second!Versions(d) \cup {Second!Live(d)'}
  <2> SUFFICES ASSUME NEW i \in 1..Len(dcView2')
               PROVE  dcView2'[i][d]
                        \in Second!Versions(d) \cup {Second!Live(d)'}
    BY DEF Second!Versions
  <2>1. Second!Live(d)' = Last(next)[d]
    BY <1>1, LiveIsLastNext
  <2> HIDE DEF next, written
  <2> QED BY <1>1, <1>3, <2>1 DEF Second!Versions
<1> HIDE DEF next, nextChild
<1>6. childView2' \in [Kinds -> [DeviceConfigs -> Seq({None} \cup First!Child)]]
  BY <1>1, <1>4
<1>7. \A k \in Kinds, d \in DeviceConfigs : childView2'[k][d] = nextChild(k, d)
  BY <1>1
<1>8. SameServer'
  BY <1>1, <1>3, <1>4, <1>7 DEF SameServer
<1>9. Second!TypeOK'
  <2>1. lastUID' \in [DeviceConfigs -> Nat] /\ ops' \in 0..MaxOps
        /\ faults' \in 0..MaxFaults /\ crashes' \in 0..MaxCrashes
    BY DEF First!TypeOK, First!ClusterTypeOK
  <2>2. Second!ClusterTypeOK'
    BY <1>1, <1>3, <1>4, <1>6, <1>7, <2>1, SameTypes DEF Second!ClusterTypeOK
  <2>3. /\ Second!QueueTypeOK'
        /\ gauge2' \in [DeviceConfigs -> {"unset", "ok", "failed"}]
    BY <1>1 DEF Second!TypeOK, Second!QueueTypeOK, process2
  <2>4. Second!WorkerTypeOK'
    BY <1>1 DEF Second!TypeOK, Second!WorkerTypeOK, Second!Steps, process2
  <2> QED BY <2>1, <2>2, <2>3, <2>4 DEF Second!TypeOK
<1> QED BY <1>5, <1>8, <1>9

(* The views of the late leader when its successor has acted.              *)
LEMMA LeaderFollowsFacts ==
    ASSUME Second!TypeOK', First!TypeOK, LeaderFollows
    PROVE  /\ First!TypeOK'
           /\ SameServer'
           /\ \A d \in DeviceConfigs :
                First!Versions(d)'
                  \subseteq First!Versions(d) \cup {First!Live(d)'}
<1> DEFINE inUse == ReadsDCs
           inUseChild == ReadsChildren
           written == Last(dcView2')
           next == Follow(inUse, dcView1, written)
           writtenChild(k, d) == Last(childView2'[k][d])
           nextChild(k, d) ==
             Follow(inUseChild, childView1[k][d], writtenChild(k, d))
<1>1. /\ dcView1' = next
      /\ childView1' =
           [k \in Kinds |-> [d \in DeviceConfigs |-> nextChild(k, d)]]
      /\ fresh1' = (fresh1 /\ Last(dcView2')[key1] = Last(dcView2)[key1])
      /\ UNCHANGED process1
  BY DEF LeaderFollows
<1>2. /\ written \in First!DCMap /\ inUse \in BOOLEAN
      /\ dcView1 \in Seq(First!DCMap) /\ Len(dcView1) > 0
  BY SuccessorViewsNext, LeaderViews DEF ReadsDCs
<1>3. /\ next \in Seq(First!DCMap) /\ Len(next) > 0 /\ Last(next) = written
      /\ \A i \in 1..Len(next) :
           \/ next[i] = written
           \/ \E j \in 1..Len(dcView1) : next[i] = dcView1[j]
  <2> HIDE DEF inUse, written
  <2> QED BY <1>2, FollowFacts
<1>4. ASSUME NEW k \in Kinds, NEW d \in DeviceConfigs
      PROVE  /\ nextChild(k, d) \in Seq({None} \cup First!Child)
             /\ Len(nextChild(k, d)) > 0
             /\ Last(nextChild(k, d)) = writtenChild(k, d)
  <2> DEFINE view == childView1[k][d]
             versions == {None} \cup First!Child
             last == writtenChild(k, d)
  <2>1. last \in versions /\ inUseChild \in BOOLEAN
        /\ view \in Seq(versions) /\ Len(view) > 0
    BY SuccessorViewsNext, LeaderViews DEF ReadsChildren
  <2>2. /\ Follow(inUseChild, view, last) \in Seq(versions)
        /\ Len(Follow(inUseChild, view, last)) > 0
        /\ Last(Follow(inUseChild, view, last)) = last
    <3> HIDE DEF inUseChild, view, versions, last
    <3> QED BY <2>1, FollowFacts
  <2> QED BY <2>2
<1>5. ASSUME NEW d \in DeviceConfigs
      PROVE  First!Versions(d)'
               \subseteq First!Versions(d) \cup {First!Live(d)'}
  <2> SUFFICES ASSUME NEW i \in 1..Len(dcView1')
               PROVE  dcView1'[i][d] \in First!Versions(d) \cup {First!Live(d)'}
    BY DEF First!Versions
  <2>1. First!Live(d)' = Last(next)[d]
    BY <1>1, LiveIsLastNext
  <2> HIDE DEF next, written
  <2> QED BY <1>1, <1>3, <2>1 DEF First!Versions
<1> HIDE DEF next, nextChild
<1>6. childView1' \in [Kinds -> [DeviceConfigs -> Seq({None} \cup First!Child)]]
  BY <1>1, <1>4
<1>7. \A k \in Kinds, d \in DeviceConfigs : childView1'[k][d] = nextChild(k, d)
  BY <1>1
<1>8. SameServer'
  BY <1>1, <1>3, <1>4, <1>7 DEF SameServer
<1>9. First!TypeOK'
  <2>1. lastUID' \in [DeviceConfigs -> Nat] /\ ops' \in 0..MaxOps
        /\ faults' \in 0..MaxFaults /\ crashes' \in 0..MaxCrashes
    BY DEF Second!TypeOK, Second!ClusterTypeOK
  <2>2. First!ClusterTypeOK'
    BY <1>1, <1>3, <1>4, <1>6, <1>7, <2>1, SameTypes DEF First!ClusterTypeOK
  <2>3. /\ First!QueueTypeOK'
        /\ gauge1' \in [DeviceConfigs -> {"unset", "ok", "failed"}]
    BY <1>1 DEF First!TypeOK, First!QueueTypeOK, process1
  <2>4. First!WorkerTypeOK'
    BY <1>1 DEF First!TypeOK, First!WorkerTypeOK, First!Steps, process1
  <2> QED BY <2>1, <2>2, <2>3, <2>4 DEF First!TypeOK
<1> QED BY <1>5, <1>8, <1>9

-----------------------------------------------------------------------------
(* What one controller sees happen to a DeviceConfig, the other sees too.  *)
LEMMA SameMoves ==
    ASSUME SameServer, SameServer', NEW d \in DeviceConfigs
    PROVE  First!LiveMoves(d) <=> Second!LiveMoves(d)
<1>1. First!Live(d) = Second!Live(d) /\ First!Live(d)' = Second!Live(d)'
  BY LiveIsLast, LiveIsLastNext DEF SameServer
<1> QED BY <1>1, SameTypes DEF First!LiveMoves, Second!LiveMoves

(* What holds of the Modules on the server holds in either view of it.     *)
LEMMA SameModules ==
    ASSUME SameServer'
    PROVE  /\ First!OwnersKnown' <=> Second!OwnersKnown'
           /\ First!OwnedGuarded' <=> Second!OwnedGuarded'
<1>1. ASSUME NEW d \in DeviceConfigs
      PROVE  /\ First!Live(d)' = Second!Live(d)'
             /\ First!LiveChild("Module", d)' = Second!LiveChild("Module", d)'
  BY LiveIsLastNext DEF SameServer, Kinds
<1>2. First!OwnersKnown' <=> Second!OwnersKnown'
  BY <1>1 DEF First!OwnersKnown, Second!OwnersKnown
<1>3. First!OwnedGuarded' <=> Second!OwnedGuarded'
  BY <1>1 DEF First!OwnedGuarded, Second!OwnedGuarded, First!Owns, Second!Owns
<1> QED BY <1>2, <1>3

(* The late leader, or the cluster in its view, does something.            *)
LEMMA LeaderActs ==
    ASSUME LateInv, Leader!Next, SuccessorFollows
    PROVE  LateInv'
<1>1. First!SharingInv'
  BY FirstAssumptions, LabelAssumption, SentinelAssumption, SameLeader,
     First!SharingStep DEF LateInv
<1>2. /\ Second!TypeOK' /\ SameServer'
      /\ \A d \in DeviceConfigs :
           Second!Versions(d)'
             \subseteq Second!Versions(d) \cup {Second!Live(d)'}
  BY <1>1, SuccessorFollowsFacts
     DEF LateInv, First!SharingInv, Second!SharingInv
<1>3. Second!OwnersKnown' /\ Second!OwnedGuarded'
  BY <1>1, <1>2, SameModules DEF First!SharingInv
<1>4. \A d \in DeviceConfigs : First!LiveMoves(d)
  BY FirstAssumptions, LabelAssumption, SentinelAssumption, SameLeader,
     First!LiveAlwaysMoves DEF LateInv, First!SharingInv
<1>5. \A d \in DeviceConfigs : Second!LiveMoves(d)
  BY <1>2, <1>4, SameMoves DEF LateInv
<1>6. /\ pc2' = pc2 /\ key2' = key2 /\ cr2' = cr2
      /\ fresh2' => fresh2 /\ Second!Live(key2)' = Second!Live(key2)
  <2>1. /\ pc2' = pc2 /\ key2' = key2 /\ cr2' = cr2
        /\ fresh2' = (fresh2 /\ Last(dcView1')[key2] = Last(dcView1)[key2])
    BY DEF SuccessorFollows, process2
  <2>2. fresh2 => key2 \in DeviceConfigs
    BY DEF LateInv, Second!SharingInv, Second!FreshInv, Second!TypeOK,
           Second!WorkerTypeOK
  <2> QED BY <1>2, <2>1, <2>2, LiveIsLast, LiveIsLastNext
          DEF LateInv, SameServer
<1>7. Second!SharingInv'
  BY <1>2, <1>3, <1>5, <1>6, SecondAssumptions, LabelAssumption,
     SentinelAssumption, Second!BystanderStep DEF LateInv
<1> QED BY <1>1, <1>2, <1>7 DEF LateInv

(* The successor, or the cluster in its view, does something.              *)
LEMMA SuccessorActs ==
    ASSUME LateInv, Successor!Next, LeaderFollows
    PROVE  LateInv'
<1>1. Second!SharingInv'
  BY SecondAssumptions, LabelAssumption, SentinelAssumption, SameSuccessor,
     Second!SharingStep DEF LateInv
<1>2. /\ First!TypeOK' /\ SameServer'
      /\ \A d \in DeviceConfigs :
           First!Versions(d)' \subseteq First!Versions(d) \cup {First!Live(d)'}
  BY <1>1, LeaderFollowsFacts DEF LateInv, First!SharingInv, Second!SharingInv
<1>3. First!OwnersKnown' /\ First!OwnedGuarded'
  BY <1>1, <1>2, SameModules DEF Second!SharingInv
<1>4. \A d \in DeviceConfigs : Second!LiveMoves(d)
  BY SecondAssumptions, LabelAssumption, SentinelAssumption, SameSuccessor,
     Second!LiveAlwaysMoves DEF LateInv, Second!SharingInv
<1>5. \A d \in DeviceConfigs : First!LiveMoves(d)
  BY <1>2, <1>4, SameMoves DEF LateInv
<1>6. /\ pc1' = pc1 /\ key1' = key1 /\ cr1' = cr1
      /\ fresh1' => fresh1 /\ First!Live(key1)' = First!Live(key1)
  <2>1. /\ pc1' = pc1 /\ key1' = key1 /\ cr1' = cr1
        /\ fresh1' = (fresh1 /\ Last(dcView2')[key1] = Last(dcView2)[key1])
    BY DEF LeaderFollows, process1
  <2>2. fresh1 => key1 \in DeviceConfigs
    BY DEF LateInv, First!SharingInv, First!FreshInv, First!TypeOK,
           First!WorkerTypeOK
  <2> QED BY <1>2, <2>1, <2>2, LiveIsLast, LiveIsLastNext
          DEF LateInv, SameServer
<1>7. First!SharingInv'
  BY <1>2, <1>3, <1>5, <1>6, FirstAssumptions, LabelAssumption,
     SentinelAssumption, First!BystanderStep DEF LateInv
<1> QED BY <1>1, <1>2, <1>7 DEF LateInv

(* Nothing happens on the server, and the late leader has no more to read  *)
(* than before.                                                            *)
LEMMA NothingWritten ==
    ASSUME LateInv, First!TypeOK', Second!TypeOK', SameServer',
           UNCHANGED <<lastUID, view2, pc2, key2, cr2>>,
           \A d \in DeviceConfigs :
             First!Versions(d)'
               \subseteq First!Versions(d) \cup {First!Live(d)'},
           \/ pc1' = "idle" /\ ~fresh1'
           \/ UNCHANGED <<pc1, key1, cr1, fresh1>>
    PROVE  LateInv'
<1>1. ASSUME NEW d \in DeviceConfigs
      PROVE  /\ First!Live(d)' = First!Live(d)
             /\ First!LiveChild("Module", d)' = First!LiveChild("Module", d)
             /\ Second!Live(d)' = Second!Live(d)
             /\ Second!Versions(d)' = Second!Versions(d)
  BY LiveIsLast, LiveIsLastNext
     DEF LateInv, SameServer, Kinds, view2, Second!Versions
<1>2. \A d \in DeviceConfigs : First!LiveMoves(d)
  <2> SUFFICES ASSUME NEW d \in DeviceConfigs
               PROVE  First!LiveMoves(d)
    OBVIOUS
  <2>1. lastUID[d] \in Nat /\ lastUID'[d] = lastUID[d]
    BY DEF LateInv, First!SharingInv, First!TypeOK, First!ClusterTypeOK
  <2>2. First!Live(d) \in {None} \cup First!DCObject
    BY LeaderViews, LiveIsLast DEF LateInv, First!SharingInv, First!DCMap
  <2> QED BY <1>1, <2>1, <2>2 DEF First!LiveMoves
<1>3. First!OwnersKnown' /\ First!OwnedGuarded'
  BY <1>1 DEF LateInv, First!SharingInv, First!OwnersKnown, First!OwnedGuarded,
     First!Owns
<1>4. fresh1 => key1 \in DeviceConfigs
  BY DEF LateInv, First!SharingInv, First!FreshInv, First!TypeOK,
         First!WorkerTypeOK
<1>5. First!SharingInv'
  BY <1>1, <1>2, <1>3, <1>4, FirstAssumptions, LabelAssumption,
     SentinelAssumption, First!BystanderStep DEF LateInv
<1>6. Second!OwnersKnown' /\ Second!OwnedGuarded'
  BY <1>3, SameModules
<1>7. \A d \in DeviceConfigs : Second!LiveMoves(d)
  BY <1>2, SameMoves DEF LateInv
<1>8. fresh2 => key2 \in DeviceConfigs
  BY DEF LateInv, Second!SharingInv, Second!FreshInv, Second!TypeOK,
         Second!WorkerTypeOK
<1>9. Second!SharingInv'
  BY <1>1, <1>6, <1>7, <1>8, SecondAssumptions, LabelAssumption,
     SentinelAssumption, Second!BystanderStep DEF LateInv, view2
<1> QED BY <1>5, <1>9 DEF LateInv

(* The successor starts.                                                   *)
LEMMA TakeOverStep ==
    ASSUME LateInv, TakeOver
    PROVE  LateInv'
<1> USE DEF TakeOver, view1, view2, cluster
<1>1. Successor!Replayed \subseteq DeviceConfigs
  BY DEF Successor!Replayed
<1>2. First!TypeOK' /\ Second!TypeOK'
  <2>1. First!ClusterTypeOK' /\ Second!ClusterTypeOK'
    BY DEF LateInv, First!SharingInv, First!TypeOK, First!ClusterTypeOK,
           Second!SharingInv, Second!TypeOK, Second!ClusterTypeOK
  <2>2. First!QueueTypeOK' /\ Second!QueueTypeOK'
    BY <1>1 DEF LateInv, First!QueueTypeOK, Second!SharingInv, Second!TypeOK,
       Second!QueueTypeOK
  <2>3. First!WorkerTypeOK' /\ Second!WorkerTypeOK'
    BY DEF LateInv, First!SharingInv, First!TypeOK, First!WorkerTypeOK,
           First!Steps, Second!SharingInv, Second!TypeOK, Second!WorkerTypeOK,
           Second!Steps
  <2> QED BY <2>1, <2>2, <2>3 DEF LateInv, First!SharingInv, First!TypeOK,
          Second!SharingInv, Second!TypeOK
<1>3. SameServer'
  BY DEF LateInv, SameServer
<1>4. \A d \in DeviceConfigs : First!Versions(d)' = First!Versions(d)
  BY DEF First!Versions
<1> QED BY <1>2, <1>3, <1>4, NothingWritten

(* The rest of a view, once its oldest version has been read.              *)
LEMMA TailFacts ==
    ASSUME NEW S, NEW view \in Seq(S), Len(view) > 1
    PROVE  /\ Tail(view) \in Seq(S) /\ Len(Tail(view)) > 0
           /\ Last(Tail(view)) = Last(view)
           /\ \A i \in 1..Len(Tail(view)) :
                \E j \in 1..Len(view) : Tail(view)[i] = view[j]
<1>1. /\ Len(Tail(view)) = Len(view) - 1 /\ Len(view) \in Nat
      /\ \A i \in 1..Len(Tail(view)) : Tail(view)[i] = view[i + 1]
  OBVIOUS
<1>2. Last(Tail(view)) = Last(view)
  BY <1>1 DEF Last
<1>3. ASSUME NEW i \in 1..Len(Tail(view))
      PROVE  i + 1 \in 1..Len(view)
  BY <1>1
<1> QED BY <1>1, <1>2, <1>3

(* The late leader's caches catch up.                                      *)
LEMMA LateWatchesStep ==
    ASSUME LateInv, LateWatches
    PROVE  LateInv'
<1>1. UNCHANGED <<fresh1, process1, view2, process2, cluster>>
  BY DEF LateWatches
<1>2. /\ dcView1' \in Seq(First!DCMap) /\ Len(dcView1') > 0
      /\ Last(dcView1') = Last(dcView1)
      /\ \A i \in 1..Len(dcView1') :
           \E j \in 1..Len(dcView1) : dcView1'[i] = dcView1[j]
  <2>1. dcView1 \in Seq(First!DCMap) /\ Len(dcView1) > 0
    BY LeaderViews DEF LateInv, First!SharingInv
  <2>2. CASE dcView1' = Tail(dcView1) /\ Len(dcView1) > 1
    BY <2>1, <2>2, TailFacts
  <2>3. CASE dcView1' = dcView1
    BY <2>1, <2>3
  <2> QED BY <2>2, <2>3 DEF LateWatches
<1>3. /\ childView1'
           \in [Kinds -> [DeviceConfigs -> Seq({None} \cup First!Child)]]
      /\ \A k \in Kinds, d \in DeviceConfigs :
           /\ Len(childView1'[k][d]) > 0
           /\ Last(childView1'[k][d]) = Last(childView1[k][d])
  <2>1. /\ childView1
             \in [Kinds -> [DeviceConfigs -> Seq({None} \cup First!Child)]]
        /\ \A k \in Kinds, d \in DeviceConfigs : Len(childView1[k][d]) > 0
    BY SameTypes
       DEF LateInv, First!SharingInv, First!TypeOK, First!ClusterTypeOK
  <2>2. ASSUME NEW k \in Kinds, NEW d \in DeviceConfigs,
               Len(childView1[k][d]) > 1,
               childView1' = [childView1 EXCEPT ![k][d] = Tail(@)]
        PROVE  /\ childView1' \in
                    [Kinds -> [DeviceConfigs -> Seq({None} \cup First!Child)]]
               /\ \A l \in Kinds, e \in DeviceConfigs :
                    /\ Len(childView1'[l][e]) > 0
                    /\ Last(childView1'[l][e]) = Last(childView1[l][e])
    <3> DEFINE versions == {None} \cup First!Child
               rest == Tail(childView1[k][d])
    <3>1. /\ rest \in Seq(versions) /\ Len(rest) > 0
          /\ Last(rest) = Last(childView1[k][d])
      <4>1. childView1[k][d] \in Seq(versions)
        BY <2>1
      <4> HIDE DEF versions
      <4> QED BY <2>2, <4>1, TailFacts
    <3>2. /\ childView1' \in [Kinds -> [DeviceConfigs -> Seq(versions)]]
          /\ \A l \in Kinds, e \in DeviceConfigs :
               childView1'[l][e] =
                 IF l = k /\ e = d THEN rest ELSE childView1[l][e]
      <4> HIDE DEF versions
      <4> QED BY <2>1, <2>2, <3>1 DEF versions
    <3> HIDE DEF rest
    <3> QED BY <2>1, <3>1, <3>2
  <2>3. CASE childView1' = childView1
    BY <2>1, <2>3
  <2> QED BY <2>2, <2>3 DEF LateWatches
<1>4. First!TypeOK'
  <2>1. First!ClusterTypeOK'
    BY <1>1, <1>2, <1>3, SameTypes DEF LateInv, First!SharingInv, First!TypeOK,
       First!ClusterTypeOK, cluster
  <2>2. First!QueueTypeOK' /\ First!WorkerTypeOK'
    BY <1>1 DEF LateInv, First!SharingInv, First!TypeOK, First!QueueTypeOK,
       First!WorkerTypeOK, First!Steps, process1
  <2> QED BY <1>1, <2>1, <2>2 DEF LateInv, First!SharingInv, First!TypeOK,
          cluster, process1
<1>5. Second!TypeOK'
  BY <1>1 DEF LateInv, Second!SharingInv, Second!TypeOK, Second!ClusterTypeOK,
     Second!QueueTypeOK, Second!WorkerTypeOK, Second!Steps, cluster, view2,
     process2
<1>6. SameServer'
  BY <1>1, <1>2, <1>3 DEF LateInv, SameServer, view2
<1>7. \A d \in DeviceConfigs : First!Versions(d)' \subseteq First!Versions(d)
  BY <1>2 DEF First!Versions
<1> QED BY <1>1, <1>4, <1>5, <1>6, <1>7, NothingWritten
        DEF cluster, process1, process2

(* The late leader stops.                                                  *)
LEMMA StopStep ==
    ASSUME LateInv, Stop
    PROVE  LateInv'
<1>1. /\ UNCHANGED <<view2, process2, cluster>>
      /\ dcView1' = <<Last(dcView2)>>
      /\ childView1' = [k \in Kinds |-> [d \in DeviceConfigs |->
                          <<Last(childView2[k][d])>>]]
      /\ pc1' = "idle" /\ ~fresh1'
  BY DEF Stop
<1>2. /\ Last(dcView2) \in First!DCMap
      /\ \A k \in Kinds, d \in DeviceConfigs :
           Last(childView2[k][d]) \in {None} \cup First!Child
  BY SuccessorViews DEF LateInv, Second!SharingInv
<1>3. First!TypeOK'
  <2>1. First!ClusterTypeOK'
    BY <1>1, <1>2, SameTypes DEF LateInv, First!SharingInv, First!TypeOK,
       First!ClusterTypeOK, cluster
  <2>2. First!QueueTypeOK'
    BY DEF Stop, First!QueueTypeOK
  <2>3. Len(Chain) \in Nat
    BY LateAssumption
  <2>4. First!WorkerTypeOK'
    <3>1. pc1' = "idle" /\ key1' = None /\ cr1' = None /\ child1' = 0
      BY DEF Stop
    <3>2. fresh1' \in BOOLEAN /\ found1' \in BOOLEAN
      BY Zenon DEF Stop
    <3> QED BY <2>3, <3>1, <3>2 DEF First!WorkerTypeOK, First!Steps
  <2> QED BY <1>1, <2>1, <2>2, <2>4
          DEF Stop, LateInv, First!SharingInv, First!TypeOK, cluster
<1>4. Second!TypeOK'
  BY <1>1 DEF LateInv, Second!SharingInv, Second!TypeOK, Second!ClusterTypeOK,
     Second!QueueTypeOK, Second!WorkerTypeOK, Second!Steps, cluster, view2,
     process2
<1>5. SameServer'
  BY <1>1 DEF SameServer, Last, view2
<1>6. \A d \in DeviceConfigs :
        First!Versions(d)' \subseteq First!Versions(d) \cup {First!Live(d)'}
  BY <1>1, LiveIsLastNext DEF First!Versions, Last
<1> QED BY <1>1, <1>3, <1>4, <1>5, <1>6, NothingWritten DEF cluster, process2

-----------------------------------------------------------------------------
(* Whose step a step of LateLeader is.                                     *)
LEMMA WhoseStep ==
    ASSUME Next
    PROVE  \/ Leader!Next /\ SuccessorFollows
           \/ Successor!Next /\ LeaderFollows
           \/ TakeOver \/ LateWatches \/ Stop
<1>1. Leader!Cluster => Leader!Next
  BY DEF Leader!Next
<1>2. Successor!Cluster => Successor!Next
  BY DEF Successor!Next
<1>3. CASE Reconcile \/ LateReconciles
  BY <1>3 DEF Reconcile, LateReconciles, ByProcess, Leader!Next, Successor!Next
<1>4. CASE DeliverDC
  BY <1>1, <1>2, <1>4
     DEF DeliverDC, ByProcess, Leader!Cluster, Successor!Cluster
<1>5. ASSUME NEW d \in DeviceConfigs,
             \/ TimerFires(d) \/ DeleteDC(d)
             \/ \E spec \in UserSpecs : CreateDC(d, spec) \/ EditDC(d, spec)
             \/ \E k \in Kinds : DeliverChild(k, d) \/ CollectGarbage(k, d)
      PROVE  \/ Leader!Cluster /\ SuccessorFollows
             \/ Successor!Cluster /\ LeaderFollows
  <2>1. CASE TimerFires(d)
    BY <2>1 DEF TimerFires, ByProcess, Leader!Cluster, Successor!Cluster
  <2>2. CASE DeleteDC(d)
    BY <2>2 DEF DeleteDC, ByProcess, Leader!Cluster, Successor!Cluster
  <2>3. ASSUME NEW spec \in UserSpecs, CreateDC(d, spec) \/ EditDC(d, spec)
        PROVE  \/ Leader!Cluster /\ SuccessorFollows
               \/ Successor!Cluster /\ LeaderFollows
    BY <2>3 DEF CreateDC, EditDC, ByProcess, Leader!Cluster, Successor!Cluster
  <2>4. ASSUME NEW k \in Kinds, DeliverChild(k, d) \/ CollectGarbage(k, d)
        PROVE  \/ Leader!Cluster /\ SuccessorFollows
               \/ Successor!Cluster /\ LeaderFollows
    BY <2>4 DEF DeliverChild, CollectGarbage, ByProcess, Leader!Cluster,
       Successor!Cluster, Kinds, Leader!Kinds, Successor!Kinds
  <2> QED BY <1>5, <2>1, <2>2, <2>3, <2>4
<1> QED BY <1>1, <1>2, <1>3, <1>4, <1>5 DEF Next

(* Whoever takes it, it keeps the invariant.                               *)
LEMMA LateStep ==
    ASSUME LateInv, [Next]_vars
    PROVE  LateInv'
<1>1. CASE Next
  BY <1>1, WhoseStep, LeaderActs, SuccessorActs, TakeOverStep,
     LateWatchesStep, StopStep
<1>2. CASE UNCHANGED vars
  <2> USE <1>2 DEF vars, view1, view2, process1, process2, cluster
  <2>1. First!TypeOK' /\ Second!TypeOK'
    <3>1. First!TypeOK <=> First!TypeOK'
      BY DEF First!TypeOK, First!ClusterTypeOK, First!QueueTypeOK,
             First!WorkerTypeOK
    <3>2. Second!TypeOK <=> Second!TypeOK'
      BY DEF Second!TypeOK, Second!ClusterTypeOK, Second!QueueTypeOK,
             Second!WorkerTypeOK
    <3> QED BY <3>1, <3>2 DEF LateInv, First!SharingInv, Second!SharingInv
  <2>2. SameServer'
    BY DEF LateInv, SameServer
  <2>3. \A d \in DeviceConfigs : First!Versions(d)' = First!Versions(d)
    BY DEF First!Versions
  <2> QED BY <2>1, <2>2, <2>3, NothingWritten
<1> QED BY <1>1, <1>2

(* In the beginning every DeviceConfig is at its goal, and both processes  *)
(* have seen it.                                                           *)
LEMMA LateInit ==
    ASSUME Init
    PROVE  LateInv
<1> DEFINE spec == CHOOSE s \in UserSpecs : TRUE
           dc == Deployed(None, spec)
           dcs == [d \in DeviceConfigs |-> dc]
           brought(k) ==
             IF k \in Successor!Managed THEN Desired(k, dc) ELSE None
<1>1. /\ dcView1 = <<dcs>> /\ dcView2 = <<dcs>>
      /\ childView1 = [k \in Kinds |-> [d \in DeviceConfigs |-> <<brought(k)>>]]
      /\ childView2 = [k \in Kinds |-> [d \in DeviceConfigs |-> <<brought(k)>>]]
  BY DEF Init, Deployed
<1>2. spec \in Specs
  BY LateAssumption
<1>3. dc \in First!DCObject /\ dc.uid = 1 /\ dc.finalizer /\ dc # None
  <2> HIDE DEF spec
  <2>1. spec \in First!Specs
    BY <1>2 DEF Specs, Selectors, First!Specs, First!Selectors
  <2>2. dc \in First!DCObject
    BY <2>1 DEF Deployed, First!DCObject, First!Statuses
  <2> QED BY <2>2, FirstAssumptions DEF Deployed
<1>4. ASSUME NEW k \in Kinds
      PROVE  /\ brought(k) \in {None} \cup First!Child
             /\ brought(k) # None => brought(k).owner = 1
  <2>1. /\ First!Desired(k, dc) \in First!Child
        /\ First!Desired(k, dc).owner = dc.uid
    <3> HIDE DEF dc
    <3> QED BY <1>3, SameTypes, FirstAssumptions, LabelAssumption,
            SentinelAssumption, First!DesiredType
  <2>2. Desired(k, dc) = First!Desired(k, dc)
    BY DEF Desired, First!Desired, DesiredModule, First!DesiredModule,
       DesiredNodeLabelerDaemonSet, First!DesiredNodeLabelerDaemonSet,
       DesiredNodeMetricsDaemonSet, First!DesiredNodeMetricsDaemonSet,
       DesiredNodeMetricsService, First!DesiredNodeMetricsService,
       GetNodeSelector, First!GetNodeSelector
  <2> QED BY <1>3, <2>1, <2>2
<1> HIDE DEF dc, brought
<1>5. First!TypeOK /\ Second!TypeOK
  <2>1. First!ClusterTypeOK /\ Second!ClusterTypeOK
    BY <1>1, <1>3, <1>4, SameTypes DEF Init, First!ClusterTypeOK,
       Second!ClusterTypeOK, First!DCMap, Second!DCMap
  <2>2. First!QueueTypeOK /\ Second!QueueTypeOK
    BY DEF Init, First!QueueTypeOK, Second!QueueTypeOK
  <2>3. Len(Chain) \in Nat
    BY LateAssumption
  <2>4. First!WorkerTypeOK /\ Second!WorkerTypeOK
    <3>1. /\ pc1 = "idle" /\ key1 = None /\ cr1 = None /\ child1 = 0
          /\ pc2 = "idle" /\ key2 = None /\ cr2 = None /\ child2 = 0
      BY DEF Init
    <3>2. /\ fresh1 \in BOOLEAN /\ found1 \in BOOLEAN
          /\ fresh2 \in BOOLEAN /\ found2 \in BOOLEAN
      BY Zenon DEF Init
    <3> QED BY <2>3, <3>1, <3>2 DEF First!WorkerTypeOK, First!Steps,
            Second!WorkerTypeOK, Second!Steps
  <2>5. /\ ops \in 0..MaxOps /\ faults \in 0..MaxFaults
        /\ crashes \in 0..MaxCrashes
    BY LateAssumption DEF Init
  <2> QED BY <2>1, <2>2, <2>4, <2>5 DEF Init, First!TypeOK, Second!TypeOK
<1>6. ASSUME NEW d \in DeviceConfigs
      PROVE  /\ First!Live(d) = dc /\ First!Versions(d) = {dc}
             /\ Second!Live(d) = dc /\ Second!Versions(d) = {dc}
             /\ First!LiveChild("Module", d) = brought("Module")
             /\ Second!LiveChild("Module", d) = brought("Module")
             /\ lastUID[d] = 1
  <2>1. lastUID[d] = 1
    BY DEF Init
  <2>2. /\ Len(dcView1) = 1 /\ dcView1[1][d] = dc
        /\ Len(dcView2) = 1 /\ dcView2[1][d] = dc
        /\ childView1["Module"][d] = <<brought("Module")>>
        /\ childView2["Module"][d] = <<brought("Module")>>
    BY <1>1 DEF Kinds
  <2> QED BY <2>1, <2>2 DEF First!Live, First!Versions, Second!Live,
          Second!Versions, First!LiveChild, Second!LiveChild
<1>7. First!SharingInv
  <2>1. First!FreshInv /\ First!FreshSpec /\ First!CopyGuarded
    BY DEF Init, First!FreshInv, First!FreshSpec, First!CopyGuarded
  <2>2. First!FinalizerLasts
    BY <1>3, <1>6 DEF Init, First!FinalizerLasts, First!Known, First!HoldsCopy
  <2>3. First!OwnersKnown /\ First!OwnedGuarded
    BY <1>3, <1>4, <1>6 DEF First!OwnersKnown, First!OwnedGuarded, Kinds
  <2> QED BY <1>5, <2>1, <2>2, <2>3 DEF First!SharingInv
<1>8. Second!SharingInv
  <2>1. Second!FreshInv /\ Second!FreshSpec /\ Second!CopyGuarded
    BY DEF Init, Second!FreshInv, Second!FreshSpec, Second!CopyGuarded
  <2>2. Second!FinalizerLasts
    BY <1>3, <1>6
       DEF Init, Second!FinalizerLasts, Second!Known, Second!HoldsCopy
  <2>3. Second!OwnersKnown /\ Second!OwnedGuarded
    BY <1>3, <1>4, <1>6 DEF Second!OwnersKnown, Second!OwnedGuarded, Kinds
  <2> QED BY <1>5, <2>1, <2>2, <2>3 DEF Second!SharingInv
<1>9. SameServer
  BY <1>1 DEF SameServer
<1> QED BY <1>7, <1>8, <1>9 DEF LateInv

(* So both keep it.                                                        *)
LEMMA LateInvariant == Spec => []LateInv
<1>1. Init => LateInv
  BY LateInit
<1>2. LateInv /\ [Next]_vars => LateInv'
  BY LateStep
<1> QED BY <1>1, <1>2, PTL DEF Spec

-----------------------------------------------------------------------------
(* However late the leader is, and whatever its successor has done in the  *)
(* meantime, a Module that belongs to the DeviceConfig that exists has its *)
(* finalizer: what the old copies of either make of a deleted one belongs  *)
(* to nobody.  (deviceconfig_controller.go:143-155)                        *)
THEOREM SharedModulesGuarded == Spec => []OwnedIsGuarded
<1>1. LateInv => OwnedIsGuarded
  <2> SUFFICES ASSUME LateInv, NEW d \in DeviceConfigs,
                      Successor!LiveChild("Module", d) # None,
                      Successor!Owns(d, Successor!LiveChild("Module", d))
               PROVE  Successor!Live(d).finalizer
    BY DEF OwnedIsGuarded
  <2>1. /\ Second!LiveChild("Module", d) = Successor!LiveChild("Module", d)
        /\ Second!Live(d) = Successor!Live(d)
    BY DEF Second!LiveChild, Successor!LiveChild, Second!Live, Successor!Live
  <2>2. Second!Owns(d, Second!LiveChild("Module", d))
    BY <2>1 DEF Second!Owns, Successor!Owns
  <2> QED BY <2>1, <2>2 DEF LateInv, Second!SharingInv, Second!OwnedGuarded
<1> QED BY <1>1, LateInvariant, PTL

(* And a condition that one of two workers with copies of different ages   *)
(* writes is a verdict on the spec that is stored with it.                 *)
(* (conditions.go:53-85)                                                   *)
THEOREM SharedConditionsCurrent == Spec => StatusForCurrentSpec
<1>1. ASSUME LateInv, [Next]_vars, NEW d \in DeviceConfigs,
             Last(dcView2)[d] # None, Last(dcView2')[d] # None,
             Last(dcView2')[d].uid = Last(dcView2)[d].uid,
             Last(dcView2')[d].status # Last(dcView2)[d].status
      PROVE  \/ Wrote(pc1, key1, cr1, Last(dcView2)[d], d)
             \/ Wrote(pc2, key2, cr2, Last(dcView2)[d], d)
  <2>1. LateInv'
    BY <1>1, LateStep
  <2>2. /\ First!Live(d) = Last(dcView2)[d]
        /\ First!Live(d)' = Last(dcView2')[d]
        /\ Second!Live(d) = Last(dcView2)[d]
        /\ Second!Live(d)' = Last(dcView2')[d]
    BY <1>1, <2>1, LiveIsLast, LiveIsLastNext DEF LateInv, SameServer
  <2>3. CASE Leader!Next /\ SuccessorFollows
    <3>1. /\ pc1' # pc1 /\ key1 = d /\ cr1.uid = First!Live(d).uid
          /\ First!Stored(cr1.spec) = First!Stored(First!Live(d).spec)
      BY <1>1, <2>2, <2>3, FirstAssumptions, LabelAssumption,
         SentinelAssumption, SameLeader, First!StatusStep
         DEF LateInv, First!SharingInv
    <3> QED BY <2>2, <3>1 DEF Wrote, Stored, First!Stored
  <2>4. CASE Successor!Next /\ LeaderFollows
    <3>1. /\ pc2' # pc2 /\ key2 = d /\ cr2.uid = Second!Live(d).uid
          /\ Second!Stored(cr2.spec) = Second!Stored(Second!Live(d).spec)
      BY <1>1, <2>2, <2>4, SecondAssumptions, LabelAssumption,
         SentinelAssumption, SameSuccessor, Second!StatusStep
         DEF LateInv, Second!SharingInv
    <3> QED BY <2>2, <3>1 DEF Wrote, Stored, Second!Stored
  <2>5. ~(TakeOver \/ LateWatches \/ Stop \/ UNCHANGED vars)
    BY <1>1 DEF TakeOver, LateWatches, Stop, vars, view2
  <2> QED BY <1>1, <2>3, <2>4, <2>5, WhoseStep
<1>2. LateInv /\ [Next]_vars
      => [\A d \in DeviceConfigs :
            LET before == Last(dcView2)[d]
                after  == Last(dcView2')[d]
            IN  before # None /\ after # None /\ after.uid = before.uid
                    /\ after.status # before.status
                => \/ Wrote(pc1, key1, cr1, before, d)
                   \/ Wrote(pc2, key2, cr2, before, d)]_vars
  BY <1>1
<1> QED BY <1>2, LateInvariant, PTL DEF Spec, StatusForCurrentSpec
=============================================================================
