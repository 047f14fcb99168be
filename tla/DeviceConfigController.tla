----------------------- MODULE DeviceConfigController -----------------------
(***************************************************************************)
(* The DeviceConfig controller: one worker that runs Reconcile on the keys *)
(* of a rate-limited work queue, reads through informer caches that lag    *)
(* behind the API server, and writes to the API server directly.           *)
(*                                                                         *)
(* Around it the cluster acts on its own: users create, edit and delete    *)
(* DeviceConfigs, the garbage collector removes children whose owner is    *)
(* gone, watches deliver their events late, API calls fail with or without *)
(* having taken effect, and the operator's process dies and restarts.      *)
(***************************************************************************)
EXTENDS DeviceConfigs, Naturals, Sequences

CONSTANTS
    Chain,          \* the children in the order Reconcile brings them up
    UserSpecs,      \* the specs users submit
    Env,            \* what may happen beyond the creation of DeviceConfigs
    MaxOps,         \* bound on the operations of users
    MaxFaults,      \* bound on the API calls that fail
    MaxCrashes      \* bound on the crashes of the operator

ASSUME ControllerAssumption ==
    /\ Chain \in Seq(Kinds)
    /\ Len(Chain) > 0 /\ Chain[1] = "Module"
    /\ UserSpecs \subseteq Specs
    /\ Env \subseteq {"edit", "delete", "tamper", "listFault"}
    /\ MaxOps \in Nat /\ MaxFaults \in Nat /\ MaxCrashes \in Nat

VARIABLES
    dcView,         \* versions of all DeviceConfigs, informer cache to server
    childView,      \* versions of each child, informer cache to server
    lastUID,        \* the newest uid given to an object of each name
    queue,          \* the work queue in order
    dirty,          \* keys that need processing, queued or being processed
    waiting,        \* keys a timer, a resync or a list will add later
    pc, key,        \* step and request of the worker
    cr,             \* the worker's copy of the DeviceConfig
    fresh,          \* is the copy's resourceVersion the server's?
    child,          \* index in Chain of the child being reconciled
    found,          \* did the first Get of the child find it?
    gauge,          \* habana_ai_operator_reconciliation_failed
    ops, faults, crashes    \* operations, faults and crashes still to come

clusterVars == <<dcView, childView, lastUID>>
queueVars   == <<queue, dirty, waiting>>
workerVars  == <<pc, key, cr, fresh, child, found>>
budgetVars  == <<ops, faults, crashes>>
vars == <<clusterVars, queueVars, workerVars, gauge, budgetVars>>

-----------------------------------------------------------------------------
(* Conditions: Ready and Errored are always written together, so one value *)
(* stands for both: none yet, Ready=True, or Errored=True with a reason.   *)
ReasonFor(kind) ==
    CASE kind = "Module"      -> "ModuleFailed"
      [] kind = "NodeLabeler" -> "NodeLabelerFailed"
      [] kind \in {"NodeMetrics", "Service"} -> "NodeMetricsFailed"

Statuses == {"Unknown", "Ready"} \cup {ReasonFor(k) : k \in Kinds}

DCObject == [uid : Nat, spec : Specs, finalizer : BOOLEAN,
             deleting : BOOLEAN, status : Statuses]

Child == [owner : Nat, driver : {None} \cup Drivers, selector : SUBSET Labels]

ASSUME NoneAssumption == None \notin DCObject /\ None \notin Child

(* The controller watches its own kind, Modules and DaemonSets, but not    *)
(* the Service.                                                            *)
Owned == {"Module", "NodeLabeler", "NodeMetrics"}

Managed == {Chain[i] : i \in 1..Len(Chain)}

Steps == {"idle", "Get", "Validate", "AddFinalizer", "GetChild",
          "CreateOrPatch", "SetErrored", "SetReady", "DeleteModule",
          "RemoveFinalizer"}

DCMap == [DeviceConfigs -> {None} \cup DCObject]

ClusterTypeOK ==
    /\ dcView \in Seq(DCMap) /\ Len(dcView) > 0
    /\ childView \in [Kinds -> [DeviceConfigs -> Seq({None} \cup Child)]]
    /\ \A k \in Kinds, d \in DeviceConfigs : Len(childView[k][d]) > 0
    /\ lastUID \in [DeviceConfigs -> Nat]

QueueTypeOK ==
    /\ queue \in Seq(DeviceConfigs)
    /\ dirty \subseteq DeviceConfigs
    /\ waiting \subseteq DeviceConfigs

WorkerTypeOK ==
    /\ pc \in Steps
    /\ key \in DeviceConfigs \cup {None}
    /\ pc # "idle" => key \in DeviceConfigs
    /\ cr \in {None} \cup DCObject
    /\ pc \notin {"idle", "Get"} => cr \in DCObject
    /\ fresh \in BOOLEAN
    /\ child \in 0..Len(Chain)
    /\ pc \in {"GetChild", "CreateOrPatch", "SetErrored"} => child # 0
    /\ found \in BOOLEAN

TypeOK ==
    /\ ClusterTypeOK
    /\ QueueTypeOK
    /\ WorkerTypeOK
    /\ gauge \in [DeviceConfigs -> {"unset", "ok", "failed"}]
    /\ ops \in 0..MaxOps /\ faults \in 0..MaxFaults /\ crashes \in 0..MaxCrashes

-----------------------------------------------------------------------------
(* The two ends of a view: writes go to the API server, reads of the       *)
(* operator come from the informer cache.                                  *)
Live(d)   == dcView[Len(dcView)][d]
Cached(d) == dcView[1][d]

(* What a read of the cache may return, now or after some deliveries.      *)
Versions(d) == {dcView[i][d] : i \in 1..Len(dcView)}

LiveChild(k, d)   == childView[k][d][Len(childView[k][d])]
CachedChild(k, d) == childView[k][d][1]

(* A write that changes nothing produces no event.                         *)
WriteDC(d, object) ==
    dcView' = IF object = Live(d)
              THEN dcView
              ELSE Append(dcView, [dcView[Len(dcView)] EXCEPT ![d] = object])

WriteChild(k, d, object) ==
    childView' = IF object = LiveChild(k, d)
                 THEN childView
                 ELSE [childView EXCEPT ![k][d] = Append(@, object)]

(* A write of anyone but the worker makes the worker's copy stale.         *)
Outdate(d) == fresh' = (fresh /\ d # key)

Init ==
    /\ dcView = << [d \in DeviceConfigs |-> None] >>
    /\ childView = [k \in Kinds |-> [d \in DeviceConfigs |-> <<None>>]]
    /\ lastUID = [d \in DeviceConfigs |-> 0]
    /\ queue = <<>> /\ dirty = {} /\ waiting = {}
    /\ pc = "idle" /\ key = None /\ cr = None
    /\ fresh = FALSE /\ child = 0 /\ found = FALSE
    /\ gauge = [d \in DeviceConfigs |-> "unset"]
    /\ ops = MaxOps /\ faults = MaxFaults /\ crashes = MaxCrashes

-----------------------------------------------------------------------------
(* Mutant of Add: a key that is being processed is not marked dirty.       *)
AddUnlessProcessing(d) ==
    /\ dirty' = IF d = key THEN dirty ELSE dirty \cup {d}
    /\ queue' = IF d \in dirty \/ d = key THEN queue ELSE Append(queue, d)

(* The work queue: a key is queued once, and a key being processed waits   *)
(* until it is done.                                                       *)
Add(d) ==
    /\ dirty' = dirty \cup {d}
    /\ queue' = IF d \in dirty \/ d = key THEN queue ELSE Append(queue, d)

Dequeue ==
    /\ pc = "idle"
    /\ queue # <<>>
    /\ pc' = "Get"
    /\ key' = Head(queue)
    /\ queue' = Tail(queue)
    /\ dirty' = dirty \ {Head(queue)}
    /\ UNCHANGED <<clusterVars, waiting, cr, fresh, child, found, gauge,
                   budgetVars>>

(* The end of a reconcile: an error adds the key again after a back-off.   *)
Finish(failed) ==
    /\ pc' = "idle" /\ key' = None /\ cr' = None
    /\ fresh' = FALSE /\ child' = 0 /\ found' = FALSE
    /\ queue' = IF key \in dirty THEN Append(queue, key) ELSE queue
    /\ waiting' = IF failed THEN waiting \cup {key} ELSE waiting
    /\ UNCHANGED dirty

Goto(step) == pc' = step /\ UNCHANGED <<queueVars, key>>

Fault == faults > 0 /\ faults' = faults - 1

SetGauge(value) == gauge' = [gauge EXCEPT ![key] = value]

-----------------------------------------------------------------------------
(* Nothing to do: not found, or being deleted by someone else's finalizer. *)
Finished(object) == object # None => object.deleting /\ ~object.finalizer

(* Mutant of UpToDate: any version of an existing object is good enough.   *)
ExistsAtAll(d) == Live(d) # None

(* A copy just read is fresh if no write to it is on its way to the cache. *)
UpToDate(d) == \A object \in Versions(d) : object = Cached(d)

(* Reconcile reads the DeviceConfig from the cache.                        *)
Get ==
    /\ pc = "Get"
    /\ UNCHANGED <<clusterVars, ops, crashes>>
    /\ \/ /\ Finished(Cached(key))
          /\ SetGauge("ok")
          /\ Finish(FALSE)
          /\ UNCHANGED faults
       \/ /\ ~Finished(Cached(key))
          /\ cr' = Cached(key)
          /\ fresh' = UpToDate(key)
          /\ IF Cached(key).deleting
             THEN SetGauge("ok") /\ Goto("DeleteModule")
             ELSE UNCHANGED gauge /\ Goto("Validate")
          /\ UNCHANGED <<child, found, faults>>
       \/ /\ Fault
          /\ Finish(TRUE)
          /\ UNCHANGED gauge

(* Mutant of Conflicting: DeviceConfigs being deleted no longer count.     *)
ConflictingUnlessDeleting(dcs) ==
    \E d, e \in DeviceConfigs :
        /\ d # e /\ dcs[d] # None /\ dcs[e] # None
        /\ ~dcs[d].deleting /\ ~dcs[e].deleting
        /\ Overlap(GetNodeSelector(dcs[d].spec), GetNodeSelector(dcs[e].spec))

(* Two DeviceConfigs of the list select one node: every reconcile fails,   *)
(* whichever DeviceConfig it is for.                                       *)
Conflicting(dcs) ==
    \E d, e \in DeviceConfigs :
        /\ d # e /\ dcs[d] # None /\ dcs[e] # None
        /\ Overlap(GetNodeSelector(dcs[d].spec), GetNodeSelector(dcs[e].spec))

(* Mutants of ValidateNodeSelector: the finalizer is not added before the  *)
(* Module is created; a conflict does not touch the gauge; a DeviceConfig  *)
(* that already is Ready is not reconciled again.                          *)
ValidateSkippingFinalizer ==
    /\ pc = "Validate"
    /\ UNCHANGED <<clusterVars, ops, crashes, cr, fresh, found, gauge, faults>>
    /\ ~Conflicting(dcView[1])
    /\ Goto("GetChild") /\ child' = 1

ValidateWithoutGauge ==
    /\ pc = "Validate"
    /\ UNCHANGED <<clusterVars, ops, crashes, gauge, faults>>
    /\ IF Conflicting(dcView[1])
       THEN Finish(FALSE)
       ELSE /\ IF cr.finalizer
               THEN Goto("GetChild") /\ child' = 1
               ELSE Goto("AddFinalizer") /\ UNCHANGED child
            /\ UNCHANGED <<cr, fresh, found>>

ValidateUnlessReady ==
    /\ pc = "Validate"
    /\ UNCHANGED <<clusterVars, ops, crashes, gauge, faults>>
    /\ IF cr.status = "Ready"
       THEN Finish(FALSE)
       ELSE /\ IF cr.finalizer
               THEN Goto("GetChild") /\ child' = 1
               ELSE Goto("AddFinalizer") /\ UNCHANGED child
            /\ UNCHANGED <<cr, fresh, found>>

(* Any error of the check, a failed List too, ends the reconcile as a      *)
(* conflict that is not retried.                                           *)
ValidateNodeSelector ==
    /\ pc = "Validate"
    /\ UNCHANGED <<clusterVars, ops, crashes>>
    /\ \/ /\ ~Conflicting(dcView[1])
          /\ IF cr.finalizer
             THEN Goto("GetChild") /\ child' = 1
             ELSE Goto("AddFinalizer") /\ UNCHANGED child
          /\ UNCHANGED <<cr, fresh, found, gauge, faults>>
       \/ /\ \/ Conflicting(dcView[1]) /\ UNCHANGED faults
             \/ "listFault" \in Env /\ Fault
          /\ SetGauge("failed")
          /\ Finish(FALSE)

-----------------------------------------------------------------------------
(* Mutant of Update: a write without the resourceVersion check.            *)
UpdateBlindly(object, OnSuccess, OnError) ==
    \/ /\ Live(key) # None /\ WriteDC(key, object)
       /\ OnSuccess /\ UNCHANGED faults
    \/ Live(key) = None /\ OnError /\ UNCHANGED <<dcView, faults>>

(* An Update of the worker's copy: refused if the copy is stale, and a     *)
(* fault may hide that it was applied.                                     *)
Update(object, OnSuccess, OnError) ==
    \/ fresh /\ WriteDC(key, object) /\ OnSuccess /\ UNCHANGED faults
    \/ ~fresh /\ OnError /\ UNCHANGED <<dcView, faults>>
    \/ Fault /\ OnError /\ UNCHANGED dcView
    \/ Fault /\ fresh /\ WriteDC(key, object) /\ OnError

(* The copy keeps its empty nodeSelector when the server drops it.         *)
AddDeletionFinalizer ==
    /\ pc = "AddFinalizer"
    /\ Update([Live(key) EXCEPT !.finalizer = TRUE, !.spec = Stored(cr.spec)],
              /\ cr' = [cr EXCEPT !.finalizer = TRUE]
              /\ Goto("GetChild") /\ child' = 1
              /\ UNCHANGED <<fresh, found>>,
              Finish(TRUE))
    /\ UNCHANGED <<childView, lastUID, gauge, ops, crashes>>

(* ReconcileModule and its siblings first Get the child ...                *)
GetChild ==
    /\ pc = "GetChild"
    /\ \/ /\ found' = (CachedChild(Chain[child], key) # None)
          /\ Goto("CreateOrPatch")
          /\ UNCHANGED faults
       \/ Fault /\ Goto("SetErrored") /\ UNCHANGED found
    /\ UNCHANGED <<clusterVars, cr, fresh, child, gauge, ops, crashes>>

(* ... then CreateOrPatch reads the cache again.  A child that was there   *)
(* and no longer is is created with a resourceVersion, which is refused.   *)
Accepted(k, d) ==
    IF CachedChild(k, d) = None
    THEN ~found /\ LiveChild(k, d) = None
    ELSE LiveChild(k, d) # None

Applied(k, d) ==
    IF CachedChild(k, d) = None
    THEN Desired(k, cr)
    ELSE MergePatch(CachedChild(k, d), Desired(k, cr), LiveChild(k, d))

(* No patch is sent for a child that is as it should be in the cache,      *)
(* whether it still is on the server or not.  Data of the child that the   *)
(* model leaves out may call for a patch all the same.                     *)
NothingToPatch(k, d) == CachedChild(k, d) = Desired(k, cr)

(* Mutant of NextChild: one child too many.                                *)
NextChildPastEnd ==
    /\ found' = FALSE
    /\ IF child <= Len(Chain)
       THEN child' = child + 1 /\ UNCHANGED gauge /\ Goto("GetChild")
       ELSE child' = 0 /\ SetGauge("ok") /\ Goto("SetReady")

(* After the last child the gauge is cleared, before the Ready condition   *)
(* is written.                                                             *)
NextChild ==
    /\ found' = FALSE
    /\ IF child < Len(Chain)
       THEN child' = child + 1 /\ UNCHANGED gauge /\ Goto("GetChild")
       ELSE child' = 0 /\ SetGauge("ok") /\ Goto("SetReady")

ChildFailed ==
    found' = FALSE /\ UNCHANGED <<child, gauge>> /\ Goto("SetErrored")

CreateOrPatch ==
    /\ pc = "CreateOrPatch"
    /\ LET k == Chain[child] IN
       \/ /\ Accepted(k, key)
          /\ WriteChild(k, key, Applied(k, key))
          /\ NextChild
          /\ UNCHANGED faults
       \/ ~Accepted(k, key) /\ ChildFailed /\ UNCHANGED <<childView, faults>>
       \/ Fault /\ ChildFailed /\ UNCHANGED childView
       \/ /\ Fault /\ Accepted(k, key)
          /\ WriteChild(k, key, Applied(k, key))
          /\ ChildFailed
       \/ /\ NothingToPatch(k, key)
          /\ NextChild
          /\ UNCHANGED <<childView, faults>>
    /\ UNCHANGED <<dcView, lastUID, cr, fresh, ops, crashes>>

(* Four functions of the same shape, one for each child.                   *)
ReconcileChild(kind) ==
    /\ pc \in {"GetChild", "CreateOrPatch"} /\ Chain[child] = kind
    /\ GetChild \/ CreateOrPatch

ReconcileModule               == ReconcileChild("Module")
ReconcileNodeLabelerDaemonSet == ReconcileChild("NodeLabeler")
ReconcileNodeMetricsDaemonSet == ReconcileChild("NodeMetrics")
ReconcileNodeMetricsService   == ReconcileChild("Service")

SetConditionsErrored ==
    /\ pc = "SetErrored"
    /\ SetGauge("failed")
    /\ Update([Live(key) EXCEPT !.status = ReasonFor(Chain[child])],
              Finish(TRUE), Finish(TRUE))
    /\ UNCHANGED <<childView, lastUID, ops, crashes>>

(* Mutant of SetConditionsReady: its error is not returned.                *)
SetConditionsReadyDropsError ==
    /\ pc = "SetReady"
    /\ Update([Live(key) EXCEPT !.status = "Ready"],
              Finish(FALSE), Finish(FALSE))
    /\ UNCHANGED <<childView, lastUID, gauge, ops, crashes>>

SetConditionsReady ==
    /\ pc = "SetReady"
    /\ Update([Live(key) EXCEPT !.status = "Ready"],
              Finish(FALSE), Finish(TRUE))
    /\ UNCHANGED <<childView, lastUID, gauge, ops, crashes>>

-----------------------------------------------------------------------------
(* Mutants of DeleteModule: its error does not stop the deletion; its      *)
(* error is not returned.                                                  *)
DeleteModuleIgnoresError ==
    /\ pc = "DeleteModule"
    /\ Goto("RemoveFinalizer")
    /\ \/ WriteChild("Module", key, None) /\ UNCHANGED faults
       \/ Fault /\ UNCHANGED childView
    /\ UNCHANGED <<dcView, lastUID, cr, fresh, child, found, gauge, ops, crashes>>

DeleteModuleDropsError ==
    /\ pc = "DeleteModule"
    /\ \/ /\ WriteChild("Module", key, None)
          /\ Goto("RemoveFinalizer")
          /\ UNCHANGED <<cr, fresh, child, found, faults>>
       \/ Fault /\ Finish(FALSE) /\ UNCHANGED childView
       \/ Fault /\ Finish(FALSE) /\ WriteChild("Module", key, None)
    /\ UNCHANGED <<dcView, lastUID, gauge, ops, crashes>>

(* The deletion path.  Deleting a Module that is gone is no error.         *)
DeleteModule ==
    /\ pc = "DeleteModule"
    /\ \/ /\ WriteChild("Module", key, None)
          /\ Goto("RemoveFinalizer")
          /\ UNCHANGED <<cr, fresh, child, found, faults>>
       \/ Fault /\ Finish(TRUE) /\ UNCHANGED childView
       \/ Fault /\ Finish(TRUE) /\ WriteChild("Module", key, None)
    /\ UNCHANGED <<dcView, lastUID, gauge, ops, crashes>>

(* The server removes the object with its last finalizer.                  *)
RemoveDeletionFinalizer ==
    /\ pc = "RemoveFinalizer"
    /\ Update(None, Finish(FALSE), Finish(TRUE))
    /\ UNCHANGED <<childView, lastUID, gauge, ops, crashes>>

Reconcile ==
    \/ Dequeue \/ Get \/ ValidateNodeSelector \/ AddDeletionFinalizer
    \/ ReconcileModule \/ ReconcileNodeLabelerDaemonSet
    \/ ReconcileNodeMetricsDaemonSet \/ ReconcileNodeMetricsService
    \/ SetConditionsErrored \/ SetConditionsReady
    \/ DeleteModule \/ RemoveDeletionFinalizer

-----------------------------------------------------------------------------
(* The informers: an event updates the cache and adds a key.               *)
DeliverDC ==
    /\ Len(dcView) > 1
    /\ dcView' = Tail(dcView)
    /\ \E d \in DeviceConfigs : dcView[1][d] # dcView[2][d] /\ Add(d)
    /\ UNCHANGED <<childView, lastUID, waiting, workerVars, gauge, budgetVars>>

DeliverChild(k, d) ==
    /\ Len(childView[k][d]) > 1
    /\ childView' = [childView EXCEPT ![k][d] = Tail(@)]
    /\ IF k \in Owned THEN Add(d) ELSE UNCHANGED <<queue, dirty>>
    /\ UNCHANGED <<dcView, lastUID, waiting, workerVars, gauge, budgetVars>>

TimerFires(d) ==
    /\ d \in waiting
    /\ waiting' = waiting \ {d}
    /\ Add(d)
    /\ UNCHANGED <<clusterVars, workerVars, gauge, budgetVars>>

(* The informers replay their caches every ten hours.                      *)
Replayed ==
    {d \in DeviceConfigs :
        Cached(d) # None \/ \E k \in Owned : CachedChild(k, d) # None}

Resync ==
    /\ ~(Replayed \subseteq waiting)
    /\ waiting' = waiting \cup Replayed
    /\ UNCHANGED <<clusterVars, queue, dirty, workerVars, gauge, budgetVars>>

-----------------------------------------------------------------------------
(* Users.  A DeviceConfig without the finalizer is removed at once.        *)
UserOp(d) ==
    /\ ops > 0 /\ ops' = ops - 1
    /\ Outdate(d)
    /\ UNCHANGED <<queueVars, pc, key, cr, child, found, gauge, faults, crashes>>

CreateDC(d, spec) ==
    /\ Live(d) = None
    /\ lastUID' = [lastUID EXCEPT ![d] = @ + 1]
    /\ WriteDC(d, [uid |-> lastUID[d] + 1, spec |-> spec, finalizer |-> FALSE,
                   deleting |-> FALSE, status |-> "Unknown"])
    /\ UserOp(d)
    /\ UNCHANGED childView

EditDC(d, spec) ==
    /\ "edit" \in Env
    /\ Live(d) # None
    /\ Live(d).spec # spec
    /\ WriteDC(d, [Live(d) EXCEPT !.spec = spec])
    /\ UserOp(d)
    /\ UNCHANGED <<childView, lastUID>>

DeleteDC(d) ==
    /\ "delete" \in Env
    /\ Live(d) # None
    /\ ~Live(d).deleting
    /\ WriteDC(d, IF Live(d).finalizer
                  THEN [Live(d) EXCEPT !.deleting = TRUE]
                  ELSE None)
    /\ UserOp(d)
    /\ UNCHANGED <<childView, lastUID>>

(* Someone deletes a child that is not theirs.                             *)
Tamper(k, d) ==
    /\ "tamper" \in Env
    /\ LiveChild(k, d) # None
    /\ WriteChild(k, d, None)
    /\ ops > 0 /\ ops' = ops - 1
    /\ UNCHANGED <<dcView, lastUID, queueVars, workerVars, gauge, faults,
                   crashes>>

(* The garbage collector: the uid in the owner reference is nobody's.      *)
Owns(d, object) == Live(d) # None /\ Live(d).uid = object.owner

CollectGarbage(k, d) ==
    /\ LiveChild(k, d) # None
    /\ ~Owns(d, LiveChild(k, d))
    /\ WriteChild(k, d, None)
    /\ UNCHANGED <<dcView, lastUID, queueVars, workerVars, gauge, budgetVars>>

(* The operator dies and a new process starts: caches are filled by a new  *)
(* list, which adds every DeviceConfig and every owner of a child.         *)
Crash ==
    /\ crashes > 0 /\ crashes' = crashes - 1
    /\ dcView' = <<dcView[Len(dcView)]>>
    /\ childView' = [k \in Kinds |-> [d \in DeviceConfigs |->
                        <<LiveChild(k, d)>>]]
    /\ queue' = <<>> /\ dirty' = {}
    /\ waiting' = {d \in DeviceConfigs :
                    Live(d) # None \/ \E k \in Owned : LiveChild(k, d) # None}
    /\ pc' = "idle" /\ key' = None /\ cr' = None
    /\ fresh' = FALSE /\ child' = 0 /\ found' = FALSE
    /\ gauge' = [d \in DeviceConfigs |-> "unset"]
    /\ UNCHANGED <<lastUID, ops, faults>>

Cluster ==
    \/ DeliverDC
    \/ Resync
    \/ Crash
    \/ \E d \in DeviceConfigs :
        \/ TimerFires(d)
        \/ DeleteDC(d)
        \/ \E spec \in UserSpecs : CreateDC(d, spec) \/ EditDC(d, spec)
        \/ \E k \in Kinds :
            DeliverChild(k, d) \/ Tamper(k, d) \/ CollectGarbage(k, d)

Next == Reconcile \/ Cluster

Spec == Init /\ [][Next]_vars

(* The worker goroutine runs, watches deliver what the server sent, timers *)
(* go off and the garbage collector gets to every orphan.                  *)
Fairness ==
    /\ WF_vars(Reconcile)
    /\ WF_vars(DeliverDC)
    /\ \A d \in DeviceConfigs :
        /\ WF_vars(TimerFires(d))
        /\ \A k \in Managed :
            WF_vars(DeliverChild(k, d)) /\ WF_vars(CollectGarbage(k, d))

FairSpec == Spec /\ Fairness

ResyncSpec == FairSpec /\ WF_vars(Resync)

-----------------------------------------------------------------------------
(* Safety.                                                                 *)

(* A Module that exists belongs to the DeviceConfig of its name, and that  *)
(* DeviceConfig carries the deletion finalizer: no sequence of deletions,  *)
(* recreations, stale reads and crashes leaves a driver without the object *)
(* whose deletion unloads it.  (deviceconfig_controller.go:120-147)        *)
FinalizerGuardsModule ==
    \A d \in DeviceConfigs : LET m == LiveChild("Module", d) IN
        m # None => Owns(d, m) /\ Live(d).finalizer

(* Why FinalizerGuardsModule holds, as an inductive invariant.             *)

(* A version with the finalizer and without a deletion, wherever it still  *)
(* is between cache and server, is a version of the live DeviceConfig.     *)
ViewInv ==
    \A d \in DeviceConfigs : \A object \in Versions(d) :
        object # None /\ object.finalizer /\ ~object.deleting
        => Live(d) # None /\ Live(d).uid = object.uid /\ Live(d).finalizer

NormalSteps == {"Validate", "AddFinalizer", "GetChild", "CreateOrPatch",
                "SetErrored", "SetReady"}

(* A fresh copy is one of the live DeviceConfig.                           *)
FreshInv ==
    fresh => /\ pc \notin {"idle", "Get"}
             /\ Live(key) # None /\ Live(key).uid = cr.uid

(* The worker only brings up children with a copy that has the finalizer,  *)
(* and such a copy, stale or not, is one of the live DeviceConfig.         *)
CopyInv ==
    pc \in NormalSteps =>
        /\ ~cr.deleting
        /\ pc \notin {"Validate", "AddFinalizer"} => cr.finalizer
        /\ cr.finalizer => Live(key) # None /\ Live(key).uid = cr.uid
                                          /\ Live(key).finalizer

(* The worker only removes the finalizer, with success, from an object no  *)
(* older version of which is left in the cache, and whose Module is gone.  *)
DeletionInv ==
    /\ pc \in {"DeleteModule", "RemoveFinalizer"} =>
        cr.deleting /\ (fresh => \A object \in Versions(key) : object = cr)
    /\ pc = "RemoveFinalizer" => LiveChild("Module", key) = None

(* What a reconcile knows, stale as its copy may be, is enough to keep     *)
(* every Module guarded, step by step.  (deviceconfig_controller.go:117-155)*)
GuardInv ==
    TypeOK /\ FreshInv /\ ViewInv /\ CopyInv /\ DeletionInv
           /\ FinalizerGuardsModule

(* As long as the worker, or the cache now or later, has a version of a    *)
(* DeviceConfig that is being deleted, the live one is gone, being deleted *)
(* too, or not protected yet: the worker does not take a successor's       *)
(* driver down for the deletion of its predecessor, and does not bring up  *)
(* a driver with an update to one that is being deleted.                   *)
(* (deviceconfig_controller.go:117-147)                                    *)
Unprotected(d) == Live(d) = None \/ Live(d).deleting \/ ~Live(d).finalizer

SuccessorWaits ==
    /\ \A d \in DeviceConfigs :
        (\E object \in Versions(d) : object # None /\ object.deleting)
        => Unprotected(d)
    /\ pc \in {"DeleteModule", "RemoveFinalizer"} => Unprotected(key)
    /\ fresh /\ pc \in NormalSteps =>
        \A object \in Versions(key) : object = None \/ ~object.deleting

(* Two Modules never select the same node, so a node that keeps its labels *)
(* gets one driver, even though the check reads a cache that may not hold  *)
(* the other DeviceConfig yet.  (nodeselector.go:41-65)                    *)
OneDriverPerNode ==
    \A d, e \in DeviceConfigs :
        LET m1 == LiveChild("Module", d)
            m2 == LiveChild("Module", e)
        IN d # e /\ m1 # None /\ m2 # None
            => ~Overlap(m1.selector, m2.selector)

(* While a DeviceConfig that is not being deleted says Ready, all of its   *)
(* children exist and are its own, not those of a deleted DeviceConfig of  *)
(* the same name that the garbage collector is about to remove.  For an    *)
(* Env without "tamper".  (deviceconfig_controller.go:149-182)             *)
ReadyImpliesDeployed ==
    \A d \in DeviceConfigs :
        Live(d) # None /\ ~Live(d).deleting /\ Live(d).status = "Ready"
        => \A i \in 1..Len(Chain) : LET c == LiveChild(Chain[i], d) IN
            c # None /\ Owns(d, c)

(* A condition is only ever written to the spec it was computed from: a    *)
(* verdict on an old spec does not land on an edited or recreated          *)
(* DeviceConfig.  (conditions.go:53-85)                                    *)
StatusForCurrentSpec ==
    [][\A d \in DeviceConfigs :
        (Live(d) # None /\ Live(d)' # None /\ Live(d)'.status # Live(d).status
            /\ Live(d)'.uid = Live(d).uid)
        => key = d /\ cr.uid = Live(d).uid
             /\ Stored(cr.spec) = Stored(Live(d).spec)]_vars

(* When Reconcile sets Ready with the message "All resources have been     *)
(* successfully reconciled", they have been: each child is what the spec   *)
(* it reconciled asks for.  (deviceconfig_controller.go:182)               *)
ReadyMeansReconciled ==
    pc = "SetReady" /\ fresh
    => \A i \in 1..Len(Chain) : LiveChild(Chain[i], key) = Desired(Chain[i], cr)

(* A check that stops a reconcile with the event "Conflicting DeviceConfig *)
(* NodeSelectors found" has found some.  (deviceconfig_controller.go:137)  *)
ConflictEventIsTrue ==
    [][pc = "Validate" /\ pc' = "idle" /\ crashes' = crashes
        => Conflicting(dcView[1])]_vars

(* A reconcile that ends with an error leaves the gauge at failed: it      *)
(* "reports whether the reconciliation per DeviceConfig is failed or not". *)
(* (metrics.go:25)                                                         *)
GaugeReportsFailure ==
    [][\A d \in DeviceConfigs :
        key = d /\ pc' = "idle" /\ crashes' = crashes /\ d \in waiting' \ waiting
        => gauge'[d] = "failed"]_vars

(* What the cluster should look like for one DeviceConfig name: nothing    *)
(* left behind, a reported conflict, or children that match the spec and   *)
(* conditions and gauge that say so.                                       *)
Conflict == Conflicting(dcView[Len(dcView)])

Goal(d) ==
    IF Live(d) = None
    THEN /\ \A k \in Kinds : LiveChild(k, d) = None
         /\ gauge[d] # "failed"
    ELSE /\ ~Live(d).deleting
         /\ IF Conflict
            THEN gauge[d] = "failed"
            ELSE /\ Live(d).finalizer /\ Live(d).status = "Ready"
                 /\ gauge[d] = "ok"
                 /\ \A i \in 1..Len(Chain) :
                        LiveChild(Chain[i], d) = Desired(Chain[i], Live(d))

(* Nothing is on its way: no event, no queued key, no timer, no reconcile, *)
(* no orphan.                                                              *)
Quiet ==
    /\ pc = "idle" /\ queue = <<>> /\ waiting = {}
    /\ Len(dcView) = 1
    /\ \A d \in DeviceConfigs, k \in Kinds :
        /\ Len(childView[k][d]) = 1
        /\ LiveChild(k, d) = None \/ Owns(d, LiveChild(k, d))

(* The controller never rests in a wrong state: when nothing is on its way *)
(* any more, every DeviceConfig has reached its goal.  No event that still *)
(* matters was lost.  For DeviceConfigs that are never in conflict and an  *)
(* Env without "tamper" and "listFault".                                   *)
RestsOnlyWhenDone == Quiet => \A d \in DeviceConfigs : Goal(d)

-----------------------------------------------------------------------------
(* The lifecycle the finalizer implements.                                 *)
LifeOf(object) ==
    IF object = None THEN "absent"
    ELSE IF object.deleting THEN "deleting"
    ELSE IF object.finalizer THEN "protected"
    ELSE "unprotected"

Lifecycle == INSTANCE DriverLifecycle WITH
    OthersUnload <- "tamper" \in Env,
    config <- [d \in DeviceConfigs |-> LifeOf(Live(d))],
    loaded <- [d \in DeviceConfigs |-> LiveChild("Module", d) # None]

(* The controller implements DriverLifecycle: the operator unloads only    *)
(* the driver of a DeviceConfig that is being deleted, and lets the        *)
(* DeviceConfig go only after that.                                        *)
ImplementsLifecycle == Lifecycle!Spec

-----------------------------------------------------------------------------
(* Liveness.                                                               *)

(* A deletion that was requested completes, whatever fails on the way.     *)
DeletionCompletes ==
    \A d \in DeviceConfigs :
        (Live(d) # None /\ Live(d).deleting)
            ~> (Live(d) = None \/ ~Live(d).deleting)

(* Once users, faults and crashes stop, every DeviceConfig reaches its     *)
(* goal and stays there.                                                   *)
EventuallyConverged == \A d \in DeviceConfigs : <>[]Goal(d)
=============================================================================
