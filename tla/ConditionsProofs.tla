-------------------------- MODULE ConditionsProofs --------------------------
(***************************************************************************)
(* What the conditions of a DeviceConfig say is true: they are about the   *)
(* spec they are stored with, and Ready means that the children are there. *)
(* For any number of DeviceConfigs, children, user operations, failed      *)
(* calls and crashes.  The last section is about a controller that is not  *)
(* alone: LateLeaderProofs makes a pair of it.                             *)
(***************************************************************************)
EXTENDS DriverLifecycleProofs

-----------------------------------------------------------------------------
(* Who writes what to a DeviceConfig.                                      *)

(* A user creates it, with a uid that no object of this name had before.   *)
Created(d, object) ==
    /\ Live(d) = None
    /\ lastUID' = [lastUID EXCEPT ![d] = @ + 1]
    /\ object.uid = lastUID[d] + 1 /\ object.spec \in UserSpecs
    /\ ~object.finalizer /\ object.status = "Unknown"

(* A user edits it or asks for its deletion.                               *)
Edited(d, object) ==
    /\ Live(d) # None /\ UNCHANGED lastUID
    /\ object.uid = Live(d).uid /\ object.status = Live(d).status
    /\ object.finalizer = Live(d).finalizer
    /\ Live(d).deleting => object.deleting
    /\ object.spec # Live(d).spec => "edit" \in Env /\ object.spec \in UserSpecs

(* The worker updates it from a fresh copy.                                *)
Updated(object) ==
    /\ fresh /\ Live(key) # None /\ UNCHANGED lastUID
    /\ object.uid = Live(key).uid /\ object.deleting = Live(key).deleting
    /\ \/ /\ pc = "AddFinalizer"
          /\ object.finalizer /\ object.spec = Stored(cr.spec)
          /\ object.status = Live(key).status
       \/ /\ pc \in {"SetErrored", "SetReady"}
          /\ object.finalizer = Live(key).finalizer
          /\ object.spec = Live(key).spec
          /\ object.status = "Ready" <=> pc = "SetReady"

(* It goes: a user deletes it while nothing protects it, or the worker     *)
(* removes the finalizer.                                                  *)
Removed(d) == Live(d) # None /\ UNCHANGED lastUID

(* What a user's call does to the server.                                  *)
WrittenByUser(d, object) ==
    /\ WriteDC(d, object) /\ UNCHANGED childView
    /\ \/ object = None /\ Removed(d)
       \/ object \in DCObject /\ (Created(d, object) \/ Edited(d, object))

(* What an update of the worker does to it.                                *)
WrittenByWorker(object) ==
    /\ WriteDC(key, object) /\ UNCHANGED childView
    /\ \/ object = None /\ Removed(key)
       \/ object \in DCObject /\ Updated(object)

(* No DeviceConfig is written.                                             *)
Unwritten == UNCHANGED lastUID /\ (UNCHANGED dcView \/ DeliverDC \/ Crash)

(* What the worker writes.                                                 *)
LEMMA WorkerWrites ==
    ASSUME TypeOK, FreshInv,
           \/ AddDeletionFinalizer \/ SetConditionsErrored
           \/ SetConditionsReady \/ RemoveDeletionFinalizer
    PROVE  /\ key \in DeviceConfigs
           /\ \/ UNCHANGED <<dcView, lastUID>>
              \/ \E object \in {None} \cup DCObject : WrittenByWorker(object)
           /\ fresh' => /\ AddDeletionFinalizer /\ fresh /\ key' = key
                        /\ cr' = [cr EXCEPT !.finalizer = TRUE]
                        /\ \E object \in DCObject : WrittenByWorker(object)
<1>1. /\ key \in DeviceConfigs /\ cr \in DCObject
      /\ UNCHANGED <<childView, lastUID>>
      /\ pc = "SetErrored" => child \in 1..Len(Chain)
      /\ faults \in 0..MaxFaults
  <2>1. /\ pc \in {"AddFinalizer", "SetErrored", "SetReady", "RemoveFinalizer"}
        /\ UNCHANGED <<childView, lastUID>>
    BY Zenon DEF AddDeletionFinalizer, SetConditionsErrored, SetConditionsReady,
       RemoveDeletionFinalizer
  <2> QED BY <2>1, ChainFacts DEF TypeOK, WorkerTypeOK
<1>2. fresh => Live(key) # None /\ Live(key) \in DCObject
  BY <1>1, EndsTypeOK DEF FreshInv, TypeOK
<1>3. \A failed \in BOOLEAN : Finish(failed) => fresh' = FALSE
  BY DEF Finish
<1>4. CASE AddDeletionFinalizer
  <2> DEFINE object == [Live(key) EXCEPT !.finalizer = TRUE, !.spec = Stored(cr.spec)]
             A == /\ cr' = [cr EXCEPT !.finalizer = TRUE]
                  /\ Goto("GetChild") /\ child' = 1
                  /\ UNCHANGED <<fresh, found>>
             B == Finish(TRUE)
  <2>1. Update(object, A, B) /\ pc = "AddFinalizer"
    BY <1>4, Zenon DEF AddDeletionFinalizer
  <2>2. A => cr' = [cr EXCEPT !.finalizer = TRUE] /\ key' = key
    BY DEF Goto
  <2>3. B => fresh' = FALSE
    BY <1>3
  <2>4. fresh => object \in DCObject /\ Updated(object)
    <3>1. Stored(cr.spec) \in Specs
      BY <1>1, StoredType DEF DCObject
    <3> QED BY <1>1, <1>2, <2>1, <3>1 DEF DCObject, Updated
  <2> HIDE DEF object, A, B
  <2>5. \/ A /\ fresh /\ WriteDC(key, object)
        \/ B /\ (UNCHANGED dcView \/ (fresh /\ WriteDC(key, object)))
    BY <1>1, <2>1, UpdateEffect
  <2>6. fresh /\ WriteDC(key, object) => object \in DCObject /\ WrittenByWorker(object)
    BY <1>1, <2>4 DEF WrittenByWorker
  <2> QED BY <1>1, <1>4, <2>2, <2>3, <2>5, <2>6
<1>5. CASE SetConditionsErrored
  <2> DEFINE object == [Live(key) EXCEPT !.status = ReasonFor(Chain[child])]
             B == Finish(TRUE)
  <2>1. Update(object, B, B) /\ pc = "SetErrored"
    BY <1>5, Zenon DEF SetConditionsErrored
  <2>2. B => fresh' = FALSE
    BY <1>3
  <2>3. fresh => object \in DCObject /\ Updated(object)
    <3>1. Chain[child] \in Kinds /\ ReasonFor(Chain[child]) \in Statuses
      BY <1>1, <2>1, ChainFacts
    <3>2. ReasonFor(Chain[child]) # "Ready"
      BY <3>1 DEF ReasonFor, Kinds
    <3> QED BY <1>1, <1>2, <2>1, <3>1, <3>2 DEF DCObject, Updated
  <2> HIDE DEF object, B
  <2>4. B /\ (UNCHANGED dcView \/ (fresh /\ WriteDC(key, object)))
    BY <1>1, <2>1, UpdateEffect
  <2> QED BY <1>1, <2>2, <2>3, <2>4 DEF WrittenByWorker
<1>6. CASE SetConditionsReady
  <2> DEFINE object == [Live(key) EXCEPT !.status = "Ready"]
             A == Finish(FALSE)
             B == Finish(TRUE)
  <2>1. Update(object, A, B) /\ pc = "SetReady"
    BY <1>6, Zenon DEF SetConditionsReady
  <2>2. A \/ B => fresh' = FALSE
    BY <1>3
  <2>3. fresh => object \in DCObject /\ Updated(object)
    BY <1>1, <1>2, <2>1 DEF DCObject, Updated, Statuses
  <2> HIDE DEF object, A, B
  <2>4. (A \/ B) /\ (UNCHANGED dcView \/ (fresh /\ WriteDC(key, object)))
    BY <1>1, <2>1, UpdateEffect
  <2> QED BY <1>1, <2>2, <2>3, <2>4 DEF WrittenByWorker
<1>7. CASE RemoveDeletionFinalizer
  <2>1. Live(key) # None /\ WriteDC(key, None) => WrittenByWorker(None)
    BY <1>1 DEF WrittenByWorker, Removed
  <2> DEFINE A == Finish(FALSE)
             B == Finish(TRUE)
  <2>2. Update(None, A, B)
    BY <1>7, Zenon DEF RemoveDeletionFinalizer
  <2>3. A \/ B => fresh' = FALSE
    BY <1>3
  <2> HIDE DEF A, B
  <2>4. (A \/ B) /\ (UNCHANGED dcView \/ (fresh /\ WriteDC(key, None)))
    BY <1>1, <2>2, UpdateEffect
  <2> QED BY <1>1, <1>2, <2>1, <2>3, <2>4
<1> QED BY <1>4, <1>5, <1>6, <1>7

(* What users write.                                                       *)
LEMMA UserWrites ==
    ASSUME TypeOK, NEW d \in DeviceConfigs,
           \/ DeleteDC(d)
           \/ \E spec \in UserSpecs : CreateDC(d, spec) \/ EditDC(d, spec)
    PROVE  /\ \E object \in {None} \cup DCObject : WrittenByUser(d, object)
           /\ UserOp(d)
<1>1. Live(d) \in {None} \cup DCObject
  BY EndsTypeOK DEF TypeOK
<1>2. CASE DeleteDC(d)
  <2> DEFINE object == IF Live(d).finalizer
                       THEN [Live(d) EXCEPT !.deleting = TRUE]
                       ELSE None
  <2>1. /\ UserOp(d) /\ WriteDC(d, object) /\ UNCHANGED <<childView, lastUID>>
        /\ Live(d) # None /\ ~Live(d).deleting
    BY <1>2 DEF DeleteDC
  <2>2. \/ object = None /\ Removed(d)
        \/ object \in DCObject /\ Edited(d, object)
    BY <1>1, <2>1 DEF DCObject, Edited, Removed
  <2> HIDE DEF object
  <2> QED BY <2>1, <2>2 DEF WrittenByUser
<1>3. ASSUME NEW spec \in UserSpecs, EditDC(d, spec)
      PROVE  /\ \E object \in DCObject : WrittenByUser(d, object)
             /\ UserOp(d)
  <2> DEFINE object == [Live(d) EXCEPT !.spec = spec]
  <2>1. /\ UserOp(d) /\ WriteDC(d, object) /\ UNCHANGED <<childView, lastUID>>
        /\ Live(d) # None /\ "edit" \in Env
    BY <1>3 DEF EditDC
  <2>2. object \in DCObject /\ Edited(d, object)
    BY <1>1, <2>1, ControllerAssumption DEF DCObject, Edited
  <2> HIDE DEF object
  <2> QED BY <2>1, <2>2 DEF WrittenByUser
<1>4. ASSUME NEW spec \in UserSpecs, CreateDC(d, spec)
      PROVE  /\ \E object \in DCObject : WrittenByUser(d, object)
             /\ UserOp(d)
  <2> DEFINE object == [uid |-> lastUID[d] + 1, spec |-> spec,
                        finalizer |-> FALSE, deleting |-> FALSE,
                        status |-> "Unknown"]
  <2>1. /\ UserOp(d) /\ WriteDC(d, object) /\ UNCHANGED childView
        /\ Live(d) = None /\ lastUID' = [lastUID EXCEPT ![d] = @ + 1]
    BY <1>4 DEF CreateDC
  <2>2. object \in DCObject
    BY ControllerAssumption DEF TypeOK, ClusterTypeOK, DCObject,
       Statuses
  <2>3. Created(d, object)
    BY <2>1 DEF Created
  <2> HIDE DEF object
  <2> QED BY <2>1, <2>2, <2>3 DEF WrittenByUser
<1> QED BY <1>2, <1>3, <1>4

(* The steps of a reconcile that write no DeviceConfig.                    *)
Reading ==
    \/ Dequeue \/ Get \/ ValidateNodeSelector \/ GetChild \/ CreateOrPatch
    \/ DeleteModule

(* The steps of a reconcile that may write one.                            *)
Writing ==
    \/ AddDeletionFinalizer \/ SetConditionsErrored
    \/ SetConditionsReady \/ RemoveDeletionFinalizer

(* The cluster's own steps.                                                *)
Own ==
    \/ DeliverDC \/ Resync
    \/ \E d \in DeviceConfigs :
         \/ TimerFires(d)
         \/ \E k \in Kinds :
              DeliverChild(k, d) \/ Tamper(k, d) \/ CollectGarbage(k, d)

(* The steps of users on DeviceConfigs.                                    *)
ByUsers ==
    \E d \in DeviceConfigs :
      \/ DeleteDC(d)
      \/ \E spec \in UserSpecs : CreateDC(d, spec) \/ EditDC(d, spec)

(* Every step is of one of these kinds.                                    *)
LEMMA StepKinds ==
    ASSUME [Next]_vars
    PROVE  Reading \/ Writing \/ Own \/ ByUsers \/ Crash \/ UNCHANGED vars
BY Zenon DEF Next, Reconcile, ReconcileModule, ReconcileNodeLabelerDaemonSet,
   ReconcileNodeMetricsDaemonSet, ReconcileNodeMetricsService, ReconcileChild,
   Cluster, Reading, Writing, Own, ByUsers

(* What the steps that write no DeviceConfig leave alone.                  *)
LEMMA ReadingWrites ==
    ASSUME Reading
    PROVE  UNCHANGED <<dcView, lastUID>>
BY Zenon DEF Reading, Dequeue, Get, ValidateNodeSelector, GetChild,
   CreateOrPatch, DeleteModule, clusterVars

(* What the cluster's own steps leave alone.                               *)
LEMMA OwnWrites ==
    ASSUME Own
    PROVE  UNCHANGED lastUID /\ (UNCHANGED dcView \/ DeliverDC)
           /\ UNCHANGED workerVars
BY DEF Own, DeliverDC, Resync, TimerFires, DeliverChild, Tamper, CollectGarbage,
   clusterVars

(* A worker that tries to write goes on to another step.                   *)
LEMMA WritingMoves ==
    ASSUME TypeOK, Writing
    PROVE  pc' # pc
<1>1. \A failed \in BOOLEAN : Finish(failed) => pc' = "idle"
  BY DEF Finish
<1> DEFINE A == /\ cr' = [cr EXCEPT !.finalizer = TRUE]
                /\ Goto("GetChild") /\ child' = 1
                /\ UNCHANGED <<fresh, found>>
           B == Finish(FALSE)
           C == Finish(TRUE)
<1>2. A \/ B \/ C => pc' \in {"idle", "GetChild"}
  BY <1>1 DEF Goto
<1>3. /\ pc \in {"AddFinalizer", "SetErrored", "SetReady", "RemoveFinalizer"}
      /\ \E object : Update(object, A, C) \/ Update(object, B, C)
                     \/ Update(object, C, C)
  BY Zenon DEF Writing, AddDeletionFinalizer, SetConditionsErrored,
     SetConditionsReady, RemoveDeletionFinalizer
<1> HIDE DEF A, B, C
<1>4. A \/ B \/ C
  BY <1>3 DEF Update
<1> QED BY <1>2, <1>3, <1>4

(* A step writes at most one DeviceConfig, and a child only if it writes   *)
(* none.                                                                   *)
LEMMA ServerStep ==
    ASSUME TypeOK, FreshInv, [Next]_vars
    PROVE  \/ Unwritten
           \/ key \in DeviceConfigs
              /\ \E object \in {None} \cup DCObject : WrittenByWorker(object)
           \/ \E d \in DeviceConfigs, object \in {None} \cup DCObject :
                WrittenByUser(d, object)
<1>1. CASE Reading
  BY <1>1, ReadingWrites DEF Unwritten
<1>2. CASE Writing
  BY <1>2, WorkerWrites DEF Unwritten, Writing
<1>3. CASE Own
  BY <1>3, OwnWrites DEF Unwritten
<1>4. CASE ByUsers
  BY <1>4, UserWrites DEF ByUsers
<1>5. CASE Crash \/ UNCHANGED vars
  BY <1>5 DEF Crash, Unwritten, vars, clusterVars
<1> QED BY <1>1, <1>2, <1>3, <1>4, <1>5, StepKinds

(* The worker is in a reconcile, and has a copy.                           *)
HoldsCopy == pc \notin {"idle", "Get"}

(* The versions of a DeviceConfig that are left anywhere.                  *)
Known(d) == Versions(d) \cup {object \in {cr} : HoldsCopy /\ d = key}

(* The worker's copy has just been read, or it is the one it had, and has  *)
(* been given the finalizer if that was written.                           *)
LEMMA CopyStep ==
    ASSUME TypeOK, FreshInv, [Next]_vars, HoldsCopy'
    PROVE  /\ key' = key /\ key \in DeviceConfigs /\ cr' \in DCObject
           /\ \/ pc = "Get" /\ cr' = Cached(key) /\ UNCHANGED dcView
              \/ /\ HoldsCopy /\ cr \in DCObject
                 /\ cr'.uid = cr.uid /\ cr'.spec = cr.spec
                 /\ \/ cr' = cr
                    \/ Live(key)' # None /\ Live(key)'.finalizer
           /\ pc' \in {"GetChild", "CreateOrPatch"} => cr'.finalizer
                \/ (cr' = cr /\ pc \in {"GetChild", "CreateOrPatch"})
<1>1. \A failed \in BOOLEAN : Finish(failed) => pc' = "idle"
  BY DEF Finish
<1>2. /\ pc # "idle" => key \in DeviceConfigs
      /\ HoldsCopy => cr \in DCObject
      /\ cr' \in DCObject /\ pc' # "idle"
  <2>1. TypeOK'
    BY TypeStep
  <2> QED BY <2>1 DEF TypeOK, WorkerTypeOK, HoldsCopy
<1>3. CASE Dequeue
  BY <1>3 DEF Dequeue, HoldsCopy
<1>4. CASE Get
  BY <1>1, <1>2, <1>4 DEF Get, HoldsCopy, Goto, clusterVars
<1>5. CASE ValidateNodeSelector
  BY <1>1, <1>2, <1>5 DEF ValidateNodeSelector, HoldsCopy, Goto
<1>6. CASE GetChild \/ CreateOrPatch \/ DeleteModule
  <2>1. /\ pc \notin {"idle", "Get"} /\ key' = key /\ cr' = cr
        /\ pc \notin {"GetChild", "CreateOrPatch"}
             => pc' \notin {"GetChild", "CreateOrPatch"}
    BY <1>1, <1>2, <1>6 DEF GetChild, CreateOrPatch, DeleteModule, Goto,
       NextChild, ChildFailed
  <2> QED BY <1>2, <2>1 DEF HoldsCopy
<1>7. CASE Writing
  <2> DEFINE A == /\ cr' = [cr EXCEPT !.finalizer = TRUE]
                  /\ Goto("GetChild") /\ child' = 1
                  /\ UNCHANGED <<fresh, found>>
             B == Finish(FALSE)
             C == Finish(TRUE)
             object == [Live(key) EXCEPT !.finalizer = TRUE, !.spec = Stored(cr.spec)]
  <2>1. ~B /\ ~C
    BY <1>1, <1>2
  <2>2. /\ pc = "AddFinalizer" /\ Update(object, A, C)
        \/ (\E e : Update(e, B, C) \/ Update(e, C, C))
    BY <1>7, Zenon DEF Writing, AddDeletionFinalizer, SetConditionsErrored,
       SetConditionsReady, RemoveDeletionFinalizer
  <2>3. A => cr' = [cr EXCEPT !.finalizer = TRUE] /\ key' = key /\ fresh' = fresh
    BY DEF Goto
  <2> HIDE DEF object, A, B, C
  <2>4. pc = "AddFinalizer" /\ A /\ fresh /\ WriteDC(key, object)
    BY <2>1, <2>2 DEF Update
  <2>5. HoldsCopy /\ key \in DeviceConfigs /\ cr \in DCObject
    BY <1>2, <2>4 DEF HoldsCopy
  <2>6. /\ cr' = [cr EXCEPT !.finalizer = TRUE] /\ key' = key /\ fresh'
        /\ cr'.uid = cr.uid /\ cr'.spec = cr.spec /\ cr'.finalizer
    BY <2>3, <2>4, <2>5 DEF DCObject
  <2>7. PICK new \in DCObject : WrittenByWorker(new)
    BY <1>7, <2>6, WorkerWrites DEF Writing
  <2>8. Live(key)' = new /\ Updated(new)
    BY <2>5, <2>6, <2>7, WriteDCFacts, NoneAssumption DEF WrittenByWorker, TypeOK
  <2>9. Live(key)' # None /\ Live(key)'.finalizer
    BY <2>4, <2>8, NoneAssumption DEF Updated
  <2> QED BY <1>2, <2>5, <2>6, <2>9
<1>8. CASE Own \/ UNCHANGED vars
  <2>1. pc' = pc /\ key' = key /\ cr' = cr
    BY <1>8, OwnWrites DEF workerVars, vars
  <2> QED BY <1>2, <2>1 DEF HoldsCopy
<1>9. CASE ByUsers
  <2>1. pc' = pc /\ key' = key /\ cr' = cr
    BY <1>9, UserWrites DEF ByUsers, UserOp
  <2> QED BY <1>2, <2>1 DEF HoldsCopy
<1>10. CASE Crash
  BY <1>10 DEF Crash, HoldsCopy
<1> QED BY <1>3, <1>4, <1>5, <1>6, <1>7, <1>8, <1>9, <1>10, StepKinds
        DEF Reading

(* What a step that writes no DeviceConfig leaves on the server.           *)
LEMMA UnwrittenFacts ==
    ASSUME ClusterTypeOK, Unwritten, NEW d \in DeviceConfigs
    PROVE  Live(d)' = Live(d) /\ lastUID' = lastUID
BY DeliverDCFacts, CrashFacts DEF Unwritten, Live

-----------------------------------------------------------------------------
(* A condition lands on the spec it was computed from.                     *)

(* A fresh copy has the spec of the live DeviceConfig, but for what the    *)
(* server does not store.                                                  *)
FreshSpec == fresh => Stored(cr.spec) = Stored(Live(key).spec)

(* The server has nothing left to drop from what it stored.                *)
LEMMA StoredTwice ==
    ASSUME NEW spec \in Specs
    PROVE  Stored(Stored(spec)) = Stored(spec)
BY SentinelAssumption DEF Stored, Specs, Selectors

(* A copy that is fresh after a step has just been read, has just been     *)
(* written, or was fresh before and nobody wrote the DeviceConfig.         *)
LEMMA FreshStep ==
    ASSUME TypeOK, FreshInv, [Next]_vars, fresh'
    PROVE  /\ key' = key /\ key \in DeviceConfigs /\ pc' \notin {"idle", "Get"}
           /\ Live(key)' \in DCObject
           /\ \/ cr' = Live(key)'
              \/ fresh /\ cr' = cr /\ Live(key)' = Live(key)
              \/ /\ fresh /\ cr \in DCObject
                 /\ cr' = [cr EXCEPT !.finalizer = TRUE]
                 /\ Live(key)'.uid = Live(key).uid /\ Live(key)'.finalizer
                 /\ Live(key)'.spec = Stored(cr.spec)
<1>1. fresh => /\ key \in DeviceConfigs /\ pc \notin {"idle", "Get"}
               /\ Live(key) \in DCObject
  <2>1. fresh => key \in DeviceConfigs /\ pc \notin {"idle", "Get"}
    BY DEF FreshInv, TypeOK, WorkerTypeOK
  <2> QED BY <2>1, EndsTypeOK DEF FreshInv, TypeOK
<1>2. \A failed \in BOOLEAN : Finish(failed) => fresh' = FALSE
  BY DEF Finish
<1>3. ASSUME fresh, key' = key, cr' = cr, Live(key)' = Live(key),
             pc' \notin {"idle", "Get"}
      PROVE  Live(key)' \in DCObject
  BY <1>1, <1>3
<1>4. CASE Get
  <2>1. key \in DeviceConfigs /\ UNCHANGED dcView
    BY <1>4 DEF Get, TypeOK, WorkerTypeOK, clusterVars
  <2>2. /\ cr' = Cached(key) /\ UpToDate(key) /\ key' = key
        /\ pc' \notin {"idle", "Get"} /\ ~Finished(Cached(key))
    BY <1>2, <1>4 DEF Get, Goto
  <2>3. Cached(key) # None
    BY <2>2 DEF Finished
  <2>4. Cached(key) \in DCObject
    BY <2>1, <2>3, EndsTypeOK DEF TypeOK
  <2>5. Cached(key) = Live(key)
    BY <2>1, <2>2, LiveIsVersion DEF UpToDate, TypeOK
  <2>6. Live(key)' = Live(key)
    BY <2>1, <2>2 DEF Live
  <2> QED BY <2>1, <2>2, <2>4, <2>5, <2>6
<1>5. CASE Reading /\ ~Get
  <2>1. UNCHANGED dcView
    BY <1>5, ReadingWrites
  <2>2. fresh /\ cr' = cr /\ key' = key /\ pc' \notin {"idle", "Get"}
    BY <1>1, <1>2, <1>5 DEF Reading, Dequeue, ValidateNodeSelector, GetChild,
       CreateOrPatch, DeleteModule, Goto, NextChild, ChildFailed
  <2>3. Live(key)' = Live(key)
    BY <2>1, <2>2 DEF Live
  <2> QED BY <1>1, <2>2, <2>3
<1>6. CASE Writing
  <2>1. /\ fresh /\ pc = "AddFinalizer" /\ key' = key /\ key \in DeviceConfigs
        /\ cr' = [cr EXCEPT !.finalizer = TRUE]
    BY <1>6, WorkerWrites DEF Writing, AddDeletionFinalizer
  <2>2. pc' \notin {"idle", "Get"}
    <3> DEFINE object == [Live(key) EXCEPT !.finalizer = TRUE, !.spec = Stored(cr.spec)]
               A == /\ cr' = [cr EXCEPT !.finalizer = TRUE]
                    /\ Goto("GetChild") /\ child' = 1
                    /\ UNCHANGED <<fresh, found>>
               B == Finish(TRUE)
    <3>1. Update(object, A, B)
      BY <1>6, WorkerWrites, Zenon DEF Writing, AddDeletionFinalizer
    <3>2. A => pc' \notin {"idle", "Get"}
      BY DEF Goto
    <3>3. ~B
      BY <1>2
    <3> HIDE DEF object, A, B
    <3> QED BY <3>1, <3>2, <3>3, UpdateEffect DEF TypeOK
  <2>3. PICK object \in DCObject : WrittenByWorker(object)
    BY <1>6, WorkerWrites DEF Writing
  <2>4. Live(key)' = object /\ Updated(object)
    BY <2>1, <2>3, WriteDCFacts, NoneAssumption DEF WrittenByWorker, TypeOK
  <2> QED BY <2>1, <2>2, <2>4 DEF Updated, TypeOK, WorkerTypeOK
<1>7. CASE Own \/ UNCHANGED vars
  <2>1. UNCHANGED workerVars /\ Unwritten
    BY <1>7, OwnWrites DEF Unwritten, vars, clusterVars
  <2>2. fresh /\ cr' = cr /\ key' = key /\ pc' = pc
    BY <2>1 DEF workerVars
  <2>3. PICK d \in DeviceConfigs : d = key /\ key' = d
    BY <1>1, <2>2
  <2>4. Live(d)' = Live(d)
    BY <2>1, UnwrittenFacts DEF TypeOK
  <2> QED BY <1>1, <2>2, <2>3, <2>4
<1>8. CASE ByUsers
  <2>1. PICK d \in DeviceConfigs, object \in {None} \cup DCObject :
            WrittenByUser(d, object) /\ UserOp(d)
    BY <1>8, UserWrites DEF ByUsers
  <2>2. \A e \in DeviceConfigs \ {d} : Live(e)' = Live(e)
    BY <2>1, WriteDCFacts DEF WrittenByUser, TypeOK
  <2>3. fresh /\ d # key /\ key' = key /\ cr' = cr /\ pc' = pc
    BY <2>1 DEF UserOp, Outdate
  <2>4. PICK e \in DeviceConfigs : e = key /\ key' = e
    BY <1>1, <2>3
  <2> QED BY <1>1, <2>2, <2>3, <2>4
<1>9. CASE Crash
  BY <1>9 DEF Crash
<1> QED BY <1>4, <1>5, <1>6, <1>7, <1>8, <1>9, StepKinds

(* So a fresh copy is one of the live DeviceConfig, and has its spec.      *)
LEMMA FreshSpecStep ==
    ASSUME TypeOK, FreshInv, FreshSpec, [Next]_vars
    PROVE  FreshInv' /\ FreshSpec'
<1> SUFFICES ASSUME fresh'
             PROVE  FreshInv' /\ FreshSpec'
  BY DEF FreshInv, FreshSpec
<1>1. /\ key' = key /\ key \in DeviceConfigs /\ pc' \notin {"idle", "Get"}
      /\ Live(key)' \in DCObject /\ Live(key)' # None
  BY FreshStep, NoneAssumption
<1>2. CASE cr' = Live(key)'
  BY <1>1, <1>2 DEF FreshInv, FreshSpec
<1>3. CASE fresh /\ cr' = cr /\ Live(key)' = Live(key)
  BY <1>1, <1>3 DEF FreshInv, FreshSpec
<1>4. CASE /\ fresh /\ cr \in DCObject
           /\ cr' = [cr EXCEPT !.finalizer = TRUE]
           /\ Live(key)'.uid = Live(key).uid /\ Live(key)'.finalizer
           /\ Live(key)'.spec = Stored(cr.spec)
  <2>1. cr'.spec = cr.spec /\ cr'.uid = cr.uid /\ cr.spec \in Specs
    BY <1>4 DEF DCObject
  <2>2. Stored(Stored(cr.spec)) = Stored(cr.spec)
    BY <2>1, StoredTwice
  <2>3. Stored(cr'.spec) = Stored(Live(key)'.spec)
    BY <1>4, <2>1, <2>2
  <2> QED BY <1>1, <1>4, <2>1, <2>3 DEF FreshInv, FreshSpec
<1> QED BY <1>2, <1>3, <1>4, FreshStep

(* A step that changes a condition is an update by a worker whose copy has *)
(* the spec of the live DeviceConfig, and the worker goes on with it.      *)
LEMMA StatusStep ==
    ASSUME TypeOK, FreshInv, FreshSpec, [Next]_vars, NEW d \in DeviceConfigs,
           Live(d) # None, Live(d)' # None, Live(d)'.status # Live(d).status,
           Live(d)'.uid = Live(d).uid
    PROVE  pc' # pc /\ key = d /\ cr.uid = Live(d).uid
           /\ Stored(cr.spec) = Stored(Live(d).spec)
<1>1. ~Unwritten
  BY UnwrittenFacts DEF TypeOK
<1>2. ASSUME NEW e \in DeviceConfigs, NEW object \in {None} \cup DCObject,
             WriteDC(e, object)
      PROVE  d = e /\ Live(d)' = object
  BY <1>2, WriteDCFacts DEF TypeOK
<1>3. ASSUME NEW e \in DeviceConfigs, NEW object \in {None} \cup DCObject,
             WrittenByUser(e, object)
      PROVE  FALSE
  BY <1>2, <1>3 DEF WrittenByUser, Created, Edited
<1>4. ASSUME key \in DeviceConfigs, NEW object \in {None} \cup DCObject,
             WrittenByWorker(object)
      PROVE  key = d /\ fresh
  BY <1>2, <1>4 DEF WrittenByWorker, Updated
<1>5. key = d /\ fresh
  BY <1>1, <1>3, <1>4, ServerStep
<1>6. Writing
  <2>1. ~ByUsers
    BY <1>3, UserWrites DEF ByUsers
  <2>2. ~Reading /\ ~Own /\ ~Crash /\ ~UNCHANGED vars
    BY <1>1, ReadingWrites, OwnWrites DEF Unwritten, Crash, vars, clusterVars
  <2> QED BY <2>1, <2>2, StepKinds
<1>7. pc' # pc
  BY <1>6, WritingMoves
<1> QED BY <1>5, <1>7 DEF FreshSpec, FreshInv

(* A condition is only ever written to the spec it was computed from: the  *)
(* verdict of a reconcile does not land on a DeviceConfig that was edited  *)
(* or created again in the meantime.  (conditions.go:53-85)                *)
THEOREM ConditionsOfCurrentSpec == Spec => StatusForCurrentSpec
<1>1. Init => FreshSpec
  BY DEF Init, FreshSpec
<1>2. GuardInv /\ FreshSpec /\ [Next]_vars => FreshSpec'
  BY FreshSpecStep DEF GuardInv
<1>3. GuardInv /\ FreshSpec /\ [Next]_vars =>
        [\A d \in DeviceConfigs :
            (Live(d) # None /\ Live(d)' # None
                /\ Live(d)'.status # Live(d).status
                /\ Live(d)'.uid = Live(d).uid)
            => key = d /\ cr.uid = Live(d).uid
                 /\ Stored(cr.spec) = Stored(Live(d).spec)]_vars
  BY StatusStep DEF GuardInv
<1> QED BY <1>1, <1>2, <1>3, GuardInvariant, PTL DEF Spec, StatusForCurrentSpec

-----------------------------------------------------------------------------
(* Ready means deployed.                                                   *)

(* The live DeviceConfig is the newest of its name.                        *)
NewestLives ==
    \A d \in DeviceConfigs : Live(d) # None => Live(d).uid = lastUID[d]

(* Children are handed down: of two versions of a child the later one has  *)
(* the later owner, so that what the cache shows as taken over is taken    *)
(* over for good.                                                          *)
HandedDown ==
    \A k \in Kinds, d \in DeviceConfigs : LET s == childView[k][d] IN
        \A i \in 1..Len(s) : s[i] # None =>
            /\ s[i].owner <= lastUID[d]
            /\ \A j \in i..Len(s) : s[j] # None => s[i].owner <= s[j].owner

(* The worker sets Ready after it has added the finalizer.                 *)
ReadyProtected ==
    \A d \in DeviceConfigs :
        Live(d) # None /\ Live(d).status = "Ready" => Live(d).finalizer

(* The children a reconcile is done with are there and are the copy's.     *)
BroughtUp(n) ==
    \A i \in 1..n : LET c == LiveChild(Chain[i], key) IN
        c # None /\ c.owner = cr.uid

(* Those before the current one, or all of them at the end, unless the     *)
(* DeviceConfig is being deleted.                                          *)
Progress ==
    Live(key) # None /\ ~Live(key).deleting =>
        /\ pc \in {"GetChild", "CreateOrPatch"} => BroughtUp(child - 1)
        /\ pc = "SetReady" => BroughtUp(Len(Chain))

(* A child that some version shows to be the live DeviceConfig's is still  *)
(* there, unless that is being deleted: what the cache shows needs no call *)
(* to make it so.                                                          *)
ShownIsThere ==
    \A k \in Kinds, d \in DeviceConfigs : LET s == childView[k][d] IN
        Live(d) # None /\ LiveChild(k, d) = None =>
            \A i \in 1..Len(s) :
                s[i] # None /\ s[i].owner = Live(d).uid => Live(d).deleting

(* All of it together.                                                     *)
DeployInv ==
    /\ NewestLives /\ HandedDown /\ ReadyProtected /\ Progress
    /\ ShownIsThere /\ ReadyImpliesDeployed

(* A view after some events were delivered: its older versions are gone.   *)
Shifted(s, t) ==
    \E n \in Nat : /\ n < Len(s) /\ Len(t) = Len(s) - n
                   /\ \A i \in 1..Len(t) : t[i] = s[i + n]

(* A write of a child appends to its own view, and to no other.            *)
LEMMA WriteChildView ==
    ASSUME ClusterTypeOK, NEW k \in Kinds, NEW d \in DeviceConfigs,
           NEW object, WriteChild(k, d, object)
    PROVE  /\ \/ childView'[k][d] = childView[k][d]
              \/ childView'[k][d] = Append(childView[k][d], object)
           /\ \A l \in Kinds, e \in DeviceConfigs :
                l # k \/ e # d => childView'[l][e] = childView[l][e]
BY DEF WriteChild, ClusterTypeOK

(* Someone removes a child.                                                *)
Removes(k, d) ==
    /\ childView'[k][d] = Append(childView[k][d], None)
    /\ UNCHANGED dcView
    /\ \/ Tamper(k, d) \/ CollectGarbage(k, d)
       \/ DeleteModule /\ k = "Module" /\ d = key

(* The worker brings one up.                                               *)
BringsUp(k, d) ==
    /\ CreateOrPatch /\ k = Chain[child] /\ d = key /\ Accepted(k, d)
    /\ childView'[k][d] = Append(childView[k][d], Applied(k, d))

(* What one step does to the view of one child.                            *)
LEMMA ChildStep ==
    ASSUME TypeOK, FreshInv, [Next]_vars, NEW k \in Kinds, NEW d \in DeviceConfigs
    PROVE  \/ Shifted(childView[k][d], childView'[k][d])
           \/ Removes(k, d)
           \/ BringsUp(k, d)
<1> DEFINE s == childView[k][d]
<1>1. s \in Seq({None} \cup Child) /\ Len(s) \in Nat /\ Len(s) > 0
  BY DEF TypeOK, ClusterTypeOK
<1>2. ASSUME childView'[k][d] = s
      PROVE  Shifted(s, childView'[k][d])
  <2>1. 0 < Len(s) /\ Len(s) = Len(s) - 0 /\ \A i \in 1..Len(s) : s[i] = s[i + 0]
    BY <1>1
  <2> QED BY <1>2, <2>1 DEF Shifted
<1>3. CASE Reading
  <2>1. Dequeue \/ Get \/ ValidateNodeSelector \/ GetChild => UNCHANGED childView
    BY Zenon DEF Dequeue, Get, ValidateNodeSelector, GetChild, clusterVars
  <2>2. CASE CreateOrPatch
    <3>1. pc = "CreateOrPatch" /\ key \in DeviceConfigs /\ Chain[child] \in Kinds
      BY <2>2, ChainFacts DEF CreateOrPatch, TypeOK, WorkerTypeOK
    <3> DEFINE l == Chain[child]
    <3>2. \/ Accepted(l, key) /\ WriteChild(l, key, Applied(l, key))
          \/ UNCHANGED childView
      BY <2>2, <3>1, CreateOrPatchEffect
    <3>3. CASE Accepted(l, key) /\ WriteChild(l, key, Applied(l, key))
      <4>1. /\ \/ childView'[l][key] = childView[l][key]
               \/ childView'[l][key] = Append(childView[l][key], Applied(l, key))
            /\ l # k \/ key # d => childView'[k][d] = childView[k][d]
        BY <3>1, <3>3, WriteChildView DEF TypeOK
      <4> QED BY <1>2, <2>2, <3>3, <4>1 DEF BringsUp
    <3> QED BY <1>2, <3>2, <3>3
  <2>3. CASE DeleteModule
    <3>1. key \in DeviceConfigs /\ UNCHANGED dcView
      BY <2>3 DEF DeleteModule, TypeOK, WorkerTypeOK
    <3>2. WriteChild("Module", key, None) \/ UNCHANGED childView
      BY <2>3, Zenon DEF DeleteModule
    <3>3. CASE WriteChild("Module", key, None)
      <4>1. /\ \/ childView'["Module"][key] = childView["Module"][key]
               \/ childView'["Module"][key] = Append(childView["Module"][key], None)
            /\ "Module" # k \/ key # d => childView'[k][d] = childView[k][d]
        BY <3>1, <3>3, ChainFacts, WriteChildView DEF TypeOK
      <4> QED BY <1>2, <2>3, <3>1, <4>1 DEF Removes
    <3> QED BY <1>2, <3>2, <3>3
  <2> QED BY <1>2, <1>3, <2>1, <2>2, <2>3 DEF Reading
<1>4. CASE Writing
  <2>1. UNCHANGED childView
    BY <1>4, Zenon DEF Writing, AddDeletionFinalizer, SetConditionsErrored,
       SetConditionsReady, RemoveDeletionFinalizer
  <2> QED BY <1>2, <2>1
<1>5. CASE Own
  <2>1. ASSUME NEW l \in Kinds, NEW e \in DeviceConfigs,
               Tamper(l, e) \/ CollectGarbage(l, e)
        PROVE  Shifted(s, childView'[k][d]) \/ Removes(k, d)
    <3>1. WriteChild(l, e, None) /\ UNCHANGED dcView
      BY <2>1 DEF Tamper, CollectGarbage
    <3>2. /\ \/ childView'[l][e] = childView[l][e]
             \/ childView'[l][e] = Append(childView[l][e], None)
          /\ l # k \/ e # d => childView'[k][d] = childView[k][d]
      BY <3>1, WriteChildView DEF TypeOK
    <3> QED BY <1>2, <2>1, <3>1, <3>2 DEF Removes
  <2>2. ASSUME NEW l \in Kinds, NEW e \in DeviceConfigs, DeliverChild(l, e)
        PROVE  Shifted(s, childView'[k][d])
    <3>1. CASE l = k /\ e = d
      <4>1. Len(s) > 1 /\ childView'[k][d] = Tail(s)
        BY <2>2, <3>1 DEF DeliverChild, TypeOK, ClusterTypeOK
      <4>2. Len(Tail(s)) = Len(s) - 1 /\ \A i \in 1..Len(Tail(s)) : Tail(s)[i] = s[i + 1]
        BY <1>1, <4>1, TailFacts
      <4> QED BY <1>1, <4>1, <4>2 DEF Shifted
    <3>2. CASE l # k \/ e # d
      BY <1>2, <2>2, <3>2 DEF DeliverChild, TypeOK, ClusterTypeOK
    <3> QED BY <3>1, <3>2
  <2>3. DeliverDC \/ Resync \/ (\E e \in DeviceConfigs : TimerFires(e))
            => UNCHANGED childView
    BY DEF DeliverDC, Resync, TimerFires, clusterVars
  <2> QED BY <1>2, <1>5, <2>1, <2>2, <2>3 DEF Own
<1>6. CASE ByUsers
  BY <1>2, <1>6, UserWrites DEF ByUsers, WrittenByUser
<1>7. CASE Crash
  <2>1. childView'[k][d] = <<s[Len(s)]>>
    BY <1>7 DEF Crash, LiveChild
  <2>2. Len(childView'[k][d]) = 1 /\ childView'[k][d][1] = s[Len(s)]
    BY <2>1
  <2>3. Len(s) - 1 \in Nat /\ Len(s) - 1 < Len(s) /\ 1 = Len(s) - (Len(s) - 1)
        /\ \A i \in 1..1 : childView'[k][d][i] = s[i + (Len(s) - 1)]
    BY <1>1, <2>2
  <2> QED BY <2>2, <2>3 DEF Shifted
<1>8. CASE UNCHANGED vars
  BY <1>2, <1>8 DEF vars, clusterVars
<1> QED BY <1>3, <1>4, <1>5, <1>6, <1>7, <1>8, StepKinds

(* The Module of one name after one step.                                  *)
LEMMA OneModuleStep ==
    ASSUME TypeOK, FreshInv, [Next]_vars, NEW d \in DeviceConfigs
    PROVE  \/ LiveChild("Module", d)' \in {None, LiveChild("Module", d)}
           \/ /\ BringsUp("Module", d) /\ pc = "CreateOrPatch" /\ d = key
              /\ LiveChild("Module", d)' = Applied("Module", d)
<1> DEFINE s == childView["Module"][d]
           t == childView'["Module"][d]
<1>1. /\ "Module" \in Kinds
      /\ s \in Seq({None} \cup Child) /\ Len(s) \in Nat /\ Len(s) > 0
  BY ChainFacts DEF TypeOK, ClusterTypeOK
<1>2. LiveChild("Module", d) = s[Len(s)] /\ LiveChild("Module", d)' = t[Len(t)]
  BY DEF LiveChild
<1>3. BringsUp("Module", d) => pc = "CreateOrPatch" /\ d = key
                               /\ Applied("Module", d) \in {None} \cup Child
  <2>1. BringsUp("Module", d) => pc = "CreateOrPatch" /\ d = key /\ Accepted("Module", d)
    BY DEF BringsUp, CreateOrPatch
  <2> QED BY <1>1, <2>1, AppliedType DEF TypeOK, WorkerTypeOK
<1>4. /\ Removes("Module", d) => t = Append(s, None)
      /\ BringsUp("Module", d) => t = Append(s, Applied("Module", d))
  BY DEF Removes, BringsUp
<1>5. Shifted(s, t) \/ Removes("Module", d) \/ BringsUp("Module", d)
  BY <1>1, ChildStep
<1> HIDE DEF s, t
<1>6. CASE Shifted(s, t)
  <2>1. PICK n \in Nat : /\ n < Len(s) /\ Len(t) = Len(s) - n
                         /\ \A m \in 1..Len(t) : t[m] = s[m + n]
    BY <1>6 DEF Shifted
  <2>2. Len(t) \in 1..Len(t) /\ Len(t) + n = Len(s)
    BY <1>1, <2>1
  <2> QED BY <1>2, <2>1, <2>2
<1>7. CASE Removes("Module", d)
  <2>1. t[Len(t)] = None
    BY <1>1, <1>4, <1>7, AppendFacts
  <2> QED BY <1>2, <2>1
<1>8. CASE BringsUp("Module", d)
  <2>1. t[Len(t)] = Applied("Module", d)
    BY <1>1, <1>3, <1>4, <1>8, AppendFacts
  <2> QED BY <1>2, <1>3, <1>8, <2>1
<1> QED BY <1>5, <1>6, <1>7, <1>8

(* uids only grow.                                                         *)
LEMMA UIDsGrow ==
    ASSUME TypeOK, FreshInv, [Next]_vars, NEW d \in DeviceConfigs
    PROVE  lastUID'[d] \in Nat /\ lastUID[d] \in Nat /\ lastUID[d] <= lastUID'[d]
<1>1. lastUID \in [DeviceConfigs -> Nat]
  BY DEF TypeOK, ClusterTypeOK
<1>2. lastUID' = lastUID \/ \E e \in DeviceConfigs :
            lastUID' = [lastUID EXCEPT ![e] = @ + 1]
  BY ServerStep, Zenon DEF Unwritten, WrittenByUser, WrittenByWorker, Created, Edited,
     Updated, Removed
<1> QED BY <1>1, <1>2

(* The live DeviceConfig after a step.                                     *)
LEMMA NewestStep ==
    ASSUME GuardInv, NewestLives, ReadyProtected, [Next]_vars
    PROVE  NewestLives' /\ ReadyProtected'
<1>1. lastUID \in [DeviceConfigs -> Nat]
  BY DEF GuardInv, TypeOK, ClusterTypeOK
<1>2. CASE Unwritten
  <2>1. \A d \in DeviceConfigs : Live(d)' = Live(d) /\ lastUID' = lastUID
    BY <1>2, UnwrittenFacts DEF GuardInv, TypeOK
  <2> QED BY <2>1 DEF NewestLives, ReadyProtected
<1>3. ASSUME key \in DeviceConfigs, NEW object \in {None} \cup DCObject,
             WrittenByWorker(object)
      PROVE  NewestLives' /\ ReadyProtected'
  <2> PICK d \in DeviceConfigs : d = key
    BY <1>3
  <2>1. /\ Live(d)' = object /\ lastUID' = lastUID
        /\ \A e \in DeviceConfigs \ {d} : Live(e)' = Live(e)
    BY <1>3, WriteDCFacts DEF WrittenByWorker, Removed, Updated, GuardInv, TypeOK
  <2>2. object # None => Live(d) # None /\ object.uid = Live(d).uid
    BY <1>3 DEF WrittenByWorker, Updated
  <2>3. object # None /\ object.status = "Ready" => object.finalizer
    <3>1. pc = "SetReady" /\ Live(key) # None /\ fresh => Live(key).finalizer
      BY DEF GuardInv, CopyInv, NormalSteps
    <3> QED BY <1>3, <3>1 DEF WrittenByWorker, Updated
  <2> QED BY <2>1, <2>2, <2>3 DEF NewestLives, ReadyProtected
<1>4. ASSUME NEW d \in DeviceConfigs, NEW object \in {None} \cup DCObject,
             WrittenByUser(d, object)
      PROVE  NewestLives' /\ ReadyProtected'
  <2>1. /\ Live(d)' = object
        /\ \A e \in DeviceConfigs \ {d} : Live(e)' = Live(e)
    BY <1>4, WriteDCFacts DEF WrittenByUser, GuardInv, TypeOK
  <2>2. \A e \in DeviceConfigs \ {d} : lastUID'[e] = lastUID[e]
    BY <1>1, <1>4 DEF WrittenByUser, Created, Edited, Removed
  <2>3. object # None => object.uid = lastUID'[d]
    BY <1>1, <1>4 DEF WrittenByUser, Created, Edited, NewestLives
  <2>4. object # None /\ object.status = "Ready" => object.finalizer
    BY <1>4 DEF WrittenByUser, Created, Edited, ReadyProtected
  <2> QED BY <2>1, <2>2, <2>3, <2>4 DEF NewestLives, ReadyProtected
<1> QED BY <1>2, <1>3, <1>4, ServerStep DEF GuardInv

(* A child that CreateOrPatch leaves on the server is the copy's: a patch  *)
(* that does not mention the owner finds it to be the right one.           *)
LEMMA BringsUpOwner ==
    ASSUME GuardInv, NewestLives, HandedDown, pc = "CreateOrPatch",
           NEW k \in Kinds, Accepted(k, key)
    PROVE  /\ key \in DeviceConfigs /\ Applied(k, key) \in Child
           /\ Applied(k, key).owner = cr.uid
           /\ Live(key) # None /\ Live(key).uid = cr.uid /\ cr.uid = lastUID[key]
<1>1. key \in DeviceConfigs /\ cr \in DCObject /\ lastUID[key] \in Nat
  BY DEF GuardInv, TypeOK, WorkerTypeOK, ClusterTypeOK
<1>2. Live(key) # None /\ Live(key).uid = cr.uid
  BY DEF GuardInv, CopyInv, NormalSteps
<1>3. cr.uid = lastUID[key]
  BY <1>1, <1>2 DEF NewestLives
<1>4. Applied(k, key) \in Child
  BY <1>1, AppliedType DEF GuardInv, TypeOK
<1>5. Desired(k, cr) \in Child /\ Desired(k, cr).owner = cr.uid
  BY <1>1, DesiredType
<1>6. ASSUME CachedChild(k, key) = None
      PROVE  Applied(k, key).owner = cr.uid
  BY <1>5, <1>6 DEF Applied
<1>7. ASSUME CachedChild(k, key) # None
      PROVE  Applied(k, key).owner = cr.uid
  <2>1. LiveChild(k, key) # None /\ LiveChild(k, key) \in Child
        /\ CachedChild(k, key) \in Child
    BY <1>1, <1>7, EndsTypeOK DEF Accepted, GuardInv, TypeOK
  <2>2. Applied(k, key).owner = IF CachedChild(k, key).owner = cr.uid
                                THEN LiveChild(k, key).owner ELSE cr.uid
    BY <1>5, <1>7 DEF Applied, MergePatch
  <2>3. CachedChild(k, key).owner <= LiveChild(k, key).owner
        /\ LiveChild(k, key).owner <= lastUID[key]
    <3> DEFINE s == childView[k][key]
    <3>1. Len(s) \in Nat /\ Len(s) > 0
      BY <1>1 DEF GuardInv, TypeOK, ClusterTypeOK
    <3>2. 1 \in 1..Len(s) /\ Len(s) \in 1..Len(s) /\ Len(s) \in Len(s)..Len(s)
      BY <3>1
    <3>3. s[1] # None /\ s[Len(s)] # None
      BY <1>7, <2>1 DEF CachedChild, LiveChild
    <3>4. s[1].owner <= s[Len(s)].owner /\ s[Len(s)].owner <= lastUID[key]
      BY <1>1, <3>2, <3>3 DEF HandedDown
    <3> QED BY <3>4 DEF CachedChild, LiveChild
  <2>4. CachedChild(k, key).owner \in Nat /\ LiveChild(k, key).owner \in Nat
    BY <2>1 DEF Child
  <2> QED BY <1>1, <1>3, <2>2, <2>3, <2>4
<1> QED BY <1>1, <1>2, <1>3, <1>4, <1>6, <1>7

(* Every step hands children down.                                         *)
LEMMA HandedDownStep ==
    ASSUME GuardInv, NewestLives, HandedDown, [Next]_vars
    PROVE  HandedDown'
<1> SUFFICES ASSUME NEW k \in Kinds, NEW d \in DeviceConfigs,
                    NEW i \in 1..Len(childView'[k][d]),
                    childView'[k][d][i] # None
             PROVE  /\ childView'[k][d][i].owner <= lastUID'[d]
                    /\ \A j \in i..Len(childView'[k][d]) :
                         childView'[k][d][j] # None =>
                           childView'[k][d][i].owner <= childView'[k][d][j].owner
  BY DEF HandedDown
<1> DEFINE s == childView[k][d]
           t == childView'[k][d]
<1>1. s \in Seq({None} \cup Child) /\ Len(s) \in Nat /\ Len(s) > 0
  BY DEF GuardInv, TypeOK, ClusterTypeOK
<1>2. \A m \in 1..Len(s) : s[m] # None =>
        /\ s[m].owner \in Nat /\ s[m].owner <= lastUID[d]
        /\ \A j \in m..Len(s) : s[j] # None => s[m].owner <= s[j].owner
  <2>1. \A m \in 1..Len(s) : s[m] # None => s[m] \in Child
    BY <1>1
  <2>2. \A m \in 1..Len(s) : s[m] # None => s[m].owner \in Nat
    BY <2>1 DEF Child
  <2> QED BY <2>2 DEF HandedDown
<1>3. lastUID[d] \in Nat /\ lastUID'[d] \in Nat /\ lastUID[d] <= lastUID'[d]
  BY UIDsGrow DEF GuardInv
<1> HIDE DEF s, t
<1>4. CASE Shifted(s, t)
  <2>1. PICK n \in Nat : /\ n < Len(s) /\ Len(t) = Len(s) - n
                         /\ \A m \in 1..Len(t) : t[m] = s[m + n]
    BY <1>4 DEF Shifted
  <2>2. i + n \in 1..Len(s) /\ t[i] = s[i + n]
    BY <1>1, <2>1 DEF t
  <2>3. \A j \in i..Len(t) : j + n \in (i + n)..Len(s) /\ t[j] = s[j + n]
    BY <1>1, <2>1 DEF t
  <2>4. /\ s[i + n].owner \in Nat /\ s[i + n].owner <= lastUID[d]
        /\ \A j \in (i + n)..Len(s) :
             s[j] # None => s[i + n].owner <= s[j].owner
    BY <1>2, <2>2 DEF t
  <2>5. t[i].owner <= lastUID'[d]
    BY <1>3, <2>2, <2>4
  <2>6. \A j \in i..Len(t) : t[j] # None => t[i].owner <= t[j].owner
    BY <2>2, <2>3, <2>4
  <2> QED BY <2>5, <2>6 DEF t
<1>5. ASSUME NEW e \in {None} \cup Child, t = Append(s, e),
             e # None => /\ e.owner <= lastUID[d]
                         /\ \A m \in 1..Len(s) : s[m] # None => s[m].owner <= e.owner
      PROVE  /\ t[i].owner <= lastUID'[d]
             /\ \A j \in i..Len(t) : t[j] # None => t[i].owner <= t[j].owner
  <2>1. /\ Len(t) = Len(s) + 1 /\ t[Len(s) + 1] = e
        /\ \A m \in 1..Len(s) : t[m] = s[m]
    BY <1>1, <1>5, AppendFacts
  <2>2. i \in 1..Len(s) \/ i = Len(s) + 1
    BY <1>1, <2>1 DEF t
  <2>3. \A j \in i..Len(t) : j \in i..Len(s) \/ j = Len(s) + 1
    BY <1>1, <2>1
  <2>4. e # None => e.owner \in Nat
    BY DEF Child
  <2>5. CASE i = Len(s) + 1
    <3>1. \A j \in i..Len(t) : j = i
      BY <1>1, <2>1, <2>5
    <3> QED BY <1>3, <1>5, <2>1, <2>4, <2>5, <3>1 DEF t
  <2>6. CASE i \in 1..Len(s)
    <3>1. s[i] # None /\ t[i] = s[i]
      BY <2>1, <2>6 DEF t
    <3>2. \A j \in i..Len(s) : t[j] = s[j]
      BY <1>1, <2>1, <2>6
    <3> QED BY <1>2, <1>3, <1>5, <2>1, <2>3, <2>6, <3>1, <3>2
  <2> QED BY <2>2, <2>5, <2>6
<1>6. CASE Removes(k, d)
  BY <1>5, <1>6 DEF Removes, s, t
<1>7. CASE BringsUp(k, d)
  <2>1. pc = "CreateOrPatch" /\ d = key
    BY <1>7 DEF BringsUp, CreateOrPatch
  <2>2. Applied(k, d) \in Child /\ Applied(k, d).owner = lastUID[d]
    BY <1>7, <2>1, BringsUpOwner DEF BringsUp
  <2>3. t = Append(s, Applied(k, d))
    BY <1>7 DEF BringsUp, s, t
  <2>4. \A m \in 1..Len(s) : s[m] # None => s[m].owner <= Applied(k, d).owner
    BY <1>2, <2>2
  <2>5. Applied(k, d).owner <= lastUID[d]
    BY <1>3, <2>2
  <2> QED BY <1>5, <2>2, <2>3, <2>4, <2>5 DEF t
<1> QED BY <1>4, <1>5, <1>6, <1>7, ChildStep DEF GuardInv, s, t

(* The server's end of a view after one step.                              *)
LEMMA LiveChildStep ==
    ASSUME GuardInv, NewestLives, HandedDown, [Next]_vars, NEW k \in Kinds,
           NEW d \in DeviceConfigs
    PROVE  \/ LiveChild(k, d)' = LiveChild(k, d)
           \/ Removes(k, d)
           \/ /\ BringsUp(k, d) /\ LiveChild(k, d)' # None
              /\ LiveChild(k, d)'.owner = Live(d).uid
<1> DEFINE s == childView[k][d]
           t == childView'[k][d]
<1>1. s \in Seq({None} \cup Child) /\ Len(s) \in Nat /\ Len(s) > 0
  BY DEF GuardInv, TypeOK, ClusterTypeOK
<1>2. LiveChild(k, d) = s[Len(s)] /\ LiveChild(k, d)' = t[Len(t)]
  BY DEF LiveChild
<1> HIDE DEF s, t
<1>3. CASE Shifted(s, t)
  <2>1. PICK n \in Nat : /\ n < Len(s) /\ Len(t) = Len(s) - n
                         /\ \A m \in 1..Len(t) : t[m] = s[m + n]
    BY <1>3 DEF Shifted
  <2>2. Len(t) \in 1..Len(t) /\ Len(t) + n = Len(s)
    BY <1>1, <2>1
  <2> QED BY <1>2, <2>1, <2>2
<1>4. CASE BringsUp(k, d)
  <2>1. pc = "CreateOrPatch" /\ d = key
    BY <1>4 DEF BringsUp, CreateOrPatch
  <2>2. Applied(k, d) \in Child /\ Applied(k, d).owner = Live(d).uid
    BY <1>4, <2>1, BringsUpOwner DEF BringsUp
  <2>3. t = Append(s, Applied(k, d))
    BY <1>4 DEF BringsUp, s, t
  <2>4. t[Len(t)] = Applied(k, d)
    BY <1>1, <2>2, <2>3, AppendFacts
  <2> QED BY <1>2, <1>4, <2>2, <2>4, NoneAssumption
<1> QED BY <1>3, <1>4, ChildStep DEF GuardInv, s, t

(* A DeviceConfig that is there before and after a step is the same one,   *)
(* and its deletion is not undone.  One that comes leaves the children as  *)
(* they are.                                                               *)
LEMMA SameObject ==
    ASSUME TypeOK, FreshInv, [Next]_vars, NEW d \in DeviceConfigs,
           Live(d)' # None
    PROVE  \/ /\ Live(d) # None /\ Live(d)'.uid = Live(d).uid
              /\ Live(d).deleting => Live(d)'.deleting
           \/ /\ Live(d) = None /\ UNCHANGED childView
              /\ Live(d)'.uid = lastUID[d] + 1
<1>1. Live(d)' = Live(d) =>
        /\ Live(d) # None /\ Live(d)'.uid = Live(d).uid
        /\ Live(d).deleting => Live(d)'.deleting
  OBVIOUS
<1>2. CASE Unwritten
  BY <1>1, <1>2, UnwrittenFacts DEF TypeOK
<1>3. ASSUME NEW e \in DeviceConfigs, NEW object \in {None} \cup DCObject,
             WriteDC(e, object)
      PROVE  Live(d)' = IF d = e THEN object ELSE Live(d)
  BY <1>3, WriteDCFacts DEF TypeOK
<1>4. ASSUME NEW e \in DeviceConfigs, NEW object \in {None} \cup DCObject,
             WrittenByUser(e, object)
      PROVE  \/ /\ Live(d) # None /\ Live(d)'.uid = Live(d).uid
                /\ Live(d).deleting => Live(d)'.deleting
             \/ /\ Live(d) = None /\ UNCHANGED childView
                /\ Live(d)'.uid = lastUID[d] + 1
  <2>1. Live(d)' = IF d = e THEN object ELSE Live(d)
    BY <1>3, <1>4 DEF WrittenByUser
  <2> QED BY <1>1, <1>4, <2>1 DEF WrittenByUser, Created, Edited
<1>5. ASSUME key \in DeviceConfigs, NEW object \in {None} \cup DCObject,
             WrittenByWorker(object)
      PROVE  /\ Live(d) # None /\ Live(d)'.uid = Live(d).uid
             /\ Live(d).deleting => Live(d)'.deleting
  <2>1. Live(d)' = IF d = key THEN object ELSE Live(d)
    BY <1>3, <1>5 DEF WrittenByWorker
  <2> QED BY <1>1, <1>5, <2>1 DEF WrittenByWorker, Updated
<1> QED BY <1>2, <1>4, <1>5, ServerStep

(* Every step keeps what a version shows, or is the deletion.              *)
LEMMA ShownIsThereStep ==
    ASSUME GuardInv, SuccessorWaits, NewestLives, HandedDown, ShownIsThere,
           [Next]_vars, "tamper" \notin Env
    PROVE  ShownIsThere'
<1> SUFFICES ASSUME NEW k \in Kinds, NEW d \in DeviceConfigs,
                    Live(d)' # None, LiveChild(k, d)' = None,
                    NEW i \in 1..Len(childView'[k][d]),
                    childView'[k][d][i] # None,
                    childView'[k][d][i].owner = Live(d)'.uid
             PROVE  Live(d)'.deleting
  BY DEF ShownIsThere
<1> DEFINE s == childView[k][d]
           t == childView'[k][d]
<1>1. s \in Seq({None} \cup Child) /\ Len(s) \in Nat /\ Len(s) > 0
  BY DEF GuardInv, TypeOK, ClusterTypeOK
<1>2. \A m \in 1..Len(s) : s[m] # None =>
        /\ s[m].owner \in Nat /\ s[m].owner <= lastUID[d]
        /\ \A j \in m..Len(s) : s[j] # None => s[m].owner <= s[j].owner
  <2>1. \A m \in 1..Len(s) : s[m] # None => s[m] \in Child
    BY <1>1
  <2>2. \A m \in 1..Len(s) : s[m] # None => s[m].owner \in Nat
    BY <2>1 DEF Child
  <2> QED BY <2>2 DEF HandedDown
<1>3. lastUID[d] \in Nat
  BY DEF GuardInv, TypeOK, ClusterTypeOK
<1>4. /\ Live(d) # None /\ Live(d)'.uid = Live(d).uid
      /\ Live(d).deleting => Live(d)'.deleting
  <2>1. ~(UNCHANGED childView /\ Live(d)'.uid = lastUID[d] + 1)
    BY <1>2, <1>3
  <2> QED BY <2>1, SameObject DEF GuardInv
<1>5. ASSUME NEW m \in 1..Len(s), s[m] # None, s[m].owner = Live(d).uid,
             LiveChild(k, d) = None
      PROVE  Live(d)'.deleting
  BY <1>4, <1>5 DEF ShownIsThere
<1>6. CASE LiveChild(k, d) # None /\ Removes(k, d)
  <2>1. t = Append(s, None)
    BY <1>6 DEF Removes
  <2>2. i \in 1..Len(s) /\ t[i] = s[i]
    BY <1>1, <2>1, AppendFacts
  <2>3. LiveChild(k, d) = s[Len(s)] /\ Len(s) \in i..Len(s) /\ Len(s) \in 1..Len(s)
    BY <1>1, <2>2 DEF LiveChild
  <2>4. /\ s[i] # None /\ s[i].owner = lastUID[d]
        /\ LiveChild(k, d).owner \in Nat
        /\ s[i].owner <= LiveChild(k, d).owner
        /\ LiveChild(k, d).owner <= lastUID[d]
    BY <1>2, <1>4, <1>6, <2>2, <2>3 DEF NewestLives
  <2>5. LiveChild(k, d).owner = Live(d).uid
    BY <1>3, <1>4, <2>4 DEF NewestLives
  <2>6. Owns(d, LiveChild(k, d))
    BY <1>4, <2>5 DEF Owns
  <2>7. pc = "DeleteModule" /\ k = "Module" /\ d = key
    BY <1>6, <2>6 DEF Removes, Tamper, CollectGarbage, DeleteModule
  <2>8. Live(d).finalizer
    BY <1>6, <2>7 DEF GuardInv, FinalizerGuardsModule
  <2>9. Live(d).deleting
    BY <1>4, <2>7, <2>8 DEF SuccessorWaits, Unprotected
  <2> QED BY <1>4, <2>9
<1>7. CASE LiveChild(k, d) = None /\ Removes(k, d)
  <2>1. t = Append(s, None)
    BY <1>7 DEF Removes
  <2>2. i \in 1..Len(s) /\ t[i] = s[i]
    BY <1>1, <2>1, AppendFacts
  <2> QED BY <1>4, <1>5, <1>7, <2>2
<1>8. CASE Shifted(s, t)
  <2>1. PICK n \in Nat : /\ n < Len(s) /\ Len(t) = Len(s) - n
                         /\ \A m \in 1..Len(t) : t[m] = s[m + n]
    BY <1>8 DEF Shifted
  <2>2. i + n \in 1..Len(s) /\ t[i] = s[i + n]
    BY <1>1, <2>1
  <2>3. Len(t) \in 1..Len(t) /\ Len(t) + n = Len(s)
    BY <1>1, <2>1
  <2>4. LiveChild(k, d) = None
    BY <2>1, <2>3 DEF LiveChild
  <2> QED BY <1>4, <1>5, <2>2, <2>4
<1>9. CASE BringsUp(k, d)
  <2>1. pc = "CreateOrPatch" /\ d = key
    BY <1>9 DEF BringsUp, CreateOrPatch
  <2>2. Applied(k, d) \in Child
    BY <1>9, <2>1, BringsUpOwner DEF BringsUp
  <2>3. t = Append(s, Applied(k, d))
    BY <1>9 DEF BringsUp
  <2>4. t[Len(t)] = Applied(k, d)
    BY <1>1, <2>2, <2>3, AppendFacts
  <2> QED BY <2>2, <2>4, NoneAssumption DEF LiveChild
<1> QED BY <1>6, <1>7, <1>8, <1>9, ChildStep DEF GuardInv

(* A child of the live DeviceConfig stays, as long as the worker does not  *)
(* delete it.                                                              *)
LEMMA OwnedStays ==
    ASSUME GuardInv, NewestLives, HandedDown, [Next]_vars, NEW k \in Kinds,
           NEW d \in DeviceConfigs, "tamper" \notin Env,
           LiveChild(k, d) # None, Owns(d, LiveChild(k, d)),
           ~(pc = "DeleteModule" /\ key = d)
    PROVE  LiveChild(k, d)' # None
           /\ LiveChild(k, d)'.owner = LiveChild(k, d).owner
<1>1. ~Removes(k, d)
  BY DEF Removes, Tamper, CollectGarbage, DeleteModule
<1> QED BY <1>1, LiveChildStep DEF Owns

(* Progress is kept by every step that leaves the worker where it is.      *)
LEMMA StandingProgress ==
    ASSUME GuardInv, NewestLives, HandedDown, Progress, [Next]_vars,
           "tamper" \notin Env, pc' = pc, key' = key, cr' = cr, child' = child
    PROVE  Progress'
<1> SUFFICES ASSUME pc \in {"GetChild", "CreateOrPatch", "SetReady"},
                    Live(key)' # None, ~Live(key)'.deleting
             PROVE  Progress'
  BY DEF Progress
<1>0. Live(key) # None /\ ~Live(key).deleting
  <2>1. PICK d \in DeviceConfigs : d = key
    BY DEF GuardInv, TypeOK, WorkerTypeOK
  <2>2. Live(d)' # None /\ ~Live(d)'.deleting
    BY <2>1 DEF Live
  <2>3. Live(d) # None
    BY <2>1 DEF GuardInv, CopyInv, NormalSteps
  <2> QED BY <2>1, <2>2, <2>3, SameObject DEF GuardInv
<1>1. ASSUME NEW n \in Nat, n <= Len(Chain), BroughtUp(n),
             pc \in {"GetChild", "CreateOrPatch", "SetReady"}
      PROVE  BroughtUp(n)'
  <2> SUFFICES ASSUME NEW i \in 1..n
               PROVE  LiveChild(Chain[i], key)' # None
                      /\ LiveChild(Chain[i], key)'.owner = cr'.uid
    BY DEF BroughtUp
  <2>1. key \in DeviceConfigs /\ Chain[i] \in Kinds
    <3>1. i \in 1..Len(Chain)
      BY <1>1, ChainFacts
    <3> QED BY <1>1, <3>1, ChainFacts DEF GuardInv, TypeOK, WorkerTypeOK
  <2>2. PICK k \in Kinds, d \in DeviceConfigs : k = Chain[i] /\ d = key
    BY <2>1
  <2>3. LiveChild(k, d) # None /\ LiveChild(k, d).owner = cr.uid
    BY <1>1, <2>2 DEF BroughtUp
  <2>4. Owns(d, LiveChild(k, d))
    BY <1>1, <2>2, <2>3 DEF Owns, GuardInv, CopyInv, NormalSteps
  <2>5. LiveChild(k, d)' # None /\ LiveChild(k, d)'.owner = cr.uid
    BY <1>1, <2>3, <2>4, OwnedStays
  <2> QED BY <2>2, <2>5
<1>2. Len(Chain) \in Nat /\ (pc \in {"GetChild", "CreateOrPatch"} =>
                              child - 1 \in Nat /\ child - 1 <= Len(Chain))
  BY ChainFacts DEF GuardInv, TypeOK, WorkerTypeOK
<1>3. pc \in {"GetChild", "CreateOrPatch"} => BroughtUp(child - 1)'
  BY <1>0, <1>1, <1>2 DEF Progress
<1>4. pc = "SetReady" => BroughtUp(Len(Chain))'
  BY <1>0, <1>1, <1>2 DEF Progress
<1> QED BY <1>3, <1>4 DEF Progress

(* The worker goes on to the next child when it has brought this one up.   *)
LEMMA NextChildProgress ==
    ASSUME GuardInv, NewestLives, HandedDown, ShownIsThere, Progress,
           [Next]_vars, CreateOrPatch
    PROVE  Progress'
<1>1. pc = "CreateOrPatch" /\ key \in DeviceConfigs /\ child \in 1..Len(Chain)
      /\ Len(Chain) \in Nat /\ Chain[child] \in Kinds /\ cr' = cr
      /\ cr \in DCObject /\ UNCHANGED dcView
  BY ChainFacts DEF CreateOrPatch, GuardInv, TypeOK, WorkerTypeOK
<1>2. PICK k \in Kinds, d \in DeviceConfigs : k = Chain[child] /\ d = key
  BY <1>1
<1>3. CASE ChildFailed
  <2>1. pc' = "SetErrored"
    BY <1>3 DEF ChildFailed, Goto
  <2> QED BY <2>1 DEF Progress
<1>4. ASSUME NextChild, Live(d) # None, ~Live(d).deleting,
             LiveChild(k, d)' # None, LiveChild(k, d)'.owner = cr.uid,
             \A l \in Kinds : l # k => LiveChild(l, d)' = LiveChild(l, d)
      PROVE  Progress'
  <2>1. key' = key /\ IF child < Len(Chain)
                      THEN child' = child + 1 /\ pc' = "GetChild"
                      ELSE child' = 0 /\ pc' = "SetReady"
    BY <1>4 DEF NextChild, Goto
  <2>2. ASSUME NEW i \in 1..child
        PROVE  LiveChild(Chain[i], d)' # None
               /\ LiveChild(Chain[i], d)'.owner = cr.uid
    <3>1. i \in 1..Len(Chain) /\ Chain[i] \in Kinds
      BY <1>1, ChainFacts
    <3>2. CASE Chain[i] = k
      BY <1>4, <3>2
    <3>3. CASE Chain[i] # k
      <4>1. i \in 1..(child - 1)
        BY <1>1, <1>2, <3>3
      <4>2. LiveChild(Chain[i], d) # None /\ LiveChild(Chain[i], d).owner = cr.uid
        BY <1>1, <1>2, <1>4, <4>1 DEF Progress, BroughtUp
      <4> QED BY <1>4, <3>1, <3>3, <4>2
    <3> QED BY <3>2, <3>3
  <2>3. \A i \in 1..child : LET c == LiveChild(Chain[i], key)' IN
                              c # None /\ c.owner = cr'.uid
    BY <1>1, <1>2, <2>1, <2>2 DEF LiveChild
  <2>4. child < Len(Chain) => child' - 1 = child
    BY <1>1, <2>1
  <2>5. ~(child < Len(Chain)) => Len(Chain) = child
    BY <1>1
  <2> QED BY <2>1, <2>3, <2>4, <2>5 DEF Progress, BroughtUp
<1>5. ASSUME Live(d) = None \/ Live(d).deleting, key' = key
      PROVE  Progress'
  BY <1>1, <1>2, <1>5 DEF Progress, Live
<1>6. CASE Accepted(k, d) /\ WriteChild(k, d, Applied(k, d)) /\ NextChild
  <2>1. Applied(k, d) \in Child /\ Applied(k, d).owner = cr.uid
    BY <1>1, <1>2, <1>6, BringsUpOwner
  <2> DEFINE new == Applied(k, d)
  <2> HIDE DEF new
  <2>2. new \in Child /\ new.owner = cr.uid /\ WriteChild(k, d, new)
    BY <1>6, <2>1 DEF new
  <2>3. /\ LiveChild(k, d)' = new /\ new # None
        /\ \A l \in Kinds : l # k => LiveChild(l, d)' = LiveChild(l, d)
    BY <2>2, WriteChildFacts, NoneAssumption DEF GuardInv, TypeOK
  <2>4. key' = key
    BY <1>6 DEF NextChild, Goto
  <2> QED BY <1>4, <1>5, <1>6, <2>2, <2>3, <2>4
<1>7. CASE NothingToPatch(k, d) /\ NextChild /\ UNCHANGED childView
  <2>1. /\ key' = key
        /\ \A l \in Kinds : LiveChild(l, d)' = LiveChild(l, d)
    BY <1>7 DEF NextChild, Goto, LiveChild
  <2>2. Live(d) # None /\ Live(d).uid = cr.uid /\ cr.uid = lastUID[d]
    BY <1>1, <1>2 DEF GuardInv, CopyInv, NormalSteps, NewestLives
  <2>3. CachedChild(k, d) \in Child /\ CachedChild(k, d).owner = cr.uid
    BY <1>1, <1>7, DesiredType DEF NothingToPatch
  <2>4. /\ Len(childView[k][d]) \in Nat /\ Len(childView[k][d]) > 0
        /\ CachedChild(k, d) # None
    BY <2>3, NoneAssumption DEF GuardInv, TypeOK, ClusterTypeOK
  <2>5. 1 \in 1..Len(childView[k][d])
        /\ Len(childView[k][d]) \in 1..Len(childView[k][d])
        /\ Len(childView[k][d]) \in Len(childView[k][d])..Len(childView[k][d])
    BY <2>4
  <2>6. LiveChild(k, d) = None => Live(d).deleting
    BY <2>2, <2>3, <2>4, <2>5 DEF ShownIsThere, CachedChild
  <2>7. ASSUME LiveChild(k, d) # None
        PROVE  LiveChild(k, d).owner = cr.uid
    <3>1. LiveChild(k, d) \in Child /\ lastUID[d] \in Nat
      BY <2>7, EndsTypeOK DEF GuardInv, TypeOK, ClusterTypeOK
    <3>2. LiveChild(k, d).owner \in Nat /\ cr.uid \in Nat
      BY <2>2, <3>1 DEF Child
    <3>3. LiveChild(k, d).owner <= lastUID[d]
          /\ CachedChild(k, d).owner <= LiveChild(k, d).owner
      BY <2>4, <2>5, <2>7 DEF HandedDown, CachedChild, LiveChild
    <3> QED BY <2>2, <2>3, <3>2, <3>3
  <2> QED BY <1>4, <1>5, <1>7, <2>1, <2>6, <2>7
<1> QED BY <1>2, <1>3, <1>6, <1>7 DEF CreateOrPatch

(* Every step keeps Progress.                                              *)
LEMMA ProgressStep ==
    ASSUME GuardInv, NewestLives, HandedDown, ShownIsThere, Progress,
           [Next]_vars, "tamper" \notin Env
    PROVE  Progress'
<1>1. \A failed \in BOOLEAN : Finish(failed) => pc' = "idle"
  BY DEF Finish
<1>2. ASSUME pc' = "GetChild" => child' = 1,
             pc' \notin {"CreateOrPatch", "SetReady"}
      PROVE  Progress'
  BY <1>2 DEF Progress, BroughtUp
<1>3. CASE Dequeue \/ Get \/ ValidateNodeSelector \/ DeleteModule
  <2>1. /\ pc' = "GetChild" => child' = 1
        /\ pc' \notin {"CreateOrPatch", "SetReady"}
    BY <1>1, <1>3 DEF Dequeue, Get, ValidateNodeSelector, DeleteModule, Goto
  <2> QED BY <1>2, <2>1
<1>4. CASE GetChild
  <2>1. /\ pc = "GetChild" /\ pc' \in {"CreateOrPatch", "SetErrored"}
        /\ key' = key /\ cr' = cr /\ child' = child
        /\ UNCHANGED <<dcView, childView>>
    BY <1>4 DEF GetChild, Goto, clusterVars
  <2>2. BroughtUp(child - 1) => BroughtUp(child - 1)'
    BY <2>1 DEF BroughtUp, LiveChild
  <2>3. Live(key)' = Live(key)
    BY <2>1 DEF Live
  <2> QED BY <2>1, <2>2, <2>3 DEF Progress
<1>5. CASE CreateOrPatch
  BY <1>5, NextChildProgress
<1>6. CASE SetConditionsErrored \/ SetConditionsReady \/ RemoveDeletionFinalizer
  <2>1. pc' = "idle"
    BY <1>6, FinalWrite, Removal
  <2> QED BY <1>2, <2>1
<1>7. CASE AddDeletionFinalizer
  <2> DEFINE object == [Live(key) EXCEPT !.finalizer = TRUE, !.spec = Stored(cr.spec)]
             A == /\ cr' = [cr EXCEPT !.finalizer = TRUE]
                  /\ Goto("GetChild") /\ child' = 1
                  /\ UNCHANGED <<fresh, found>>
             B == Finish(TRUE)
  <2>1. Update(object, A, B)
    BY <1>7, Zenon DEF AddDeletionFinalizer
  <2>2. A => pc' = "GetChild" /\ child' = 1
    BY DEF Goto
  <2>3. B => pc' = "idle"
    BY <1>1
  <2>4. faults \in 0..MaxFaults
    BY DEF GuardInv, TypeOK
  <2> HIDE DEF object, A, B
  <2>5. A \/ B
    BY <2>1, <2>4, UpdateEffect
  <2> QED BY <1>2, <2>2, <2>3, <2>5
<1>8. CASE Own \/ UNCHANGED vars
  BY <1>8, OwnWrites, StandingProgress DEF workerVars, vars
<1>9. CASE ByUsers
  BY <1>9, UserWrites, StandingProgress DEF GuardInv, ByUsers, UserOp
<1>10. CASE Crash
  BY <1>2, <1>10 DEF Crash
<1> QED BY <1>3, <1>4, <1>5, <1>6, <1>7, <1>8, <1>9, <1>10, StepKinds
        DEF Reading, Writing

(* Children of a DeviceConfig that says Ready stay, and Ready is written   *)
(* when they are there.                                                    *)
LEMMA ReadyStep ==
    ASSUME GuardInv, SuccessorWaits, DeployInv, [Next]_vars,
           "tamper" \notin Env
    PROVE  ReadyImpliesDeployed'
<1> SUFFICES ASSUME NEW d \in DeviceConfigs, NEW i \in 1..Len(Chain),
                    Live(d)' # None, ~Live(d)'.deleting,
                    Live(d)'.status = "Ready"
             PROVE  /\ LiveChild(Chain[i], d)' # None
                    /\ LiveChild(Chain[i], d)'.owner = Live(d)'.uid
  BY DEF ReadyImpliesDeployed, Owns
<1> PICK k \in Kinds : k = Chain[i]
  BY ChainFacts
<1>1. CASE Unwritten
  <2>1. Live(d)' = Live(d)
    BY <1>1, UnwrittenFacts DEF GuardInv, TypeOK
  <2>2. LiveChild(k, d) # None /\ Owns(d, LiveChild(k, d))
    BY <2>1 DEF DeployInv, ReadyImpliesDeployed
  <2>3. Live(d).finalizer
    BY <2>1 DEF DeployInv, ReadyProtected
  <2>4. ~(pc = "DeleteModule" /\ key = d)
    BY <2>1, <2>3 DEF SuccessorWaits, Unprotected
  <2>5. LiveChild(k, d)' # None /\ LiveChild(k, d)'.owner = LiveChild(k, d).owner
    BY <2>2, <2>4, OwnedStays DEF DeployInv
  <2> QED BY <2>1, <2>2, <2>5 DEF Owns
<1>2. ASSUME UNCHANGED childView,
             Live(d) # None, Live(d).uid = Live(d)'.uid, ~Live(d).deleting,
             Live(d).status = "Ready"
      PROVE  /\ LiveChild(k, d)' # None
             /\ LiveChild(k, d)'.owner = Live(d)'.uid
  BY <1>2 DEF DeployInv, ReadyImpliesDeployed, Owns, LiveChild
<1>3. ASSUME NEW e \in DeviceConfigs, NEW object \in {None} \cup DCObject,
             WriteDC(e, object), e # d, UNCHANGED childView
      PROVE  /\ LiveChild(k, d)' # None
             /\ LiveChild(k, d)'.owner = Live(d)'.uid
  <2>1. Live(d)' = Live(d)
    BY <1>3, WriteDCFacts DEF GuardInv, TypeOK
  <2> QED BY <1>2, <1>3, <2>1
<1>4. ASSUME NEW object \in {None} \cup DCObject, WrittenByUser(d, object)
      PROVE  /\ LiveChild(k, d)' # None
             /\ LiveChild(k, d)'.owner = Live(d)'.uid
  <2>1. Live(d)' = object
    BY <1>4, WriteDCFacts DEF WrittenByUser, GuardInv, TypeOK
  <2>2. Edited(d, object) /\ UNCHANGED childView
    BY <1>4, <2>1 DEF WrittenByUser, Created
  <2>3. object \in DCObject
    BY <1>4, <2>1
  <2> QED BY <1>2, <2>1, <2>2, <2>3 DEF Edited, DCObject
<1>5. ASSUME key = d, NEW object \in {None} \cup DCObject,
             WrittenByWorker(object)
      PROVE  /\ LiveChild(k, d)' # None
             /\ LiveChild(k, d)'.owner = Live(d)'.uid
  <2>1. Live(d)' = object
    BY <1>5, WriteDCFacts DEF WrittenByWorker, GuardInv, TypeOK
  <2>2. Updated(object) /\ UNCHANGED childView
    BY <1>5, <2>1 DEF WrittenByWorker
  <2>3. CASE pc = "SetReady"
    <3>1. LiveChild(k, d) # None /\ LiveChild(k, d).owner = cr.uid
      <4>1. Live(d) # None /\ ~Live(d).deleting
        BY <1>5, <2>1, <2>2 DEF Updated
      <4> QED BY <1>5, <2>3, <4>1 DEF DeployInv, Progress, BroughtUp
    <3>2. cr.uid = Live(d)'.uid
      BY <1>5, <2>1, <2>2, <2>3 DEF Updated, GuardInv, FreshInv
    <3> QED BY <2>2, <3>1, <3>2 DEF LiveChild
  <2>4. CASE pc # "SetReady"
    BY <1>2, <1>5, <2>1, <2>2, <2>4 DEF Updated
  <2> QED BY <2>3, <2>4
<1>6. ~Unwritten => /\ LiveChild(k, d)' # None
                    /\ LiveChild(k, d)'.owner = Live(d)'.uid
  BY <1>3, <1>4, <1>5, ServerStep DEF GuardInv, WrittenByUser, WrittenByWorker
<1> QED BY <1>1, <1>6

(* As long as only the operator and the garbage collector delete children, *)
(* a DeviceConfig that says Ready and is not being deleted has all of its  *)
(* children, and they are its own: after a recreation under the same name  *)
(* the operator has taken over what its predecessor left, so that nothing  *)
(* of it is collected afterwards.  (deviceconfig_controller.go:149-182)    *)
THEOREM ReadyIsDeployed ==
    ASSUME "tamper" \notin Env
    PROVE  Spec => []ReadyImpliesDeployed
<1>1. Init => DeployInv
  <2> SUFFICES ASSUME Init PROVE DeployInv
    OBVIOUS
  <2>1. dcView[1] = [d \in DeviceConfigs |-> None] /\ Len(dcView) = 1
        /\ pc = "idle"
    BY DEF Init
  <2>2. \A d \in DeviceConfigs : Live(d) = None
    BY <2>1 DEF Live
  <2>3. HandedDown
    <3>1. \A k \in Kinds, d \in DeviceConfigs :
            Len(childView[k][d]) = 1 /\ childView[k][d][1] = None
      BY DEF Init
    <3> QED BY <3>1 DEF HandedDown
  <2> QED BY <2>1, <2>2, <2>3 DEF DeployInv, NewestLives, ReadyProtected,
          Progress, ShownIsThere, ReadyImpliesDeployed
<1>2. GuardInv /\ SuccessorWaits /\ DeployInv /\ [Next]_vars => DeployInv'
  <2> SUFFICES ASSUME GuardInv, SuccessorWaits, DeployInv, [Next]_vars
               PROVE  DeployInv'
    OBVIOUS
  <2>1. NewestLives' /\ ReadyProtected'
    BY NewestStep DEF DeployInv
  <2>2. HandedDown'
    BY HandedDownStep DEF DeployInv
  <2>3. Progress'
    BY ProgressStep DEF DeployInv
  <2>4. ShownIsThere'
    BY ShownIsThereStep DEF DeployInv
  <2>5. ReadyImpliesDeployed'
    BY ReadyStep
  <2> QED BY <2>1, <2>2, <2>3, <2>4, <2>5 DEF DeployInv
<1>3. DeployInv => ReadyImpliesDeployed
  BY DEF DeployInv
<1> QED BY <1>1, <1>2, <1>3, GuardInvariant, SuccessorsWait, PTL DEF Spec

-----------------------------------------------------------------------------
(* A controller that may not be alone: what holds of it whatever another   *)
(* one does to the same cluster, as long as that one is no worse.          *)

(* Once a version of the live DeviceConfig has the finalizer, the live one *)
(* has it too: it goes with the object.                                    *)
FinalizerLasts ==
    \A d \in DeviceConfigs : \A object \in Known(d) : object # None =>
        /\ object.uid <= lastUID[d]
        /\ object.finalizer /\ Live(d) # None /\ Live(d).uid = object.uid
           => Live(d).finalizer

(* The owner of a Module is, or was, a DeviceConfig.                       *)
OwnersKnown ==
    \A d \in DeviceConfigs : LET m == LiveChild("Module", d) IN
        m # None => m.owner <= lastUID[d]

(* The worker brings up children with a copy that has the finalizer.       *)
CopyGuarded == pc \in {"GetChild", "CreateOrPatch"} => cr.finalizer

(* A Module that belongs to the live DeviceConfig is guarded.              *)
OwnedGuarded ==
    \A d \in DeviceConfigs : LET m == LiveChild("Module", d) IN
        m # None /\ Owns(d, m) => Live(d).finalizer

(* All of it together.                                                     *)
SharingInv ==
    /\ TypeOK /\ FreshInv /\ FreshSpec /\ FinalizerLasts /\ CopyGuarded
    /\ OwnersKnown /\ OwnedGuarded

(* The live DeviceConfig goes, is updated, or comes with a new uid.        *)
LiveMoves(d) ==
    /\ lastUID[d] \in Nat /\ lastUID'[d] \in Nat /\ lastUID[d] <= lastUID'[d]
    /\ \/ Live(d)' = None
       \/ /\ Live(d) \in DCObject /\ Live(d) # None /\ Live(d)' \in DCObject
          /\ Live(d)'.uid = Live(d).uid
          /\ Live(d).finalizer => Live(d)'.finalizer
       \/ /\ Live(d) = None /\ Live(d)' \in DCObject
          /\ Live(d)'.uid = lastUID[d] + 1 /\ Live(d)'.uid <= lastUID'[d]

(* It always does.                                                         *)
LEMMA LiveAlwaysMoves ==
    ASSUME TypeOK, FreshInv, [Next]_vars, NEW d \in DeviceConfigs
    PROVE  LiveMoves(d)
<1>1. /\ lastUID[d] \in Nat /\ lastUID'[d] \in Nat /\ lastUID[d] <= lastUID'[d]
      /\ Live(d) \in {None} \cup DCObject /\ lastUID \in [DeviceConfigs -> Nat]
  BY UIDsGrow, EndsTypeOK DEF TypeOK, ClusterTypeOK
<1>2. Live(d)' = Live(d) => LiveMoves(d)
  BY <1>1 DEF LiveMoves
<1>3. CASE Unwritten
  BY <1>2, <1>3, UnwrittenFacts DEF TypeOK
<1>4. ASSUME NEW e \in DeviceConfigs, NEW object \in {None} \cup DCObject,
             WriteDC(e, object)
      PROVE  Live(d)' = IF d = e THEN object ELSE Live(d)
  BY <1>4, WriteDCFacts DEF TypeOK
<1>5. ASSUME NEW e \in DeviceConfigs, NEW object \in {None} \cup DCObject,
             WrittenByUser(e, object)
      PROVE  LiveMoves(d)
  <2>1. Live(d)' = IF d = e THEN object ELSE Live(d)
    BY <1>4, <1>5 DEF WrittenByUser
  <2>2. CASE d = e /\ object \in DCObject /\ Created(d, object)
    BY <1>1, <2>1, <2>2 DEF Created, LiveMoves
  <2>3. CASE d = e /\ object \in DCObject /\ Edited(d, object)
    BY <1>1, <2>1, <2>3 DEF Edited, LiveMoves
  <2>4. CASE d = e /\ object = None
    BY <1>1, <2>1, <2>4 DEF LiveMoves
  <2> QED BY <1>2, <1>5, <2>1, <2>2, <2>3, <2>4 DEF WrittenByUser
<1>6. ASSUME key \in DeviceConfigs, NEW object \in {None} \cup DCObject,
             WrittenByWorker(object)
      PROVE  LiveMoves(d)
  <2>1. Live(d)' = IF d = key THEN object ELSE Live(d)
    BY <1>4, <1>6 DEF WrittenByWorker
  <2>2. CASE d = key /\ object \in DCObject /\ Updated(object)
    <3>1. Live(d).finalizer => object.finalizer
      BY <2>2 DEF Updated
    <3> QED BY <1>1, <2>1, <2>2, <3>1 DEF Updated, LiveMoves
  <2>3. CASE d = key /\ object = None
    BY <1>1, <2>1, <2>3 DEF LiveMoves
  <2> QED BY <1>2, <1>6, <2>1, <2>2, <2>3 DEF WrittenByWorker
<1> QED BY <1>3, <1>5, <1>6, ServerStep

(* A step leaves older versions, and the one it writes.                    *)
LEMMA VersionsStep ==
    ASSUME TypeOK, FreshInv, [Next]_vars, NEW d \in DeviceConfigs
    PROVE  Versions(d)' \subseteq Versions(d) \cup {Live(d)'}
<1>1. CASE Unwritten
  <2>1. UNCHANGED dcView => Versions(d)' = Versions(d)
    BY DEF Versions
  <2>2. Live(d) \in Versions(d)
    BY LiveIsVersion DEF TypeOK
  <2> QED BY <1>1, <2>1, <2>2, DeliverDCFacts, CrashFacts DEF Unwritten, TypeOK
<1>2. ASSUME NEW e \in DeviceConfigs, NEW object \in {None} \cup DCObject,
             WriteDC(e, object)
      PROVE  Versions(d)' \subseteq Versions(d) \cup {Live(d)'}
  BY <1>2, WriteDCFacts DEF TypeOK
<1> QED BY <1>1, <1>2, ServerStep DEF WrittenByUser, WrittenByWorker

(* What was known before a step, or has been written by it, is not ahead   *)
(* of the live DeviceConfig.                                               *)
LEMMA KnownBehind ==
    ASSUME TypeOK, FinalizerLasts, NEW d \in DeviceConfigs, LiveMoves(d),
           NEW object, object \in Known(d) \/ object = Live(d)', object # None,
           object \in DCObject
    PROVE  /\ object.uid <= lastUID'[d]
           /\ object.finalizer /\ Live(d)' # None /\ Live(d)'.uid = object.uid
              => Live(d)'.finalizer
<1>1. object.uid \in Nat /\ lastUID[d] \in Nat /\ lastUID'[d] \in Nat
      /\ lastUID[d] <= lastUID'[d]
  BY DEF LiveMoves, DCObject
<1>2. CASE object \in Known(d)
  <2>1. /\ object.uid <= lastUID[d]
        /\ object.finalizer /\ Live(d) # None /\ Live(d).uid = object.uid
           => Live(d).finalizer
    BY <1>2 DEF FinalizerLasts
  <2>2. ~(Live(d)'.uid = lastUID[d] + 1 /\ Live(d)'.uid = object.uid)
    BY <1>1, <2>1
  <2>3. object.uid <= lastUID'[d]
    BY <1>1, <2>1
  <2> QED BY <2>1, <2>2, <2>3 DEF LiveMoves
<1>3. CASE object = Live(d)'
  <2>1. Live(d) # None => Live(d) \in Known(d)
    BY LiveIsVersion DEF TypeOK, Known
  <2>2. Live(d) # None => Live(d).uid <= lastUID[d]
    BY <2>1 DEF FinalizerLasts
  <2>3. object.uid <= lastUID'[d]
    BY <1>1, <1>3, <2>2 DEF LiveMoves
  <2> QED BY <1>3, <2>3
<1> QED BY <1>2, <1>3

(* What is known after a step is of the right kind.                        *)
LEMMA NextTypes ==
    ASSUME TypeOK', NEW d \in DeviceConfigs
    PROVE  /\ \A object \in Known(d)' : object \in {None} \cup DCObject
           /\ LiveChild("Module", d)' \in {None} \cup Child
<1>1. \A i \in 1..Len(dcView') : dcView'[i] \in DCMap
  BY DEF TypeOK, ClusterTypeOK
<1>2. \A i \in 1..Len(dcView') : dcView'[i][d] \in {None} \cup DCObject
  BY <1>1 DEF DCMap
<1>3. \A object \in Known(d)' : object \in {None} \cup DCObject
  BY <1>2 DEF Known, Versions, TypeOK, WorkerTypeOK
<1>4. /\ childView'["Module"][d] \in Seq({None} \cup Child)
      /\ Len(childView'["Module"][d]) > 0
  BY ChainFacts DEF TypeOK, ClusterTypeOK
<1>5. LiveChild("Module", d)' \in {None} \cup Child
  BY <1>4 DEF LiveChild
<1> QED BY <1>3, <1>5

(* A step of the worker, or of the cluster around it, keeps the invariant. *)
LEMMA SharingStep ==
    ASSUME SharingInv, [Next]_vars
    PROVE  SharingInv'
<1> USE DEF SharingInv
<1>1. TypeOK' /\ FreshInv' /\ FreshSpec'
  BY TypeStep, FreshSpecStep
<1>2. ASSUME NEW d \in DeviceConfigs
      PROVE  LiveMoves(d)
  BY LiveAlwaysMoves
<1>3. FinalizerLasts'
  <2> SUFFICES ASSUME NEW d \in DeviceConfigs, NEW object \in Known(d)',
                      object # None
               PROVE  /\ object.uid <= lastUID'[d]
                      /\ object.finalizer /\ Live(d)' # None
                           /\ Live(d)'.uid = object.uid
                         => Live(d)'.finalizer
    BY DEF FinalizerLasts
  <2>1. object \in DCObject
    BY <1>1, NextTypes
  <2>2. CASE object \in Known(d) \/ object = Live(d)'
    BY <1>2, <2>1, <2>2, KnownBehind
  <2>3. CASE ~(object \in Known(d) \/ object = Live(d)')
    <3>1. HoldsCopy' /\ d = key' /\ object = cr'
      BY <2>3, VersionsStep DEF Known
    <3>2. key' = key
      BY <3>1, CopyStep
    <3>3. Cached(d) \in Known(d)
      BY DEF Known, Versions, Cached, TypeOK, ClusterTypeOK
    <3>4. /\ HoldsCopy /\ cr \in DCObject /\ cr \in Known(d)
          /\ cr'.uid = cr.uid
          /\ Live(key)' # None /\ Live(key)'.finalizer
      BY <2>3, <3>1, <3>2, <3>3, CopyStep DEF Known
    <3>5. cr.uid <= lastUID'[d]
      BY <1>2, <3>4, NoneAssumption, KnownBehind
    <3> QED BY <3>1, <3>2, <3>4, <3>5 DEF Live
  <2> QED BY <2>2, <2>3
<1>4. CopyGuarded'
  BY CopyStep DEF CopyGuarded, HoldsCopy
<1>5. ASSUME NEW d \in DeviceConfigs, LiveChild("Module", d)' # None
      PROVE  /\ LiveChild("Module", d)'.owner <= lastUID'[d]
             /\ Live(d)' # None
                  /\ Live(d)'.uid = LiveChild("Module", d)'.owner
                => Live(d)'.finalizer
  <2> DEFINE m == LiveChild("Module", d)
  <2>1. /\ lastUID[d] \in Nat /\ lastUID'[d] \in Nat /\ lastUID[d] <= lastUID'[d]
        /\ LiveChild("Module", d)' \in Child
    BY <1>1, <1>2, <1>5, NextTypes DEF LiveMoves
  <2>2. LiveChild("Module", d)'.owner \in Nat
    BY <2>1 DEF Child
  <2>3. ASSUME m # None, m.owner = LiveChild("Module", d)'.owner
        PROVE  /\ LiveChild("Module", d)'.owner <= lastUID'[d]
               /\ Live(d)' # None
                    /\ Live(d)'.uid = LiveChild("Module", d)'.owner
                  => Live(d)'.finalizer
    <3>1. /\ m.owner <= lastUID[d]
          /\ Live(d) # None /\ Live(d).uid = m.owner => Live(d).finalizer
      BY <2>3 DEF OwnersKnown, OwnedGuarded, Owns
    <3>2. ~(Live(d)'.uid = lastUID[d] + 1 /\ Live(d)'.uid = m.owner)
      BY <2>1, <2>2, <2>3, <3>1
    <3>3. m.owner <= lastUID'[d]
      BY <2>1, <2>2, <2>3, <3>1
    <3> QED BY <1>2, <2>3, <3>1, <3>2, <3>3 DEF LiveMoves
  <2>4. CASE LiveChild("Module", d)' = m
    BY <1>5, <2>3, <2>4
  <2>5. CASE LiveChild("Module", d)' # m
    <3>1. /\ BringsUp("Module", d) /\ pc = "CreateOrPatch" /\ d = key
          /\ LiveChild("Module", d)' = Applied("Module", d)
      BY <1>5, <2>5, OneModuleStep
    <3>2. /\ cr \in DCObject /\ cr.finalizer /\ cr \in Known(d) /\ cr # None
          /\ Accepted("Module", d) /\ UNCHANGED dcView
      BY <3>1, NoneAssumption DEF TypeOK, WorkerTypeOK, CopyGuarded, Known,
         HoldsCopy, BringsUp, CreateOrPatch
    <3>3. \/ Applied("Module", d).owner = cr.uid
          \/ m # None /\ Applied("Module", d).owner = m.owner
      BY <3>2, AppliedType, ChainFacts DEF TypeOK
    <3>4. /\ cr.uid <= lastUID'[d]
          /\ Live(d)' # None /\ Live(d)'.uid = cr.uid => Live(d)'.finalizer
      BY <1>2, <3>2, KnownBehind
    <3> QED BY <2>3, <3>1, <3>3, <3>4
  <2> QED BY <2>4, <2>5
<1>6. OwnersKnown' /\ OwnedGuarded'
  BY <1>5 DEF OwnersKnown, OwnedGuarded, Owns
<1> QED BY <1>1, <1>3, <1>4, <1>6

(* And so does a step of another controller, which this one will see: its  *)
(* own worker stands still, and its copy is as fresh as it can be.         *)
LEMMA BystanderStep ==
    ASSUME SharingInv, TypeOK', OwnersKnown', OwnedGuarded',
           \A d \in DeviceConfigs :
             LiveMoves(d) /\ Versions(d)' \subseteq Versions(d) \cup {Live(d)'},
           \/ pc' = "idle" /\ ~fresh'
           \/ /\ pc' = pc /\ key' = key /\ cr' = cr
              /\ fresh' => fresh /\ Live(key)' = Live(key)
    PROVE  SharingInv'
<1> USE DEF SharingInv
<1>1. FreshInv' /\ FreshSpec'
  <2> SUFFICES ASSUME fresh'
               PROVE  FreshInv' /\ FreshSpec'
    BY DEF FreshInv, FreshSpec
  <2>1. /\ fresh /\ pc' = pc /\ cr' = cr /\ key' = key
        /\ Live(key)' = Live(key)
    OBVIOUS
  <2> QED BY <2>1 DEF FreshInv, FreshSpec
<1>2. FinalizerLasts'
  <2> SUFFICES ASSUME NEW d \in DeviceConfigs, NEW object \in Known(d)',
                      object # None
               PROVE  /\ object.uid <= lastUID'[d]
                      /\ object.finalizer /\ Live(d)' # None
                           /\ Live(d)'.uid = object.uid
                         => Live(d)'.finalizer
    BY DEF FinalizerLasts
  <2>1. object \in Known(d) \/ object = Live(d)'
    BY DEF Known, HoldsCopy
  <2>2. object \in DCObject
    BY NextTypes
  <2> QED BY <2>1, <2>2, KnownBehind
<1>3. CopyGuarded'
  BY DEF CopyGuarded
<1> QED BY <1>1, <1>2, <1>3
=============================================================================
