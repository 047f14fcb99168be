------------------------ MODULE DriverLifecycleProofs ------------------------
(***************************************************************************)
(* DeviceConfigController implements DriverLifecycle, for any number of    *)
(* DeviceConfigs, children, user operations, failed calls and crashes.     *)
(***************************************************************************)
EXTENDS DeviceConfigControllerProofs

-----------------------------------------------------------------------------
(* SuccessorWaits is an invariant, given GuardInv.                         *)

DeletionSteps == {"DeleteModule", "RemoveFinalizer"}

(* A step that writes no DeviceConfig, and a worker that goes on with the  *)
(* copy it has or has none.                                                *)
LEMMA NoWriteWaits ==
    ASSUME SuccessorWaits,
           \A d \in DeviceConfigs :
             Live(d)' = Live(d) /\ Versions(d)' \subseteq Versions(d),
           \/ pc' \in {"idle", "Get"}
           \/ /\ key' = key /\ key \in DeviceConfigs
              /\ pc' \in DeletionSteps => pc \in DeletionSteps
              /\ fresh' /\ pc' \in NormalSteps => fresh /\ pc \in NormalSteps
    PROVE  SuccessorWaits'
<1>1. ASSUME NEW d \in DeviceConfigs, NEW object \in Versions(d)',
             object # None /\ object.deleting
      PROVE  Unprotected(d)'
  BY <1>1 DEF SuccessorWaits, Unprotected
<1>2. CASE pc' \in {"idle", "Get"}
  BY <1>1, <1>2 DEF SuccessorWaits, NormalSteps
<1>3. CASE /\ key' = key /\ key \in DeviceConfigs
           /\ pc' \in DeletionSteps => pc \in DeletionSteps
           /\ fresh' /\ pc' \in NormalSteps => fresh /\ pc \in NormalSteps
  <2>1. Live(key)' = Live(key) /\ Versions(key)' \subseteq Versions(key)
    BY <1>3 DEF Live, Versions
  <2>2. pc' \in DeletionSteps => Unprotected(key)'
    BY <1>3, <2>1 DEF SuccessorWaits, Unprotected, DeletionSteps
  <2>3. fresh' /\ pc' \in NormalSteps =>
            \A object \in Versions(key)' : object = None \/ ~object.deleting
    BY <1>3, <2>1 DEF SuccessorWaits
  <2> QED BY <1>1, <2>2, <2>3 DEF SuccessorWaits, DeletionSteps
<1> QED BY <1>2, <1>3

(* A write that does not protect the DeviceConfig, by a user or as the     *)
(* last call of a reconcile.                                               *)
LEMMA WriteWaits ==
    ASSUME GuardInv, SuccessorWaits, NEW d \in DeviceConfigs,
           NEW object \in {None} \cup DCObject, WriteDC(d, object),
           Unprotected(d) =>
             object = None \/ object.deleting \/ ~object.finalizer,
           pc' = "idle" \/ UserOp(d)
    PROVE  SuccessorWaits'
<1>1. /\ Live(d)' = object
      /\ \A e \in DeviceConfigs \ {d} : Live(e)' = Live(e)
      /\ \A e \in DeviceConfigs :
            Versions(e)' \subseteq Versions(e) \cup {Live(e)'}
  BY WriteDCFacts DEF GuardInv, TypeOK
<1>2. \A e \in DeviceConfigs : Live(e) \in Versions(e)
  BY LiveIsVersion DEF GuardInv, TypeOK
<1>3. \A e \in DeviceConfigs : Unprotected(e) => Unprotected(e)'
  BY <1>1 DEF Unprotected
<1>4. ASSUME NEW e \in DeviceConfigs, NEW o \in Versions(e)',
             o # None /\ o.deleting
      PROVE  Unprotected(e)'
  <2>1. CASE o \in Versions(e)
    BY <1>3, <1>4, <2>1 DEF SuccessorWaits
  <2>2. CASE o = Live(e)'
    BY <1>4, <2>2 DEF Unprotected
  <2> QED BY <1>1, <1>4, <2>1, <2>2
<1>5. CASE pc' = "idle"
  BY <1>4, <1>5 DEF SuccessorWaits, NormalSteps
<1>6. CASE UserOp(d)
  <2>1. pc' = pc /\ key' = key /\ (fresh' => fresh /\ d # key)
    BY <1>6 DEF UserOp, Outdate
  <2>2. pc # "idle" => key \in DeviceConfigs
    BY DEF GuardInv, TypeOK, WorkerTypeOK
  <2>3. pc' \in DeletionSteps => Unprotected(key)'
    <3>1. SUFFICES ASSUME pc \in DeletionSteps
                   PROVE  Unprotected(key)'
      BY <2>1
    <3>2. key \in DeviceConfigs /\ Unprotected(key)
      BY <2>2, <3>1 DEF DeletionSteps, SuccessorWaits
    <3> QED BY <1>3, <2>1, <3>2 DEF Unprotected, Live
  <2>4. fresh' /\ pc' \in NormalSteps =>
            \A o \in Versions(key)' : o = None \/ ~o.deleting
    <3>1. SUFFICES ASSUME fresh', pc \in NormalSteps
                   PROVE  \A o \in Versions(key)' : o = None \/ ~o.deleting
      BY <2>1
    <3>2. key \in DeviceConfigs \ {d} /\ fresh
      BY <2>1, <2>2, <3>1 DEF NormalSteps
    <3>3. dcView'[Len(dcView')][key] = Live(key)
          /\ {dcView'[i][key] : i \in 1..Len(dcView')} \subseteq Versions(key)
      BY <1>1, <1>2, <3>2 DEF Live, Versions
    <3>4. Versions(key)' \subseteq Versions(key)
      BY <2>1, <3>3 DEF Versions
    <3> QED BY <2>1, <3>1, <3>2, <3>4 DEF SuccessorWaits
  <2> QED BY <1>4, <2>3, <2>4 DEF SuccessorWaits, DeletionSteps
<1> QED BY <1>5, <1>6

(* A reconcile starts with what the cache has.                             *)
LEMMA GetWaits ==
    ASSUME GuardInv, SuccessorWaits, Get
    PROVE  SuccessorWaits'
<1>1. key \in DeviceConfigs /\ UNCHANGED dcView
  BY DEF Get, GuardInv, TypeOK, WorkerTypeOK, clusterVars
<1>2. \A d \in DeviceConfigs : Live(d)' = Live(d) /\ Versions(d)' = Versions(d)
  BY <1>1 DEF Live, Versions
<1>3. CASE pc' = "idle"
  BY <1>2, <1>3, NoWriteWaits
<1>4. CASE /\ ~Finished(Cached(key))
           /\ cr' = Cached(key)
           /\ fresh' = UpToDate(key)
           /\ IF Cached(key).deleting
              THEN SetGauge("ok") /\ Goto("DeleteModule")
              ELSE UNCHANGED gauge /\ Goto("Validate")
  <2>1. /\ key' = key /\ Cached(key) # None
        /\ pc' = IF Cached(key).deleting THEN "DeleteModule" ELSE "Validate"
    BY <1>4 DEF Goto, Finished
  <2>2. Cached(key) \in Versions(key)
    <3>1. Len(dcView) \in Nat /\ Len(dcView) > 0
      BY DEF GuardInv, TypeOK, ClusterTypeOK
    <3> QED BY <3>1 DEF Versions, Cached
  <2>3. Live(key)' = Live(key) /\ Versions(key)' = Versions(key)
    BY <1>1, <2>1 DEF Live, Versions
  <2>4. pc' \in DeletionSteps => Unprotected(key)'
    BY <1>1, <2>1, <2>2, <2>3 DEF DeletionSteps, SuccessorWaits, Unprotected
  <2>5. fresh' /\ pc' \in NormalSteps =>
            \A o \in Versions(key)' : o = None \/ ~o.deleting
    BY <1>4, <2>1, <2>3 DEF NormalSteps, UpToDate
  <2>6. \A d \in DeviceConfigs :
          (\E o \in Versions(d)' : o # None /\ o.deleting) => Unprotected(d)'
    BY <1>2 DEF SuccessorWaits, Unprotected
  <2> QED BY <2>4, <2>5, <2>6 DEF SuccessorWaits, DeletionSteps
<1>5. \A failed \in BOOLEAN : Finish(failed) => pc' = "idle"
  BY DEF Finish
<1> QED BY <1>3, <1>4, <1>5 DEF Get

(* The finalizer is added to an object no version of which is being        *)
(* deleted.                                                                *)
LEMMA AddFinalizerWaits ==
    ASSUME GuardInv, SuccessorWaits, AddDeletionFinalizer
    PROVE  /\ SuccessorWaits'
           /\ \/ UNCHANGED dcView
              \/ /\ fresh
                 /\ WriteDC(key, [Live(key) EXCEPT !.finalizer = TRUE,
                                                   !.spec = Stored(cr.spec)])
<1> DEFINE object == [Live(key) EXCEPT !.finalizer = TRUE, !.spec = Stored(cr.spec)]
           A == /\ cr' = [cr EXCEPT !.finalizer = TRUE]
                /\ Goto("GetChild") /\ child' = 1
                /\ UNCHANGED <<fresh, found>>
           B == Finish(TRUE)
<1>1. key \in DeviceConfigs /\ cr \in DCObject /\ pc = "AddFinalizer"
  BY DEF AddDeletionFinalizer, GuardInv, TypeOK, WorkerTypeOK
<1>2. \/ A /\ fresh /\ WriteDC(key, object)
      \/ B /\ (UNCHANGED dcView \/ (fresh /\ WriteDC(key, object)))
  <2>1. Update(object, A, B)
    BY Zenon DEF AddDeletionFinalizer
  <2>2. faults \in 0..MaxFaults
    BY DEF GuardInv, TypeOK
  <2> HIDE DEF object, A, B
  <2> QED BY <2>1, <2>2, UpdateEffect
<1>3. A => pc' = "GetChild" /\ key' = key /\ fresh' = fresh
  BY DEF Goto
<1>4. B => pc' = "idle"
  BY DEF Finish
<1>5. ASSUME UNCHANGED dcView, B
      PROVE  SuccessorWaits'
  <2>1. \A d \in DeviceConfigs : Live(d)' = Live(d) /\ Versions(d)' = Versions(d)
    BY <1>5 DEF Live, Versions
  <2> QED BY <1>4, <1>5, <2>1, NoWriteWaits
<1>6. ASSUME fresh, WriteDC(key, object)
      PROVE  SuccessorWaits'
  <2>1. object \in DCObject /\ object.deleting = Live(key).deleting
    <3>1. Stored(cr.spec) \in Specs
      BY <1>1, StoredType DEF DCObject
    <3>2. Live(key) \in DCObject
      BY <1>1, <1>6, EndsTypeOK DEF FreshInv, GuardInv, TypeOK
    <3> QED BY <3>1, <3>2 DEF DCObject
  <2>2. \A o \in Versions(key) : o = None \/ ~o.deleting
    BY <1>1, <1>6 DEF SuccessorWaits, NormalSteps
  <2>3. Live(key) # None /\ Live(key) \in Versions(key)
    BY <1>1, <1>6, LiveIsVersion DEF GuardInv, FreshInv, TypeOK
  <2>4. ~object.deleting
    BY <2>1, <2>2, <2>3
  <2> HIDE DEF object
  <2>5. ASSUME NEW d \in DeviceConfigs
        PROVE  /\ d # key => Live(d)' = Live(d)
               /\ d # key => Versions(d)' \subseteq Versions(d)
               /\ d = key => Versions(d)' \subseteq Versions(d) \cup {object}
    <3>1. /\ d # key => Live(d)' = Live(d)
          /\ d = key => Live(d)' = object
          /\ Versions(d)' \subseteq Versions(d) \cup {Live(d)'}
      BY <1>1, <1>6, <2>1, WriteDCFacts DEF GuardInv, TypeOK
    <3>2. Live(d) \in Versions(d)
      BY LiveIsVersion DEF GuardInv, TypeOK
    <3> QED BY <3>1, <3>2
  <2>6. \A d \in DeviceConfigs :
          (\E o \in Versions(d)' : o # None /\ o.deleting) => Unprotected(d)'
    BY <2>2, <2>4, <2>5 DEF SuccessorWaits, Unprotected
  <2>7. CASE A
    <3>1. \A o \in Versions(key)' : o = None \/ ~o.deleting
      <4>1. {dcView'[i][key] : i \in 1..Len(dcView')}
                \subseteq Versions(key) \cup {object}
        BY <1>1, <2>5 DEF Versions
      <4> QED BY <1>3, <2>2, <2>4, <2>7, <4>1 DEF Versions
    <3> HIDE DEF A
    <3> QED BY <1>3, <2>6, <2>7, <3>1 DEF SuccessorWaits
  <2>8. CASE B
    <3> HIDE DEF B
    <3> QED BY <1>4, <2>6, <2>8 DEF SuccessorWaits, NormalSteps
  <2> QED BY <1>2, <2>7, <2>8
<1> QED BY <1>2, <1>5, <1>6

(* What an update that ends a reconcile may write, and what it leaves.     *)
LEMMA FinalWrite ==
    ASSUME GuardInv, SetConditionsErrored \/ SetConditionsReady
    PROVE  /\ key \in DeviceConfigs /\ pc' = "idle" /\ UNCHANGED childView
           /\ \/ UNCHANGED dcView
              \/ \E object \in DCObject :
                    /\ Live(key) # None
                    /\ object.finalizer = Live(key).finalizer
                    /\ object.deleting = Live(key).deleting
                    /\ WriteDC(key, object)
<1>1. /\ key \in DeviceConfigs /\ UNCHANGED childView
      /\ pc = "SetErrored" => child \in 1..Len(Chain)
  <2>1. pc \in {"SetErrored", "SetReady"} /\ UNCHANGED childView
    BY Zenon DEF SetConditionsErrored, SetConditionsReady
  <2> QED BY <2>1, ChainFacts DEF GuardInv, TypeOK, WorkerTypeOK
<1>2. fresh => Live(key) # None /\ Live(key) \in DCObject
  BY <1>1, EndsTypeOK DEF GuardInv, FreshInv, TypeOK
<1>3. CASE SetConditionsErrored
  <2> DEFINE object == [Live(key) EXCEPT !.status = ReasonFor(Chain[child])]
  <2>1. fresh => /\ object \in DCObject /\ object.finalizer = Live(key).finalizer
                 /\ object.deleting = Live(key).deleting
    <3>1. ReasonFor(Chain[child]) \in Statuses
      BY <1>1, <1>3, ChainFacts DEF SetConditionsErrored
    <3> QED BY <1>2, <3>1 DEF DCObject
  <2>2. /\ Update(object, Finish(TRUE), Finish(TRUE))
        /\ UNCHANGED <<childView, lastUID, ops, crashes>>
    BY <1>3, Zenon DEF SetConditionsErrored
  <2> HIDE DEF object
  <2>3. pc' = "idle" /\ (UNCHANGED dcView \/ (fresh /\ WriteDC(key, object)))
    BY <1>1, <2>1, <2>2, FinalUpdateType DEF GuardInv
  <2> QED BY <1>1, <1>2, <2>1, <2>3
<1>4. CASE SetConditionsReady
  <2> DEFINE object == [Live(key) EXCEPT !.status = "Ready"]
  <2>1. fresh => /\ object \in DCObject /\ object.finalizer = Live(key).finalizer
                 /\ object.deleting = Live(key).deleting
    BY <1>2 DEF DCObject, Statuses
  <2>2. /\ Update(object, Finish(FALSE), Finish(TRUE))
        /\ UNCHANGED <<childView, lastUID, ops, crashes>>
    BY <1>4 DEF SetConditionsReady
  <2> HIDE DEF object
  <2>3. pc' = "idle" /\ (UNCHANGED dcView \/ (fresh /\ WriteDC(key, object)))
    BY <1>1, <2>1, <2>2, FinalUpdateType DEF GuardInv
  <2> QED BY <1>1, <1>2, <2>1, <2>3
<1> QED BY <1>3, <1>4

(* The same for the removal of the finalizer.                              *)
LEMMA Removal ==
    ASSUME GuardInv, RemoveDeletionFinalizer
    PROVE  /\ key \in DeviceConfigs /\ pc' = "idle" /\ UNCHANGED childView
           /\ LiveChild("Module", key) = None
           /\ \/ UNCHANGED dcView
              \/ /\ Live(key) # None /\ Live(key).deleting
                 /\ WriteDC(key, None)
<1>1. key \in DeviceConfigs /\ pc = "RemoveFinalizer"
  BY DEF RemoveDeletionFinalizer, GuardInv, TypeOK, WorkerTypeOK
<1>2. /\ Update(None, Finish(FALSE), Finish(TRUE))
      /\ UNCHANGED <<childView, lastUID, ops, crashes>>
  BY DEF RemoveDeletionFinalizer
<1>3. pc' = "idle" /\ (UNCHANGED dcView \/ (fresh /\ WriteDC(key, None)))
  BY <1>1, <1>2, FinalUpdateType DEF GuardInv
<1>4. fresh => Live(key) # None /\ Live(key).deleting
  BY <1>1, LiveIsVersion DEF GuardInv, TypeOK, FreshInv, DeletionInv
<1>5. LiveChild("Module", key) = None
  BY <1>1 DEF GuardInv, DeletionInv
<1> QED BY <1>1, <1>2, <1>3, <1>4, <1>5

(* The steps of a reconcile that write no DeviceConfig.                    *)
LEMMA WorkerWaits ==
    ASSUME GuardInv, SuccessorWaits,
           \/ Dequeue \/ ValidateNodeSelector \/ GetChild \/ CreateOrPatch
           \/ DeleteModule
    PROVE  SuccessorWaits'
<1>1. UNCHANGED dcView
  BY Zenon DEF Dequeue, ValidateNodeSelector, GetChild, CreateOrPatch,
     DeleteModule, clusterVars
<1>2. \A d \in DeviceConfigs : Live(d)' = Live(d) /\ Versions(d)' = Versions(d)
  BY <1>1 DEF Live, Versions
<1>3. pc \notin {"idle", "Get"} => key \in DeviceConfigs
  BY DEF GuardInv, TypeOK, WorkerTypeOK
<1>4. \A failed \in BOOLEAN : Finish(failed) => pc' = "idle"
  BY DEF Finish
<1>5. \A step \in Steps : Goto(step) => pc' = step /\ key' = key
  BY DEF Goto
<1>6. \/ pc' \in {"idle", "Get"}
      \/ /\ key' = key /\ pc \notin {"idle", "Get"}
         /\ pc' \in DeletionSteps => pc \in DeletionSteps
         /\ fresh' /\ pc' \in NormalSteps => fresh /\ pc \in NormalSteps
  <2>1. CASE Dequeue
    BY <2>1 DEF Dequeue
  <2>2. CASE ValidateNodeSelector
    BY <1>4, <2>2 DEF ValidateNodeSelector, Goto, DeletionSteps, NormalSteps
  <2>3. CASE GetChild
    BY <2>3 DEF GetChild, Goto, DeletionSteps, NormalSteps
  <2>4. CASE CreateOrPatch
    <3>1. pc = "CreateOrPatch" /\ fresh' = fresh /\ (NextChild \/ ChildFailed)
      BY <2>4 DEF CreateOrPatch
    <3> QED BY <3>1 DEF NextChild, ChildFailed, Goto, DeletionSteps, NormalSteps
  <2>5. CASE DeleteModule
    BY <1>4, <2>5 DEF DeleteModule, Goto, DeletionSteps, NormalSteps
  <2> QED BY <2>1, <2>2, <2>3, <2>4, <2>5
<1> QED BY <1>2, <1>3, <1>6, NoWriteWaits

(* The steps of a reconcile that end it with an update.                    *)
LEMMA LastUpdateWaits ==
    ASSUME GuardInv, SuccessorWaits,
           SetConditionsErrored \/ SetConditionsReady \/ RemoveDeletionFinalizer
    PROVE  SuccessorWaits'
<1>1. /\ key \in DeviceConfigs /\ pc' = "idle"
      /\ \/ UNCHANGED dcView
         \/ \E object \in {None} \cup DCObject :
              /\ Unprotected(key) =>
                   object = None \/ object.deleting \/ ~object.finalizer
              /\ WriteDC(key, object)
  <2>1. CASE SetConditionsErrored \/ SetConditionsReady
    BY <2>1, FinalWrite DEF Unprotected
  <2>2. CASE RemoveDeletionFinalizer
    BY <2>2, Removal
  <2> QED BY <2>1, <2>2
<1>2. CASE UNCHANGED dcView
  <2>1. \A d \in DeviceConfigs : Live(d)' = Live(d) /\ Versions(d)' = Versions(d)
    BY <1>2 DEF Live, Versions
  <2> QED BY <1>1, <2>1, NoWriteWaits
<1>3. ASSUME NEW object \in {None} \cup DCObject, WriteDC(key, object),
             Unprotected(key) =>
               object = None \/ object.deleting \/ ~object.finalizer
      PROVE  SuccessorWaits'
  BY <1>1, <1>3, WriteWaits
<1> QED BY <1>1, <1>2, <1>3

(* What users write.                                                       *)
LEMMA UserWrite ==
    ASSUME GuardInv, NEW d \in DeviceConfigs,
           \/ DeleteDC(d)
           \/ \E spec \in UserSpecs : CreateDC(d, spec) \/ EditDC(d, spec)
    PROVE  \E object \in {None} \cup DCObject :
              /\ WriteDC(d, object) /\ UserOp(d) /\ UNCHANGED childView
              /\ \/ /\ DeleteDC(d) /\ Live(d) # None /\ ~Live(d).deleting
                    /\ IF Live(d).finalizer
                       THEN object # None /\ object.deleting
                       ELSE object = None
                 \/ /\ Live(d) = None /\ object # None
                    /\ ~object.deleting /\ ~object.finalizer
                 \/ /\ Live(d) # None /\ object # None
                    /\ object.deleting = Live(d).deleting
                    /\ object.finalizer = Live(d).finalizer
<1>1. Live(d) \in {None} \cup DCObject
  BY EndsTypeOK DEF GuardInv, TypeOK
<1>2. CASE DeleteDC(d)
  <2> DEFINE object == IF Live(d).finalizer
                       THEN [Live(d) EXCEPT !.deleting = TRUE]
                       ELSE None
  <2>1. /\ UserOp(d) /\ WriteDC(d, object) /\ UNCHANGED childView
        /\ Live(d) # None /\ ~Live(d).deleting
    BY <1>2 DEF DeleteDC
  <2>2. /\ object \in {None} \cup DCObject
        /\ IF Live(d).finalizer THEN object # None /\ object.deleting
                                ELSE object = None
    BY <1>1, <2>1, NoneAssumption DEF DCObject
  <2> HIDE DEF object
  <2> QED BY <1>2, <2>1, <2>2
<1>3. ASSUME NEW spec \in UserSpecs, EditDC(d, spec)
      PROVE  \E object \in DCObject :
                /\ UserOp(d) /\ WriteDC(d, object) /\ UNCHANGED childView
                /\ Live(d) # None /\ object # None
                /\ object.deleting = Live(d).deleting
                /\ object.finalizer = Live(d).finalizer
  <2> DEFINE object == [Live(d) EXCEPT !.spec = spec]
  <2>1. UserOp(d) /\ WriteDC(d, object) /\ UNCHANGED childView /\ Live(d) # None
    BY <1>3 DEF EditDC
  <2>2. /\ object \in DCObject /\ object # None
        /\ object.deleting = Live(d).deleting
        /\ object.finalizer = Live(d).finalizer
    BY <1>1, <2>1, NoneAssumption, ControllerAssumption DEF DCObject
  <2> HIDE DEF object
  <2> QED BY <2>1, <2>2
<1>4. ASSUME NEW spec \in UserSpecs, CreateDC(d, spec)
      PROVE  \E object \in DCObject :
                /\ UserOp(d) /\ WriteDC(d, object) /\ UNCHANGED childView
                /\ Live(d) = None /\ object # None
                /\ ~object.deleting /\ ~object.finalizer
  <2> DEFINE object == [uid |-> lastUID[d] + 1, spec |-> spec,
                        finalizer |-> FALSE, deleting |-> FALSE,
                        status |-> "Unknown"]
  <2>1. UserOp(d) /\ WriteDC(d, object) /\ UNCHANGED childView /\ Live(d) = None
    BY <1>4 DEF CreateDC
  <2>2. object \in DCObject
    BY ControllerAssumption DEF GuardInv, TypeOK, ClusterTypeOK, DCObject,
       Statuses
  <2>3. ~object.deleting /\ ~object.finalizer
    OBVIOUS
  <2> HIDE DEF object
  <2> QED BY <2>1, <2>2, <2>3, NoneAssumption
<1> QED BY <1>2, <1>3, <1>4

(* Users cannot protect a DeviceConfig.                                    *)
LEMMA UserWaits ==
    ASSUME GuardInv, SuccessorWaits, NEW d \in DeviceConfigs,
           \/ DeleteDC(d)
           \/ \E spec \in UserSpecs : CreateDC(d, spec) \/ EditDC(d, spec)
    PROVE  SuccessorWaits'
<1>1. PICK object \in {None} \cup DCObject :
        /\ WriteDC(d, object) /\ UserOp(d)
        /\ Unprotected(d) =>
             object = None \/ object.deleting \/ ~object.finalizer
  BY UserWrite DEF Unprotected
<1> QED BY <1>1, WriteWaits

(* The cluster's own steps write no DeviceConfig.                          *)
LEMMA ClusterWaits ==
    ASSUME GuardInv, SuccessorWaits,
           \/ DeliverDC \/ Resync \/ Crash
           \/ \E d \in DeviceConfigs :
                \/ TimerFires(d)
                \/ \E k \in Kinds :
                    DeliverChild(k, d) \/ Tamper(k, d) \/ CollectGarbage(k, d)
    PROVE  SuccessorWaits'
<1>1. CASE Crash
  <2>1. \A d \in DeviceConfigs :
            Live(d)' = Live(d) /\ Versions(d)' \subseteq Versions(d)
    BY <1>1, CrashFacts, LiveIsVersion DEF GuardInv, TypeOK
  <2>2. pc' = "idle"
    BY <1>1 DEF Crash
  <2> QED BY <2>1, <2>2, NoWriteWaits
<1>2. CASE ~Crash
  <2>1. UNCHANGED workerVars /\ (DeliverDC \/ UNCHANGED dcView)
    BY <1>2 DEF DeliverDC, Resync, TimerFires, DeliverChild, Tamper,
       CollectGarbage, clusterVars
  <2>2. \A d \in DeviceConfigs :
            Live(d)' = Live(d) /\ Versions(d)' \subseteq Versions(d)
    <3>1. CASE DeliverDC
      BY <3>1, DeliverDCFacts DEF GuardInv, TypeOK
    <3>2. CASE UNCHANGED dcView
      BY <3>2 DEF Live, Versions
    <3> QED BY <2>1, <3>1, <3>2
  <2>3. pc # "idle" => key \in DeviceConfigs
    BY DEF GuardInv, TypeOK, WorkerTypeOK
  <2> QED BY <2>1, <2>2, <2>3, NoWriteWaits DEF workerVars
<1> QED BY <1>1, <1>2

(* Every step keeps SuccessorWaits.                                        *)
LEMMA SuccessorStep ==
    ASSUME GuardInv, SuccessorWaits, [Next]_vars
    PROVE  SuccessorWaits'
<1>1. CASE UNCHANGED vars
  <2>1. /\ \A d \in DeviceConfigs :
              Live(d)' = Live(d) /\ Versions(d)' = Versions(d)
        /\ UNCHANGED workerVars
    BY <1>1 DEF vars, clusterVars, Live, Versions
  <2>2. pc # "idle" => key \in DeviceConfigs
    BY DEF GuardInv, TypeOK, WorkerTypeOK
  <2> QED BY <2>1, <2>2, NoWriteWaits DEF workerVars
<1>2. CASE Reconcile
  <2>1. \/ Dequeue \/ ValidateNodeSelector \/ GetChild \/ CreateOrPatch
        \/ DeleteModule \/ Get \/ AddDeletionFinalizer
        \/ SetConditionsErrored \/ SetConditionsReady \/ RemoveDeletionFinalizer
    BY <1>2, Zenon DEF Reconcile, ReconcileModule, ReconcileNodeLabelerDaemonSet,
       ReconcileNodeMetricsDaemonSet, ReconcileNodeMetricsService, ReconcileChild
  <2> QED BY <2>1, WorkerWaits, GetWaits, AddFinalizerWaits, LastUpdateWaits
<1>3. CASE Cluster
  BY <1>3, UserWaits, ClusterWaits DEF Cluster
<1> QED BY <1>1, <1>2, <1>3 DEF Next

(* The worker never takes a driver down for the deletion of a predecessor  *)
(* of the DeviceConfig it belongs to, and never revives a DeviceConfig     *)
(* that is being deleted.  (deviceconfig_controller.go:117-147)            *)
THEOREM SuccessorsWait == Spec => []SuccessorWaits
<1>1. Init => SuccessorWaits
  <2> SUFFICES ASSUME Init PROVE SuccessorWaits
    OBVIOUS
  <2>1. dcView[1] = [d \in DeviceConfigs |-> None] /\ Len(dcView) = 1
        /\ pc = "idle"
    BY DEF Init
  <2>2. \A d \in DeviceConfigs : Live(d) = None
    BY <2>1 DEF Live
  <2> QED BY <2>1, <2>2 DEF SuccessorWaits, Unprotected, NormalSteps
<1>2. GuardInv /\ SuccessorWaits /\ [Next]_vars => SuccessorWaits'
  BY SuccessorStep
<1> QED BY <1>1, <1>2, GuardInvariant, PTL DEF Spec

-----------------------------------------------------------------------------
(* The refinement mapping.                                                 *)

Config == [d \in DeviceConfigs |-> LifeOf(Live(d))]
Loaded == [d \in DeviceConfigs |-> LiveChild("Module", d) # None]

(* The life of one DeviceConfig, and of no other, changes.                 *)
LEMMA BecomeStep ==
    ASSUME NEW d \in DeviceConfigs, NEW from, NEW to,
           LifeOf(Live(d)) = from, LifeOf(Live(d)') = to,
           \A e \in DeviceConfigs \ {d} : Live(e)' = Live(e),
           \A e \in DeviceConfigs :
             LiveChild("Module", e)' = LiveChild("Module", e)
    PROVE  Lifecycle!Become(d, from, to)
<1>1. Config' = [Config EXCEPT ![d] = to]
  <2>1. \A e \in DeviceConfigs \ {d} : LifeOf(Live(e)') = LifeOf(Live(e))
    BY Zenon
  <2>2. Config' = [e \in DeviceConfigs |-> LifeOf(Live(e)')]
    BY DEF Config, LifeOf
  <2> QED BY <2>1, <2>2 DEF Config
<1>2. Loaded' = Loaded
  BY DEF Loaded
<1> QED BY <1>1, <1>2 DEF Lifecycle!Become, Config, Loaded

(* Nothing of the lifecycle changes.                                       *)
LEMMA Stutter ==
    ASSUME \A d \in DeviceConfigs : LifeOf(Live(d)') = LifeOf(Live(d)),
           \A d \in DeviceConfigs :
             (LiveChild("Module", d)' = None) <=> (LiveChild("Module", d) = None)
    PROVE  UNCHANGED Lifecycle!vars
<1>1. Config' = [d \in DeviceConfigs |-> LifeOf(Live(d)')]
  BY DEF Config, LifeOf
<1>2. Config' = Config
  BY <1>1 DEF Config
<1>3. Loaded' = Loaded
  BY DEF Loaded
<1> QED BY <1>2, <1>3 DEF Lifecycle!vars, Config, Loaded

(* The Module of one DeviceConfig comes or goes.                           *)
LEMMA ModuleStep ==
    ASSUME NEW d \in DeviceConfigs,
           \A e \in DeviceConfigs : Live(e)' = Live(e),
           \A e \in DeviceConfigs \ {d} :
             LiveChild("Module", e)' = LiveChild("Module", e)
    PROVE  /\ LiveChild("Module", d) = None /\ LiveChild("Module", d)' # None
                /\ LifeOf(Live(d)) \in {"protected", "deleting"}
              => Lifecycle!Load(d)
           /\ LiveChild("Module", d) # None /\ LiveChild("Module", d)' = None
                /\ (LifeOf(Live(d)) = "deleting" \/ "tamper" \in Env)
              => Lifecycle!Unload(d)
<1>1. Config' = Config
  <2>1. Config' = [e \in DeviceConfigs |-> LifeOf(Live(e)')]
    BY DEF Config, LifeOf
  <2> QED BY <2>1 DEF Config
<1>2. Loaded' = [Loaded EXCEPT ![d] = LiveChild("Module", d)' # None]
  BY DEF Loaded
<1>3. Config[d] = LifeOf(Live(d)) /\ Loaded[d] = (LiveChild("Module", d) # None)
  BY DEF Config, Loaded
<1>4. ASSUME LiveChild("Module", d) = None, LiveChild("Module", d)' # None,
             LifeOf(Live(d)) \in {"protected", "deleting"}
      PROVE  Lifecycle!Load(d)
  <2>1. /\ Config[d] \in {"protected", "deleting"} /\ ~Loaded[d]
        /\ Loaded' = [Loaded EXCEPT ![d] = TRUE]
    BY <1>2, <1>3, <1>4
  <2> QED BY <1>1, <2>1 DEF Lifecycle!Load, Config, Loaded
<1>5. ASSUME LiveChild("Module", d) # None, LiveChild("Module", d)' = None,
             LifeOf(Live(d)) = "deleting" \/ "tamper" \in Env
      PROVE  Lifecycle!Unload(d)
  <2>1. /\ Config[d] = "deleting" \/ "tamper" \in Env
        /\ Loaded[d] /\ Loaded' = [Loaded EXCEPT ![d] = FALSE]
    BY <1>2, <1>3, <1>5
  <2> QED BY <1>1, <2>1 DEF Lifecycle!Unload, Config, Loaded
<1> QED BY <1>4, <1>5

(* A DeviceConfig is written and nothing else.                             *)
LEMMA OneWritten ==
    ASSUME GuardInv, NEW d \in DeviceConfigs,
           NEW object \in {None} \cup DCObject, WriteDC(d, object),
           UNCHANGED childView
    PROVE  /\ Live(d)' = object
           /\ \A e \in DeviceConfigs \ {d} : Live(e)' = Live(e)
           /\ \A e \in DeviceConfigs :
                LiveChild("Module", e)' = LiveChild("Module", e)
BY WriteDCFacts DEF GuardInv, TypeOK, LiveChild

(* What users do to a DeviceConfig is a step of its life.                  *)
LEMMA UserImplements ==
    ASSUME GuardInv, NEW d \in DeviceConfigs,
           \/ DeleteDC(d)
           \/ \E spec \in UserSpecs : CreateDC(d, spec) \/ EditDC(d, spec)
    PROVE  Lifecycle!Next \/ UNCHANGED Lifecycle!vars
<1>1. PICK object \in {None} \cup DCObject :
        /\ WriteDC(d, object) /\ UNCHANGED childView
        /\ \/ /\ Live(d) # None /\ ~Live(d).deleting
              /\ IF Live(d).finalizer
                 THEN object # None /\ object.deleting
                 ELSE object = None
           \/ /\ Live(d) = None /\ object # None
              /\ ~object.deleting /\ ~object.finalizer
           \/ /\ Live(d) # None /\ object # None
              /\ object.deleting = Live(d).deleting
              /\ object.finalizer = Live(d).finalizer
  BY UserWrite
<1>2. /\ Live(d)' = object
      /\ \A e \in DeviceConfigs \ {d} : Live(e)' = Live(e)
      /\ \A e \in DeviceConfigs :
            LiveChild("Module", e)' = LiveChild("Module", e)
  BY <1>1, OneWritten
<1>3. CASE /\ Live(d) # None /\ ~Live(d).deleting /\ Live(d).finalizer
           /\ object # None /\ object.deleting
  <2>1. LifeOf(Live(d)) = "protected" /\ LifeOf(Live(d)') = "deleting"
    BY <1>2, <1>3 DEF LifeOf
  <2>2. Lifecycle!Become(d, "protected", "deleting")
    BY <1>2, <2>1, BecomeStep
  <2> QED BY <2>2 DEF Lifecycle!Next, Lifecycle!RequestDelete
<1>4. CASE /\ Live(d) # None /\ ~Live(d).deleting /\ ~Live(d).finalizer
           /\ object = None
  <2>1. LifeOf(Live(d)) = "unprotected" /\ LifeOf(Live(d)') = "absent"
    BY <1>2, <1>4 DEF LifeOf
  <2>2. Lifecycle!Become(d, "unprotected", "absent")
    BY <1>2, <2>1, BecomeStep
  <2> QED BY <2>2 DEF Lifecycle!Next, Lifecycle!Withdraw
<1>5. CASE /\ Live(d) = None /\ object # None
           /\ ~object.deleting /\ ~object.finalizer
  <2>1. LifeOf(Live(d)) = "absent" /\ LifeOf(Live(d)') = "unprotected"
    BY <1>2, <1>5 DEF LifeOf
  <2>2. Lifecycle!Become(d, "absent", "unprotected")
    BY <1>2, <2>1, BecomeStep
  <2> QED BY <2>2 DEF Lifecycle!Next, Lifecycle!Create
<1>6. CASE /\ Live(d) # None /\ object # None
           /\ object.deleting = Live(d).deleting
           /\ object.finalizer = Live(d).finalizer
  <2>1. LifeOf(Live(d)') = LifeOf(Live(d))
    BY <1>2, <1>6 DEF LifeOf
  <2> QED BY <1>2, <2>1, Stutter
<1> QED BY <1>1, <1>3, <1>4, <1>5, <1>6

(* A step that leaves every DeviceConfig and every Module as they are.     *)
LEMMA SameClusterImplements ==
    ASSUME \A d \in DeviceConfigs : Live(d)' = Live(d),
           \A d \in DeviceConfigs :
             LiveChild("Module", d)' = LiveChild("Module", d)
    PROVE  UNCHANGED Lifecycle!vars
<1>1. \A d \in DeviceConfigs : LifeOf(Live(d)') = LifeOf(Live(d))
  BY Zenon
<1> QED BY <1>1, Stutter

(* The steps of a reconcile that update the DeviceConfig.                  *)
LEMMA UpdateImplements ==
    ASSUME GuardInv, SuccessorWaits,
           \/ AddDeletionFinalizer \/ RemoveDeletionFinalizer
           \/ SetConditionsErrored \/ SetConditionsReady
    PROVE  Lifecycle!Next \/ UNCHANGED Lifecycle!vars
<1>1. key \in DeviceConfigs
  BY Zenon, FinalWrite, Removal DEF AddDeletionFinalizer, GuardInv, TypeOK,
     WorkerTypeOK
<1>2. UNCHANGED childView
  BY Zenon DEF AddDeletionFinalizer, RemoveDeletionFinalizer,
     SetConditionsErrored, SetConditionsReady
<1>3. CASE UNCHANGED dcView
  BY <1>2, <1>3, SameClusterImplements DEF Live, LiveChild
<1>4. ASSUME AddDeletionFinalizer, fresh,
             WriteDC(key, [Live(key) EXCEPT !.finalizer = TRUE,
                                            !.spec = Stored(cr.spec)])
      PROVE  Lifecycle!Next \/ UNCHANGED Lifecycle!vars
  <2> DEFINE object == [Live(key) EXCEPT !.finalizer = TRUE,
                                         !.spec = Stored(cr.spec)]
  <2>1. pc = "AddFinalizer" /\ cr \in DCObject
    BY <1>4 DEF AddDeletionFinalizer, GuardInv, TypeOK, WorkerTypeOK
  <2>2. Live(key) # None /\ Live(key) \in DCObject /\ ~Live(key).deleting
    BY <1>1, <1>4, <2>1, EndsTypeOK, LiveIsVersion DEF GuardInv, TypeOK, FreshInv,
       SuccessorWaits, NormalSteps
  <2>3. object \in DCObject /\ ~object.deleting /\ object.finalizer
    <3>1. Stored(cr.spec) \in Specs
      BY <2>1, StoredType DEF DCObject
    <3> QED BY <2>2, <3>1 DEF DCObject
  <2> HIDE DEF object
  <2>4. /\ \A e \in DeviceConfigs : e = key => Live(e)' = object
        /\ \A e \in DeviceConfigs \ {key} : Live(e)' = Live(e)
        /\ \A e \in DeviceConfigs :
              LiveChild("Module", e)' = LiveChild("Module", e)
    BY <1>1, <1>2, <1>4, <2>3, OneWritten DEF object
  <2>5. PICK d \in DeviceConfigs : d = key
    BY <1>1
  <2>6. LifeOf(Live(d)') = "protected" /\ LifeOf(Live(d)) \in {"unprotected", "protected"}
    BY <2>2, <2>3, <2>4, <2>5, NoneAssumption DEF LifeOf
  <2>7. CASE LifeOf(Live(d)) = "unprotected"
    <3>1. Lifecycle!Become(d, "unprotected", "protected")
      BY <2>4, <2>5, <2>6, <2>7, BecomeStep
    <3> QED BY <3>1 DEF Lifecycle!Next, Lifecycle!Protect
  <2>8. CASE LifeOf(Live(d)) = "protected"
    BY <2>4, <2>5, <2>6, <2>8, Stutter
  <2> QED BY <2>6, <2>7, <2>8
<1>5. ASSUME RemoveDeletionFinalizer, WriteDC(key, None),
             Live(key) # None, Live(key).deleting,
             LiveChild("Module", key) = None
      PROVE  Lifecycle!Next
  <2>1. PICK d \in DeviceConfigs : d = key
    BY <1>1
  <2>2. /\ Live(d)' = None
        /\ \A e \in DeviceConfigs \ {d} : Live(e)' = Live(e)
        /\ \A e \in DeviceConfigs :
              LiveChild("Module", e)' = LiveChild("Module", e)
    BY <1>2, <1>5, <2>1, OneWritten
  <2>3. LifeOf(Live(d)) = "deleting" /\ LifeOf(Live(d)') = "absent"
    BY <1>5, <2>1, <2>2 DEF LifeOf
  <2>4. Lifecycle!Become(d, "deleting", "absent")
    BY <2>2, <2>3, BecomeStep
  <2>5. ~Loaded[d]
    BY <1>5, <2>1 DEF Loaded
  <2> QED BY <2>4, <2>5 DEF Lifecycle!Next, Lifecycle!Release, Loaded
<1>6. ASSUME NEW object \in DCObject, WriteDC(key, object), Live(key) # None,
             object.finalizer = Live(key).finalizer,
             object.deleting = Live(key).deleting
      PROVE  UNCHANGED Lifecycle!vars
  <2>1. PICK d \in DeviceConfigs : d = key
    BY <1>1
  <2>2. /\ Live(d)' = object
        /\ \A e \in DeviceConfigs \ {d} : Live(e)' = Live(e)
        /\ \A e \in DeviceConfigs :
              LiveChild("Module", e)' = LiveChild("Module", e)
    BY <1>2, <1>6, <2>1, OneWritten
  <2>3. LifeOf(Live(d)') = LifeOf(Live(d))
    BY <1>6, <2>1, <2>2, NoneAssumption DEF LifeOf
  <2> QED BY <2>2, <2>3, Stutter
<1> QED BY <1>3, <1>4, <1>5, <1>6, AddFinalizerWaits, Removal, FinalWrite

(* The steps of a reconcile that write a child, or nothing at all.         *)
LEMMA ChildImplements ==
    ASSUME GuardInv, SuccessorWaits,
           \/ Dequeue \/ Get \/ ValidateNodeSelector \/ GetChild
           \/ CreateOrPatch \/ DeleteModule
    PROVE  Lifecycle!Next \/ UNCHANGED Lifecycle!vars
<1>1. UNCHANGED dcView /\ \A d \in DeviceConfigs : Live(d)' = Live(d)
  BY Zenon DEF Dequeue, Get, ValidateNodeSelector, GetChild, CreateOrPatch,
     DeleteModule, clusterVars, Live
<1>2. CASE UNCHANGED childView
  BY <1>1, <1>2, SameClusterImplements DEF LiveChild
<1>3. CASE CreateOrPatch
  <2>1. /\ pc = "CreateOrPatch" /\ key \in DeviceConfigs /\ cr \in DCObject
        /\ child \in 1..Len(Chain)
    BY <1>3, ChainFacts DEF CreateOrPatch, GuardInv, TypeOK, WorkerTypeOK
  <2>2. PICK k \in Kinds, d \in DeviceConfigs : Chain[child] = k /\ key = d
    BY <2>1, ChainFacts
  <2>3. \/ Accepted(k, d) /\ WriteChild(k, d, Applied(k, d))
        \/ UNCHANGED childView
    BY <1>3, <2>2, CreateOrPatchEffect DEF GuardInv
  <2>4. CASE Accepted(k, d) /\ WriteChild(k, d, Applied(k, d))
    <3> DEFINE new == Applied(k, d)
    <3>1. new \in Child
      BY <2>1, <2>4, AppliedType DEF GuardInv, TypeOK
    <3> HIDE DEF new
    <3>2. WriteChild(k, d, new)
      BY <2>4 DEF new
    <3>3. /\ LiveChild(k, d)' = new /\ new # None
          /\ \A l \in Kinds, e \in DeviceConfigs :
                l # k \/ e # d => LiveChild(l, e)' = LiveChild(l, e)
      BY <3>1, <3>2, WriteChildFacts, NoneAssumption DEF GuardInv, TypeOK
    <3>4. CASE k = "Module" /\ LiveChild("Module", d) = None
      <4>1. LifeOf(Live(d)) \in {"protected", "deleting"}
        BY <2>1, <2>2 DEF GuardInv, CopyInv, NormalSteps, LifeOf
      <4>2. Lifecycle!Load(d)
        BY <1>1, <3>3, <3>4, <4>1, ModuleStep
      <4> QED BY <4>2 DEF Lifecycle!Next
    <3>5. CASE k # "Module" \/ LiveChild("Module", d) # None
      <4>1. \A e \in DeviceConfigs :
              (LiveChild("Module", e)' = None) <=> (LiveChild("Module", e) = None)
        BY <3>3, <3>5, ChainFacts
      <4>2. \A e \in DeviceConfigs : LifeOf(Live(e)') = LifeOf(Live(e))
        BY <1>1, Zenon
      <4> QED BY <4>1, <4>2, Stutter
    <3> QED BY <3>4, <3>5
  <2> QED BY <1>2, <2>3, <2>4
<1>4. CASE DeleteModule
  <2>1. PICK d \in DeviceConfigs : key = d /\ pc = "DeleteModule"
    BY <1>4 DEF DeleteModule, GuardInv, TypeOK, WorkerTypeOK
  <2>2. CASE WriteChild("Module", d, None)
    <3>1. /\ LiveChild("Module", d)' = None
          /\ \A e \in DeviceConfigs \ {d} :
                LiveChild("Module", e)' = LiveChild("Module", e)
      BY <2>2, ChainFacts, WriteChildFacts DEF GuardInv, TypeOK
    <3>2. CASE LiveChild("Module", d) = None
      <4>1. \A e \in DeviceConfigs :
              LiveChild("Module", e)' = LiveChild("Module", e)
        BY <3>1, <3>2
      <4> QED BY <1>1, <4>1, SameClusterImplements
    <3>3. CASE LiveChild("Module", d) # None
      <4>1. Live(d) # None /\ Live(d).finalizer
        BY <3>3 DEF GuardInv, FinalizerGuardsModule, Owns
      <4>2. LifeOf(Live(d)) = "deleting"
        BY <2>1, <4>1 DEF SuccessorWaits, Unprotected, LifeOf
      <4>3. Lifecycle!Unload(d)
        BY <1>1, <3>1, <3>3, <4>2, ModuleStep
      <4> QED BY <4>3 DEF Lifecycle!Next
    <3> QED BY <3>2, <3>3
  <2> QED BY <1>2, <1>4, <2>1, <2>2 DEF DeleteModule
<1>5. Dequeue \/ Get \/ ValidateNodeSelector \/ GetChild => UNCHANGED childView
  BY Zenon DEF Dequeue, Get, ValidateNodeSelector, GetChild, clusterVars
<1> QED BY <1>2, <1>3, <1>4, <1>5

(* The cluster's own steps: the garbage collector finds no Module to       *)
(* remove, and only someone who tampers unloads a driver.                  *)
LEMMA ClusterImplements ==
    ASSUME GuardInv,
           \/ DeliverDC \/ Resync \/ Crash
           \/ \E d \in DeviceConfigs :
                \/ TimerFires(d)
                \/ \E k \in Kinds :
                    DeliverChild(k, d) \/ Tamper(k, d) \/ CollectGarbage(k, d)
    PROVE  Lifecycle!Next \/ UNCHANGED Lifecycle!vars
<1>1. CASE \/ DeliverDC \/ Resync \/ Crash
           \/ \E d \in DeviceConfigs :
                TimerFires(d) \/ \E k \in Kinds : DeliverChild(k, d)
  <2>1. ASSUME NEW e \in DeviceConfigs
        PROVE  /\ Live(e)' = Live(e)
               /\ LiveChild("Module", e)' = LiveChild("Module", e)
    <3>1. CASE UNCHANGED <<dcView, childView>>
      BY <3>1 DEF Live, LiveChild
    <3>2. CASE DeliverDC
      <4>1. Live(e)' = Live(e)
        BY <3>2, DeliverDCFacts DEF GuardInv, TypeOK
      <4> QED BY <3>2, <4>1 DEF DeliverDC, LiveChild
    <3>3. CASE Crash
      BY <3>3, CrashFacts, ChainFacts DEF GuardInv, TypeOK
    <3>4. ASSUME NEW d \in DeviceConfigs, NEW k \in Kinds, DeliverChild(k, d)
          PROVE  /\ Live(e)' = Live(e)
                 /\ LiveChild("Module", e)' = LiveChild("Module", e)
      <4>1. UNCHANGED dcView
        BY <3>4 DEF DeliverChild
      <4> QED BY <3>4, <4>1, DeliverChildFacts, ChainFacts DEF GuardInv, TypeOK,
              Live
    <3>5. ASSUME NEW d \in DeviceConfigs, Resync \/ TimerFires(d)
          PROVE  UNCHANGED <<dcView, childView>>
      BY <3>5 DEF Resync, TimerFires, clusterVars
    <3> QED BY <1>1, <3>1, <3>2, <3>3, <3>4, <3>5
  <2> QED BY <2>1, SameClusterImplements
<1>2. ASSUME NEW d \in DeviceConfigs, NEW k \in Kinds,
             Tamper(k, d) \/ CollectGarbage(k, d)
      PROVE  Lifecycle!Next \/ UNCHANGED Lifecycle!vars
  <2>1. /\ WriteChild(k, d, None) /\ LiveChild(k, d) # None
        /\ UNCHANGED dcView
        /\ "tamper" \in Env \/ ~Owns(d, LiveChild(k, d))
    BY <1>2 DEF Tamper, CollectGarbage
  <2>2. /\ LiveChild(k, d)' = None
        /\ \A l \in Kinds, e \in DeviceConfigs :
              l # k \/ e # d => LiveChild(l, e)' = LiveChild(l, e)
    BY <2>1, WriteChildFacts DEF GuardInv, TypeOK
  <2>3. \A e \in DeviceConfigs : Live(e)' = Live(e)
    BY <2>1 DEF Live
  <2>4. CASE k = "Module"
    <3>1. "tamper" \in Env
      BY <2>1, <2>4 DEF GuardInv, FinalizerGuardsModule
    <3>2. Lifecycle!Unload(d)
      BY <2>1, <2>2, <2>3, <2>4, <3>1, ModuleStep
    <3> QED BY <3>2 DEF Lifecycle!Next
  <2>5. CASE k # "Module"
    BY <2>2, <2>3, <2>5, ChainFacts, SameClusterImplements
  <2> QED BY <2>4, <2>5
<1> QED BY <1>1, <1>2

(* Every step is a step of the lifecycle or leaves it alone.               *)
LEMMA StepImplements ==
    ASSUME GuardInv, SuccessorWaits, [Next]_vars
    PROVE  Lifecycle!Next \/ UNCHANGED Lifecycle!vars
<1>1. CASE UNCHANGED vars
  <2>1. UNCHANGED <<dcView, childView>>
    BY <1>1 DEF vars, clusterVars
  <2> QED BY <2>1, SameClusterImplements DEF Live, LiveChild
<1>2. CASE Reconcile
  <2>1. \/ Dequeue \/ Get \/ ValidateNodeSelector \/ GetChild \/ CreateOrPatch
        \/ DeleteModule \/ AddDeletionFinalizer \/ RemoveDeletionFinalizer
        \/ SetConditionsErrored \/ SetConditionsReady
    BY <1>2, Zenon DEF Reconcile, ReconcileModule, ReconcileNodeLabelerDaemonSet,
       ReconcileNodeMetricsDaemonSet, ReconcileNodeMetricsService, ReconcileChild
  <2> QED BY <2>1, ChildImplements, UpdateImplements
<1>3. CASE Cluster
  BY <1>3, UserImplements, ClusterImplements DEF Cluster
<1> QED BY <1>1, <1>2, <1>3 DEF Next

(* At the start there is neither a DeviceConfig nor a driver.              *)
LEMMA InitImplements ==
    ASSUME Init
    PROVE  Lifecycle!Init
<1>1. \A d \in DeviceConfigs : Live(d) = None /\ LiveChild("Module", d) = None
  BY ChainFacts DEF Init, Live, LiveChild
<1>2. /\ Config = [d \in DeviceConfigs |-> "absent"]
      /\ Loaded = [d \in DeviceConfigs |-> FALSE]
  BY <1>1 DEF Config, Loaded, LifeOf
<1> QED BY <1>2 DEF Lifecycle!Init, Config, Loaded

(* The controller implements DriverLifecycle: whatever is lost, late or    *)
(* repeated, the operator unloads only the driver of a DeviceConfig that   *)
(* is being deleted, and lets the DeviceConfig go only after that.         *)
(* (deviceconfig_controller.go:117-155)                                    *)
THEOREM LifecycleImplemented == Spec => ImplementsLifecycle
<1>1. Init => Lifecycle!Init
  BY InitImplements
<1>2. GuardInv /\ SuccessorWaits /\ [Next]_vars =>
        [Lifecycle!Next]_(Lifecycle!vars)
  BY StepImplements
<1> QED BY <1>1, <1>2, GuardInvariant, SuccessorsWait, PTL
        DEF Spec, ImplementsLifecycle, Lifecycle!Spec
=============================================================================
