----------------------------- MODULE OutcomeProofs -----------------------------
(***************************************************************************)
(* What the controller comes to, for any number of DeviceConfigs, user     *)
(* operations, failed calls and crashes.                                   *)
(*                                                                         *)
(* A node gets one driver.  The check for conflicts reads a cache that may *)
(* be behind, but never behind the owner of a Module: a DeviceConfig has   *)
(* to be in the cache before the worker creates its Module, and stays      *)
(* there until the Module is gone.                                         *)
(*                                                                         *)
(* The controller rests only when it is done.  Whatever is written puts an *)
(* event on its way, an event a key in the queue, and a reconcile that     *)
(* ends without an error, and with no event behind it, read and wrote      *)
(* nothing but the live state.                                             *)
(***************************************************************************)
EXTENDS ConditionsProofs

-----------------------------------------------------------------------------
(* One driver: the invariant.                                              *)

(* As long as nobody edits it, every version of the live DeviceConfig has  *)
(* its spec.                                                               *)
SpecsStay ==
    \A d \in DeviceConfigs : \A object \in Known(d) : object # None =>
        /\ object.uid <= lastUID[d]
        /\ Live(d) # None /\ Live(d).uid = object.uid
           => object.spec = Live(d).spec

(* No DeviceConfig has an empty nodeSelector, which the server would drop. *)
SelectorsGiven ==
    \A d \in DeviceConfigs : Live(d) # None => Live(d).spec.nodeSelector # {}

(* Once a version of the live DeviceConfig is in the cache, the cache only *)
(* ever goes on to another one of them.                                    *)
IdentityLasts ==
    \A d \in DeviceConfigs : \A i \in 1..Len(dcView) :
        dcView[i][d] # None /\ Live(d) # None /\ dcView[i][d].uid = Live(d).uid
        => \A j \in i..Len(dcView) :
             dcView[j][d] # None /\ dcView[j][d].uid = Live(d).uid

(* The cache has the live DeviceConfig, in some version.                   *)
Shown(d) == Cached(d) # None /\ Live(d) # None /\ Cached(d).uid = Live(d).uid

(* What the worker has a copy of is in the cache,                          *)
CopyShown ==
    HoldsCopy /\ Live(key) # None /\ Live(key).uid = cr.uid => Shown(key)

(* and so is what has a Module, which selects what the spec says.          *)
SteadyModule ==
    \A d \in DeviceConfigs : LET m == LiveChild("Module", d) IN
        m # None => Shown(d) /\ m.selector = GetNodeSelector(Live(d).spec)

(* The steps of the worker past the check.                                 *)
PastCheck == {"AddFinalizer", "GetChild", "CreateOrPatch"}

(* There the nodes of the copy have no other driver, and get none: there   *)
(* is one worker.                                                          *)
Cleared ==
    pc \in PastCheck /\ Live(key) # None /\ Live(key).uid = cr.uid
    => \A d \in DeviceConfigs \ {key} : LET m == LiveChild("Module", d) IN
         m # None => ~Overlap(GetNodeSelector(cr.spec), m.selector)

(* All of it together.                                                     *)
PoolInv ==
    /\ FreshSpec /\ SpecsStay /\ SelectorsGiven /\ IdentityLasts
    /\ CopyShown /\ SteadyModule /\ Cleared /\ OneDriverPerNode

-----------------------------------------------------------------------------
(* What one step does to the versions of a DeviceConfig.                   *)
Written(d, object) ==
    WrittenByUser(d, object) \/ (d = key /\ WrittenByWorker(object))

(* The view as a whole is shortened, or gets one more version.             *)
LEMMA ViewStep ==
    ASSUME GuardInv, [Next]_vars
    PROVE  \/ Unwritten /\ Shifted(dcView, dcView')
           \/ \E d \in DeviceConfigs, object \in {None} \cup DCObject :
                Written(d, object)
<1>1. dcView \in Seq(DCMap) /\ Len(dcView) \in Nat /\ Len(dcView) > 0
  BY DEF GuardInv, TypeOK, ClusterTypeOK
<1>2. ASSUME UNCHANGED dcView
      PROVE  Shifted(dcView, dcView')
  <2>1. 0 < Len(dcView) /\ Len(dcView) = Len(dcView) - 0
        /\ \A i \in 1..Len(dcView) : dcView[i] = dcView[i + 0]
    BY <1>1
  <2> QED BY <1>2, <2>1 DEF Shifted
<1>3. ASSUME DeliverDC
      PROVE  Shifted(dcView, dcView')
  <2>1. Len(dcView) > 1 /\ dcView' = Tail(dcView)
    BY <1>3 DEF DeliverDC
  <2>2. Len(dcView') = Len(dcView) - 1
        /\ \A i \in 1..Len(dcView') : dcView'[i] = dcView[i + 1]
    BY <1>1, <2>1, TailFacts
  <2> QED BY <1>1, <2>1, <2>2 DEF Shifted
<1>4. ASSUME Crash
      PROVE  Shifted(dcView, dcView')
  <2>1. Len(dcView') = 1 /\ dcView'[1] = dcView[Len(dcView)]
    BY <1>4 DEF Crash
  <2>2. Len(dcView) - 1 \in Nat /\ Len(dcView) - 1 < Len(dcView)
        /\ 1 = Len(dcView) - (Len(dcView) - 1)
        /\ \A i \in 1..1 : dcView'[i] = dcView[i + (Len(dcView) - 1)]
    BY <1>1, <2>1
  <2> QED BY <2>1, <2>2 DEF Shifted
<1>5. Unwritten => Shifted(dcView, dcView')
  BY <1>2, <1>3, <1>4 DEF Unwritten
<1> QED BY <1>5, ServerStep DEF GuardInv, Written

(* A write leaves the versions that are on their way in their places.      *)
LEMMA WriteView ==
    ASSUME ClusterTypeOK, NEW d \in DeviceConfigs,
           NEW object \in {None} \cup DCObject, WriteDC(d, object)
    PROVE  /\ Live(d)' = object
           /\ \A e \in DeviceConfigs \ {d} : Live(e)' = Live(e)
           /\ \A i \in 1..Len(dcView) : dcView'[i] = dcView[i]
           /\ Len(dcView') \in {Len(dcView), Len(dcView) + 1}
<1>1. /\ Live(d)' = object
      /\ \A e \in DeviceConfigs \ {d} : Live(e)' = Live(e)
  BY WriteDCFacts
<1>2. dcView \in Seq(DCMap) /\ Len(dcView) \in Nat /\ Len(dcView) > 0
      /\ dcView[Len(dcView)] \in DCMap
  BY EndsTypeOK DEF ClusterTypeOK
<1>3. [dcView[Len(dcView)] EXCEPT ![d] = object] \in DCMap
  BY <1>2 DEF DCMap
<1>4. CASE object = Live(d)
  BY <1>1, <1>2, <1>4 DEF WriteDC
<1>5. CASE object # Live(d)
  BY <1>1, <1>2, <1>3, <1>5, AppendFacts DEF WriteDC
<1> QED BY <1>4, <1>5

(* The live DeviceConfig goes, comes with a new uid, or stays what it was  *)
(* but for finalizer, deletion and status.                                 *)
LiveStays(d) ==
    /\ Live(d) # None /\ Live(d)' # None
    /\ Live(d)'.uid = Live(d).uid /\ Live(d)'.spec = Live(d).spec

(* A new one takes the place of one that is gone.                          *)
Succeeded(d) ==
    /\ Live(d) = None /\ Live(d)' # None
    /\ Live(d)'.uid = lastUID[d] + 1 /\ Live(d)'.uid = lastUID'[d]
    /\ Live(d)'.spec.nodeSelector # {}

(* Without edits, what becomes of the live DeviceConfig is one of these.   *)
LEMMA LiveStep ==
    ASSUME GuardInv, FreshSpec, SelectorsGiven, [Next]_vars, "edit" \notin Env,
           \A spec \in UserSpecs : spec.nodeSelector # {},
           NEW d \in DeviceConfigs
    PROVE  Live(d)' = None \/ LiveStays(d) \/ Succeeded(d)
<1>1. ClusterTypeOK /\ lastUID \in [DeviceConfigs -> Nat]
  BY DEF GuardInv, TypeOK, ClusterTypeOK
<1>2. CASE Unwritten
  BY <1>1, <1>2, UnwrittenFacts DEF LiveStays
<1>3. ASSUME NEW e \in DeviceConfigs, NEW object \in {None} \cup DCObject,
             WriteDC(e, object), e # d
      PROVE  Live(d)' = None \/ LiveStays(d)
  BY <1>1, <1>3, WriteDCFacts DEF LiveStays
<1>4. ASSUME NEW object \in {None} \cup DCObject, WrittenByUser(d, object)
      PROVE  Live(d)' = None \/ LiveStays(d) \/ Succeeded(d)
  <2>1. Live(d)' = object
    BY <1>1, <1>4, WriteDCFacts DEF WrittenByUser
  <2>2. object # None => object \in DCObject
    OBVIOUS
  <2>3. Created(d, object) /\ object \in DCObject => Succeeded(d)
    BY <1>1, <2>1, NoneAssumption DEF Created, Succeeded
  <2>4. Edited(d, object) /\ object \in DCObject => LiveStays(d)
    BY <2>1, NoneAssumption DEF Edited, LiveStays
  <2> QED BY <1>4, <2>1, <2>3, <2>4 DEF WrittenByUser
<1>5. ASSUME key = d, NEW object \in {None} \cup DCObject,
             WrittenByWorker(object)
      PROVE  Live(d)' = None \/ LiveStays(d)
  <2>1. Live(d)' = object
    BY <1>1, <1>5, WriteDCFacts DEF WrittenByWorker
  <2>2. fresh => Stored(cr.spec) = Stored(Live(d).spec)
    BY <1>5 DEF FreshSpec
  <2>3. Live(d) # None => Stored(Live(d).spec) = Live(d).spec
    BY DEF SelectorsGiven, Stored
  <2>4. Updated(object) /\ object \in DCObject => LiveStays(d)
    BY <1>5, <2>1, <2>2, <2>3, NoneAssumption DEF Updated, LiveStays
  <2> QED BY <1>5, <2>1, <2>4 DEF WrittenByWorker
<1> QED BY <1>2, <1>3, <1>4, <1>5, ServerStep DEF GuardInv, WrittenByUser, WrittenByWorker

-----------------------------------------------------------------------------
(* The parts of the invariant, step by step.                               *)

(* A copy that is known after a step is the live one, or one that was      *)
(* known before in all that matters here.                                  *)
LEMMA KnownStep ==
    ASSUME GuardInv, [Next]_vars, NEW d \in DeviceConfigs,
           NEW object \in Known(d)'
    PROVE  \/ object = Live(d)'
           \/ /\ object \in DCObject
              /\ \E known \in Known(d) : known # None
                    /\ known.uid = object.uid /\ known.spec = object.spec
           \/ object = None
<1>1. ClusterTypeOK
  BY DEF GuardInv, TypeOK
<1>2. \A known \in Versions(d) : known \in {None} \cup DCObject
  <2>1. \A i \in 1..Len(dcView) : dcView[i] \in DCMap
    BY <1>1 DEF ClusterTypeOK
  <2> QED BY <2>1 DEF Versions, DCMap
<1>3. CASE object \in Versions(d)'
  <2>1. Versions(d)' \subseteq Versions(d) \cup {Live(d)'}
    BY VersionsStep DEF GuardInv
  <2> QED BY <1>2, <1>3, <2>1 DEF Known
<1>4. CASE object \notin Versions(d)'
  <2>1. HoldsCopy' /\ d = key' /\ object = cr'
    BY <1>4 DEF Known
  <2>2. key = d /\ cr' \in DCObject
    BY <2>1, CopyStep DEF GuardInv
  <2>3. CASE cr' = Cached(key)
    <3>1. Cached(d) \in Versions(d)
      BY <1>1 DEF Cached, Versions, ClusterTypeOK
    <3> QED BY <2>1, <2>2, <2>3, <3>1, NoneAssumption DEF Known
  <2>4. CASE cr' # Cached(key)
    <3>1. HoldsCopy /\ cr \in DCObject /\ cr'.uid = cr.uid /\ cr'.spec = cr.spec
      BY <2>1, <2>4, CopyStep DEF GuardInv
    <3> QED BY <2>1, <2>2, <3>1, NoneAssumption DEF Known
  <2> QED BY <2>3, <2>4
<1> QED BY <1>3, <1>4

(* Every step keeps the specs.                                             *)
LEMMA SpecsStep ==
    ASSUME GuardInv, FreshSpec, SpecsStay, SelectorsGiven, [Next]_vars,
           "edit" \notin Env, \A spec \in UserSpecs : spec.nodeSelector # {}
    PROVE  SpecsStay' /\ SelectorsGiven'
<1>1. ASSUME NEW d \in DeviceConfigs
      PROVE  Live(d)' = None \/ LiveStays(d) \/ Succeeded(d)
  BY LiveStep
<1>2. SelectorsGiven'
  BY <1>1 DEF SelectorsGiven, LiveStays, Succeeded
<1>3. ASSUME NEW d \in DeviceConfigs, NEW object \in Known(d)', object # None
      PROVE  /\ object.uid <= lastUID'[d]
             /\ Live(d)' # None /\ Live(d)'.uid = object.uid
                => object.spec = Live(d)'.spec
  <2>1. lastUID'[d] \in Nat /\ lastUID[d] \in Nat /\ lastUID[d] <= lastUID'[d]
    BY UIDsGrow DEF GuardInv
  <2>2. CASE object = Live(d)'
    <3>1. CASE LiveStays(d)
      <4>1. Live(d) \in Known(d) /\ Live(d) \in DCObject
        BY <3>1, LiveIsVersion, EndsTypeOK DEF Known, LiveStays, GuardInv, TypeOK
      <4>2. Live(d).uid <= lastUID[d] /\ Live(d).uid \in Nat
        BY <3>1, <4>1 DEF SpecsStay, LiveStays, DCObject
      <4> QED BY <2>1, <2>2, <3>1, <4>2 DEF LiveStays
    <3> QED BY <1>1, <1>3, <2>1, <2>2, <3>1 DEF Succeeded
  <2>3. CASE object # Live(d)'
    <3>1. object \in DCObject /\ object.uid \in Nat
      BY <1>3, <2>3, KnownStep DEF DCObject
    <3>2. PICK known \in Known(d) : /\ known # None
                                    /\ known.uid = object.uid
                                    /\ known.spec = object.spec
      BY <1>3, <2>3, KnownStep
    <3>3. /\ object.uid <= lastUID[d]
          /\ Live(d) # None /\ Live(d).uid = object.uid
             => object.spec = Live(d).spec
      BY <3>2 DEF SpecsStay
    <3>4. LiveStays(d) /\ Live(d)'.uid = object.uid
            => object.spec = Live(d)'.spec
      BY <3>3 DEF LiveStays
    <3>5. Succeeded(d) => Live(d)'.uid # object.uid
      BY <2>1, <3>1, <3>3 DEF Succeeded
    <3> QED BY <1>1, <2>1, <3>1, <3>3, <3>4, <3>5
  <2> QED BY <2>2, <2>3
<1> QED BY <1>2, <1>3 DEF SpecsStay

(* Every step keeps the live DeviceConfig's versions together.             *)
LEMMA IdentityStep ==
    ASSUME GuardInv, FreshSpec, SpecsStay, SelectorsGiven, IdentityLasts,
           [Next]_vars, "edit" \notin Env,
           \A spec \in UserSpecs : spec.nodeSelector # {}
    PROVE  IdentityLasts'
<1> SUFFICES ASSUME NEW d \in DeviceConfigs, NEW i \in 1..Len(dcView'),
                    dcView'[i][d] # None, Live(d)' # None,
                    dcView'[i][d].uid = Live(d)'.uid,
                    NEW j \in i..Len(dcView')
             PROVE  dcView'[j][d] # None /\ dcView'[j][d].uid = Live(d)'.uid
  BY DEF IdentityLasts
<1>1. /\ ClusterTypeOK /\ dcView \in Seq(DCMap) /\ Len(dcView) \in Nat
      /\ lastUID[d] \in Nat
  BY DEF GuardInv, TypeOK, ClusterTypeOK
<1>2. ASSUME NEW m \in 1..Len(dcView), NEW n \in m..Len(dcView),
             dcView[m][d] # None, LiveStays(d),
             dcView[m][d].uid = Live(d)'.uid
      PROVE  dcView[n][d] # None /\ dcView[n][d].uid = Live(d)'.uid
  BY <1>2 DEF IdentityLasts, LiveStays
<1>3. CASE Unwritten /\ Shifted(dcView, dcView')
  <2>1. PICK n \in Nat : /\ n < Len(dcView) /\ Len(dcView') = Len(dcView) - n
                         /\ \A m \in 1..Len(dcView') : dcView'[m] = dcView[m + n]
    BY <1>3 DEF Shifted
  <2>2. LiveStays(d)
    BY <1>1, <1>3, UnwrittenFacts DEF LiveStays
  <2>3. i + n \in 1..Len(dcView) /\ j + n \in (i + n)..Len(dcView)
        /\ dcView'[i] = dcView[i + n] /\ dcView'[j] = dcView[j + n]
    BY <1>1, <2>1
  <2> QED BY <1>2, <2>2, <2>3
<1>4. ASSUME NEW e \in DeviceConfigs, NEW object \in {None} \cup DCObject,
             Written(e, object)
      PROVE  dcView'[j][d] # None /\ dcView'[j][d].uid = Live(d)'.uid
  <2>1. /\ \A m \in 1..Len(dcView) : dcView'[m] = dcView[m]
        /\ Len(dcView') \in {Len(dcView), Len(dcView) + 1}
    BY <1>1, <1>4, WriteView DEF Written, WrittenByUser, WrittenByWorker
  <2>2. CASE j = Len(dcView')
    BY <2>2 DEF Live
  <2>3. CASE j # Len(dcView')
    <3>1. i \in 1..Len(dcView) /\ j \in i..Len(dcView)
      BY <1>1, <2>1, <2>3
    <3>2. dcView'[i] = dcView[i] /\ dcView'[j] = dcView[j]
      BY <1>1, <2>1, <3>1
    <3>3. dcView[i][d] \in Known(d) /\ dcView[i][d] \in DCObject
      BY <1>1, <3>1, <3>2 DEF Known, Versions, DCMap
    <3>4. dcView[i][d].uid <= lastUID[d] /\ dcView[i][d].uid \in Nat
      BY <3>2, <3>3 DEF SpecsStay, DCObject
    <3>5. ~Succeeded(d)
      BY <1>1, <3>2, <3>4 DEF Succeeded
    <3>6. LiveStays(d)
      BY <3>5, LiveStep
    <3> QED BY <1>2, <3>1, <3>2, <3>6
  <2> QED BY <2>2, <2>3
<1> QED BY <1>3, <1>4, ViewStep

(* What is shown of a DeviceConfig stays shown as long as it is the live   *)
(* one.                                                                    *)
LEMMA ShownStays ==
    ASSUME GuardInv, IdentityLasts, [Next]_vars, NEW d \in DeviceConfigs,
           Shown(d), Live(d)' # None, Live(d)'.uid = Live(d).uid
    PROVE  Shown(d)'
<1>1. ClusterTypeOK /\ Len(dcView) \in Nat /\ Len(dcView) > 0
  BY DEF GuardInv, TypeOK, ClusterTypeOK
<1>2. \A j \in 1..Len(dcView) : dcView[j][d] # None
                                /\ dcView[j][d].uid = Live(d).uid
  <2>1. 1 \in 1..Len(dcView)
    BY <1>1
  <2> QED BY <2>1 DEF IdentityLasts, Shown, Cached
<1>3. CASE Shifted(dcView, dcView')
  <2>1. PICK n \in Nat : /\ n < Len(dcView) /\ Len(dcView') = Len(dcView) - n
                         /\ \A m \in 1..Len(dcView') : dcView'[m] = dcView[m + n]
    BY <1>3 DEF Shifted
  <2>2. 1 + n \in 1..Len(dcView) /\ dcView'[1] = dcView[1 + n]
    BY <1>1, <2>1
  <2> QED BY <1>2, <2>2 DEF Shown, Cached
<1>4. ASSUME NEW e \in DeviceConfigs, NEW object \in {None} \cup DCObject,
             Written(e, object)
      PROVE  Shown(d)'
  <2>1. \A m \in 1..Len(dcView) : dcView'[m] = dcView[m]
    BY <1>1, <1>4, WriteView DEF Written, WrittenByUser, WrittenByWorker
  <2>2. dcView'[1] = dcView[1]
    BY <1>1, <2>1
  <2> QED BY <2>2 DEF Shown, Cached
<1> QED BY <1>3, <1>4, ViewStep

(* The worker's copy is of the live DeviceConfig after a step only if it   *)
(* was, or was just read.                                                  *)
LEMMA LiveCopyStep ==
    ASSUME GuardInv, FreshSpec, SpecsStay, SelectorsGiven, [Next]_vars,
           "edit" \notin Env, \A spec \in UserSpecs : spec.nodeSelector # {},
           HoldsCopy', Live(key)' # None, Live(key)'.uid = cr'.uid
    PROVE  /\ key' = key /\ key \in DeviceConfigs
           /\ LiveStays(key) /\ Live(key).uid = cr'.uid
           /\ Live(key).spec = cr'.spec
<1>1. PICK d \in DeviceConfigs : d = key /\ key' = key
  BY CopyStep DEF GuardInv
<1>2. PICK known \in Known(d) : known \in DCObject /\ known.uid = cr'.uid
                                /\ known.spec = cr'.spec
  <2>1. CASE cr' = Cached(key)
    <3>1. Cached(d) \in Known(d)
      BY DEF Cached, Versions, Known, GuardInv, TypeOK, ClusterTypeOK
    <3>2. cr' = Cached(d) /\ cr' \in DCObject
      BY <1>1, <2>1, CopyStep DEF GuardInv
    <3> QED BY <3>1, <3>2
  <2>2. CASE cr' # Cached(key)
    <3>1. HoldsCopy /\ cr \in DCObject /\ cr'.uid = cr.uid /\ cr'.spec = cr.spec
      BY <2>2, CopyStep DEF GuardInv
    <3> QED BY <1>1, <3>1 DEF Known
  <2> QED BY <2>1, <2>2
<1>3. known.uid <= lastUID[d] /\ known.uid \in Nat /\ lastUID[d] \in Nat
  BY <1>2, NoneAssumption DEF SpecsStay, DCObject, GuardInv, TypeOK, ClusterTypeOK
<1>4. Live(d)' # None /\ Live(d)'.uid = known.uid
  BY <1>1, <1>2 DEF Live
<1>5. ~Succeeded(d)
  BY <1>3, <1>4 DEF Succeeded
<1>6. LiveStays(d)
  BY <1>4, <1>5, LiveStep
<1>7. Live(d) # None /\ Live(d).uid = known.uid
  BY <1>4, <1>6 DEF LiveStays
<1>8. known.spec = Live(d).spec
  BY <1>2, <1>7, NoneAssumption DEF SpecsStay
<1> QED BY <1>1, <1>2, <1>6, <1>7, <1>8

(* The worker's copy stays behind the cache.                               *)
LEMMA CopyShownStep ==
    ASSUME GuardInv, PoolInv, [Next]_vars,
           "edit" \notin Env, \A spec \in UserSpecs : spec.nodeSelector # {}
    PROVE  CopyShown'
<1> SUFFICES ASSUME HoldsCopy', Live(key)' # None, Live(key)'.uid = cr'.uid
             PROVE  Shown(key)'
  BY DEF CopyShown
<1>1. PICK d \in DeviceConfigs : /\ d = key /\ key' = key
                                 /\ LiveStays(d) /\ Live(d).uid = cr'.uid
  BY LiveCopyStep DEF PoolInv
<1>2. Shown(d)
  <2>1. CASE cr' = Cached(key)
    BY <1>1, <2>1, CopyStep, NoneAssumption DEF GuardInv, Shown, LiveStays
  <2>2. CASE cr' # Cached(key)
    <3>1. HoldsCopy /\ cr'.uid = cr.uid
      BY <2>2, CopyStep DEF GuardInv
    <3> QED BY <1>1, <3>1 DEF PoolInv, CopyShown, LiveStays
  <2> QED BY <2>1, <2>2
<1>3. Shown(d)'
  BY <1>1, <1>2, ShownStays DEF LiveStays, PoolInv
<1> QED BY <1>1, <1>3 DEF Shown, Live, Cached

(* A Module that the worker leaves on the server selects the nodes that    *)
(* the spec says: a patch finds nothing to change in one that was there.   *)
LEMMA BringsUpSelector ==
    ASSUME GuardInv, PoolInv, [Next]_vars, BringsUp("Module", key),
           pc = "CreateOrPatch"
    PROVE  /\ key \in DeviceConfigs /\ UNCHANGED dcView
           /\ Live(key) # None /\ Live(key).uid = cr.uid /\ Shown(key)
           /\ Live(key).spec = cr.spec
           /\ Applied("Module", key).selector = GetNodeSelector(cr.spec)
<1>1. /\ key \in DeviceConfigs /\ cr \in DCObject /\ "Module" \in Kinds
      /\ CreateOrPatch /\ Accepted("Module", key) /\ HoldsCopy
  BY ChainFacts DEF GuardInv, TypeOK, WorkerTypeOK, BringsUp, HoldsCopy
<1>2. Live(key) # None /\ Live(key).uid = cr.uid
  BY DEF GuardInv, CopyInv, NormalSteps
<1>3. Shown(key)
  BY <1>1, <1>2 DEF PoolInv, CopyShown
<1>4. Live(key).spec = cr.spec
  BY <1>1, <1>2, NoneAssumption DEF PoolInv, SpecsStay, Known
<1>5. Desired("Module", cr).selector = GetNodeSelector(cr.spec)
  BY DEF Desired, DesiredModule
<1>6. CASE CachedChild("Module", key) = None
  BY <1>1, <1>2, <1>3, <1>4, <1>5, <1>6 DEF Applied, CreateOrPatch
<1>7. CASE CachedChild("Module", key) # None
  <2>1. LiveChild("Module", key) # None
    BY <1>1, <1>7 DEF Accepted
  <2>2. LiveChild("Module", key).selector = GetNodeSelector(cr.spec)
    BY <1>1, <1>4, <2>1 DEF PoolInv, SteadyModule
  <2>3. Applied("Module", key).selector =
          (GetNodeSelector(cr.spec)
             \ (CachedChild("Module", key).selector \ GetNodeSelector(cr.spec)))
            \cup (GetNodeSelector(cr.spec) \ CachedChild("Module", key).selector)
    BY <1>5, <1>7, <2>2 DEF Applied, MergePatch
  <2>4. \A S, T : (S \ (T \ S)) \cup (S \ T) = S
    OBVIOUS
  <2> QED BY <1>1, <1>2, <1>3, <1>4, <2>3, <2>4 DEF CreateOrPatch
<1> QED BY <1>6, <1>7

(* Every step keeps the DeviceConfig of a Module in the cache.             *)
LEMMA SteadyStep ==
    ASSUME GuardInv, PoolInv, [Next]_vars,
           "edit" \notin Env, \A spec \in UserSpecs : spec.nodeSelector # {}
    PROVE  SteadyModule'
<1> SUFFICES ASSUME NEW d \in DeviceConfigs, LiveChild("Module", d)' # None
             PROVE  Shown(d)' /\ LiveChild("Module", d)'.selector
                                    = GetNodeSelector(Live(d)'.spec)
  BY DEF SteadyModule
<1>1. /\ Live(d)' # None
      /\ Live(d)'.uid = LiveChild("Module", d)'.owner
  <2>1. FinalizerGuardsModule'
    BY GuardStep DEF GuardInv
  <2> QED BY <2>1 DEF FinalizerGuardsModule, Owns
<1>2. CASE LiveChild("Module", d)' = LiveChild("Module", d)
  <2>1. Live(d) # None /\ Live(d).uid = LiveChild("Module", d).owner
    BY <1>2 DEF GuardInv, FinalizerGuardsModule, Owns
  <2>2. LiveStays(d)
    BY <1>1, <2>1, LiveStep DEF PoolInv, Succeeded
  <2>3. Shown(d) /\ LiveChild("Module", d).selector = GetNodeSelector(Live(d).spec)
    BY <1>2 DEF PoolInv, SteadyModule
  <2>4. Shown(d)'
    BY <2>2, <2>3, ShownStays DEF LiveStays, PoolInv
  <2> QED BY <1>2, <2>2, <2>3, <2>4 DEF LiveStays
<1>3. CASE LiveChild("Module", d)' # LiveChild("Module", d)
  <2>1. /\ BringsUp("Module", d) /\ pc = "CreateOrPatch" /\ d = key
        /\ LiveChild("Module", d)' = Applied("Module", d)
    BY <1>3, OneModuleStep DEF GuardInv
  <2>2. /\ UNCHANGED dcView /\ Shown(d) /\ Live(d).spec = cr.spec
        /\ Applied("Module", d).selector = GetNodeSelector(cr.spec)
    BY <2>1, BringsUpSelector
  <2>3. Shown(d)' /\ Live(d)' = Live(d)
    BY <2>2 DEF Shown, Live, Cached
  <2> QED BY <2>1, <2>2, <2>3
<1> QED BY <1>2, <1>3

(* Two sets of nodes overlap either way round.                             *)
LEMMA OverlapBothWays ==
    ASSUME NEW s, NEW t
    PROVE  Overlap(s, t) <=> Overlap(t, s)
BY DEF Overlap

(* The worker is past the check after a step only if it was before, or has *)
(* just passed it.                                                         *)
LEMMA CheckStep ==
    ASSUME GuardInv, [Next]_vars, pc' \in PastCheck
    PROVE  \/ pc \in PastCheck
           \/ /\ pc = "Validate" /\ ~Conflicting(dcView[1])
              /\ UNCHANGED <<dcView, childView, key, cr>>
<1>1. \A failed \in BOOLEAN : Finish(failed) => pc' = "idle"
  BY DEF Finish
<1>2. CASE ValidateNodeSelector
  BY <1>1, <1>2 DEF ValidateNodeSelector, PastCheck, clusterVars, Goto
<1>3. CASE Dequeue \/ Get \/ DeleteModule
  BY <1>1, <1>3 DEF Dequeue, Get, DeleteModule, Goto, PastCheck
<1>4. CASE GetChild \/ CreateOrPatch \/ AddDeletionFinalizer
  BY <1>4 DEF GetChild, CreateOrPatch, AddDeletionFinalizer, PastCheck
<1>5. CASE SetConditionsErrored \/ SetConditionsReady \/ RemoveDeletionFinalizer
  BY <1>5, FinalWrite, Removal DEF PastCheck
<1>6. CASE Own \/ UNCHANGED vars
  BY <1>6, OwnWrites DEF workerVars, vars
<1>7. CASE ByUsers
  BY <1>7, UserWrites DEF GuardInv, ByUsers, UserOp
<1>8. CASE Crash
  BY <1>8 DEF Crash, PastCheck
<1> QED BY <1>2, <1>3, <1>4, <1>5, <1>6, <1>7, <1>8, StepKinds
        DEF Reading, Writing

(* The nodes of a copy that passed the check get no other driver: to have  *)
(* a Module is to be shown, and what is shown was checked.                 *)
LEMMA ClearedStep ==
    ASSUME GuardInv, PoolInv, [Next]_vars,
           "edit" \notin Env, \A spec \in UserSpecs : spec.nodeSelector # {}
    PROVE  Cleared'
<1> SUFFICES ASSUME pc' \in PastCheck,
                    Live(key)' # None, Live(key)'.uid = cr'.uid,
                    NEW d \in DeviceConfigs, d # key',
                    LiveChild("Module", d)' # None
             PROVE  ~Overlap(GetNodeSelector(cr'.spec),
                             LiveChild("Module", d)'.selector)
  BY DEF Cleared
<1>1. HoldsCopy'
  BY DEF HoldsCopy, PastCheck
<1>2. /\ key' = key /\ key \in DeviceConfigs
      /\ Live(key) # None /\ Live(key).uid = cr'.uid
      /\ Live(key).spec = cr'.spec
  BY <1>1, LiveCopyStep DEF PoolInv, LiveStays
<1>3. LiveChild("Module", d)' = LiveChild("Module", d)
  BY <1>2, OneModuleStep DEF GuardInv
<1>4. CASE pc \in PastCheck
  <2>1. HoldsCopy
    BY <1>4 DEF HoldsCopy, PastCheck
  <2>2. cr.uid = cr'.uid /\ cr.spec = cr'.spec
    BY <1>1, <1>4, CopyStep DEF GuardInv, PastCheck
  <2> QED BY <1>2, <1>3, <1>4, <2>2 DEF PoolInv, Cleared
<1>5. CASE /\ pc = "Validate" /\ ~Conflicting(dcView[1])
           /\ UNCHANGED <<dcView, childView, key, cr>>
  <2>1. Shown(d) /\ LiveChild("Module", d).selector = GetNodeSelector(Live(d).spec)
    BY <1>3 DEF PoolInv, SteadyModule
  <2>2. Shown(key)
    BY <1>2, <1>5 DEF PoolInv, CopyShown, HoldsCopy
  <2>3. ASSUME NEW e \in DeviceConfigs, Shown(e)
        PROVE  Cached(e) # None /\ Cached(e).spec = Live(e).spec
    <3>1. Cached(e) \in Known(e)
      BY DEF Known, Versions, Cached, GuardInv, TypeOK, ClusterTypeOK
    <3> QED BY <2>3, <3>1 DEF Shown, PoolInv, SpecsStay
  <2>4. ~Overlap(GetNodeSelector(Cached(key).spec), GetNodeSelector(Cached(d).spec))
    BY <1>2, <1>5, <2>1, <2>2, <2>3 DEF Conflicting, Cached
  <2> QED BY <1>2, <1>3, <2>1, <2>2, <2>3, <2>4
<1> QED BY <1>4, <1>5, CheckStep

(* Every step keeps the Modules apart.                                     *)
LEMMA OneDriverStep ==
    ASSUME GuardInv, PoolInv, [Next]_vars
    PROVE  OneDriverPerNode'
<1> SUFFICES ASSUME NEW d \in DeviceConfigs, NEW e \in DeviceConfigs, d # e,
                    LiveChild("Module", d)' # None,
                    LiveChild("Module", e)' # None
             PROVE  ~Overlap(LiveChild("Module", d)'.selector,
                             LiveChild("Module", e)'.selector)
  BY DEF OneDriverPerNode
<1>1. ASSUME NEW f \in DeviceConfigs, NEW g \in DeviceConfigs, f # g,
             LiveChild("Module", g)' # None,
             BringsUp("Module", f), pc = "CreateOrPatch", f = key,
             LiveChild("Module", f)' = Applied("Module", f)
      PROVE  ~Overlap(LiveChild("Module", f)'.selector,
                      LiveChild("Module", g)'.selector)
  <2>1. /\ Live(key) # None /\ Live(key).uid = cr.uid
        /\ Applied("Module", key).selector = GetNodeSelector(cr.spec)
    BY <1>1, BringsUpSelector
  <2>2. LiveChild("Module", g)' = LiveChild("Module", g)
    BY <1>1, OneModuleStep DEF GuardInv
  <2>3. ~Overlap(GetNodeSelector(cr.spec), LiveChild("Module", g).selector)
    BY <1>1, <2>1, <2>2 DEF PoolInv, Cleared, PastCheck
  <2> QED BY <1>1, <2>1, <2>2, <2>3
<1>2. CASE /\ LiveChild("Module", d)' = LiveChild("Module", d)
           /\ LiveChild("Module", e)' = LiveChild("Module", e)
  BY <1>2 DEF PoolInv, OneDriverPerNode
<1>3. CASE LiveChild("Module", d)' # LiveChild("Module", d)
  BY <1>1, <1>3, OneModuleStep DEF GuardInv
<1>4. CASE LiveChild("Module", e)' # LiveChild("Module", e)
  BY <1>1, <1>4, OneModuleStep, OverlapBothWays DEF GuardInv
<1> QED BY <1>2, <1>3, <1>4

-----------------------------------------------------------------------------
(* As long as nobody edits a DeviceConfig, and none is created with an     *)
(* empty nodeSelector, no two Modules select one node, whatever is created *)
(* and deleted while a reconcile is between its check, which reads a cache *)
(* of any age, and the Module it creates.  (nodeselector.go:41-65)         *)
THEOREM NodesHaveOneDriver ==
    ASSUME "edit" \notin Env,
           \A spec \in UserSpecs : spec.nodeSelector # {}
    PROVE  Spec => []OneDriverPerNode
<1>1. Init => PoolInv
  <2> SUFFICES ASSUME Init PROVE PoolInv
    OBVIOUS
  <2>1. dcView[1] = [d \in DeviceConfigs |-> None] /\ Len(dcView) = 1
        /\ pc = "idle" /\ fresh = FALSE
    BY DEF Init
  <2>2. \A d \in DeviceConfigs : Live(d) = None /\ Known(d) = {None}
    BY <2>1 DEF Live, Known, Versions, HoldsCopy
  <2>3. \A d \in DeviceConfigs : LiveChild("Module", d) = None
    BY DEF Init, LiveChild, Kinds
  <2> QED BY <2>1, <2>2, <2>3 DEF PoolInv, FreshSpec, SpecsStay,
          SelectorsGiven, IdentityLasts, CopyShown, HoldsCopy, SteadyModule,
          Cleared, PastCheck, OneDriverPerNode
<1>2. GuardInv /\ PoolInv /\ [Next]_vars => PoolInv'
  <2> SUFFICES ASSUME GuardInv, PoolInv, [Next]_vars PROVE PoolInv'
    OBVIOUS
  <2>1. FreshSpec'
    BY FreshSpecStep DEF GuardInv, PoolInv
  <2>2. SpecsStay' /\ SelectorsGiven'
    BY SpecsStep DEF PoolInv
  <2>3. IdentityLasts'
    BY IdentityStep DEF PoolInv
  <2>4. CopyShown'
    BY CopyShownStep
  <2>5. SteadyModule'
    BY SteadyStep
  <2>6. Cleared'
    BY ClearedStep
  <2>7. OneDriverPerNode'
    BY OneDriverStep
  <2> QED BY <2>1, <2>2, <2>3, <2>4, <2>5, <2>6, <2>7 DEF PoolInv
<1>3. PoolInv => OneDriverPerNode
  BY DEF PoolInv
<1> QED BY <1>1, <1>2, <1>3, GuardInvariant, PTL DEF Spec

-----------------------------------------------------------------------------
(* Rest: the invariant.                                                    *)

(* Something is on its way that will have the worker look at a             *)
(* DeviceConfig again: its key, or the event of a write to it or to a      *)
(* child that the controller watches.                                      *)
Pending(d) ==
    \/ d \in dirty \cup waiting
    \/ \E i \in 1..Len(dcView) : dcView[i][d] # Live(d)
    \/ \E k \in Owned : Len(childView[k][d]) > 1

(* A key that needs processing is queued or the worker's.                  *)
QueuedOrHeld ==
    /\ \A d \in dirty : d = key \/ \E i \in 1..Len(queue) : queue[i] = d
    /\ pc = "idle" => key = None

(* Every event is about one DeviceConfig.                                  *)
OneChange ==
    \A i \in 1..(Len(dcView) - 1) : \A d, e \in DeviceConfigs :
        dcView[i][d] # dcView[i + 1][d] /\ dcView[i][e] # dcView[i + 1][e]
        => d = e

(* No list of the cache, now or later, is in conflict.                     *)
Undisputed == \A i \in 1..Len(dcView) : ~Conflicting(dcView[i])

(* What is being deleted has the finalizer still.                          *)
DeletingProtected ==
    \A d \in DeviceConfigs :
        Live(d) # None /\ Live(d).deleting => Live(d).finalizer

(* Nothing of a spec is in a Service.                                      *)
ServiceShape ==
    \A d \in DeviceConfigs : LET c == LiveChild("Service", d) IN
        c # None => c.driver = None /\ c.selector = {}

(* The first n children of a DeviceConfig, but for those that nobody       *)
(* watches, are what it asks for.                                          *)
Matching(d, dc, n) ==
    \A i \in 1..n :
        Chain[i] \in Owned => LiveChild(Chain[i], d) = Desired(Chain[i], dc)

(* A DeviceConfig that nothing is pending for, and that the worker has not *)
(* got, is done.                                                           *)
Done(d) ==
    IF Live(d) = None
    THEN gauge[d] # "failed"
    ELSE /\ ~Live(d).deleting /\ Live(d).finalizer
         /\ Live(d).status = "Ready" /\ gauge[d] = "ok"
         /\ Matching(d, Live(d), Len(Chain))

Settled == \A d \in DeviceConfigs : ~Pending(d) /\ d # key => Done(d)

(* A reconcile that nothing is pending behind has the live DeviceConfig    *)
(* and the children that it has been through are what it asks for.         *)
Undisturbed ==
    HoldsCopy /\ ~Pending(key) =>
        /\ fresh /\ cr = Live(key)
        /\ pc \in {"GetChild", "CreateOrPatch"} => Matching(key, cr, child - 1)
        /\ pc = "SetReady" => gauge[key] = "ok" /\ Matching(key, cr, Len(Chain))

(* The finalizer is only added where it is missing.                        *)
FinalizerMissing == pc = "AddFinalizer" => ~cr.finalizer

RestInv ==
    /\ QueuedOrHeld /\ OneChange /\ Undisputed /\ DeletingProtected
    /\ ServiceShape /\ Settled /\ Undisturbed /\ FinalizerMissing

-----------------------------------------------------------------------------
(* The steps as the work queue sees them.                                  *)

(* The worker takes a key.                                                 *)
Takes ==
    /\ pc = "idle" /\ pc' = "Get" /\ queue # <<>> /\ key' = Head(queue)
    /\ queue' = Tail(queue) /\ dirty' = dirty \ {Head(queue)}
    /\ UNCHANGED waiting

(* The worker is done with a key.                                          *)
Ends == pc # "idle" /\ \E failed \in BOOLEAN : Finish(failed)

(* The worker goes on.                                                     *)
GoesOn == pc # "idle" /\ pc' # "idle" /\ UNCHANGED <<queueVars, key>>

(* The informers and the timers add keys.                                  *)
Adds ==
    /\ pc' = pc /\ key' = key
    /\ \/ UNCHANGED <<queue, dirty>> /\ waiting \subseteq waiting'
       \/ \E d \in DeviceConfigs : Add(d) /\ waiting \subseteq waiting' \cup {d}

(* Every step is one of these, or a crash.                                 *)
LEMMA QueueSteps ==
    ASSUME TypeOK, [Next]_vars
    PROVE  Takes \/ Ends \/ GoesOn \/ Adds \/ Crash
<1>1. CASE Dequeue
  BY <1>1 DEF Dequeue, Takes
<1>2. CASE Get
  BY <1>2, Zenon DEF Get, Ends, GoesOn, Goto
<1>3. CASE ValidateNodeSelector
  <2>1. pc = "Validate" /\ (Finish(FALSE) \/ Goto("GetChild") \/ Goto("AddFinalizer"))
    BY <1>3 DEF ValidateNodeSelector
  <2> QED BY <2>1 DEF Ends, GoesOn, Goto
<1>4. CASE GetChild \/ CreateOrPatch
  <2>1. pc \in {"GetChild", "CreateOrPatch"} /\ \E step : Goto(step) /\ step # "idle"
    BY <1>4 DEF GetChild, CreateOrPatch, NextChild, ChildFailed
  <2> QED BY <2>1 DEF GoesOn, Goto
<1>5. CASE DeleteModule
  <2>1. pc = "DeleteModule" /\ (Finish(TRUE) \/ Goto("RemoveFinalizer"))
    BY <1>5 DEF DeleteModule
  <2> QED BY <2>1 DEF Ends, GoesOn, Goto
<1>6. CASE Writing
  <2> DEFINE A == /\ cr' = [cr EXCEPT !.finalizer = TRUE]
                  /\ Goto("GetChild") /\ child' = 1
                  /\ UNCHANGED <<fresh, found>>
             B == Finish(FALSE)
             C == Finish(TRUE)
  <2>1. pc # "idle" /\ \E e : Update(e, A, C) \/ Update(e, B, C) \/ Update(e, C, C)
    BY <1>6, Zenon DEF Writing, AddDeletionFinalizer, SetConditionsErrored,
       SetConditionsReady, RemoveDeletionFinalizer
  <2>2. A => GoesOn
    BY <2>1 DEF GoesOn, Goto
  <2>3. B \/ C => Ends
    BY <2>1 DEF Ends
  <2> HIDE DEF A, B, C
  <2>4. A \/ B \/ C
    BY <2>1 DEF Update
  <2> QED BY <2>2, <2>3, <2>4
<1>7. CASE Own
  <2>1. pc' = pc /\ key' = key
    BY <1>7, OwnWrites DEF workerVars
  <2>2. DeliverDC => UNCHANGED waiting /\ \E d \in DeviceConfigs : Add(d)
    BY DEF DeliverDC
  <2>3. Resync => UNCHANGED <<queue, dirty>> /\ waiting \subseteq waiting'
    BY DEF Resync
  <2>4. ASSUME NEW d \in DeviceConfigs, TimerFires(d)
        PROVE  Add(d) /\ waiting \subseteq waiting' \cup {d}
    BY <2>4 DEF TimerFires
  <2>5. ASSUME NEW d \in DeviceConfigs, NEW k \in Kinds,
               DeliverChild(k, d) \/ Tamper(k, d) \/ CollectGarbage(k, d)
        PROVE  UNCHANGED waiting /\ (Add(d) \/ UNCHANGED <<queue, dirty>>)
    BY <2>5 DEF DeliverChild, Tamper, CollectGarbage, queueVars
  <2> QED BY <1>7, <2>1, <2>2, <2>3, <2>4, <2>5 DEF Own, Adds
<1>8. CASE ByUsers
  <2>1. PICK d \in DeviceConfigs : UserOp(d)
    BY <1>8, UserWrites DEF ByUsers
  <2> QED BY <2>1 DEF UserOp, queueVars, Adds
<1>9. CASE UNCHANGED vars
  BY <1>9 DEF vars, queueVars, workerVars, Adds
<1> QED BY <1>1, <1>2, <1>3, <1>4, <1>5, <1>6, <1>7, <1>8, <1>9, StepKinds
        DEF Reading

(* No key is forgotten: QueuedOrHeld is inductive.                         *)
LEMMA QueueStep ==
    ASSUME TypeOK, QueuedOrHeld, [Next]_vars
    PROVE  QueuedOrHeld'
<1>1. queue \in Seq(DeviceConfigs) /\ Len(queue) \in Nat
      /\ (pc # "idle" => key \in DeviceConfigs) /\ None \notin DeviceConfigs
  BY SentinelAssumption DEF TypeOK, QueueTypeOK, WorkerTypeOK
<1>2. ASSUME NEW d \in DeviceConfigs
      PROVE  LET s == Append(queue, d) IN
             /\ \E j \in 1..Len(s) : s[j] = d
             /\ \A i \in 1..Len(queue) : \E j \in 1..Len(s) : s[j] = queue[i]
  BY <1>1, AppendFacts
<1>3. CASE Takes
  <2>1. ASSUME NEW d \in dirty, d # Head(queue)
        PROVE  \E i \in 1..Len(queue') : queue'[i] = d
    <3>1. d # key
      BY <1>3, <2>1, SentinelAssumption DEF Takes, QueuedOrHeld, TypeOK, QueueTypeOK
    <3>2. PICK i \in 1..Len(queue) : queue[i] = d
      BY <3>1 DEF QueuedOrHeld
    <3>3. queue # <<>> /\ queue' = Tail(queue)
      BY <1>3 DEF Takes
    <3>4. i # 1
      BY <1>1, <2>1, <3>2
    <3>5. i - 1 \in 1..Len(queue') /\ queue'[i - 1] = d
      BY <1>1, <3>2, <3>3, <3>4
    <3> QED BY <3>5
  <2> QED BY <1>3, <2>1 DEF Takes, QueuedOrHeld
<1>4. CASE Ends
  <2>1. /\ dirty' = dirty /\ key' = None /\ key \in DeviceConfigs
        /\ queue' = IF key \in dirty THEN Append(queue, key) ELSE queue
    BY <1>1, <1>4 DEF Ends, Finish
  <2> QED BY <1>2, <2>1 DEF QueuedOrHeld
<1>5. CASE GoesOn
  BY <1>5 DEF GoesOn, queueVars, QueuedOrHeld
<1>6. CASE Adds
  <2>1. ASSUME NEW d \in DeviceConfigs, Add(d)
        PROVE  \A e \in dirty' : e = key \/ \E i \in 1..Len(queue') : queue'[i] = e
    BY <1>2, <2>1 DEF Add, QueuedOrHeld
  <2> QED BY <1>6, <2>1 DEF Adds, QueuedOrHeld
<1>7. CASE Crash
  BY <1>7 DEF Crash, QueuedOrHeld
<1> QED BY <1>3, <1>4, <1>5, <1>6, <1>7, QueueSteps

-----------------------------------------------------------------------------
(* No event is forgotten.                                                  *)

(* A write adds a version that differs from the one before in one place.   *)
LEMMA OneChangeStep ==
    ASSUME GuardInv, OneChange, Undisputed, [Next]_vars, ~Conflict'
    PROVE  OneChange' /\ Undisputed'
<1>1. /\ dcView \in Seq(DCMap) /\ Len(dcView) \in Nat /\ Len(dcView) > 0
      /\ Len(dcView') \in Nat /\ Len(dcView') > 0
  BY GuardStep DEF GuardInv, TypeOK, ClusterTypeOK
<1>2. CASE Shifted(dcView, dcView')
  <2>1. PICK n \in Nat : /\ n < Len(dcView) /\ Len(dcView') = Len(dcView) - n
                         /\ \A i \in 1..Len(dcView') : dcView'[i] = dcView[i + n]
    BY <1>2 DEF Shifted
  <2>2. ASSUME NEW i \in 1..(Len(dcView') - 1)
        PROVE  /\ i + n \in 1..(Len(dcView) - 1)
               /\ dcView'[i] = dcView[i + n]
               /\ dcView'[i + 1] = dcView[i + n + 1]
    <3>1. /\ i \in 1..Len(dcView') /\ i + 1 \in 1..Len(dcView')
          /\ i + n \in 1..(Len(dcView) - 1) /\ (i + 1) + n = i + n + 1
      BY <1>1, <2>1
    <3>2. dcView'[i] = dcView[i + n] /\ dcView'[i + 1] = dcView[(i + 1) + n]
      BY <2>1, <3>1
    <3> QED BY <3>1, <3>2
  <2>3. OneChange'
    <3> SUFFICES ASSUME NEW i \in (1..(Len(dcView) - 1))',
                        NEW e \in DeviceConfigs, NEW f \in DeviceConfigs,
                        dcView'[i][e] # dcView'[i + 1][e],
                        dcView'[i][f] # dcView'[i + 1][f]
                 PROVE  e = f
      BY DEF OneChange
    <3> QED BY <2>2 DEF OneChange
  <2>4. \A i \in 1..Len(dcView') : i + n \in 1..Len(dcView)
    BY <1>1, <2>1
  <2> QED BY <2>1, <2>3, <2>4 DEF Undisputed
<1>3. ASSUME NEW d \in DeviceConfigs, NEW object \in {None} \cup DCObject,
             Written(d, object)
      PROVE  OneChange' /\ Undisputed'
  <2>1. /\ \A e \in DeviceConfigs \ {d} : Live(e)' = Live(e)
        /\ \A i \in 1..Len(dcView) : dcView'[i] = dcView[i]
        /\ Len(dcView') \in {Len(dcView), Len(dcView) + 1}
    BY <1>3, WriteView
       DEF Written, WrittenByUser, WrittenByWorker, GuardInv, TypeOK
  <2>2. ASSUME NEW i \in 1..(Len(dcView') - 1), i # Len(dcView)
        PROVE  /\ i \in 1..(Len(dcView) - 1)
               /\ dcView'[i] = dcView[i] /\ dcView'[i + 1] = dcView[i + 1]
    <3>1. /\ i \in 1..(Len(dcView) - 1)
          /\ i \in 1..Len(dcView) /\ i + 1 \in 1..Len(dcView)
      BY <1>1, <2>1, <2>2
    <3> QED BY <2>1, <3>1
  <2>3. ASSUME NEW e \in DeviceConfigs, Len(dcView) \in 1..(Len(dcView') - 1),
               dcView'[Len(dcView)][e] # dcView'[Len(dcView) + 1][e]
        PROVE  e = d
    <3>1. /\ dcView'[Len(dcView)][e] = Live(e)
          /\ dcView'[Len(dcView) + 1][e] = Live(e)'
      BY <1>1, <2>1, <2>3 DEF Live
    <3> QED BY <2>1, <2>3, <3>1
  <2>4. OneChange'
    <3> SUFFICES ASSUME NEW i \in (1..(Len(dcView) - 1))',
                        NEW e \in DeviceConfigs, NEW f \in DeviceConfigs,
                        dcView'[i][e] # dcView'[i + 1][e],
                        dcView'[i][f] # dcView'[i + 1][f]
                 PROVE  e = f
      BY DEF OneChange
    <3>1. CASE i = Len(dcView)
      BY <2>3, <3>1
    <3>2. CASE i # Len(dcView)
      BY <2>2, <3>2 DEF OneChange
    <3> QED BY <3>1, <3>2
  <2>5. Undisputed'
    <3>1. ASSUME NEW i \in 1..Len(dcView')
          PROVE  i \in 1..Len(dcView) \/ i = Len(dcView')
      BY <1>1, <2>1
    <3> QED BY <2>1, <3>1 DEF Undisputed, Conflict
  <2> QED BY <2>4, <2>5
<1> QED BY <1>2, <1>3, ViewStep

(* A child with fewer versions to come lost one to the informer.           *)
LEMMA ChildShrinks ==
    ASSUME TypeOK, FreshInv, [Next]_vars, NEW k \in Kinds, NEW d \in DeviceConfigs,
           Len(childView'[k][d]) < Len(childView[k][d])
    PROVE  DeliverChild(k, d) \/ Crash
<1>1. /\ childView[k][d] \in Seq({None} \cup Child) /\ Len(childView[k][d]) \in Nat
      /\ key \in DeviceConfigs \/ pc = "idle"
  BY DEF TypeOK, ClusterTypeOK, WorkerTypeOK
<1>2. childView'[k][d] # childView[k][d]
  BY <1>1
<1>3. ASSUME NEW l \in Kinds, NEW e \in DeviceConfigs,
             NEW object \in {None} \cup Child, WriteChild(l, e, object)
      PROVE  FALSE
  <2>1. \/ childView'[k][d] = childView[k][d]
        \/ childView'[k][d] = Append(childView[k][d], object)
    BY <1>3, WriteChildView DEF TypeOK
  <2> QED BY <1>1, <1>2, <2>1, AppendFacts
<1>4. CASE Reading
  <2>1. Dequeue \/ Get \/ ValidateNodeSelector \/ GetChild => UNCHANGED childView
    BY Zenon DEF Dequeue, Get, ValidateNodeSelector, GetChild, clusterVars
  <2>2. CASE CreateOrPatch
    <3>1. /\ pc = "CreateOrPatch" /\ key \in DeviceConfigs
          /\ Chain[child] \in Kinds /\ cr \in DCObject
      BY <2>2, ChainFacts DEF CreateOrPatch, TypeOK, WorkerTypeOK
    <3>2. \/ /\ Accepted(Chain[child], key)
             /\ WriteChild(Chain[child], key, Applied(Chain[child], key))
          \/ UNCHANGED childView
      BY <2>2, <3>1, CreateOrPatchEffect
    <3> QED BY <1>2, <1>3, <3>1, <3>2, AppliedType DEF TypeOK
  <2>3. CASE DeleteModule
    <3>1. key \in DeviceConfigs
      BY <1>1, <2>3 DEF DeleteModule
    <3> QED BY <1>2, <1>3, <2>3, <3>1, ChainFacts, Zenon DEF DeleteModule
  <2> QED BY <1>2, <1>4, <2>1, <2>2, <2>3 DEF Reading
<1>5. Writing => UNCHANGED childView
  BY Zenon DEF Writing, AddDeletionFinalizer, SetConditionsErrored,
     SetConditionsReady, RemoveDeletionFinalizer
<1>6. CASE Own
  <2>1. DeliverDC \/ Resync \/ (\E e \in DeviceConfigs : TimerFires(e))
            => UNCHANGED childView
    BY DEF DeliverDC, Resync, TimerFires, clusterVars
  <2>2. ASSUME NEW l \in Kinds, NEW e \in DeviceConfigs,
               Tamper(l, e) \/ CollectGarbage(l, e)
        PROVE  FALSE
    BY <1>3, <2>2 DEF Tamper, CollectGarbage
  <2>3. ASSUME NEW l \in Kinds, NEW e \in DeviceConfigs, DeliverChild(l, e)
        PROVE  l = k /\ e = d
    BY <1>2, <2>3 DEF DeliverChild, TypeOK, ClusterTypeOK
  <2> QED BY <1>2, <1>6, <2>1, <2>2, <2>3 DEF Own
<1>7. ByUsers \/ UNCHANGED vars => UNCHANGED childView
  BY UserWrites DEF ByUsers, WrittenByUser, vars, clusterVars
<1> QED BY <1>2, <1>4, <1>5, <1>6, <1>7, StepKinds

(* A step after which nothing is pending for a DeviceConfig wrote neither  *)
(* to it nor to a child that is watched; if something was pending before,  *)
(* the worker took the key, or the operator died.                          *)
LEMMA PendingStep ==
    ASSUME GuardInv, OneChange, [Next]_vars, NEW d \in DeviceConfigs, ~Pending(d)'
    PROVE  /\ Live(d)' = Live(d)
           /\ \A k \in Owned : LiveChild(k, d)' = LiveChild(k, d)
           /\ ~Pending(d) \/ (Takes /\ key' = d) \/ Crash
<1>1. /\ dcView \in Seq(DCMap) /\ Len(dcView) \in Nat /\ Len(dcView) > 0
      /\ Len(dcView') \in Nat /\ Len(dcView') > 0
      /\ \A k \in Kinds : /\ Len(childView[k][d]) \in Nat /\ Len(childView[k][d]) > 0
                          /\ childView[k][d] \in Seq({None} \cup Child)
                          /\ Len(childView'[k][d]) \in Nat
                          /\ Len(childView'[k][d]) > 0
  BY GuardStep DEF GuardInv, TypeOK, ClusterTypeOK
<1>2. Owned \subseteq Kinds
  BY DEF Owned, Kinds
<1>3. /\ d \notin dirty' /\ d \notin waiting'
      /\ \A i \in 1..Len(dcView') : dcView'[i][d] = Live(d)'
      /\ \A k \in Owned : Len(childView'[k][d]) = 1
  <2>1. \A k \in Owned : ~(Len(childView'[k][d]) > 1)
    BY DEF Pending
  <2>2. \A n \in Nat : n > 0 /\ ~(n > 1) => n = 1
    OBVIOUS
  <2>3. ASSUME NEW k \in Owned
        PROVE  Len(childView'[k][d]) = 1
    <3>1. k \in Kinds
      BY <1>2
    <3>2. Len(childView'[k][d]) \in Nat /\ Len(childView'[k][d]) > 0
      BY <1>1, <3>1
    <3> QED BY <2>1, <2>2, <3>2
  <2>4. /\ d \notin dirty' /\ d \notin waiting'
        /\ \A i \in 1..Len(dcView') : dcView'[i][d] = Live(d)'
    BY DEF Pending
  <2> QED BY <2>3, <2>4
<1>4. ASSUME NEW e \in DeviceConfigs, NEW object \in {None} \cup DCObject,
             Written(e, object)
      PROVE  /\ Live(d)' = Live(d)
             /\ \A i \in 1..Len(dcView) : dcView[i][d] = Live(d)
  <2>1. /\ \A i \in 1..Len(dcView) : dcView'[i] = dcView[i]
        /\ Len(dcView') \in {Len(dcView), Len(dcView) + 1}
    BY <1>4, WriteView
       DEF Written, WrittenByUser, WrittenByWorker, GuardInv, TypeOK
  <2>2. \A i \in 1..Len(dcView) : dcView[i][d] = Live(d)'
    BY <1>1, <1>3, <2>1
  <2> QED BY <1>1, <2>2 DEF Live
<1>5. ASSUME Unwritten, ~Crash, NEW i \in 1..Len(dcView), dcView[i][d] # Live(d)
      PROVE  FALSE
  <2>1. Live(d)' = Live(d)
    BY <1>5, UnwrittenFacts DEF GuardInv, TypeOK
  <2>2. DeliverDC
    BY <1>3, <1>5, <2>1 DEF Unwritten
  <2>3. Len(dcView) > 1 /\ dcView' = Tail(dcView)
    BY <2>2 DEF DeliverDC
  <2>4. /\ Len(dcView') = Len(dcView) - 1
        /\ \A j \in 1..(Len(dcView) - 1) : dcView'[j] = dcView[j + 1]
    BY <1>1, <2>3, TailFacts
  <2>5. \A j \in 1..(Len(dcView) - 1) : dcView[j + 1][d] = Live(d)
    BY <1>1, <1>3, <2>1, <2>4
  <2>6. i = 1 \/ (i - 1 \in 1..(Len(dcView) - 1) /\ i = (i - 1) + 1)
    BY <1>1
  <2>7. dcView[1][d] # Live(d)
    BY <1>5, <2>5, <2>6
  <2>8. 1 \in 1..(Len(dcView) - 1) /\ dcView[1 + 1][d] = Live(d)
    <3>1. 1 \in 1..(Len(dcView) - 1)
      BY <1>1, <2>3
    <3> QED BY <2>5, <3>1
  <2>9. PICK e \in DeviceConfigs : dcView[1][e] # dcView[1 + 1][e] /\ Add(e)
    BY <2>2 DEF DeliverDC
  <2>10. e = d
    BY <2>7, <2>8, <2>9 DEF OneChange
  <2> QED BY <1>3, <2>9, <2>10 DEF Add
<1>6. Live(d)' = Live(d)
  BY <1>4, ViewStep, UnwrittenFacts DEF GuardInv, TypeOK
<1>7. Crash \/ \A i \in 1..Len(dcView) : dcView[i][d] = Live(d)
  BY <1>4, <1>5, ViewStep
<1>8. ASSUME NEW k \in Owned
      PROVE  /\ LiveChild(k, d)' = LiveChild(k, d)
             /\ Crash \/ Len(childView[k][d]) = 1
  <2>1. k \in Kinds
    BY <1>2
  <2>2. ASSUME NEW object, childView'[k][d] = Append(childView[k][d], object)
        PROVE  FALSE
    BY <1>1, <1>3, <2>1, <2>2
  <2>3. Shifted(childView[k][d], childView'[k][d])
    BY <2>1, <2>2, ChildStep DEF GuardInv, Removes, BringsUp
  <2>4. PICK n \in Nat :
            /\ n < Len(childView[k][d])
            /\ Len(childView'[k][d]) = Len(childView[k][d]) - n
            /\ \A i \in 1..Len(childView'[k][d]) :
                 childView'[k][d][i] = childView[k][d][i + n]
    BY <2>3 DEF Shifted
  <2>5. LiveChild(k, d)' = LiveChild(k, d)
    <3> DEFINE s == childView[k][d]
               t == childView'[k][d]
    <3>1. Len(s) \in Nat /\ Len(t) \in Nat /\ Len(t) > 0
      BY <1>1, <2>1
    <3>2. Len(t) \in 1..Len(t) /\ Len(t) + n = Len(s)
      BY <2>4, <3>1
    <3>3. t[Len(t)] = s[Len(s)]
      BY <2>4, <3>2
    <3> QED BY <3>3 DEF LiveChild
  <2>6. DeliverChild(k, d) => d \in dirty'
    BY DEF DeliverChild, Add
  <2>7. ASSUME ~Crash
        PROVE  Len(childView[k][d]) = 1
    <3>1. ~(Len(childView'[k][d]) < Len(childView[k][d]))
      BY <1>3, <2>1, <2>6, <2>7, ChildShrinks DEF GuardInv
    <3>2. Len(childView[k][d]) \in Nat /\ Len(childView[k][d]) > 0
          /\ Len(childView'[k][d]) \in Nat /\ Len(childView'[k][d]) = 1
      BY <1>1, <1>3, <2>1
    <3>3. \A l, m \in Nat : l > 0 /\ m = 1 /\ ~(m < l) => l = 1
      OBVIOUS
    <3> QED BY <3>1, <3>2, <3>3
  <2> QED BY <2>5, <2>7
<1>9. ASSUME d \in dirty \cup waiting
      PROVE  (Takes /\ key' = d) \/ Crash
  <2>1. Ends => dirty' = dirty /\ waiting \subseteq waiting'
    BY DEF Ends, Finish
  <2>2. GoesOn => UNCHANGED <<dirty, waiting>>
    BY DEF GoesOn, queueVars
  <2>3. Adds => d \in dirty' \cup waiting'
    BY <1>9 DEF Adds, Add
  <2>4. Takes => d \in waiting' \/ d \in dirty' \/ key' = d
    BY <1>9 DEF Takes
  <2> QED BY <1>3, <1>9, <2>1, <2>2, <2>3, <2>4, QueueSteps DEF GuardInv
<1>10. ASSUME ~Crash
       PROVE  ~Pending(d) \/ (Takes /\ key' = d)
  <2>1. ASSUME NEW k \in Owned
        PROVE  ~(Len(childView[k][d]) > 1)
    <3>1. Len(childView[k][d]) = 1
      BY <1>8, <1>10
    <3> QED BY <3>1
  <2> QED BY <1>7, <1>9, <1>10, <2>1 DEF Pending
<1> QED BY <1>6, <1>8, <1>10

-----------------------------------------------------------------------------
(* The shape of what is written.                                           *)

(* A child ends up as it was, gone, or as the worker brings it up.         *)
LEMMA ChildEnds ==
    ASSUME GuardInv, [Next]_vars, NEW k \in Kinds, NEW d \in DeviceConfigs
    PROVE  \/ LiveChild(k, d)' \in {LiveChild(k, d), None}
           \/ BringsUp(k, d) /\ LiveChild(k, d)' = Applied(k, d)
<1> DEFINE s == childView[k][d]
           t == childView'[k][d]
<1>1. /\ s \in Seq({None} \cup Child) /\ t \in Seq({None} \cup Child)
      /\ Len(s) \in Nat /\ Len(t) \in Nat /\ Len(t) > 0
  BY GuardStep DEF GuardInv, TypeOK, ClusterTypeOK
<1>2. CASE Shifted(s, t)
  <2>1. PICK n \in Nat : /\ Len(t) = Len(s) - n
                         /\ \A i \in 1..Len(t) : t[i] = s[i + n]
    BY <1>2 DEF Shifted
  <2>2. Len(t) \in 1..Len(t) /\ Len(t) + n = Len(s)
    BY <1>1, <2>1
  <2>3. t[Len(t)] = s[Len(s)]
    BY <2>1, <2>2
  <2> QED BY <2>3 DEF LiveChild
<1>3. ASSUME NEW object, t = Append(s, object)
      PROVE  LiveChild(k, d)' = object
  <2>1. Len(t) = Len(s) + 1 /\ t[Len(s) + 1] = object
    BY <1>1, <1>3
  <2> QED BY <2>1 DEF LiveChild
<1> QED BY <1>2, <1>3, ChildStep DEF GuardInv, Removes, BringsUp

(* Every patch of a Service leaves it as it is but for its owner.          *)
LEMMA ServiceStep ==
    ASSUME GuardInv, ServiceShape, [Next]_vars
    PROVE  ServiceShape'
<1> SUFFICES ASSUME NEW d \in DeviceConfigs, LiveChild("Service", d)' # None
             PROVE  /\ LiveChild("Service", d)'.driver = None
                    /\ LiveChild("Service", d)'.selector = {}
  BY DEF ServiceShape
<1>1. CASE LiveChild("Service", d)' = LiveChild("Service", d)
  BY <1>1 DEF ServiceShape
<1>2. CASE /\ BringsUp("Service", d)
           /\ LiveChild("Service", d)' = Applied("Service", d)
  <2>1. Desired("Service", cr) = [owner |-> cr.uid, driver |-> None, selector |-> {}]
    BY DEF Desired, DesiredNodeMetricsService
  <2>2. Accepted("Service", d)
    BY <1>2 DEF BringsUp
  <2>3. CASE CachedChild("Service", d) = None
    BY <1>2, <2>1, <2>3 DEF Applied
  <2>4. CASE CachedChild("Service", d) # None
    <3>1. /\ LiveChild("Service", d) # None
          /\ LiveChild("Service", d)' =
               MergePatch(CachedChild("Service", d), Desired("Service", cr),
                          LiveChild("Service", d))
      BY <1>2, <2>2, <2>4 DEF Accepted, Applied
    <3>2. /\ LiveChild("Service", d).driver = None
          /\ LiveChild("Service", d).selector = {}
      BY <3>1 DEF ServiceShape
    <3> QED BY <2>1, <3>1, <3>2 DEF MergePatch
  <2> QED BY <2>3, <2>4
<1> QED BY <1>1, <1>2, ChildEnds DEF Kinds

(* The finalizer goes with the object.                                     *)
LEMMA DeletingStep ==
    ASSUME GuardInv, DeletingProtected, [Next]_vars
    PROVE  DeletingProtected'
<1> SUFFICES ASSUME NEW d \in DeviceConfigs, Live(d)' # None, Live(d)'.deleting
             PROVE  Live(d)'.finalizer
  BY DEF DeletingProtected
<1>1. Live(d) \in {None} \cup DCObject /\ (pc # "idle" => key \in DeviceConfigs)
  BY EndsTypeOK DEF GuardInv, TypeOK, WorkerTypeOK
<1>2. CASE Live(d)' = Live(d)
  BY <1>2 DEF DeletingProtected
<1>3. CASE Writing
  <2>1. key \in DeviceConfigs
        /\ (UNCHANGED dcView \/ \E object \in {None} \cup DCObject :
                                    WrittenByWorker(object))
    BY <1>3, WorkerWrites DEF Writing, GuardInv
  <2>2. CASE UNCHANGED dcView
    BY <1>2, <2>2 DEF Live
  <2>3. ASSUME NEW object \in {None} \cup DCObject, WrittenByWorker(object)
        PROVE  Live(d)'.finalizer
    <3> PICK e \in DeviceConfigs : e = key
      BY <2>1
    <3>1. Live(e)' = object /\ (d # e => Live(d)' = Live(d))
      BY <2>3, WriteDCFacts DEF WrittenByWorker, GuardInv, TypeOK
    <3>2. d # key \/ (d = key /\ object # None)
      BY <3>1
    <3>3. CASE d = key /\ object # None
      <4>1. Updated(object)
        BY <2>3, <3>3 DEF WrittenByWorker
      <4>2. /\ Live(key) # None /\ object.deleting = Live(key).deleting
            /\ object.finalizer \/ object.finalizer = Live(key).finalizer
        BY <4>1 DEF Updated
      <4> QED BY <3>1, <3>3, <4>2 DEF DeletingProtected
    <3> QED BY <1>2, <3>1, <3>2, <3>3
  <2> QED BY <2>1, <2>2, <2>3
<1>4. CASE ByUsers
  <2>1. PICK e \in DeviceConfigs :
          DeleteDC(e) \/ \E spec \in UserSpecs : CreateDC(e, spec) \/ EditDC(e, spec)
    BY <1>4 DEF ByUsers
  <2>2. PICK object \in {None} \cup DCObject : WriteDC(e, object)
    BY <2>1, UserWrites DEF GuardInv, WrittenByUser
  <2>3. d # e => Live(d)' = Live(d)
    BY <2>2, WriteDCFacts DEF GuardInv, TypeOK
  <2>4. ASSUME d = e, NEW new \in {None} \cup DCObject, WriteDC(d, new)
        PROVE  Live(d)' = new
    BY <2>4, WriteDCFacts DEF GuardInv, TypeOK
  <2>5. CASE d = e /\ DeleteDC(d)
    <3>1. /\ Live(d) \in DCObject
          /\ WriteDC(d, IF Live(d).finalizer
                        THEN [Live(d) EXCEPT !.deleting = TRUE] ELSE None)
      BY <1>1, <2>5 DEF DeleteDC
    <3>2. [Live(d) EXCEPT !.deleting = TRUE] \in DCObject
          /\ [Live(d) EXCEPT !.deleting = TRUE].finalizer = Live(d).finalizer
      BY <3>1 DEF DCObject
    <3> QED BY <2>4, <2>5, <3>1, <3>2
  <2>6. ASSUME d = e, NEW spec \in UserSpecs, CreateDC(d, spec)
        PROVE  FALSE
    <3> DEFINE new == [uid |-> lastUID[d] + 1, spec |-> spec, finalizer |-> FALSE,
                       deleting |-> FALSE, status |-> "Unknown"]
    <3>1. new \in DCObject
      BY <2>6, ControllerAssumption
         DEF DCObject, Statuses, GuardInv, TypeOK, ClusterTypeOK
    <3>2. Live(d)' = new
      BY <2>4, <2>6, <3>1 DEF CreateDC
    <3> QED BY <3>2
  <2>7. ASSUME d = e, NEW spec \in UserSpecs, EditDC(d, spec)
        PROVE  Live(d)'.finalizer
    <3>1. Live(d) \in DCObject /\ Live(d) # None /\ spec \in Specs
      BY <1>1, <2>7, ControllerAssumption DEF EditDC
    <3>2. [Live(d) EXCEPT !.spec = spec] \in DCObject
      BY <3>1 DEF DCObject
    <3>3. Live(d)' = [Live(d) EXCEPT !.spec = spec]
      BY <2>4, <2>7, <3>2 DEF EditDC
    <3>4. Live(d)'.deleting = Live(d).deleting /\ Live(d)'.finalizer = Live(d).finalizer
      BY <3>1, <3>3 DEF DCObject
    <3> QED BY <3>1, <3>4 DEF DeletingProtected
  <2> QED BY <1>2, <2>1, <2>3, <2>5, <2>6, <2>7
<1>5. CASE Reading
  BY <1>2, <1>5, ReadingWrites DEF Live
<1>6. Own \/ Crash \/ UNCHANGED vars => Unwritten
  BY OwnWrites DEF Unwritten, vars, clusterVars, Crash
<1> QED BY <1>2, <1>3, <1>4, <1>5, <1>6, StepKinds, UnwrittenFacts
        DEF GuardInv, TypeOK

-----------------------------------------------------------------------------
(* The steps of a reconcile.                                               *)

(* The check sends only a copy without the finalizer to get one.           *)
LEMMA MissingStep ==
    ASSUME GuardInv, FinalizerMissing, [Next]_vars
    PROVE  FinalizerMissing'
<1> SUFFICES ASSUME pc' = "AddFinalizer" PROVE ~cr'.finalizer
  BY DEF FinalizerMissing
<1>1. \A failed \in BOOLEAN : ~Finish(failed)
  BY DEF Finish
<1>2. CASE ValidateNodeSelector
  BY <1>1, <1>2 DEF ValidateNodeSelector, Goto
<1>3. CASE Dequeue \/ Get \/ GetChild \/ CreateOrPatch \/ DeleteModule
  BY <1>1, <1>3 DEF Dequeue, Get, GetChild, CreateOrPatch, NextChild,
     ChildFailed, DeleteModule, Goto
<1>4. CASE Writing
  <2> DEFINE A == /\ cr' = [cr EXCEPT !.finalizer = TRUE]
                  /\ Goto("GetChild") /\ child' = 1
                  /\ UNCHANGED <<fresh, found>>
             B == Finish(FALSE)
             C == Finish(TRUE)
  <2>1. \E e : Update(e, A, C) \/ Update(e, B, C) \/ Update(e, C, C)
    BY <1>4, Zenon DEF Writing, AddDeletionFinalizer, SetConditionsErrored,
       SetConditionsReady, RemoveDeletionFinalizer
  <2>2. ~A /\ ~B /\ ~C
    BY <1>1 DEF Goto
  <2> HIDE DEF A, B, C
  <2> QED BY <2>1, <2>2 DEF Update
<1>5. Own \/ ByUsers \/ UNCHANGED vars => pc' = pc /\ cr' = cr
  BY OwnWrites, UserWrites DEF ByUsers, UserOp, workerVars, vars, GuardInv
<1>6. ~Crash
  BY DEF Crash
<1> QED BY <1>2, <1>3, <1>4, <1>5, <1>6, StepKinds DEF Reading, FinalizerMissing

(* The ends of a reconcile that is not tried again.                        *)
LEMMA EndStep ==
    ASSUME GuardInv, [Next]_vars, ~Crash, key \in DeviceConfigs,
           pc # "idle", key' # key, key \notin waiting'
    PROVE  \/ pc = "Get" /\ Finished(Cached(key)) /\ SetGauge("ok")
           \/ pc = "Validate" /\ (Conflicting(dcView[1]) \/ "listFault" \in Env)
           \/ /\ pc \in {"SetReady", "RemoveFinalizer"}
              /\ fresh /\ UNCHANGED gauge
              /\ WriteDC(key, IF pc = "SetReady"
                              THEN [Live(key) EXCEPT !.status = "Ready"]
                              ELSE None)
<1>1. ~Finish(TRUE) /\ \A step : ~Goto(step)
  BY DEF Finish, Goto
<1>2. CASE Dequeue
  BY <1>2 DEF Dequeue
<1>3. CASE Get
  BY <1>1, <1>3, Zenon DEF Get
<1>4. CASE ValidateNodeSelector
  BY <1>1, <1>4, Zenon DEF ValidateNodeSelector
<1>5. CASE GetChild \/ CreateOrPatch \/ DeleteModule
  BY <1>1, <1>5, Zenon DEF GetChild, CreateOrPatch, NextChild, ChildFailed,
     DeleteModule
<1>6. CASE AddDeletionFinalizer \/ SetConditionsErrored
  <2> DEFINE A == /\ cr' = [cr EXCEPT !.finalizer = TRUE]
                  /\ Goto("GetChild") /\ child' = 1
                  /\ UNCHANGED <<fresh, found>>
             C == Finish(TRUE)
  <2>1. ~A /\ ~C
    BY <1>1
  <2>2. \E e : Update(e, A, C) \/ Update(e, C, C)
    BY <1>6, Zenon DEF AddDeletionFinalizer, SetConditionsErrored
  <2> HIDE DEF A, C
  <2> QED BY <2>1, <2>2 DEF Update
<1>7. CASE SetConditionsReady
  <2> DEFINE B == Finish(FALSE)
             C == Finish(TRUE)
             object == [Live(key) EXCEPT !.status = "Ready"]
  <2>1. pc = "SetReady" /\ Update(object, B, C) /\ UNCHANGED gauge
    BY <1>7 DEF SetConditionsReady
  <2>2. ~C
    BY <1>1
  <2> HIDE DEF B, C, object
  <2>3. fresh /\ WriteDC(key, object)
    BY <2>1, <2>2 DEF Update
  <2> QED BY <2>1, <2>3 DEF object
<1>8. CASE RemoveDeletionFinalizer
  <2> DEFINE B == Finish(FALSE)
             C == Finish(TRUE)
  <2>1. pc = "RemoveFinalizer" /\ Update(None, B, C) /\ UNCHANGED gauge
    BY <1>8 DEF RemoveDeletionFinalizer
  <2>2. ~C
    BY <1>1
  <2> HIDE DEF B, C
  <2>3. fresh /\ WriteDC(key, None)
    BY <2>1, <2>2 DEF Update
  <2> QED BY <2>1, <2>3
<1>9. Own \/ ByUsers \/ UNCHANGED vars => key' = key
  BY OwnWrites, UserWrites DEF ByUsers, UserOp, workerVars, vars, GuardInv
<1> QED BY <1>2, <1>3, <1>4, <1>5, <1>6, <1>7, <1>8, <1>9, StepKinds
        DEF Reading, Writing

(* A patch computed from the child it is applied to makes of it what is    *)
(* asked for.                                                              *)
LEMMA PatchOfCurrent ==
    ASSUME NEW before \in Child, NEW after \in Child
    PROVE  MergePatch(before, after, before) = after
<1>1. (before.selector \ (before.selector \ after.selector))
        \cup (after.selector \ before.selector) = after.selector
  OBVIOUS
<1>2. after = [owner |-> after.owner, driver |-> after.driver,
               selector |-> after.selector]
  BY DEF Child
<1> QED BY <1>1, <1>2 DEF MergePatch

(* What nothing is pending for is in the cache as it is on the server.     *)
LEMMA CacheIsCurrent ==
    ASSUME TypeOK, NEW d \in DeviceConfigs, ~Pending(d)
    PROVE  /\ Cached(d) = Live(d) /\ UpToDate(d)
           /\ \A k \in Owned : CachedChild(k, d) = LiveChild(k, d)
<1>1. Len(dcView) \in Nat /\ Len(dcView) > 0
      /\ \A i \in 1..Len(dcView) : dcView[i][d] = Live(d)
  BY DEF TypeOK, ClusterTypeOK, Pending
<1>2. 1 \in 1..Len(dcView)
  BY <1>1
<1>3. Cached(d) = Live(d)
  BY <1>1, <1>2 DEF Cached
<1>4. UpToDate(d)
  BY <1>1, <1>3 DEF UpToDate, Versions
<1>5. ASSUME NEW k \in Owned
      PROVE  CachedChild(k, d) = LiveChild(k, d)
  <2>1. k \in Kinds
    BY DEF Owned, Kinds
  <2>2. Len(childView[k][d]) \in Nat /\ Len(childView[k][d]) > 0
    BY <2>1 DEF TypeOK, ClusterTypeOK
  <2>3. ~(Len(childView[k][d]) > 1)
    BY DEF Pending
  <2>4. \A n \in Nat : n > 0 /\ ~(n > 1) => n = 1
    OBVIOUS
  <2>5. Len(childView[k][d]) = 1
    BY <2>2, <2>3, <2>4
  <2> QED BY <2>5 DEF CachedChild, LiveChild
<1> QED BY <1>3, <1>4, <1>5

(* No operation of a user leaves the DeviceConfig as it is.                *)
LEMMA UserChanges ==
    ASSUME GuardInv, NEW d \in DeviceConfigs,
           \/ DeleteDC(d)
           \/ \E spec \in UserSpecs : CreateDC(d, spec) \/ EditDC(d, spec)
    PROVE  Live(d)' # Live(d)
<1>1. Live(d) \in {None} \cup DCObject
  BY EndsTypeOK DEF GuardInv, TypeOK
<1>2. ASSUME NEW new \in {None} \cup DCObject, WriteDC(d, new)
      PROVE  Live(d)' = new
  BY <1>2, WriteDCFacts DEF GuardInv, TypeOK
<1>3. CASE DeleteDC(d)
  <2>1. Live(d) \in DCObject /\ Live(d) # None /\ ~Live(d).deleting
    BY <1>1, <1>3 DEF DeleteDC
  <2>2. [Live(d) EXCEPT !.deleting = TRUE] \in DCObject
        /\ [Live(d) EXCEPT !.deleting = TRUE].deleting
    BY <2>1 DEF DCObject
  <2> QED BY <1>2, <1>3, <2>1, <2>2 DEF DeleteDC
<1>4. ASSUME NEW spec \in UserSpecs, CreateDC(d, spec)
      PROVE  Live(d)' # Live(d)
  <2> DEFINE new == [uid |-> lastUID[d] + 1, spec |-> spec, finalizer |-> FALSE,
                     deleting |-> FALSE, status |-> "Unknown"]
  <2>1. new \in DCObject
    BY ControllerAssumption DEF DCObject, Statuses, GuardInv, TypeOK, ClusterTypeOK
  <2>2. Live(d)' = new /\ Live(d) = None
    BY <1>2, <1>4, <2>1 DEF CreateDC
  <2> QED BY <2>1, <2>2, NoneAssumption
<1>5. ASSUME NEW spec \in UserSpecs, EditDC(d, spec)
      PROVE  Live(d)' # Live(d)
  <2>1. Live(d) \in DCObject /\ Live(d).spec # spec /\ spec \in Specs
    BY <1>1, <1>5, ControllerAssumption DEF EditDC
  <2>2. [Live(d) EXCEPT !.spec = spec] \in DCObject
        /\ [Live(d) EXCEPT !.spec = spec].spec = spec
    BY <2>1 DEF DCObject
  <2> QED BY <1>2, <1>5, <2>1, <2>2 DEF EditDC
<1> QED BY <1>3, <1>4, <1>5

(* A reconcile that nothing came behind goes on to know the live state.    *)
LEMMA UndisturbedStep ==
    ASSUME GuardInv, RestInv, [Next]_vars
    PROVE  Undisturbed'
<1> SUFFICES ASSUME HoldsCopy', ~Pending(key)'
             PROVE  /\ fresh' /\ cr' = Live(key)'
                    /\ pc' \in {"GetChild", "CreateOrPatch"}
                         => Matching(key, cr, child - 1)'
                    /\ pc' = "SetReady"
                         => gauge'[key'] = "ok" /\ Matching(key, cr, Len(Chain))'
  BY DEF Undisturbed
<1>1. /\ key' = key /\ key \in DeviceConfigs /\ cr' \in DCObject
      /\ pc = "Get" \/ HoldsCopy
  BY CopyStep DEF GuardInv
<1> PICK d \in DeviceConfigs : d = key
  BY <1>1
<1> SUFFICES /\ fresh' /\ cr' = Live(d)'
             /\ pc' \in {"GetChild", "CreateOrPatch"}
                  => Matching(d, cr, child - 1)'
             /\ pc' = "SetReady"
                  => gauge'[d] = "ok" /\ Matching(d, cr, Len(Chain))'
  BY <1>1
<1>2. /\ Live(d)' = Live(d) /\ \A k \in Owned : LiveChild(k, d)' = LiveChild(k, d)
      /\ ~Pending(d)
  <2>1. ~Pending(d)'
    BY <1>1
  <2>2. ~Takes /\ ~Crash
    BY DEF Takes, Crash, HoldsCopy
  <2> QED BY <2>1, <2>2, PendingStep DEF RestInv
<1>3. /\ Cached(d) = Live(d) /\ UpToDate(d)
      /\ \A k \in Owned : CachedChild(k, d) = LiveChild(k, d)
  BY <1>2, CacheIsCurrent DEF GuardInv
<1>4. CASE Get
  <2>1. \A failed \in BOOLEAN : ~Finish(failed)
    BY DEF Finish, HoldsCopy
  <2>2. /\ cr' = Cached(d) /\ fresh' = UpToDate(d)
        /\ Goto("DeleteModule") \/ Goto("Validate")
    BY <1>4, <2>1 DEF Get
  <2>3. pc' \in {"DeleteModule", "Validate"}
    BY <2>2 DEF Goto
  <2> QED BY <1>2, <1>3, <2>2, <2>3
<1>5. ASSUME HoldsCopy
      PROVE  /\ fresh /\ cr = Live(d)
             /\ pc \in {"GetChild", "CreateOrPatch"} => Matching(d, cr, child - 1)
             /\ pc = "SetReady"
                  => gauge[d] = "ok" /\ Matching(d, cr, Len(Chain))
  BY <1>2, <1>5 DEF RestInv, Undisturbed
<1>6. ASSUME NEW n, cr' = cr, Matching(d, cr, n)
      PROVE  \A i \in 1..n : Chain[i] \in Owned =>
               LiveChild(Chain[i], d)' = Desired(Chain[i], cr)'
  <2>1. \A k : Desired(k, cr)' = Desired(k, cr)
    BY <1>6 DEF Desired, DesiredModule, DesiredNodeLabelerDaemonSet,
       DesiredNodeMetricsDaemonSet, DesiredNodeMetricsService
  <2> QED BY <1>2, <1>6, <2>1 DEF Matching
<1>7. CASE ValidateNodeSelector
  <2>1. \A failed \in BOOLEAN : ~Finish(failed)
    BY DEF Finish, HoldsCopy
  <2>2. /\ UNCHANGED <<cr, fresh>> /\ pc = "Validate"
        /\ (Goto("GetChild") /\ child' = 1) \/ Goto("AddFinalizer")
    BY <1>7, <2>1 DEF ValidateNodeSelector
  <2>3. \/ pc' = "GetChild" /\ child' = 1
        \/ pc' = "AddFinalizer"
    BY <2>2 DEF Goto
  <2>4. \A i : i \notin 1..(1 - 1)
    OBVIOUS
  <2> QED BY <1>2, <1>5, <2>2, <2>3, <2>4 DEF HoldsCopy, Matching
<1>8. CASE GetChild
  <2>1. /\ UNCHANGED <<cr, fresh, child>> /\ pc = "GetChild"
        /\ pc' \in {"CreateOrPatch", "SetErrored"}
    BY <1>8 DEF GetChild, Goto
  <2> QED BY <1>2, <1>5, <1>6, <2>1 DEF HoldsCopy, Matching
<1>9. CASE CreateOrPatch
  <2>1. /\ UNCHANGED <<cr, fresh>> /\ pc = "CreateOrPatch"
        /\ child \in 1..Len(Chain) /\ Chain[child] \in Kinds /\ cr \in DCObject
    BY <1>9, ChainFacts DEF CreateOrPatch, GuardInv, TypeOK, WorkerTypeOK
  <2> PICK k \in Kinds : k = Chain[child]
    BY <2>1
  <2>2. fresh' /\ cr' = Live(d)' /\ Matching(d, cr, child - 1)
    BY <1>2, <1>5, <2>1 DEF HoldsCopy
  <2>3. CASE ChildFailed
    BY <2>2, <2>3 DEF ChildFailed, Goto
  <2>4. ASSUME NextChild, k \in Owned => LiveChild(k, d)' = Desired(k, cr)
        PROVE  /\ fresh' /\ cr' = Live(d)'
               /\ pc' \in {"GetChild", "CreateOrPatch"}
                    => Matching(d, cr, child - 1)'
               /\ pc' = "SetReady"
                    => gauge'[d] = "ok" /\ Matching(d, cr, Len(Chain))'
    <3>1. \A l : Desired(l, cr)' = Desired(l, cr)
      BY <2>1 DEF Desired, DesiredModule, DesiredNodeLabelerDaemonSet,
         DesiredNodeMetricsDaemonSet, DesiredNodeMetricsService
    <3>2. ASSUME NEW i \in 1..child, Chain[i] \in Owned
          PROVE  LiveChild(Chain[i], d)' = Desired(Chain[i], cr)'
      <4>1. CASE i = child
        BY <2>4, <3>1, <3>2, <4>1
      <4>2. CASE i # child
        <5>1. i \in 1..(child - 1)
          BY <2>1, <4>2
        <5> QED BY <1>6, <2>1, <2>2, <3>2, <5>1
      <4> QED BY <4>1, <4>2
    <3>3. CASE child < Len(Chain)
      <4>1. child' = child + 1 /\ pc' = "GetChild"
        BY <2>4, <3>3 DEF NextChild, Goto
      <4>2. child' - 1 = child
        BY <2>1, <4>1
      <4> QED BY <2>2, <3>2, <4>1, <4>2 DEF Matching
    <3>4. CASE ~(child < Len(Chain))
      <4>1. pc' = "SetReady" /\ gauge'[d] = "ok"
        BY <2>4, <3>4 DEF NextChild, Goto, SetGauge, GuardInv, TypeOK
      <4>2. child = Len(Chain)
        BY <2>1, <3>4, ChainFacts
      <4> QED BY <2>2, <3>2, <4>1, <4>2 DEF Matching
    <3> QED BY <3>3, <3>4
  <2>5. CASE NextChild /\ Accepted(k, d) /\ WriteChild(k, d, Applied(k, d))
    <3>1. ASSUME k \in Owned
          PROVE  LiveChild(k, d)' = Desired(k, cr)
      <4>1. Applied(k, d) \in Child /\ Desired(k, cr) \in Child
        BY <2>1, <2>5, AppliedType, DesiredType DEF GuardInv, TypeOK
      <4>2. PICK object \in Child : object = Applied(k, d)
        BY <4>1
      <4>3. LiveChild(k, d)' = object
        BY <2>1, <2>5, <4>2, WriteChildFacts DEF GuardInv, TypeOK
      <4>4. CASE CachedChild(k, d) = None
        BY <4>2, <4>3, <4>4 DEF Applied
      <4>5. CASE CachedChild(k, d) # None
        <5>1. LiveChild(k, d) = CachedChild(k, d) /\ LiveChild(k, d) \in Child
          BY <1>3, <2>1, <3>1, <4>5, EndsTypeOK DEF GuardInv, TypeOK
        <5> QED BY <4>1, <4>2, <4>3, <4>5, <5>1, PatchOfCurrent DEF Applied
      <4> QED BY <4>4, <4>5
    <3> QED BY <2>4, <2>5, <3>1
  <2>6. CASE NextChild /\ NothingToPatch(k, d)
    <3>1. k \in Owned => LiveChild(k, d)' = Desired(k, cr)
      BY <1>2, <1>3, <2>6 DEF NothingToPatch
    <3> QED BY <2>4, <2>6, <3>1
  <2> QED BY <1>9, <2>3, <2>5, <2>6, Zenon DEF CreateOrPatch
<1>10. CASE DeleteModule
  <2>1. ~Finish(TRUE)
    BY DEF Finish, HoldsCopy
  <2>2. UNCHANGED <<cr, fresh>> /\ pc = "DeleteModule" /\ pc' = "RemoveFinalizer"
    BY <1>10, <2>1 DEF DeleteModule, Goto
  <2> QED BY <1>2, <1>5, <2>2 DEF HoldsCopy
<1>11. CASE AddDeletionFinalizer
  <2> DEFINE A == /\ cr' = [cr EXCEPT !.finalizer = TRUE]
                  /\ Goto("GetChild") /\ child' = 1
                  /\ UNCHANGED <<fresh, found>>
             C == Finish(TRUE)
             object == [Live(d) EXCEPT !.finalizer = TRUE, !.spec = Stored(cr.spec)]
  <2>1. pc = "AddFinalizer" /\ Update(object, A, C)
    BY <1>11 DEF AddDeletionFinalizer
  <2>2. ~C
    BY DEF Finish, HoldsCopy
  <2> HIDE DEF A, C
  <2>3. WriteDC(d, object)
    BY <2>1, <2>2 DEF Update
  <2>4. cr \in DCObject /\ cr = Live(d) /\ ~cr.finalizer
    BY <1>5, <2>1 DEF HoldsCopy, RestInv, FinalizerMissing, GuardInv, TypeOK,
       WorkerTypeOK
  <2>5. Stored(cr.spec) \in Specs
    BY <2>4, StoredType DEF DCObject
  <2>6. object \in DCObject /\ object.finalizer
    BY <2>4, <2>5 DEF DCObject
  <2>7. PICK new \in {None} \cup DCObject : new = object
    BY <2>6
  <2>8. Live(d)' = new
    BY <2>3, <2>7, WriteDCFacts DEF GuardInv, TypeOK
  <2> QED BY <1>2, <2>4, <2>6, <2>7, <2>8
<1>12. CASE SetConditionsErrored \/ SetConditionsReady \/ RemoveDeletionFinalizer
  <2> DEFINE B == Finish(FALSE)
             C == Finish(TRUE)
  <2>1. \E e : Update(e, B, C) \/ Update(e, C, C)
    BY <1>12, Zenon DEF SetConditionsErrored, SetConditionsReady,
       RemoveDeletionFinalizer
  <2>2. ~B /\ ~C
    BY DEF Finish, HoldsCopy
  <2> HIDE DEF B, C
  <2> QED BY <2>1, <2>2 DEF Update
<1>13. CASE Own \/ UNCHANGED vars
  <2>1. UNCHANGED <<pc, cr, fresh, child, gauge>>
    <3>1. UNCHANGED workerVars
      BY <1>13, OwnWrites DEF vars
    <3>2. UNCHANGED gauge
      BY <1>13, Zenon DEF Own, DeliverDC, Resync, TimerFires, DeliverChild,
         Tamper, CollectGarbage, vars
    <3> QED BY <3>1, <3>2 DEF workerVars
  <2>2. HoldsCopy
    BY <2>1 DEF HoldsCopy
  <2> QED BY <1>2, <1>5, <1>6, <2>1, <2>2 DEF Matching
<1>14. CASE ByUsers
  <2>1. PICK e \in DeviceConfigs :
          DeleteDC(e) \/ \E spec \in UserSpecs : CreateDC(e, spec) \/ EditDC(e, spec)
    BY <1>14 DEF ByUsers
  <2>2. UserOp(e)
    BY <2>1 DEF DeleteDC, CreateDC, EditDC
  <2>3. UNCHANGED <<pc, cr, child, gauge>> /\ fresh' = (fresh /\ e # d)
    <3>1. UNCHANGED gauge
      BY <2>1 DEF DeleteDC, CreateDC, EditDC, UserOp
    <3> QED BY <2>2, <3>1 DEF UserOp, Outdate
  <2>4. HoldsCopy
    BY <2>3 DEF HoldsCopy
  <2>5. e # d
    BY <1>2, <2>1, UserChanges
  <2> QED BY <1>2, <1>5, <1>6, <2>3, <2>4, <2>5 DEF Matching
<1> QED BY <1>4, <1>7, <1>8, <1>9, <1>10, <1>11, <1>12, <1>13, <1>14, StepKinds
        DEF Reading, Writing, Dequeue, Crash, HoldsCopy

(* A reconcile that ends, with nothing behind it, leaves the DeviceConfig  *)
(* done.                                                                   *)
LEMMA EndsDone ==
    ASSUME GuardInv, RestInv, [Next]_vars, "listFault" \notin Env,
           NEW d \in DeviceConfigs, ~Pending(d)', d = key, d # key', ~Crash
    PROVE  Done(d)'
<1>1. /\ Live(d)' = Live(d) /\ \A k \in Owned : LiveChild(k, d)' = LiveChild(k, d)
      /\ d \notin waiting'
  BY PendingStep DEF RestInv, Pending
<1>2. pc # "idle" /\ ~Pending(d)
  BY PendingStep, SentinelAssumption DEF RestInv, QueuedOrHeld, Takes
<1>3. Cached(d) = Live(d) /\ Len(dcView) > 0 /\ Len(dcView) \in Nat
      /\ Live(d) \in {None} \cup DCObject
      /\ gauge \in [DeviceConfigs -> {"unset", "ok", "failed"}]
      /\ (HoldsCopy => cr \in DCObject)
  BY <1>2, CacheIsCurrent, EndsTypeOK
     DEF GuardInv, TypeOK, ClusterTypeOK, WorkerTypeOK, HoldsCopy
<1>4. CASE Finished(Cached(key)) /\ SetGauge("ok")
  <2>1. Live(d) = None
    BY <1>3, <1>4 DEF Finished, RestInv, DeletingProtected
  <2> QED BY <1>1, <1>3, <1>4, <2>1 DEF Done, SetGauge
<1>5. ~Conflicting(dcView[1])
  BY <1>3 DEF RestInv, Undisputed
<1>6. CASE /\ pc \in {"SetReady", "RemoveFinalizer"} /\ UNCHANGED gauge
           /\ WriteDC(key, IF pc = "SetReady"
                           THEN [Live(key) EXCEPT !.status = "Ready"]
                           ELSE None)
  <2>1. HoldsCopy
    BY <1>6 DEF HoldsCopy
  <2>2. cr = Live(d) /\ cr \in DCObject
    BY <1>2, <1>3, <2>1 DEF RestInv, Undisturbed
  <2>3. ASSUME NEW new \in {None} \cup DCObject, WriteDC(d, new)
        PROVE  Live(d) = new
    BY <1>1, <2>3, WriteDCFacts DEF GuardInv, TypeOK
  <2>4. CASE pc = "SetReady"
    <3>1. gauge[d] = "ok" /\ Matching(d, cr, Len(Chain))
      BY <1>2, <2>1, <2>4 DEF RestInv, Undisturbed
    <3>2. ~cr.deleting /\ cr.finalizer
      BY <2>4 DEF GuardInv, CopyInv, NormalSteps
    <3>3. [Live(d) EXCEPT !.status = "Ready"] \in DCObject
          /\ [Live(d) EXCEPT !.status = "Ready"].status = "Ready"
      BY <2>2 DEF DCObject, Statuses
    <3>4. Live(d).status = "Ready"
      BY <1>6, <2>3, <2>4, <3>3
    <3>5. Matching(d, Live(d), Len(Chain))'
      <4>1. \A k : Desired(k, Live(d))' = Desired(k, Live(d))
        BY <1>1 DEF Desired, DesiredModule, DesiredNodeLabelerDaemonSet,
           DesiredNodeMetricsDaemonSet, DesiredNodeMetricsService
      <4> QED BY <1>1, <2>2, <3>1, <4>1 DEF Matching
    <3> QED BY <1>1, <1>6, <2>2, <3>1, <3>2, <3>4, <3>5, NoneAssumption DEF Done
  <2>5. CASE pc = "RemoveFinalizer"
    BY <1>6, <2>2, <2>3, <2>5, NoneAssumption
  <2> QED BY <1>6, <2>4, <2>5
<1> QED BY <1>1, <1>2, <1>4, <1>5, <1>6, EndStep

(* A DeviceConfig that nothing is pending for stays done.                  *)
LEMMA SettledStep ==
    ASSUME GuardInv, RestInv, [Next]_vars, "listFault" \notin Env
    PROVE  Settled'
<1> SUFFICES ASSUME NEW d \in DeviceConfigs, ~Pending(d)', d # key'
             PROVE  Done(d)'
  BY DEF Settled
<1>1. /\ Live(d)' = Live(d) /\ \A k \in Owned : LiveChild(k, d)' = LiveChild(k, d)
      /\ ~Pending(d) \/ Crash
  BY PendingStep DEF RestInv
<1>2. CASE Crash
  <2>1. d \notin waiting'
    BY DEF Pending
  <2>2. Live(d) = None /\ gauge'[d] = "unset"
    BY <1>2, <2>1 DEF Crash
  <2> QED BY <1>1, <2>2 DEF Done
<1>3. CASE ~Crash /\ d # key
  <2>1. ~Pending(d) /\ Done(d)
    BY <1>1, <1>3 DEF RestInv, Settled
  <2>2. gauge'[d] = gauge[d]
    <3>1. gauge \in [DeviceConfigs -> {"unset", "ok", "failed"}]
      BY DEF GuardInv, TypeOK
    <3>2. \/ UNCHANGED gauge
          \/ \E value : SetGauge(value)
      <4>1. Reading => UNCHANGED gauge \/ \E value : SetGauge(value)
        BY Zenon DEF Reading, Dequeue, Get, ValidateNodeSelector, GetChild,
           CreateOrPatch, NextChild, ChildFailed, DeleteModule
      <4>2. Writing => UNCHANGED gauge \/ \E value : SetGauge(value)
        BY Zenon DEF Writing, AddDeletionFinalizer, SetConditionsErrored,
           SetConditionsReady, RemoveDeletionFinalizer
      <4>3. Own => UNCHANGED gauge
        BY Zenon DEF Own, DeliverDC, Resync, TimerFires, DeliverChild, Tamper,
           CollectGarbage
      <4>4. ByUsers => UNCHANGED gauge
        BY UserWrites DEF ByUsers, UserOp, GuardInv
      <4> QED BY <1>3, <4>1, <4>2, <4>3, <4>4, StepKinds DEF vars
    <3> QED BY <1>3, <3>1, <3>2 DEF SetGauge
  <2>3. \A k : Desired(k, Live(d))' = Desired(k, Live(d))
    BY <1>1 DEF Desired, DesiredModule, DesiredNodeLabelerDaemonSet,
       DesiredNodeMetricsDaemonSet, DesiredNodeMetricsService
  <2> QED BY <1>1, <2>1, <2>2, <2>3 DEF Done, Matching
<1>4. CASE ~Crash /\ d = key
  BY <1>4, EndsDone
<1> QED BY <1>2, <1>3, <1>4

-----------------------------------------------------------------------------
(* As long as no two DeviceConfigs select one node, whenever nothing is on *)
(* its way any more every DeviceConfig has reached its goal: no event is   *)
(* lost, whatever fails, and however often the operator dies.              *)
(* (deviceconfig_controller.go:102-197)                                     *)
THEOREM RestsWhenDone ==
    ASSUME "tamper" \notin Env, "listFault" \notin Env
    PROVE  Spec /\ []~Conflict => []RestsOnlyWhenDone
<1>1. Init /\ ~Conflict => RestInv
  <2> SUFFICES ASSUME Init, ~Conflict PROVE RestInv
    OBVIOUS
  <2>1. /\ Len(dcView) = 1 /\ dcView[1] = [d \in DeviceConfigs |-> None]
        /\ pc = "idle" /\ key = None /\ dirty = {}
        /\ gauge = [d \in DeviceConfigs |-> "unset"]
    BY DEF Init
  <2>2. \A d \in DeviceConfigs : Live(d) = None /\ LiveChild("Service", d) = None
    BY <2>1 DEF Init, Live, LiveChild, Kinds
  <2>3. OneChange /\ Undisputed
    BY <2>1 DEF OneChange, Undisputed, Conflict
  <2> QED BY <2>1, <2>2, <2>3 DEF RestInv, QueuedOrHeld, DeletingProtected,
          ServiceShape, Settled, Done, Undisturbed, HoldsCopy, FinalizerMissing
<1>2. GuardInv /\ RestInv /\ [Next]_vars /\ ~Conflict' => RestInv'
  <2> SUFFICES ASSUME GuardInv, RestInv, [Next]_vars, ~Conflict' PROVE RestInv'
    OBVIOUS
  <2>1. QueuedOrHeld'
    BY QueueStep DEF GuardInv, RestInv
  <2>2. OneChange' /\ Undisputed'
    BY OneChangeStep DEF RestInv
  <2>3. DeletingProtected' /\ ServiceShape' /\ FinalizerMissing'
    BY DeletingStep, ServiceStep, MissingStep DEF RestInv
  <2>4. Settled'
    BY SettledStep
  <2>5. Undisturbed'
    BY UndisturbedStep
  <2> QED BY <2>1, <2>2, <2>3, <2>4, <2>5 DEF RestInv
<1>3. GuardInv /\ RestInv /\ ReadyImpliesDeployed /\ ~Conflict => RestsOnlyWhenDone
  <2> SUFFICES ASSUME GuardInv, RestInv, ReadyImpliesDeployed, ~Conflict, Quiet,
                      NEW d \in DeviceConfigs
               PROVE  Goal(d)
    BY DEF RestsOnlyWhenDone
  <2>1. \A k \in Kinds : LiveChild(k, d) = None \/ Owns(d, LiveChild(k, d))
    BY DEF Quiet
  <2>2. d # key
    BY SentinelAssumption DEF Quiet, RestInv, QueuedOrHeld
  <2>3. ~Pending(d)
    <3>1. dirty = {} /\ waiting = {}
      <4>1. \A i : i \notin 1..Len(queue)
        BY DEF Quiet
      <4>2. \A e \in dirty : e \in DeviceConfigs /\ e # None
        BY SentinelAssumption DEF GuardInv, TypeOK, QueueTypeOK
      <4> QED BY <4>1, <4>2 DEF Quiet, RestInv, QueuedOrHeld
    <3>2. \A i \in 1..Len(dcView) : dcView[i][d] = Live(d)
      BY DEF Quiet, Live
    <3>3. ASSUME NEW k \in Owned
          PROVE  ~(Len(childView[k][d]) > 1)
      <4>1. k \in Kinds
        BY DEF Owned, Kinds
      <4>2. Len(childView[k][d]) = 1
        BY <4>1 DEF Quiet
      <4> QED BY <4>2
    <3> QED BY <3>1, <3>2, <3>3 DEF Pending
  <2>4. Done(d)
    BY <2>2, <2>3 DEF RestInv, Settled
  <2>5. CASE Live(d) = None
    BY <2>1, <2>4, <2>5 DEF Goal, Done, Owns
  <2>6. CASE Live(d) # None
    <3>1. ASSUME NEW i \in 1..Len(Chain), Chain[i] = "Service"
          PROVE  LiveChild("Service", d) = Desired("Service", Live(d))
      <4>1. /\ LiveChild("Service", d) # None
            /\ LiveChild("Service", d).owner = Live(d).uid
        BY <2>4, <2>6, <3>1 DEF Done, ReadyImpliesDeployed, Owns
      <4>2. LiveChild("Service", d) \in Child
        BY <4>1, EndsTypeOK DEF GuardInv, TypeOK, Kinds
      <4>3. /\ LiveChild("Service", d).driver = None
            /\ LiveChild("Service", d).selector = {}
        BY <4>1 DEF RestInv, ServiceShape
      <4> QED BY <4>1, <4>2, <4>3 DEF Desired, DesiredNodeMetricsService, Child
    <3>2. ASSUME NEW i \in 1..Len(Chain)
          PROVE  LiveChild(Chain[i], d) = Desired(Chain[i], Live(d))
      <4>1. Chain[i] \in Kinds
        BY ChainFacts
      <4>2. Chain[i] = "Service" \/ Chain[i] \in Owned
        BY <4>1 DEF Kinds, Owned
      <4> QED BY <2>4, <2>6, <3>1, <4>2 DEF Done, Matching
    <3> QED BY <2>4, <2>6, <3>2 DEF Goal, Done
  <2> QED BY <2>5, <2>6
<1> QED BY <1>1, <1>2, <1>3, GuardInvariant, ReadyIsDeployed, PTL DEF Spec
================================================================================
