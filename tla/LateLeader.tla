----------------------------- MODULE LateLeader -----------------------------
(***************************************************************************)
(* A change of leader: the process that leads is late (see Manager), and   *)
(* still works on its reconcile while its successor, which holds the lease *)
(* by now, starts its own controller on the same cluster.                  *)
(*                                                                         *)
(* Each process is a DeviceConfigController with its own caches, queue and *)
(* worker.  The server's end of their views is one and the same: what one  *)
(* of them writes, or the cluster does, is on its way to both caches.      *)
(***************************************************************************)
EXTENDS DeviceConfigs, Naturals, Sequences

CONSTANTS Chain, UserSpecs, Env, MaxOps, MaxFaults, MaxCrashes,
    MaxBacklog,     \* bound on the versions of a child between cache and
                    \* server when the garbage collector acts
    MaxLag          \* bound on the versions in the late leader's cache of
                    \* DeviceConfigs when the cluster goes on

ASSUME LateAssumption ==
    /\ Chain \in Seq(Kinds)
    /\ Len(Chain) > 0 /\ Chain[1] = "Module"
    /\ UserSpecs \subseteq Specs /\ UserSpecs # {}
    /\ Env \subseteq {"edit", "delete", "listFault"}
    /\ MaxOps \in Nat /\ MaxFaults \in Nat /\ MaxCrashes \in Nat
    /\ MaxBacklog \in Nat /\ MaxLag \in Nat

VARIABLES
    dcView1, childView1, queue1, dirty1, waiting1,      \* the late leader
    pc1, key1, cr1, fresh1, child1, found1, gauge1,
    dcView2, childView2, queue2, dirty2, waiting2,      \* its successor
    pc2, key2, cr2, fresh2, child2, found2, gauge2,
    lastUID, ops, faults, crashes,                      \* the cluster's
    phase           \* who runs: the leader alone, both, the successor alone

view1 == <<dcView1, childView1, fresh1>>
view2 == <<dcView2, childView2, fresh2>>

process1 == <<queue1, dirty1, waiting1, pc1, key1, cr1, child1, found1, gauge1>>

process2 == <<queue2, dirty2, waiting2, pc2, key2, cr2, child2, found2, gauge2>>

cluster == <<lastUID, ops, faults, crashes>>

vars == <<view1, process1, view2, process2, cluster, phase>>

Leader == INSTANCE DeviceConfigController WITH
    dcView <- dcView1, childView <- childView1, queue <- queue1,
    dirty <- dirty1, waiting <- waiting1, pc <- pc1, key <- key1, cr <- cr1,
    fresh <- fresh1, child <- child1, found <- found1, gauge <- gauge1

Successor == INSTANCE DeviceConfigController WITH
    dcView <- dcView2, childView <- childView2, queue <- queue2,
    dirty <- dirty2, waiting <- waiting2, pc <- pc2, key <- key2, cr <- cr2,
    fresh <- fresh2, child <- child2, found <- found2, gauge <- gauge2

ASSUME LateNoneAssumption ==
    None \notin Leader!DCObject /\ None \notin Leader!Child

(* The leader has brought one DeviceConfig of each name to its goal, and a *)
(* resync is about to make it look at each of them again.                  *)
Deployed(d, spec) ==
    [uid |-> 1, spec |-> spec, finalizer |-> TRUE, deleting |-> FALSE,
     status |-> "Ready"]

Init ==
    LET spec == CHOOSE s \in UserSpecs : TRUE
        dcs  == [d \in DeviceConfigs |-> Deployed(d, spec)]
    IN
    /\ dcView1 = <<dcs>> /\ dcView2 = <<dcs>>
    /\ childView1 = [k \in Kinds |-> [d \in DeviceConfigs |->
          <<IF k \in Successor!Managed THEN Desired(k, dcs[d]) ELSE None>>]]
    /\ childView2 = childView1
    /\ queue1 = <<>> /\ dirty1 = {} /\ waiting1 = DeviceConfigs
    /\ queue2 = <<>> /\ dirty2 = {} /\ waiting2 = {}
    /\ pc1 = "idle" /\ key1 = None /\ cr1 = None
    /\ pc2 = "idle" /\ key2 = None /\ cr2 = None
    /\ fresh1 = FALSE /\ child1 = 0 /\ found1 = FALSE
    /\ fresh2 = FALSE /\ child2 = 0 /\ found2 = FALSE
    /\ gauge1 = [d \in DeviceConfigs |-> "ok"]
    /\ gauge2 = [d \in DeviceConfigs |-> "unset"]
    /\ lastUID = [d \in DeviceConfigs |-> 1]
    /\ ops = MaxOps /\ faults = MaxFaults /\ crashes = MaxCrashes
    /\ phase = "leader"

-----------------------------------------------------------------------------
(* A write that one side makes appears in the view of the other, and makes *)
(* the copy of the other's worker stale.  A view of a process that does    *)
(* not run, or will not read it any more, is as good as one just listed.   *)
Last(view) == view[Len(view)]

Follow(inUse, view, written) ==
    IF ~inUse THEN <<written>>
    ELSE IF Last(view) = written THEN view ELSE Append(view, written)

SuccessorFollows ==
    /\ LET inUse == phase # "leader" IN
        /\ dcView2' = Follow(inUse, dcView2, Last(dcView1'))
        /\ childView2' = [k \in Kinds |-> [d \in DeviceConfigs |->
                Follow(inUse, childView2[k][d], Last(childView1'[k][d]))]]
    /\ fresh2' = (fresh2 /\ Last(dcView1')[key2] = Last(dcView1)[key2])
    /\ UNCHANGED process2

ReadsDCs == phase = "leader" \/ pc1 \in {"Get", "Validate"}

ReadsChildren ==
    \/ phase = "leader"
    \/ pc1 \in {"Get", "Validate", "AddFinalizer", "GetChild", "CreateOrPatch"}

LeaderFollows ==
    /\ dcView1' = Follow(ReadsDCs, dcView1, Last(dcView2'))
    /\ childView1' = [k \in Kinds |-> [d \in DeviceConfigs |->
            Follow(ReadsChildren, childView1[k][d], Last(childView2'[k][d]))]]
    /\ fresh1' = (fresh1 /\ Last(dcView2')[key1] = Last(dcView2)[key1])
    /\ UNCHANGED process1

-----------------------------------------------------------------------------
(* What one of the processes does, the leader as long as it is alone: its  *)
(* worker, its watches, its timers.  What happens in the cluster is also   *)
(* on its way to both.  While a late leader works, the rest keeps in sight *)
(* of it: an old version read late is the same as one that was read early  *)
(* by a worker that then stalled.                                          *)
InSight == pc1 # "idle" /\ Len(dcView1) <= MaxLag

ByProcess(A, B) ==
    /\ UNCHANGED phase
    /\ \/ phase = "leader" /\ A /\ SuccessorFollows
       \/ /\ phase # "leader" /\ (phase = "both" => InSight)
          /\ B /\ LeaderFollows

Reconcile == ByProcess(Leader!Reconcile, Successor!Reconcile)

DeliverDC == ByProcess(Leader!DeliverDC, Successor!DeliverDC)

DeliverChild(k, d) ==
    ByProcess(Leader!DeliverChild(k, d), Successor!DeliverChild(k, d))

TimerFires(d) == ByProcess(Leader!TimerFires(d), Successor!TimerFires(d))

(* The successor has the lease: its informers list, which adds every       *)
(* DeviceConfig and every owner of a child.  Of the leader, the reconcile  *)
(* it is in is left.                                                       *)
TakeOver ==
    /\ phase = "leader" /\ pc1 # "idle"
    /\ phase' = "both"
    /\ waiting2' = Successor!Replayed
    /\ queue1' = <<>> /\ dirty1' = {} /\ waiting1' = {}
    /\ UNCHANGED <<view1, pc1, key1, cr1, child1, found1, gauge1, view2, queue2,
                   dirty2, pc2, key2, cr2, child2, found2, gauge2, cluster>>

(* The late leader goes on with its reconcile ...                          *)
LateReconciles ==
    /\ phase = "both" /\ pc1 # "idle"
    /\ Leader!Reconcile
    /\ UNCHANGED phase
    /\ SuccessorFollows

(* ... and its caches with the events it is behind.                        *)
LateWatches ==
    /\ phase = "both"
    /\ \/ /\ ReadsDCs /\ Len(dcView1) > 1
          /\ dcView1' = Tail(dcView1)
          /\ UNCHANGED childView1
       \/ \E k \in Kinds, d \in DeviceConfigs :
          /\ ReadsChildren /\ Len(childView1[k][d]) > 1
          /\ childView1' = [childView1 EXCEPT ![k][d] = Tail(@)]
          /\ UNCHANGED dcView1
    /\ UNCHANGED <<fresh1, process1, view2, process2, cluster, phase>>

(* The late leader notices, or dies, between any two of its steps.         *)
Stop ==
    /\ phase = "both"
    /\ phase' = "successor"
    /\ dcView1' = <<Last(dcView2)>>
    /\ childView1' = [k \in Kinds |-> [d \in DeviceConfigs |->
                        <<Last(childView2[k][d])>>]]
    /\ queue1' = <<>> /\ dirty1' = {} /\ waiting1' = {}
    /\ pc1' = "idle" /\ key1' = None /\ cr1' = None
    /\ fresh1' = FALSE /\ child1' = 0 /\ found1' = FALSE
    /\ gauge1' = [d \in DeviceConfigs |-> "unset"]
    /\ UNCHANGED <<view2, process2, cluster>>

(* A worker with an old copy and the garbage collector may create and      *)
(* remove a Module over and over until a watch catches up.                 *)
CollectGarbage(k, d) ==
    /\ Len(childView1[k][d]) <= MaxBacklog
    /\ Len(childView2[k][d]) <= MaxBacklog
    /\ ByProcess(Leader!CollectGarbage(k, d), Successor!CollectGarbage(k, d))

CreateDC(d, spec) ==
    ByProcess(Leader!CreateDC(d, spec), Successor!CreateDC(d, spec))

EditDC(d, spec) == ByProcess(Leader!EditDC(d, spec), Successor!EditDC(d, spec))

DeleteDC(d) == ByProcess(Leader!DeleteDC(d), Successor!DeleteDC(d))

Next ==
    \/ Reconcile \/ DeliverDC
    \/ TakeOver \/ LateReconciles \/ LateWatches \/ Stop
    \/ \E d \in DeviceConfigs :
        \/ TimerFires(d)
        \/ DeleteDC(d)
        \/ \E spec \in UserSpecs : CreateDC(d, spec) \/ EditDC(d, spec)
        \/ \E k \in Kinds : DeliverChild(k, d) \/ CollectGarbage(k, d)

Spec == Init /\ [][Next]_vars

(* A process is scheduled as DeviceConfigController says, and a late       *)
(* leader stops in the end.  Nobody has to take over.                      *)
FairSpec ==
    /\ Spec
    /\ WF_vars(Stop)
    /\ WF_vars(Reconcile)
    /\ WF_vars(DeliverDC)
    /\ \A d \in DeviceConfigs :
        /\ WF_vars(TimerFires(d))
        /\ \A k \in Successor!Managed :
            WF_vars(DeliverChild(k, d)) /\ WF_vars(CollectGarbage(k, d))

-----------------------------------------------------------------------------
(* What is left of FinalizerGuardsModule while two workers run.  A worker  *)
(* whose copy is of a deleted DeviceConfig may create a Module nobody      *)
(* guards, but only with an owner that does not exist, so that the garbage *)
(* collector removes it; a Module that belongs to the live DeviceConfig is *)
(* guarded by its finalizer.  (deviceconfig_controller.go:143-155)         *)
OwnedIsGuarded ==
    \A d \in DeviceConfigs : LET m == Successor!LiveChild("Module", d) IN
        m # None /\ Successor!Owns(d, m) => Successor!Live(d).finalizer

(* Two workers may hold copies of one DeviceConfig, of different ages: a   *)
(* condition still only lands on the spec that the worker which writes it  *)
(* has reconciled.  (conditions.go:53-85)                                  *)
Wrote(pc, key, cr, dc, d) ==
    pc' # pc /\ key = d /\ cr.uid = dc.uid /\ Stored(cr.spec) = Stored(dc.spec)

StatusForCurrentSpec ==
    [][\A d \in DeviceConfigs :
        LET before == Last(dcView2)[d]
            after  == Last(dcView2')[d]
        IN  before # None /\ after # None /\ after.uid = before.uid
                /\ after.status # before.status
            => \/ Wrote(pc1, key1, cr1, before, d)
               \/ Wrote(pc2, key2, cr2, before, d)]_vars

(* What a late leader breaks its successor repairs: once users stop, the   *)
(* process that is left brings every DeviceConfig to its goal, without a   *)
(* resync.  (main.go:83-85)                                                *)
SuccessorConverges ==
    \A d \in DeviceConfigs : <>[](
        IF phase = "leader" THEN Leader!Goal(d) ELSE Successor!Goal(d))
=============================================================================
