# Habana AI Operator in TLA+

A Kubernetes operator that turns `DeviceConfig` objects into the driver, device
plugin, node labeler and metrics exporter of Habana accelerators.  Its code is
short and almost sequential; what makes it hard is where it runs: it reads
caches that lag behind the API server, writes to an API server that others write
to as well, is called again for reasons it does not see, and may die between any
two calls.  Of several replicas one leads, as long as it is in time.  The modules
here model that, TLC checks small instances of them, and TLAPS proves for every
size that a driver and its DeviceConfig come and go in the right order, that no
node gets two drivers as long as specs stay as they are and nodes keep their labels,
that conditions tell the truth, that the operator does not come to rest before its
work is done, what of that is left while two replicas lead at once, and that they do
so only if one of them is late.

Paths below are relative to `src/`.

## 1. Inventory

| Part | Code | State it keeps | Operations |
| --- | --- | --- | --- |
| DeviceConfig reconciler | `controllers/deviceconfig_controller.go` | none between reconciles; during one, a copy of the DeviceConfig | `Reconcile`, `deleteDeviceConfigResources`, `SetupWithManager` |
| Node selector validator | `controllers/nodeselector.go` | none | `CheckDeviceConfigForConflictingNodeSelector` |
| DeviceConfig API | `api/v1alpha1/` | the stored object: spec, status | `GetNodeSelector`, JSON encoding |
| Deletion finalizer | `internal/finalizers/` | `metadata.finalizers` | add, remove, contains |
| Conditions | `internal/conditions/` | `status.conditions` | `SetConditionsReady`, `SetConditionsErrored` |
| Module reconciler | `internal/module/` | the KMM `Module` | `ReconcileModule`, `DeleteModule`, `SetDesiredModule` |
| Node labeler reconciler | `internal/node/labeler/` | a DaemonSet | `ReconcileNodeLabeler` (`DeleteNodeLabeler` is never called) |
| Node metrics reconciler | `internal/node/metrics/` | a DaemonSet and a Service | `ReconcileNodeMetrics` (`DeleteNodeMetrics` is never called) |
| Reconciliation gauge | `internal/metrics/` | one Prometheus gauge per DeviceConfig name | `Set(0)`, `Set(1)` in `Reconcile` |
| Settings | `internal/settings/` | images read from the environment | `Load` |
| Manager | `main.go`, `vendor/sigs.k8s.io/controller-runtime/pkg/manager` | flags, what runs | start, stop, exit |
| Leader election | `vendor/k8s.io/client-go/tools/leaderelection` | the lease, what each replica knows of it and since when | acquire, renew, give up |
| Work queue, controller loop, `CreateOrPatch` | `vendor/k8s.io/client-go`, `vendor/sigs.k8s.io/controller-runtime` | queue, dirty and processing sets, timers | add, get, done, retry |
| API server, garbage collector, KMM, users | not in the repository | the cluster | |

**How they interact.**  Watches on DeviceConfigs, Modules and DaemonSets put the
name of a DeviceConfig into the work queue.  One worker takes it out and calls
`Reconcile`, which reads the DeviceConfig from the informer cache; if it is being
deleted, deletes the Module and removes the finalizer; otherwise lists all
DeviceConfigs and the nodes they select, and stops if a node is selected twice;
adds the finalizer; brings up Module, node labeler, node metrics and Service, one
after the other, each by a read, a second read and a create or a patch; and
writes the conditions.  Writes go to the API server directly, reads come from the
cache, so an operator may not see its own writes yet.  DaemonSets and Service are
removed by the garbage collector through their owner reference.

The controller is started by the manager when its process is elected, and at once
without `--leader-elect`.  A leader renews its lease by writing to it; the others
read it and wait until they have not seen it change for its duration.  A leader
that cannot renew in time exits; nothing makes the API server refuse the calls it
has under way.

**What makes each part correct.**

* Reconciler and finalizer: a Module (a kernel module on the nodes) never exists
  without a DeviceConfig that still carries the finalizer, and the finalizer does
  not go before the Module.
* Validator: a node never gets two drivers; a verdict is about the present.
* Conditions and gauge: they say something about the spec they are stored with,
  and they say it when it is so.
* Children: they follow the spec; those of a predecessor of the same name are
  taken over rather than lost.
* Leader election: one controller at a time, always one again, and no harm that
  lasts when a late leader and its successor meet.
* Queue and controller: no event that still matters is lost; a deletion
  completes; whatever fails, the operator gets to its goal.

**What is hard.**  Stale reads between a write and the next read; updates with an
old `resourceVersion`; calls that fail for the client and succeed on the server;
delete and recreate under one name; events during a reconcile; restarts; results
that are only noticed at the next resync; lists that are not of one moment; nodes that
are not watched; a lease whose age everyone measures by a clock of their own.  The
list, line by line, is `hazards` in `PROJECT.json`.

## 2. Modules

| Module | What it is |
| --- | --- |
| `DeviceConfigs` | The data, without state: specs, `GetNodeSelector`, selection of nodes, the wanted children, the merge patch of `CreateOrPatch`. |
| `DeviceConfigController` | The core: the worker of the controller, step by step, in the cluster around it. |
| `NodeSelectorValidator` | The node selector check, List by List, and the gauge it ends in, while nodes are relabelled. |
| `Manager` | The processes: start, election, exit. |
| `LateLeader` | Two instances of the core in one cluster: a leader that is late and its successor. |
| `DriverLifecycle` | The abstract specification: what the finalizer promises about a driver. |
| `DeviceConfigControllerProofs` | Theorems about the core. |
| `DriverLifecycleProofs` | The core implements the abstract specification. |
| `ConditionsProofs` | Theorems about the core's conditions, and what holds of a controller that may not be alone. |
| `OutcomeProofs` | The theorems about what the core comes to: nodes and their drivers, and the state it rests in. |
| `LateLeaderProofs` | Theorems about two controllers at once. |
| `NodeSelectorValidatorProofs` | Theorems about the check. |
| `ManagerProofs` | Theorems about the election. |
| `MC...` | Small instances for TLC. |

### DeviceConfigController and the code

*State.*  `dcView` is the sequence of versions of all DeviceConfigs from what the
informer cache holds (first) to what the API server holds (last); `childView` is
the same for each child.  A write appends a version, the delivery of a watch event
drops the first.  The operator reads the first version and writes the last.
`lastUID` numbers objects of one name.  `queue`, `dirty` and the key being
processed are the fields of `workqueue.Type`; `waiting` are the keys that the rate
limiter, the resync or the first list will add.  `pc` says before which call of
`Reconcile` the worker is, `key` is its request, `cr` its copy of the DeviceConfig,
and `fresh` says whether the `resourceVersion` of the copy is still the server's.
`gauge` is the metric.

*Actions of the worker*, in the order of `Reconcile`:

| Action | Code |
| --- | --- |
| `Dequeue` | `Queue.Get` |
| `Get` | `deviceconfig_controller.go:105-129` up to the first call of the deletion path |
| `ValidateNodeSelector` | `:131-143`; any error of the check, a failed List too, ends the reconcile without a retry |
| `AddDeletionFinalizer` | `finalizers.go:42-48`; the server stores the copy, without an empty `nodeSelector` |
| `ReconcileModule`, `ReconcileNodeLabelerDaemonSet`, `ReconcileNodeMetricsDaemonSet`, `ReconcileNodeMetricsService` | two steps each: `GetChild` (the first `Get`), and `CreateOrPatch` (the second `Get`, the diff, the create or patch, and on success the step to the next child, after the last one with `gauge` 0) |
| `SetConditionsErrored` | the error branch `:150-154`, with `gauge` 1 |
| `SetConditionsReady` | `:182` |
| `DeleteModule`, `RemoveDeletionFinalizer` | `:120-127` |

Every write has up to four outcomes: done; refused (stale copy, name taken,
object gone); failed; failed for the client although it took effect.  A child that
is in the cache as it is wanted need not be patched, and then nobody notices that it
is gone by now (`NothingToPatch`); fields that are not modelled may ask for a patch
all the same, so this is a choice.

The second `Get` and the write of `CreateOrPatch` are one step: the cache and the server only
move apart in between by steps that commute with the read, so that any outcome of
two steps is one of the single step taken earlier or later.  All errors that
`Reconcile` returns go to `Finish(TRUE)`, a retry after a back-off; `return nil`
goes to `Finish(FALSE)`.

*Actions of the cluster:* users create, edit and delete (`CreateDC`, `EditDC`,
`DeleteDC`) or remove a child (`Tamper`); the garbage collector removes children
whose owner's uid is nobody's (`CollectGarbage`); events arrive (`DeliverDC`,
`DeliverChild`, each adds a key unless the kind is the Service, which has no
watch); timers go off (`TimerFires`); the informers replay their caches
(`Resync`); the process dies and a new one lists everything (`Crash`).

*Abstractions.*

* A label is one `key=value`, and different labels have different keys.  A driver
  is a pair of image and version.  Of a child, what depends on the DeviceConfig is
  kept: the owner's uid, the driver, the selector.
* One worker, as `MaxConcurrentReconciles` is not set, and one active replica, as
  the shipped manifests pass `--leader-elect`.  `Manager` says when that is so, and
  `LateLeader` what happens when it is not.
* The API server is linearisable and the cache never goes back in time, also
  across a restart.
* Users do not touch finalizers.  A deleted Module is gone at once: KMM's own
  finalizer only delays that, and the operator does not wait for it either.
* The check of the selectors is one step.  `ExactForSteadyNodes` of
  `NodeSelectorValidator` says when that is exact.
* Nodes do not change in `DeviceConfigController`; they do in
  `NodeSelectorValidator`.
* The garbage collector looks for the owner and deletes the child in one step.  What
  it finds absent stays absent, as uids are not given twice.
* The informer of Services starts with the first read and is filled before it
  returns, so it is a view like the others.

### NodeSelectorValidator

`Call` starts a check, for any DeviceConfig and as often as `Reconcile` is called;
`ListDeviceConfigs` takes the list, `ListSelectedNodes` goes through it in any
order (a List has none) and counts node names, `Decide` looks for a duplicate.
Either List may fail (`Error`).  What `Reconcile` makes of the result is `Report`:
the gauge, where the reconcile of a DeviceConfig that passed is taken to succeed.
In between, DeviceConfigs and node labels of the cache change.  `steady` remembers
which nodes have not changed since the list.  Without the condition
`steady = Nodes` in `ExactForSteadyNodes`, TLC shows a node that is relabelled from
one selector to the other between two Lists and reported as a conflict that never
existed.

Nobody watches nodes, so a relabelling does not start a check.  `ConflictComesOut`
says that the gauge comes to tell of it nevertheless, at the latest by a resync.
The gauge is all that does: a Module that is on a node already stays there, since a
refused DeviceConfig is left as it is.

### Manager

| Definition | Code |
| --- | --- |
| `Start` | `main.go:74-147`; with incomplete settings (`Load`, called by `SetupWithManager`) the process exits and is started again |
| `Attempt` | the call of `tryAcquireOrRenew`, whose first line takes the time (`leaderelection.go:318`), by `acquire` on standby and by `renew` in the lead |
| `GetLease`, `Observe` | `:327-354`: the read, `setObservedRecord` if the record is not the one known, and the decision |
| `CreateLease`, `UpdateLease` | the write as the server sees it: refused if there is a lease by now, or if it is not the one that was read |
| `Reply` | the answer to it: `setObservedRecord`, and for a new leader the controllers start (`manager/internal.go:629`) and its first round of renewals begins (`leaderelection.go:212`, `268`) |
| `GiveUp` | the round of `renew` ends without success; `OnStoppedLeading` makes the process exit without waiting for its controllers |
| `Exit` | a signal or a crash; the lease is not released, as `ReleaseOnCancel` is not set |
| `Fail` | a request or its answer is lost |
| `Tick` | time |

*State.*  `holder` and `leaseAge` are the lease.  A replica knows a record of it:
`observed` says whether it is still the server's, `believes` whether it names the
replica, `age` how long it is known.  `step` is the request under way, `expired`
whether the record had expired at its start, `seen` whether the `resourceVersion`
it will write with is still the server's.  `clock` is the time since a leader's
last success, at which its deadline is due: `RetryPeriod` until the next round of
renewals begins and `RenewDeadline` for the round.  A new leader begins the round at
once, so its clock starts at `RetryPeriod`.  A replica
that starts again has a new identity, which is why the
lease of one that is gone is `Gone`'s.

`late` is a history variable.  A leader is late when it acts on an answer to a
write that is so old that the lease will expire for others before its own deadline,
or when it did not run at its deadline.  Time does not wait for a process in this
model: any process may stall at any step for any time.

*Abstractions.*  Clocks run at the same speed (the election tolerates what the
difference of the times allows for).  The read of the lease and its answer are one
step; a slow answer is covered by an old `age`, since the time is taken before the
read.  A failed write has either been done or will never be: one that reaches the
server after the client has given up is left out.  A standby may try at any time,
not every two seconds.  A signal stops the process at once, and not after the grace
period, during which it keeps renewing the lease.

### LateLeader

The core is instantiated twice, over the variables of the two processes and the
counters of the cluster, which they share.  Both have views of the API server, of
different age, that end in the same last version.  What one of them writes, or a
user or the garbage collector does, is appended to the view of the other
(`SuccessorFollows`, `LeaderFollows`), whose worker's copy becomes stale by it.

`TakeOver` is the successor's start: it has the lease, lists everything and queues
it (`Replayed`).  The leader is in the middle of a reconcile and goes on with it
(`LateReconciles`), its caches following the events as they please
(`LateWatches`), until it notices or dies (`Stop`), at any step.  What the leader
does before `TakeOver` is what the core does; how it becomes late is the subject of
`Manager`.

*Abstractions.*  The late leader finishes the reconcile it is in, which it may have
begun at any moment before; that it begins another one while it is late is left
out.  Views that a process
does not read, or not any more, are collapsed to their last version.  There is one
change of leader, and neither faults nor crashes beside it: `upgrade` and
`converge` have those, and a crash of the late leader is `Stop`.

### DriverLifecycle

A DeviceConfig is absent, unprotected, protected (it has the finalizer) or being
deleted, and its driver is loaded or not.  A driver is loaded only for one that is
protected or already being deleted (by a reconcile that started before), is
unloaded by the operator only for one being deleted, and the DeviceConfig goes only
after that.  `DeviceConfigController` implements it under the refinement mapping
`LifeOf`, with the Module as the driver.

## 3. Runs

| Run | Instance | Shows |
| --- | --- | --- |
| `upgrade` | one DeviceConfig, Module and node labeler, 3 user operations, 1 fault, 1 crash | types, `FinalizerGuardsModule`, its inductive invariant `GuardInv`, `SuccessorWaits`, `ReadyImpliesDeployed`, `StatusForCurrentSpec`, `RestsOnlyWhenDone`, and that the controller implements `DriverLifecycle` |
| `converge` | one DeviceConfig, Module, node metrics and Service, 2 operations, 1 fault, no resync | `DeletionCompletes`, `EventuallyConverged`: a call that failed, with or without effect, is made good by a retry |
| `pools` | two DeviceConfigs that want the same nodes, Module and Service, 3 operations without edits, children deleted by others, and the resync | `OneDriverPerNode`; `EventuallyConverged`: a conflict is on the gauge while it lasts, whoever is left is brought up after it, and what was deleted comes back.  This is about what no call retries; failed calls are `converge`'s |
| `validator` | two DeviceConfigs, two nodes, 4 changes of either, 1 failed List | `SteadyConflictCaught`, `ExactForSteadyNodes`, their inductive invariant `CheckInv`, `ConflictComesOut` |
| `late_leader` | one DeviceConfig, its Module, two drivers, 2 operations, one change of leader | `OwnedIsGuarded`, `StatusForCurrentSpec`, `SuccessorConverges` |
| `election` | two replicas that compete, one with a variable missing, 1 failed request, 1 exit, any number of stalls | `OverlapOnlyIfLate`, its inductive invariant `LeaseInv`, `SomeoneLeads` |
| `edited_pools`, `empty_selector`, `stale_diff`, `list_fault`, `gauge`, `bystander` | smallest ones | counterexamples, see below |

**Why the bounds are enough.**  A story about one name needs a creation, a
deletion and a recreation: three operations; an edit takes the place of one.  A
story about two names needs two creations and a deletion, in any order.  Two
DeviceConfigs of one spec are in conflict by all of their nodes, and the check and
`OneDriverPerNode` ask for one shared node; selectors that differ are the subject
of `edited_pools` and `empty_selector`.  One
fault and one crash, at every step, cover what a single reconcile does about them:
after either, the worker starts again and knows nothing, so that the second of two
is a first one from a reachable state; what more of them, and more objects, could
do to the safety of the Module is covered by the proof.  Three nodes are one for
each selector alone and one for both.  Chains shorter than four are used where the
children left out are of a kind that is there: the Module is the one with a
finalizer, the Service the one without a watch, the DaemonSets are like the Module
without its driver.  `OneDriverPerNode` needs the Module only.  States with no step
are expected when the budgets of users, faults and crashes are used up, so
deadlock is not checked; `RestsOnlyWhenDone` says what must hold there.

In `late_leader`, two operations after a deployment are an edit and a deletion, a
deletion and a recreation, or two edits, each of them before, during or after the
overlap.  `MaxBacklog` stops the garbage collector while a cache is more than one
version of a Module behind: a worker with an old copy creates a Module without an
owner again and again, and the collector removes it, until a watch catches up; this
loop is of the code, and the bound cuts its length only.  `MaxLag` lets the cluster
go on only while the late leader has at most so many versions of DeviceConfigs in
its cache (`InSight`); with 1 it sees each write before the next.  That takes no
behaviour of its reconcile away: its worker may stall after a read as well as before
it, and reading an old version late is the same as having read it early.  Once the
reconcile is over, the late leader stops before anything else happens, which makes
no difference to anyone.  The times of `election`,
5, 2 and 1, stand for the 15, 10 and 2 seconds of the defaults: the smallest with
the order that `NewLeaderElector` insists on in which a leader that is answered at
once, or one unit late, is not late.  A
replica without election keeps no lease and waits for none; the proof covers it.
Two DeviceConfigs in `validator` are enough for a conflict and a List that is not of
one moment; `bystander` has a third that is in no conflict.

**Fairness.**  `FairSpec` has weak fairness on the worker (a goroutine that runs),
on the delivery of events (a watch delivers what the server sent or is
re-established with a list), on timers, and on the garbage collector.  Nothing is
assumed of users, faults and crashes, which their bounds end.  `ResyncSpec` adds
the informers' resync (`pkg/cache/cache.go`, ten hours by default); `pools`, which
uses it, is about events the operator has no watch or no retry for.  The run
`converge` does without.  `LateLeader` has the
fairness of the core for the process that is in charge, and weak fairness on `Stop`:
a late leader gives up when it runs again.  Nobody has to take over.  In
`NodeSelectorValidator` the calls of each DeviceConfig are strongly fair, because
each resync puts all of them into a queue that is first in, first out, and the
worker of which is fair.  In `Manager`, time passes, the kubelet starts a container
that has exited, and each process goes on with its loop, its deadline being an event
of its own (a timer, which the answer of a request does not put off).

**Disagreements the runs show.**

* `edited_pools`: the check looks at specs, not at Modules.  Between the edit of a
  selector and the patch of its Module another DeviceConfig passes the check for
  the nodes that were given up, and a node is selected by two Modules.  Without
  edits, and while nodes keep their labels, this cannot happen (`pools`).
* `empty_selector`: `nodeSelector: {}` selects every node until the operator's own
  `Update` drops the empty map; from then on the check takes it for the default
  selector.
* `stale_diff`: the patch is a diff against a cached child; two quick edits that
  go back to an old value leave the middle one in place, and Ready is set.  The
  next event repairs it (`RestsOnlyWhenDone` and `EventuallyConverged` hold).
* `list_fault`: a failed List is reported as a conflict and not retried.
* `gauge`: five of the error returns leave the gauge as it was.
* `bystander`: while two DeviceConfigs overlap, a third that shares no node with
  them is refused as well.

**What does not survive a late leader.**  `FinalizerGuardsModule` and
`SuccessorWaits` hold with one worker and fail with two, as TLC shows with
`Successor!FinalizerGuardsModule` and `Successor!SuccessorWaits` for invariants of
`MCLateLeader`.  A late leader with an old copy creates the Module again after the
successor has deleted it, the finalizer goes, and a Module whose owner does not
exist stays until the garbage collector finds it.  And `DeleteModule` deletes by
name: the late leader's takes down the Module of a DeviceConfig recreated since,
which the successor then restores.  What is left is in the run: no Module of the
live DeviceConfig without its finalizer, no condition for another spec, and a
successor that repairs the rest.  The help text of `--leader-elect`, "Enabling this
will ensure there is only one active controller manager" (`main.go:83-85`), is
true of replicas that are not late; `OverlapOnlyIfLate` has that condition because
TLC finds two leaders without it.

Every property of a passing run has a mutant: a variant of one action or operator,
kept next to it in the module and marked as such, with which TLC finds the property
violated.

## 4. Proofs

`DeviceConfigControllerProofs` proves, for any set of DeviceConfigs, nodes, labels
and drivers, any chain of children that starts with the Module, and any number of
operations, faults and crashes:

* `GuardInvariant == Spec => []GuardInv`,
* `TypeCorrect == Spec => []TypeOK`,
* `ModuleGuarded == Spec => []FinalizerGuardsModule`.

*Argument.*  `FinalizerGuardsModule` is not inductive: the worker acts on a copy.
`GuardInv` adds what the copy is good for.  `ViewInv`: every version on its way to
the cache that has the finalizer and is not being deleted is a version of the live
object, because only the worker removes a finalizer, and only when no such version
is left.  `CopyInv`: hence a copy with which the worker brings up children is one
of the live object, which has the finalizer, even if the copy is stale.
`DeletionInv`: when the worker removes the finalizer with success, its copy is
fresh, every version in the cache is that copy, and the Module is gone.
`FreshInv`: a fresh copy is one of a live object, so updates write well-formed
objects; `TypeOK` is not inductive without it.  The proof has a lemma per action
for the types and one per action for the rest; steps of one shape share a lemma
(`NoWriteInv`, `KeepingWriteInv`, `StillWorkerInv`, `IdleWorkerInv`).

*Assumptions* are those of the modules: the chain is not empty and starts with the
Module, the PCI label is a label, nodes have sets of labels, and the sentinels are
not objects.  TLC evaluates them in every run.

`DriverLifecycleProofs` proves, under the same assumptions:

* `SuccessorsWait == Spec => []SuccessorWaits`,
* `LifecycleImplemented == Spec => ImplementsLifecycle`,

and `DriverLifecycle` itself that its rules are enough for what they are for:
`LifecycleProtects == Spec => []LoadedIsProtected`.

*Argument.*  `GuardInv` says that a Module has a protected owner, not that the
owner is the one whose deletion the worker read about.  A stale version that is
being deleted might make the worker unload the driver of a DeviceConfig created
since under the same name, and a finalizer might be added to an object that a user
has begun to delete; neither is a step of the lifecycle.  `SuccessorWaits` excludes
both: while a version that is being deleted is in the cache, on its way to it or in
the worker's hands, the live object is gone, being deleted or without finalizer,
because giving a new object the finalizer takes an update with a fresh copy, and a
copy is fresh only when no other version is left.  It is inductive together with
`GuardInv`.  The refinement has one lemma for each kind of step: what users write
(`UserImplements`), what a reconcile writes to the DeviceConfig
(`UpdateImplements`) and to children (`ChildImplements`, where the Module of a
DeviceConfig that is protected may appear, and the only one that is deleted is that
of a DeviceConfig being deleted), and the rest (`ClusterImplements`, where the
garbage collector never finds a Module).

`ManagerProofs` proves, for any set of replicas with and without election, any
settings, any times in the order that `NewLeaderElector` insists on, and any number
of faults, exits and stalls:

* `LeaseInvariant == Spec => []LeaseInv`,
* `OverlapNeedsLateness == Spec => []OverlapOnlyIfLate`.

*Argument.*  A leader that is not late holds the lease, and
`leaseAge + Deadline < clock + LeaseDuration` (`PunctualLeaderHolds`): its clock
started, at zero or above, when the answer came, at most so much after the write that the lease is
still young when the clock reaches the deadline, and time adds the same to both.
So two of them would both be the holder.  To be inductive it needs what the others
know: a record that is the server's is not older than the lease and names its holder
(`RecordInv`), and whoever is about to overwrite the lease of another has seen it
reach its duration (`TakeoverInv`), which the lease of a punctual leader does not:
its clock would be past the deadline.

`NodeSelectorValidatorProofs` proves, for any DeviceConfigs, nodes and labels, and
any number of changes and failed Lists:

* `CheckInvariant == Spec => []CheckInv`, and with it `CheckTypes == Spec => []TypeOK`,
* `SteadyConflictsCaught == Spec => []SteadyConflictCaught`,
* `ExactWhileSteady == Spec => []ExactForSteadyNodes`.

*Argument.*  The loop only counts names, and the nodes move under it, so `names` is
the count of no set.  `CheckInv` says what is left for a node that has not moved
since the List: its name was collected never, or more than once, exactly if none, or
two, of the DeviceConfigs the loop is done with select it now.  A verdict is only
given when the loop is done with all of them.

`ConditionsProofs` proves, for the core as above:

* `ConditionsOfCurrentSpec == Spec => StatusForCurrentSpec`,
* `ReadyIsDeployed == ASSUME "tamper" \notin Env PROVE Spec => []ReadyImpliesDeployed`.

The hypothesis of the second leaves out that others delete children: then a child is
missing until the next reconcile, whatever the condition says.

*Argument.*  For the first: a status is written with a copy, and the write succeeds
only if the copy is fresh; a fresh copy has the spec that is stored (`FreshSpec`), up
to the empty map that the server drops.  For the second, `DeployInv`: the live
DeviceConfig is the newest of its name (`NewestLives`), a later version of a child
never belongs to an earlier DeviceConfig than one before it (`HandedDown`), Ready
comes with the finalizer (`ReadyProtected`), and the children that a reconcile is
done with are there and are the copy's, if the DeviceConfig is not being deleted
(`Progress`).  A child that some version in the cache shows to be the live
DeviceConfig's is there (`ShownIsThere`), so nothing is lost when no patch is sent
for it.  `HandedDown` is what makes the
merge patch safe: a diff against an old child leaves the owner out only if the old
child already had the right one, and then the live one has it too.  The garbage
collector finds no orphan among such children; the worker deletes the Module only of
a DeviceConfig that is being deleted, about which the property says nothing.

`OutcomeProofs` proves, for the core as above:

* `NodesHaveOneDriver == ASSUME "edit" \notin Env,
  \A spec \in UserSpecs : spec.nodeSelector # {} PROVE Spec => []OneDriverPerNode`.

Both hypotheses are needed: `edited_pools` and `empty_selector` are what happens
without them.  That nodes keep their labels is part of the core.

*Argument.*  The check compares specs in a cache, so a conflict it does not see must
be one that no Module stands for.  `PoolInv`: a DeviceConfig with a Module is in the
cache in some version, and once it is, every later version of the cache has it until
it goes (`Shown`, `IdentityLasts`, `SteadyModule`), because the worker itself read it
there (`CopyShown`) before the Module came; and all of its versions have one spec
(`SpecsStay`), which is also what its Module selects (a patch finds a Module that
does so already, whatever old version it was computed from).
So the check, if it passes, has compared with every Module there is (`Cleared`), and
no other Module appears before the worker's next check, as there is one worker.

and, in its second half,

* `RestsWhenDone == ASSUME "tamper" \notin Env, "listFault" \notin Env
  PROVE Spec /\ []~Conflict => []RestsOnlyWhenDone`.

The hypotheses say where the code does stop short.  Nobody watches the Service, so a
Service that someone deletes stays away until a resync.  A reconcile that ends with a
conflict, or with a List that failed and is taken for one (`list_fault`), is not
tried again, so the DeviceConfig that was refused rests refused when the other one is
edited or deleted.  `[]~Conflict` is about the API server; that the lists in the cache
are then without a conflict too is part of the invariant (`Undisputed`).  Edits,
deletions, recreations, failed calls with or without effect, and crashes are all in.

*Argument.*  `Pending` says that something is on its way for a DeviceConfig: its key
is due, or an event of it or of a watched child is.  `RestInv` has two halves.  What
nothing is pending for, and the worker has not got, is done (`Settled`).  And a
reconcile that nothing is pending behind works on the live state: its copy is the live
DeviceConfig, and the children it is through with are what that asks for
(`Undisturbed`).  `PendingStep` carries the proof: whatever is written to a
DeviceConfig or to a watched child makes it pending, and it stays so until the worker
takes the key (which begins a reconcile) or the operator dies (which makes every
DeviceConfig there is due).  The informer's event reaches the right key because two
versions in a row differ in one DeviceConfig (`OneChange`), and a due key is in the
queue or the worker's (`QueuedOrHeld`).  So a reconcile during which nothing becomes
pending has changed nothing but perhaps the Service: the caches are current (`CacheIsCurrent`), each
patch was from the live child to the wanted one and is empty (`PatchOfCurrent`), Ready was there
already; and one that ends with an error makes its key pending.  This is why the stale
patch of `stale_diff` does not last: the write that made it stale is still to be
delivered.  The Service has no watch, and needs none: nothing of the spec is in it
(`ServiceShape`), and that it is there, with the right owner, is
`ReadyImpliesDeployed`.

`LateLeaderProofs` proves of two controllers, for any set of DeviceConfigs, nodes,
labels and drivers, any chain of children that starts with the Module, and any number
of operations and faults, for the one reconcile that the late leader goes on with
(see `LateLeader` above):

* `SharedModulesGuarded == Spec => []OwnedIsGuarded`,
* `SharedConditionsCurrent == Spec => StatusForCurrentSpec`.

*Argument.*  `GuardInv` of the core is false of either process, since the other one
changes what it holds.  The last section of `ConditionsProofs` finds what survives
(`SharingInv`): a DeviceConfig once seen with the finalizer has it as long as it is
that one (`FinalizerLasts`); the worker brings up children with a copy that has it
(`CopyGuarded`); the owner of a Module is or was a DeviceConfig (`OwnersKnown`), so
that no later one is its owner by accident; hence `OwnedGuarded`.  `SharingStep`: a
controller's own steps keep it.  `BystanderStep`: so does whatever leaves the worker
alone and moves a live DeviceConfig only as the API server lets it move
(`LiveMoves`), which `LiveAlwaysMoves` proves of every step of a controller.
`LateLeaderProofs` instantiates the lot twice, `First` and `Second`, and adds that
both views end in one server (`SameServer`): a step of one process is a step of a
bystander for the other.  `SameLeader` and `SameSuccessor` say that the actions which
`LateLeader` takes from `DeviceConfigController` are those the lemmas are about.

Only model-checked: liveness (`DeletionCompletes`, `EventuallyConverged` and their
like), which the proof system does not reach.  `RestsWhenDone` is the safety half of
`EventuallyConverged`: what is left to TLC there is that the core comes to rest.

## 5. Not modelled, and the plan

Not modelled:

* The values of `settings`: they are constants of a process, and the same in the
  children of all DeviceConfigs.
* Namespaces.  Two DeviceConfigs of one name in two namespaces share a value of the
  gauge, as its only label is the name; this needs no order of events to happen.
* Pod labels and the Service's selector.  They are constants of the code: the
  Service of one DeviceConfig selects the metrics pods of all of them, always.
* Probes, the metrics endpoint, events other than that of a conflict, logs.
* `DeleteNodeLabeler` and `DeleteNodeMetrics`, which the operator never calls.
* KMM and the DaemonSet controller, manifests, mocks, generated code.

Plan, most important first:

1. `DeviceConfigs`, `DriverLifecycle`, `DeviceConfigController`,
   `NodeSelectorValidator`, and the proofs of `FinalizerGuardsModule` and of the
   refinement (done).
2. Leader election and two workers at once: `Manager`, `LateLeader` (done).
3. The verdict of the check and nodes that are relabelled after it (done).
4. Theorems: the properties of the check, `OneDriverPerNode` without edits and
   empty selectors, the safety of conditions, `OwnedIsGuarded`, `RestsOnlyWhenDone`
   (done).
5. Images that change with a new version of the operator, during the overlap of two
   versions in a rolling update.
