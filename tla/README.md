# IBM Healthcheck Operator: models, checks and proofs

The operator (`src/cmd/manager`, `src/pkg`) is one Kubernetes process with four
controllers. Each watches one kind of custom resource (CR) and keeps a few
operands - Deployments, Services, ConfigMaps and the like - as the CR asks. The
code of every controller is the same loop: read the CR through a cache, walk
through a fixed list of `createOrUpdate...` calls, stop at the first error. What
is difficult about it lies between the calls: caches that lag, updates that
conflict, writes that break off and land later, a garbage collector at work,
other CRs with the same operands, crashes. That is what these modules are about.

`PROJECT.json` lists the runs, the lines each definition stands for, the hazards
with their lines, a mutation of the code that breaks each property, the
disagreements found between the code and what it says of itself, and the theorems.

## 1. Inventory

| Component | State it keeps | Operations | Here |
|---|---|---|---|
| HealthService controller (`pkg/controller/healthservice`) | none of its own: a work queue and informer caches in the process, `status` in the CR | `Reconcile` with six steps: memcached Deployment and Service; health service ConfigMap, Deployment, Service and Ingress. Watches the CR and the four kinds of operand | `Reconciler`, `HealthService` |
| Common helpers (`pkg/controller/common`) | none | `GetResources`, `GetPodNames` | `Common`, `ResourceEdits` |
| HealthService API types (`pkg/apis`) | - | - | the fields the code reads |
| MustGatherService controller | `status` | PVC, StatefulSet, Service, Ingress, ConfigMap; the PVC and ConfigMap are only created, the PVC from the default StorageClass; the PVC and the Service are not watched | `Reconciler`, `MustGatherService` |
| MustGatherJob controller | - | creates a Job once; watches pods, which never belong to its CR, and not Jobs | `Gathering` |
| MustGatherConfig controller | - | one ConfigMap, created or overwritten; the ConfigMap is not watched | `Gathering` |
| Operator process (`cmd/manager`) | the leader lock | become leader, register the controllers, start, exit | `OperatorProcess` |
| Generated deep copies, manifests, scripts | - | - | no behaviour of their own |

How they interact. The controllers share a process, a client and its caches, and
never call each other. They meet in the API server: a MustGatherService creates
the ConfigMap `ibm-mustgather-customscript-default` and leaves one alone that is there, a
MustGatherConfig of that name creates or overwrites it, and a MustGatherJob makes
a Job whose pod mounts it and waits for as long as it is not there. Within a controller one worker takes CR names from a
queue; the informers put names in, one per event on a CR or on an operand whose
owner reference names the CR. Everything else goes through the API server, which
the worker, the users, the garbage collector and the controllers of Deployments
write concurrently. An update carries the `resourceVersion` of the cached object
it was computed from.

What makes each part correct.

- *The loop*: operands appear in the order of the plan; nothing old overwrites
  anything new; no event is forgotten, so when all is quiet every operand is as
  its CR asks; the loop gets there and comes to rest; an operand keeps its owner.
- *The operands of a HealthService*: the Deployment never precedes the ConfigMap
  it mounts; creating and updating lead to the same content, except for the fields
  that only creation gives.
- *The status*: it names the pods there are, and is written only if they changed.
- *GetResources*: a section a user wrote consistently stays admissible once
  defaults are in; one field does not influence another.
- *The operands of a MustGatherService*: the PVC exists before the StatefulSet that
  mounts it; an operand that nobody watches is repaired by other means; a PVC has
  the storage class its CR or the cluster gives it.
- *MustGatherJob*: a CR gathers once; its Job is made in the end, and is its own.
- *MustGatherConfig*: its script is in the ConfigMap in the end, and a ConfigMap
  that two kinds of CR write does not change its owner.
- *Process*: two operator pods do not reconcile at once, and one of them does.

## 2. Modules

`Reconciler.tla` is the loop, with the plan as parameters: `Target` (the operand
of a step), `Desired` (its content), `Managed` (the fields an update overwrites),
`CreateOnly`, `Workloads`, `Watched`, and `Readings` for what a step may read besides
the CR and the operand. `HealthService.tla` and `MustGatherService.tla` compute
these from a spec, as the `desired...` and `update...` functions do, and instantiate
`Reconciler` with them. `Common.tla` holds
`GetResources`; `ResourceEdits.tla` is the state machine of a user who edits a
resources section. `MC*.tla` give the constants values.
`OperandStore.tla` is what the loop promises of its operands, with neither caches
nor a worker: a store in which an operand is absent or written for a version of a
CR. `ReconcilerStore.tla` maps the variables of `Reconciler` to it; `Implements` is
the claim that the one implements the other.

`OperatorProcess.tla` models the pods of the operator's Deployment and the leader
lock. `Gathering.tla` extends it with the controllers that meet at the ConfigMaps and
Jobs of a must-gather. They are not instances of `Reconciler`: each has one step
here, and what is asked is how three workers disturb each other over one API server
and one set of caches, in a process whose pods overlap and exit.

The proofs: `ReconcilerSafety.tla` (types, order, age, owners), `ReconcilerRefinement.tla`
(the abstract store) and `ReconcilerWakeups.tla` (nothing forgotten, where content
comes from) are about the loop with any plan; `HealthServiceProofs.tla` and
`MustGatherServiceProofs.tla` carry their results over to the two plans;
`OperatorProcessProofs.tla`, `GatheringSafety.tla` and `ResourceEditsProofs.tla` are
about the other parts.

State and actions of `Reconciler`, and the code they stand for:

| Model | Code |
|---|---|
| `crs`, `api`, `pods` | what the API server stores: CRs with uid and versions, operands with owner and content, pods with their release label |
| `crCache`, `apiCache`, `podCache` | what `r.client.Get` and `List` read: the client reads from informer caches and writes to the server |
| `events`, `queue` | watch events not yet delivered, by the CR name they will enqueue; the work queue, a set as the real one does not hold a name twice |
| `pc`, `req`, `step`, `h`, `call` | where `Reconcile` is: before a step, waiting for a write, about to report pods; `h` is its copy of the CR |
| `orphans` | writes whose sender got an error or died; each may still land, or not |
| `Take` = `Begin` or `Ignore` | `Reconcile` reads the CR, or finds none and returns |
| `SkipExisting`, `SendCreate`, `SendUpdate` | the three branches after the `Get` of a step |
| `ObjectDone`, `StatusDone`, `Refused` | the server's answers; an error returns from `Reconcile`, and the name is queued again |
| `Report`, `SendStatus` | list the pods, compare with the status, update it |
| `SyncCR`, `SyncOperand`, `SyncPods`, `Gap`, `Resync` | the informers and what their events enqueue |
| `CreateCR`, `EditSpec`, `DeleteCR`, `RemoveOperand`, `EditOperand` | users |
| `Collect`, `PodStart`, `PodGone` | the cluster's own controllers |
| `Abandon`, `Land`, `Lose` | a connection that breaks under a write |
| `Crash`, `Restart` | the process; what is listed at the start is queued |

State and actions of `OperatorProcess` and `Gathering`:

| Model | Code |
|---|---|
| `proc[p]` | where `main` is in pod p: waiting for the lock ("starting"), "leading", "running" its manager, or its container has "exited" |
| `lock` | the ConfigMap `ibm-healthcheck-operator-lock`: its owner is the pod that holds it |
| `Become`, `Run`, `Exit` | `leader.Become`; `manager.New` up to `mgr.Start`; every `os.Exit` and the signal handler |
| `Replace`, `Surge`, `Again`, `Gone`, `CollectLock` | the Deployment, the kubelet, the garbage collector |
| `crs`, `objects`, `crCache`, `cache` | the API server and the informer caches, which the controllers share |
| `queue`, `calls` | the work queues and, for each controller, the write its worker waits for |
| `Ignore`, `Skip`, `Create`, `updateMustGatherConfigMap` | the branches of the `Reconcile` functions, and of the ConfigMap step of a MustGatherService |
| `Done`, `Refused`, `Abandon`, `Land`, `Lose` | answers and broken connections, as in `Reconciler` |
| `SyncCR`, `Sync`, `Wakes`, `Requested` | the watches in `add`, and the resync |
| `Start`, `Stop` | `Run` and `Exit` of a pod together with the caches and queues that come and go with it |
| `Gather` | the pod of a Job, once the ConfigMaps it mounts are there; the ghost `gathers` counts for whom it ran |

An update takes the operand from the cache, overwrites the managed fields and
sets the owner reference. `SetControllerReference` refreshes a reference of the
same CR and refuses an operand that another CR controls; the code logs that
refusal and sends the update all the same, which `OwnerAfter` reproduces.

Abstractions. All CRs are in one namespace, where their operands are, since the
names of operands do not depend on the CR. A cache jumps to the newest version of
an object; the owners named by the versions in between are in `events` and are
enqueued as they would have been. A restart lists the present state. Names in
the queue are taken in any order and the delay of a rate-limited retry is not
modelled, as time is not. Objects exist only if the operator created them: there
are no operands from before. Reads from the cache do not fail; a failing read has
the same effect as a failing write before it is sent. Constant parts of a pod
template (probes, tolerations, security contexts, image) are left out. A manifest
that can be read but not parsed is not modelled. `Gathering` takes the read of the CR
and that of the object as one step: had the CR changed in between, the same two
reads are those of a step for which the informer of the CR lags. It has the
ConfigMap step of a MustGatherService without the steps before it, which may delay
it and nothing else, and with a manifest that was read. A Job there is the set of
ConfigMaps it mounts: its claim and its affinity to the must-gather service's pods
are the same for every CR. Its pod gathers once and does not fail; `backoffLimit`
would be the Job controller's own retry. No pod of the operator is removed while
its process runs, as one forced off a lost node would be. An owner reference is the
controller's, and the garbage collector and users delete in one step (a PVC in use
really waits for its pods). Ghost fields `by` and
`gen` record which version of which CR an operand was last written for.

## 3. Runs

| Run | Asks |
|---|---|
| `edits` | With an edit of the spec and of an operand, a removal, a crash and two broken calls: are operands created in plan order (`PlanOrder`), and does nothing old overwrite anything new (`NoRegress`)? Is everything as asked once all is delivered (`NoLostWakeup`)? |
| `recreate` | A CR is deleted and created again, with late writes for the old one, a late start of the operator and the garbage collector in between: is nothing forgotten (`NoLostWakeup`), do the operands come to be as asked (`Converges`) and the worker to rest (`Settles`)? |
| `status` | With informers that resync: does the status come to name the pods that come and go (`StatusSettles`)? Is an operand brought back that was created and removed while its watch was broken, so that no event tells of it (`Converges`)? Without resync it is not |
| `two_crs` | Do operands that two CRs contend for keep their owner (`OwnerStable`)? Does the CR that is left when the other has been deleted get them (`SoleConverges`)? With resyncs it does, and without it does not. Are the operands those of the abstract store (`Implements`)? |
| `health_edit` | The six steps of a HealthService: does the Deployment never precede the ConfigMap it mounts, unless a user has it mount another (`VolumeExists`)? With an edit of the spec and an operand removed or edited by a user, is every operand but the create-only ConfigMap as desired to the last field when all is delivered, save what users wrote into fields that only creation gives (`SpecReached`)? |
| `must_gather` | The five steps of a MustGatherService, under fair scheduling: does the StatefulSet never precede the PVC it mounts, unless a user has it mount another (`ClaimExists`)? With an edit of the spec and an operand removed or edited, are the StatefulSet and the Ingress, which are watched, as desired whenever all is delivered, save fields as above (`WatchedReached`)? With resyncs, does every updated operand come to be so, though a removed or edited Service wakes nobody (`SpecSettles`)? Without resync it does not |
| `gather` | A MustGatherConfig, a MustGatherService and a MustGatherJob around one ConfigMap, in an operator with two pods: are the controllers of one pod at work (`OneAtWork`), and of one in the end (`Serving`)? Does no object change its controlling CR (`ControllerStable`)? Does no MustGatherJob gather twice (`GathersOnce`)? Is every script in its ConfigMap in the end (`Provided`), and does every MustGatherJob have a Job of its own that has gathered (`Gathers`)? |
| `resources` | Does `GetResources` keep consistent sections admissible (`DefaultsAdmitted`) and fields apart (`FieldsApart`)? |

Four runs show disagreements between the code and what it says of itself:

- `status_needed`: memcached.go:89 updates the status "if needed" and the type
  declares `+listType=set`, but the comparison is of ordered lists and a cache
  lists in any order. The same pods in another order are written again. Each such
  write is an event of the CR and wakes the controller.
- `pods_followed`: healthservice_controller.go:105 announces a watch of pods that
  `add` does not start. A pod that goes away without a later change of its
  Deployment stays in the status until something else happens.
- `default_class`: mustgatherservice_types.go:32 promises the cluster's default
  storage class to a PVC that names none. `getDefaultStorageClass` returns "" when
  its list fails, and a PVC created with that class is never provisioned and never
  updated.
- `names_apart`: `spec.memcached.name` and `spec.healthService.name` are
  documented as the names of the Deployments and never read. Two CRs that use
  different names overwrite the same two Deployments.

### Bounds, and why they are enough

Disturbances are bounded: `Budget` says how often each kind may happen in a run
("create", "edit", "delete" of CRs; "remove", "drift" of operands, or "tamper" for
removals and edits of operands together; "pod"; "crash"; "fault", a broken call; "gap",
a broken watch; "reorder", a status written for another order of the same pods;
"contend", an update of an operand last written for another CR). The work of the
operator itself is unbounded. `GCLead` bounds one cycle: as long as the cache has a
deleted CR, the worker may create again what was collected; with `GCLead = 2` that
happens once per operand before the cache has to catch up.

`MCReconciler` has a plan of two steps, the smallest with all features of the real
ones: a create-only ConfigMap named by the spec, then an updated workload that
mounts it and reports pods. Two specs differ in the name and in the content. What
can go wrong in the loop involves a pair of writes or a write and a disturbance,
so two broken calls, one crash and one edit already give every order of a late
write, its successor and its repetition. `MCHealthService` and `MCMustGatherService`
have all steps and two specs that differ in everything the code reads, with fewer
disturbances. The `must_gather` run has no storage classes, as they would only
double it; `default_class` has one that does not provision, one that does and one
that is also the default. What users edit in operands is said by `DriftsOf`, for every kind of operand: fields that
updates write (replicas, volumes, ports, rules) and fields that they do not. Of the
latter a Deployment or StatefulSet has its labels, which stand for its service account,
its tolerations and all else that only creation gives, and a ConfigMap its data. A
selector and a PVC are immutable in the cluster. In `health_edit` and `must_gather` one
operand is removed or edited, at any point ("tamper" = 1); in `edits` one is edited
and one removed. The
`resources` run has quantities on both sides of each default and sections with
every combination of four fields. What is proved (section 4) is proved without any
of these bounds.

In `two_crs`, "contend" bounds a cycle that has no end in the code: each of two CRs
rewrites what the other wrote. `SoleConverges` is therefore said of the behaviours
in which that bound is not used up, and they are all those in which the CRs have
contended less than three times.

`MCGathering` has one CR of each kind and one name for the ConfigMap, which is the
one that matters: with two names the controllers do not meet. `Budget` and `Cost`
admit one disturbance by a user or the network (an edit or a deletion of a CR, an
object removed or edited, a broken call), or else one more pod of the operator and
one exit; the MustGatherJob may in any case be created again after it was deleted.
`MaxPods = 2` gives every overlap of an old and a new pod, and after an exit the
choice between a restart of the container and a new pod.

`CHECK_DEADLOCK FALSE` is set where the budgets run out and a controller with
nothing to do is at rest, which is its purpose.

### Fairness

`Fairness` asks for weak fairness of the worker's own steps, of the answers to its
calls, of the informers, the garbage collector, the restart of the operator's pod
(a Deployment replaces it), and of the end of each broken write. `Take(n)` has
strong fairness: the queue is first in, first out, so a name in it is taken though
the worker is busy with others in between; a name that keeps failing returns to
the end. Nothing is asked of users, pods, crashes or broken connections.
`Resync` is fair only in the runs that have informers resync (`status`, `two_crs`, `must_gather`):
controller-runtime
does so every ten hours unless told otherwise, and `main.go` does not tell it.
The convergence of the other runs does not rely on it.

`Gathering` asks for weak fairness of each CR's turn, of the answers, and of
`Surroundings` as a whole: informers, garbage collector, Jobs, the ends of broken
writes, and the operator's pods. One condition for all of them is less than one for
each, and enough, as none of them goes on without end. Its `Requested` has the
resync built in: a cached CR is taken though no event named it. `Provided` and
`Gathers` need that, as `RequestedByEvents`, the mutant without it, shows: nothing
wakes a MustGatherJob whose Job is gone.

## 4. Proofs

For every value of the constants: any number of CRs, operands and pods, any specs
and budgets, and for `Reconciler` every plan:

| Theorem | Says |
|---|---|
| `TypeCorrect` (ReconcilerSafety) | `Spec => []TypeOK` |
| `Invariance` | `Spec => []Inv`, the inductive invariant below |
| `OrderKept` | `Spec => []PlanOrder` |
| `NeverRegresses` | `Spec => NoRegress` |
| `OwnersStay` | `Spec => OwnerStable` |
| `StoreImplemented` (ReconcilerRefinement) | `Spec => Implements` |
| `Wakeups` (ReconcilerWakeups) | `Spec => []WakeupsInv`, the inductive invariant of this module |
| `NothingForgotten` | `Spec => [](Undisturbed => NoLostWakeup)` if all operands are watched |
| `WatchedNotForgotten` | the same of the operands that are watched |
| `FieldsSourced` | each field of an operand has at all times the content a step gives it, or what a user wrote into it |
| `HealthServiceSafe` (HealthServiceProofs), `MustGatherServiceSafe` (MustGatherServiceProofs) | `Spec => []PlanOrder /\ NoRegress /\ OwnerStable` for either plan |
| `HealthServiceStore`, `MustGatherServiceStore` | `Spec => P!Implements` for either plan |
| `VolumeIsThere` (HealthServiceProofs) | `Spec => []VolumeExists` |
| `HealthServiceNotForgotten` | `Spec => [](P!Undisturbed => NoLostWakeup)` |
| `SpecIsReached` | `Spec => [](P!Undisturbed => SpecReached)` |
| `ClaimWasThere` (MustGatherServiceProofs) | `Spec => []ClaimExists` |
| `WatchedIsReached` | `Spec => [](P!Undisturbed => WatchedReached)` |
| `OneProcess` (OperatorProcessProofs) | `ProcessSpec => []OneAtWork`, for any number of pods and exits |
| `ProcessImplemented`, `OneOperator` (GatheringSafety) | `Spec => ProcessSpec` and `Spec => []OneAtWork` for the composition, with any CRs and disturbances |
| `GatheredOnce`, `ControllersStay` | `Spec => []GathersOnce` and `Spec => ControllerStable` for the composition |
| `AlwaysAdmitted`, `EditsApart` (ResourceEditsProofs) | `Spec => []DefaultsAdmitted` and `Spec => FieldsApart`, for every set of quantities |

The assumptions are those named in `Reconciler` (`SizesAssumption`,
`NilAssumption`, `PlanAssumption`, `ContentsAssumption`): the steps of a plan have
different operands, and contents have the fields an update overwrites and are closed
under updates and edits. `PlanFits` proves these of the two plans from what the code
takes a spec to be (`SpecsAssumption`) and from the bounds being numbers
(`BoundsAssumption`); the content of an operand is therefore described field by field
(`HealthServiceDeploymentContents` and so on). The other assumptions are
`PodsAssumption` of `OperatorProcess` and `RefsAssumption` of `Gathering`, that `Nil` is
none of the other values.

None of the three safety properties is inductive: each speaks of stored objects,
and what threatens it is on its way. `Inv` adds

- `CachesBehind`: a cached version is not above the server's, and equal versions
  are equal objects. Hence an update accepted by the server was computed from the
  very object it replaces;
- `CallOfStep`: the write the worker waits for is that of its current step;
- `PlanInv`: the order of the plan holds of every write in flight, orphans
  included, and of the step the worker is at, not only of the objects;
- `GenInv`: no object and no write in flight is newer than the newest version of
  its CR the worker has read (`Latest`: its own copy, the cache, or, for a process
  that is down and will list, the server). Hence a new update is no older than the
  object in the cache;
- `UpdateInv`: an update in flight that could still be accepted has the owner name
  of the object and is no older. The version check is what carries this through
  later writes: they raise the version and so disarm the update.

The proofs follow the actor of a step rather than each action: `ServerSteps` says
what any step can do to an operand (a write in flight is served, it is touched, it
is gone), `SendSteps`, `WorkerSteps`, `OperandCacheSteps` and `CRCacheSteps` say
the same for the others, and one lemma per conjunct of `Inv` combines them.

The refinement needs `Inv` and one conjunct more, `CallInv`: a write in flight is for
the operand of its step, and one that creates an object names its own CR as the owner.
`OneOperand` and `OneRevision` say that no step changes two operands, or two
versions, at once; `OperandStep` then takes the three outcomes of `ServerSteps` to the
three actions of the store. The store ties the version of a write to its spec: the
newest version of a CR is written with its own spec, or, once the CR is deleted, with
one that the store no longer knows. `SpecInv` carries that to the copies of a CR in the
cache, in the worker and in the writes in flight; of versions that have been superseded
the store keeps no spec, and only that they are not newer than the newest is said.

`NoLostWakeup` speaks of the states in which all is delivered, so its invariant must
say, in any state, what will still bring a CR to each of its operands. `WakeupInv`
says it of the spec the cache holds and of each step whose operand is watched: the CR
`n` is `Awake` at step `s` because

- its name is in the queue; or
- the worker is `Ahead` of the step: it works for `n` with that very spec and is at an
  earlier step, or at this one with its write not answered; or
- an event that names `n` is `Pending`: the cached operand is not the stored one, and
  `n` is the controller of one of them or of a version in between; or
- the step is `Satisfied`: the operand is there and what the step manages has the
  content asked for.

Each step of each actor is then followed by asking which of the four it destroys and
which it brings about. A new spec in the cache queues its CR (`SyncCR`); a write served
while the worker waits, or a late one, makes an event, and so do users and the garbage
collector; an error and a crash queue the name; a delivered event queues the controllers
it names; and a worker that is done leaves the step satisfied, for which the version
check is what counts: an update that is accepted replaced the cached object. An object
in between counts for its controller only, and the controller is `n` itself
because every owner reference names a CR that has been there (`NamesKnown`).

That is where the two hypotheses come in. `Undisturbed` says that so far one CR name
has been used (`Lone`; the CR may have been deleted and created again any number of
times) and no watch has broken (`Gapless`). Without them `NoLostWakeup` is false of
the code: the events of operands that two CRs share wake one of them, and
an operand created and removed while a watch is broken leaves no event. What repairs
these is the resync, and `SoleConverges`, `Converges` and `SpecSettles` check that it
does. Nothing is assumed of crashes, refused, broken or late calls, edits and removals.

The rest of `WakeupsInv` supports this. `CRsBehind`: equal versions of a CR are equal.
`CallsFulfil`: a write in flight has the content its step gives for the spec it was
computed from, though an update was merged into a cached object. `FieldsInv`: each field
has, in objects, caches and writes in flight, the content that some step gives it for a
CR that has been there and a spec whose earlier operands have existed, or else what a
user may have written into it (`Sourced`). The part about earlier operands gives
`VolumeExists` and `ClaimExists`: the volumes were written by the step after that of the
ConfigMap, or claim, they name, unless by a user, though a different CR, or an older
spec, may have written the rest. The part about CRs gives the fields in `SpecReached`
that no update writes, the labels and the selector of a Deployment. They carry the name
of whoever created it, which under `Lone` is this CR; a selector cannot be edited, and
labels that a user has edited stay so, as the code never restores them
(memcached.go:131-133, healthservice.go:197-200): `SpecReached` and `WatchedReached` say
no more of them. The fields an update does write come from
`NoLostWakeup`, and together they are the whole object.

For a plan, `P == INSTANCE ReconcilerWakeups` has the parameters of the component, and
`PlanImplemented` proves that its behaviours are behaviours of `P`'s reconciler, action by
action; with `PlanFits` the theorems of `P` apply. `HealthService` has every
operand watched. `MustGatherService` has not: `WatchedIsReached` is about its
StatefulSet and Ingress, and what becomes of a Service that is removed is left to
`SpecSettles`.

`EditsApart` rests on `OneFieldDecides`: as soon as a section has a field set, what
`GetResources` makes of a field depends on that field alone.

`OneAtWork` follows from `LockHeld`: a process at work holds the lock. That is
inductive because the garbage collector takes the lock only from a pod that is gone,
and a pod is gone only after its process has exited.

The invariant of `GatheringSafety` says of every write in flight whom it would make the
owner (`WritesOK`): a create its own CR, and an update that can still be accepted the
CR that controls the stored ConfigMap, as it was computed from that version
(`CacheBehind`). `GathersOnce` rests on `GatheredOK`: a CR that has gathered controls a
Job that is done, with the uid of the CR, so that the Job is no garbage; a second Job
cannot be created beside it, and no worker updates one (`JobsOwned`). A CR
created anew has not gathered, and a user who removes the Job asks for another.

Only model-checked: what must happen in the end (`Converges`, `Settles`, `SoleConverges`,
`StatusSettles`, `SpecSettles`, `Serving`, `Provided`, `Gathers`), as liveness under
fairness is out of the prover's reach. Every invariant and action property of a passing
run is stated by a theorem; `NoLostWakeup`, `SpecReached` and `WatchedReached` under the
two hypotheses above, which hold throughout the runs that check them, as those use one
CR name and no "gap".

## 5. Plan

The most important behaviour comes first; done parts are marked.

1. `Reconciler` with its runs and safety proofs; `HealthService`; `Common` (done).
2. `MustGatherService`, another instance of `Reconciler` (done).
3. `OperatorProcess`, and `Gathering`, the composition of the controllers that meet at
   one ConfigMap (done).
4. The survivor of two CRs that share operands; `OperandStore` and the proof that
   `Reconciler` implements it (done).
5. `GatheringSafety` (done).
6. `ReconcilerWakeups`, `HealthServiceProofs`, `MustGatherServiceProofs` (done).
7. Proofs about what a status names, and about the ConfigMap that three kinds of CR meet at.

### Not modelled

Rate limiting and time; the metrics endpoints and their Service, whose failures
`main` logs and ignores; failures inside the cluster's own controllers; permissions;
labels and annotations beyond the release label of a pod. The deep copies in
`zz_generated.deepcopy.go` are generated and enter the models as what they are for:
`h` and the objects in calls are values and share nothing with the caches.

Some hazards in `PROJECT.json` have no property. They are what the code does, nothing in
the repository promises otherwise, and each has a note: a create-only ConfigMap is never
repaired or, after a renaming, removed; labels that a user has edited stay; a quantity
that does not parse and a section with one field alone get the defaults they get; two
CRs may rewrite each other without end, which the bound "contend" cuts; a status report
that went on with an old copy of the CR would only cost a retry; and a MustGatherJob
with neither a command nor a `mustgatherConfigName` asks for a ConfigMap without a name,
which the API server refuses at every retry, though mustgatherjob_types.go:35 calls
"default" the default.
