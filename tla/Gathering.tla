------------------------------ MODULE Gathering ------------------------------
(***************************************************************************)
(* The controllers that meet at the ConfigMaps and Jobs of a must-gather:  *)
(*   - mustgatherconfig writes the data of a MustGatherConfig into the     *)
(*     ConfigMap of the same name, and overwrites what it finds there;     *)
(*   - mustgatherjob creates, once, a Job which mounts a ConfigMap;        *)
(*   - mustgatherservice creates a default ConfigMap, as the last step of  *)
(*     its plan, and leaves one alone that is there.                       *)
(*                                                                         *)
(* Each has a worker of its own; they share the informer caches of the     *)
(* operator process, which starts and stops as OperatorProcess says, and   *)
(* the API server.  OneAtWork is why one set of caches and workers is      *)
(* enough: it belongs to the pod that runs.                                *)
(***************************************************************************)
EXTENDS OperatorProcess

CONSTANTS
    Configs,        \* names of MustGatherConfigs
    Jobs,           \* names of MustGatherJobs
    Services,       \* names of MustGatherServices
    CustomCM,       \* the name of the default ConfigMap
    Scripts,        \* the scripts a MustGatherConfig may give
    Default,        \* the script in the default ConfigMap
    JobSpecs,       \* specs of MustGatherJobs
    Before,         \* the CRs that are there before the operator, and their specs
    Births,         \* how often each CR may be created after that: a bound
    Budget,         \* what may be spent on disturbances in all: a bound
    Cost,           \* and what each kind of disturbance costs
    GCLead          \* a bound: the garbage collector acts before the CR informers
                    \* have caught up only on versions below this one

CRs == {"MustGatherConfig"} \X Configs \cup {"MustGatherJob"} \X Jobs
         \cup {"MustGatherService"} \X Services
ConfigMaps == {"ConfigMap"} \X (Configs \cup {CustomCM})
JobObjects == {"Job"} \X Jobs
Objects == ConfigMaps \cup JobObjects

Kind(c) == c[1]
Name(c) == c[2]
Controllers == {"MustGatherConfig", "MustGatherJob", "MustGatherService"}

\* An owner reference, as SetControllerReference writes it.
Refs == [cr : CRs, uid : Nat]

ASSUME RefsAssumption == Nil \notin Refs

ASSUME JobSpecsAssumption ==
    \A sp \in JobSpecs : sp.command \in BOOLEAN /\ sp.config \in Configs \cup {CustomCM, ""}

VARIABLES
    crs,        \* the API server: the CRs
    objects,    \* the API server: ConfigMaps and Jobs
    crCache,    \* the informer caches of the operator process
    cache,
    queue,      \* the CRs in the work queues
    calls,      \* the write each controller's worker waits for
    orphans,    \* writes still under way that nobody waits for any more
    gathers,    \* ghost: the gathers completed for a CR since it was created, or
                \* since a user last removed its Job
    births,     \* what is left of Births
    budget      \* what is left of Budget

server == <<crs, objects, gathers>>
caches == <<crCache, cache>>
bounds == <<births, budget>>
vars == <<processVars, server, caches, queue, calls, orphans, bounds>>

Spend(d) == budget >= Cost[d] /\ budget' = budget - Cost[d]
Running == \E p \in Replicas : proc[p] = "running"

AbsentCR == [live |-> FALSE, uid |-> 0, rv |-> 0, spec |-> Nil]
Absent(rv) == [live |-> FALSE, rv |-> rv, owner |-> Nil, val |-> Nil, done |-> FALSE]
NoCRs == [c \in CRs |-> AbsentCR]
NoObjects == [o \in Objects |-> Absent(0)]
NoCalls == [k \in Controllers |-> Nil]

Init ==
    /\ ProcessInit
    /\ crs = [c \in CRs |->
          IF c \in DOMAIN Before THEN [live |-> TRUE, uid |-> 1, rv |-> 1, spec |-> Before[c]]
          ELSE AbsentCR]
    /\ objects = NoObjects
    /\ crCache = NoCRs
    /\ cache = NoObjects
    /\ queue = {}
    /\ calls = NoCalls
    /\ orphans = {}
    /\ gathers = [c \in CRs |-> 0]
    /\ births = Births
    /\ budget = Budget

-------------------------------------------------------------------------------
(* What the controllers ask for *)

Target(c) ==
    CASE Kind(c) = "MustGatherConfig" -> <<"ConfigMap", Name(c)>>
      [] Kind(c) = "MustGatherJob" -> <<"Job", Name(c)>>
      [] Kind(c) = "MustGatherService" -> <<"ConfigMap", CustomCM>>

newMustGatherConfig(spec) == spec

\* The ConfigMaps a Job mounts: one, unless the CR gives a command.
newMustGatherJob(spec) == IF spec.command THEN {} ELSE {spec.config}

Desired(c, spec) ==
    CASE Kind(c) = "MustGatherConfig" -> newMustGatherConfig(spec)
      [] Kind(c) = "MustGatherJob" -> newMustGatherJob(spec)
      [] Kind(c) = "MustGatherService" -> Default

\* Mutant: the Job is written again at every reconcile.
JobUpdated(c) == Kind(c) = "MustGatherService"

\* Only the ConfigMap of a MustGatherConfig is ever updated.
CreateOnly(c) == Kind(c) # "MustGatherConfig"

\* A ConfigMap volume must name its ConfigMap.
Admits(o, val) == o \in JobObjects => "" \notin val

-------------------------------------------------------------------------------
(* The API server *)

Accepted(w) ==
    LET o == Target(w.cr)
    IN  /\ Admits(o, w.val)
        /\ w.verb = "create" => ~objects[o].live
        /\ w.verb = "update" => objects[o].live /\ w.rv = objects[o].rv

Put(o, r) == objects' = [objects EXCEPT ![o] = r]

\* An update that changes nothing is not a new version.
Apply(w) ==
    LET o == Target(w.cr)
        old == objects[o]
    IN  Put(o, IF w.verb = "update" /\ w.val = old.val /\ w.owner = old.owner THEN old
               ELSE [live |-> TRUE, rv |-> old.rv + 1, owner |-> w.owner,
                     val |-> w.val, done |-> FALSE])

-------------------------------------------------------------------------------
(* The workers.  Reconcile reads the CR and then the object, both through the *)
(* caches.  One step here: had the CR changed in between, the same reads are  *)
(* those of a step for which the CR's informer lags.                          *)

Idle(k) == calls[k] = Nil

\* Mutant: the informers never resync.
RequestedByEvents(c) == c \in queue

\* The periodic resync replays any CR that is cached as an update event.  That
\* event need not wait in the queue here: it might as well come when taken.
Requested(c) == c \in queue \/ crCache[c].live

Reads(c) == Running /\ Idle(Kind(c)) /\ Requested(c)
Found(c) == cache[Target(c)]
Self(c) == [cr |-> c, uid |-> crCache[c].uid]

Dequeue(c) == queue' = queue \ {c}

\* The CR is not there: what it owned is left to the garbage collector.
Ignore(c) ==
    /\ Reads(c) /\ ~crCache[c].live
    /\ Dequeue(c)
    /\ UNCHANGED <<processVars, server, caches, calls, orphans, bounds>>

\* The Job, or the default ConfigMap, exists.
Skip(c) ==
    /\ Reads(c) /\ crCache[c].live /\ CreateOnly(c) /\ Found(c).live
    /\ Dequeue(c)
    /\ UNCHANGED <<processVars, server, caches, calls, orphans, bounds>>

Send(c, verb, rv, owner) ==
    /\ Dequeue(c)
    /\ calls' = [calls EXCEPT ![Kind(c)] =
          [verb |-> verb, cr |-> c, rv |-> rv, owner |-> owner,
           val |-> Desired(c, crCache[c].spec)]]
    /\ UNCHANGED <<processVars, server, caches, orphans, bounds>>

Create(c) ==
    /\ Reads(c) /\ crCache[c].live /\ ~Found(c).live
    /\ Send(c, "create", 0, Self(c))

\* Mutant: the update takes the ConfigMap over.
OwnerTakenOver(c, ref) == Self(c)

\* SetControllerReference renews this CR's own reference and adopts an object
\* without a controller; of another's object it refuses to be the controller,
\* which is logged, and the update is sent all the same.
OwnerAfter(c, ref) == IF ref = Nil \/ ref.cr = c THEN Self(c) ELSE ref

\* Mutant: an update sets the owner and leaves the data.
UpdateLeavesData(c) ==
    /\ Reads(c) /\ crCache[c].live /\ ~CreateOnly(c) /\ Found(c).live
    /\ Dequeue(c)
    /\ calls' = [calls EXCEPT ![Kind(c)] =
          [verb |-> "update", cr |-> c, rv |-> Found(c).rv,
           owner |-> OwnerAfter(c, Found(c).owner), val |-> Found(c).val]]
    /\ UNCHANGED <<processVars, server, caches, orphans, bounds>>

updateMustGatherConfigMap(c) ==
    /\ Reads(c) /\ crCache[c].live /\ ~CreateOnly(c) /\ Found(c).live
    /\ Send(c, "update", Found(c).rv, OwnerAfter(c, Found(c).owner))

Work(c) == Ignore(c) \/ Skip(c) \/ Create(c) \/ updateMustGatherConfigMap(c)

Return(k) == calls' = [calls EXCEPT ![k] = Nil]
Requeue(k) == queue' = queue \cup {calls[k].cr}

Done(k) ==
    /\ ~Idle(k) /\ Accepted(calls[k]) /\ Apply(calls[k])
    /\ Return(k)
    /\ UNCHANGED <<processVars, crs, gathers, caches, queue, orphans, bounds>>

\* Any error goes out of Reconcile, and the request back into the queue.
Refused(k) ==
    /\ ~Idle(k) /\ ~Accepted(calls[k])
    /\ Return(k) /\ Requeue(k)
    /\ UNCHANGED <<processVars, server, caches, orphans, bounds>>

Answer(k) == Done(k) \/ Refused(k)

\* The connection breaks: an error for the worker, but the write may still land.
Abandon(k) ==
    /\ ~Idle(k) /\ Spend("fault")
    /\ Return(k) /\ Requeue(k)
    /\ orphans' = orphans \cup {calls[k]}
    /\ UNCHANGED <<processVars, server, caches, births>>

Land(w) ==
    /\ orphans' = orphans \ {w}
    /\ Accepted(w) /\ Apply(w)
    /\ UNCHANGED <<processVars, crs, gathers, caches, queue, calls, bounds>>

Lose(w) ==
    /\ orphans' = orphans \ {w}
    /\ UNCHANGED <<processVars, server, caches, queue, calls, bounds>>

-------------------------------------------------------------------------------
(* Informers *)

SyncCR(c) ==
    /\ Running /\ crCache[c] # crs[c]
    /\ crCache' = [crCache EXCEPT ![c] = crs[c]]
    /\ queue' = queue \cup {c}
    /\ UNCHANGED <<processVars, server, cache, calls, orphans, bounds>>

\* The watches on secondary objects: only MustGatherServices are woken, by the
\* ConfigMaps they control.  A Pod belongs to a Job, never to a CR.
Wakes(o, r) ==
    {c \in CRs : /\ o \in ConfigMaps /\ Kind(c) = "MustGatherService"
                 /\ r.owner # Nil /\ r.owner.cr = c}

\* A CR named only by a version in between is taken all the same: see Requested.
Sync(o) ==
    /\ Running /\ cache[o].rv # objects[o].rv
    /\ cache' = [cache EXCEPT ![o] = objects[o]]
    /\ queue' = queue \cup Wakes(o, cache[o]) \cup Wakes(o, objects[o])
    /\ UNCHANGED <<processVars, server, crCache, calls, orphans, bounds>>

-------------------------------------------------------------------------------
(* The process *)

\* The caches are filled before the workers start; every CR listed is an event.
Start(p) ==
    /\ Run(p)
    /\ crCache' = crs
    /\ cache' = objects
    /\ queue' = {c \in CRs : crs[c].live} \cup UNION {Wakes(o, objects[o]) : o \in Objects}
    /\ UNCHANGED <<server, calls, orphans, bounds>>

\* A write under way may still land after the process that sent it has ended.
Stop(p) ==
    /\ Exit(p) /\ Spend("exit")
    /\ UNCHANGED <<server, births>>
    /\ \/ /\ proc[p] = "running"
          /\ orphans' = orphans \cup {calls[k] : k \in {x \in Controllers : ~Idle(x)}}
          /\ crCache' = NoCRs /\ cache' = NoObjects
          /\ queue' = {} /\ calls' = NoCalls
       \/ /\ proc[p] # "running"
          /\ UNCHANGED <<caches, queue, calls, orphans>>

Pods ==
    /\ \/ \E p \in Replicas : Replace(p) \/ Become(p) \/ Again(p) \/ Gone(p)
       \/ CollectLock
    /\ UNCHANGED <<server, caches, queue, calls, orphans, bounds>>

Rollout(p) ==
    /\ Surge(p) /\ Spend("surge")
    /\ UNCHANGED <<server, caches, queue, calls, orphans, births>>

-------------------------------------------------------------------------------
(* Users and the cluster *)

SpecsOf(c) ==
    CASE Kind(c) = "MustGatherConfig" -> Scripts
      [] Kind(c) = "MustGatherJob" -> JobSpecs
      [] Kind(c) = "MustGatherService" -> {Default}

CreateCR(c) ==
    /\ ~crs[c].live /\ births[c] > 0
    /\ births' = [births EXCEPT ![c] = @ - 1]
    /\ \E sp \in SpecsOf(c) : crs' = [crs EXCEPT ![c] =
          [live |-> TRUE, uid |-> @.uid + 1, rv |-> @.rv + 1, spec |-> sp]]
    /\ gathers' = [gathers EXCEPT ![c] = 0]
    /\ UNCHANGED <<processVars, objects, caches, queue, calls, orphans, budget>>

EditCR(c) ==
    /\ crs[c].live /\ Spend("edit")
    /\ \E sp \in SpecsOf(c) \ {crs[c].spec} : crs' = [crs EXCEPT ![c] =
          [live |-> TRUE, uid |-> @.uid, rv |-> @.rv + 1, spec |-> sp]]
    /\ UNCHANGED <<processVars, objects, gathers, caches, queue, calls, orphans, births>>

DeleteCR(c) ==
    /\ crs[c].live /\ Spend("delete")
    /\ crs' = [crs EXCEPT ![c] =
          [live |-> FALSE, uid |-> @.uid, rv |-> @.rv + 1, spec |-> Nil]]
    /\ UNCHANGED <<processVars, objects, gathers, caches, queue, calls, orphans, births>>

\* A user removes an object ...
Remove(o) ==
    /\ objects[o].live /\ Spend("meddle")
    /\ Put(o, Absent(objects[o].rv + 1))
    /\ gathers' = [c \in CRs |-> IF Target(c) = o THEN 0 ELSE gathers[c]]
    /\ UNCHANGED <<processVars, crs, caches, queue, calls, orphans, births>>

\* ... or edits a ConfigMap, or makes one, which no CR controls.
Script(o) ==
    /\ o \in ConfigMaps /\ Spend("meddle")
    /\ Put(o, [live |-> TRUE, rv |-> objects[o].rv + 1, owner |-> objects[o].owner,
               val |-> "user's", done |-> FALSE])
    /\ UNCHANGED <<processVars, crs, gathers, caches, queue, calls, orphans, births>>

Garbage(o) ==
    /\ objects[o].live /\ objects[o].owner # Nil
    /\ LET ref == objects[o].owner
       IN  ~crs[ref.cr].live \/ crs[ref.cr].uid # ref.uid

\* A worker with a stale CR may create again what was collected: GCLead bounds
\* how often.
Collect(o) ==
    /\ Garbage(o)
    /\ objects[o].rv < GCLead \/ ~Running \/ crCache = crs
    /\ Put(o, Absent(objects[o].rv + 1))
    /\ UNCHANGED <<processVars, crs, gathers, caches, queue, calls, orphans, bounds>>

\* The pod of a Job starts once every ConfigMap it mounts is there, and gathers
\* for the CR that controls the Job, if that has not been replaced.
Mountable(o) == \A n \in objects[o].val : objects[<<"ConfigMap", n>>].live

Gather(o) ==
    /\ objects[o].live /\ ~objects[o].done /\ Mountable(o)
    /\ Put(o, [live |-> TRUE, rv |-> objects[o].rv, owner |-> objects[o].owner,
               val |-> objects[o].val, done |-> TRUE])
    /\ LET ref == objects[o].owner
       IN  gathers' = IF crs[ref.cr].live /\ crs[ref.cr].uid = ref.uid
                      THEN [gathers EXCEPT ![ref.cr] = @ + 1] ELSE gathers
    /\ UNCHANGED <<processVars, crs, caches, queue, calls, orphans, bounds>>

-------------------------------------------------------------------------------

Workers ==
    \/ \E c \in CRs : Work(c)
    \/ \E k \in Controllers : Answer(k) \/ Abandon(k)
    \/ \E w \in orphans : Land(w) \/ Lose(w)

Informers ==
    \/ \E c \in CRs : SyncCR(c)
    \/ \E o \in Objects : Sync(o)

Process == Pods \/ \E p \in Replicas : Start(p) \/ Stop(p) \/ Rollout(p)

Users ==
    \/ \E c \in CRs : CreateCR(c) \/ EditCR(c) \/ DeleteCR(c)
    \/ \E o \in Objects : Remove(o) \/ Script(o)

Cluster ==
    \/ \E o \in Objects : Collect(o)
    \/ \E o \in JobObjects : Gather(o)

Next == Workers \/ Informers \/ Process \/ Users \/ Cluster

Spec == Init /\ [][Next]_vars

\* The Deployment keeps one pod, the kubelet its container; the lock is polled.
Booting ==
    \/ \E p \in Replicas : Start(p)
    \/ /\ CollectLock \/ \E p \in Replicas : Replace(p) \/ Become(p) \/ Again(p)
       /\ UNCHANGED <<server, caches, queue, calls, orphans, bounds>>

\* The informers, the cluster, the network and the process have something to do.
Surroundings ==
    \/ \E c \in CRs : SyncCR(c)
    \/ \E o \in Objects : Sync(o) \/ Collect(o)
    \/ \E o \in JobObjects : Gather(o)
    \/ \E w \in orphans : Land(w) \/ Lose(w)
    \/ Booting

\* Each worker takes what is asked of it (in its turn, which with several CRs of
\* a kind would be more than this), resyncs come again and again, and what the
\* surroundings have to do, which is never without end, is done.
Fairness ==
    /\ \A c \in CRs : WF_vars(Work(c))
    /\ \A k \in Controllers : WF_vars(Answer(k))
    /\ WF_vars(Surroundings)

FairSpec == Spec /\ Fairness

-------------------------------------------------------------------------------
(* Properties *)

\* No ConfigMap or Job passes from one controlling CR to another while it lives:
\* a MustGatherConfig rewrites the script of a ConfigMap that a MustGatherService
\* controls, and does not become its owner (mustgatherconfig_controller.go:157).
ControllerStable ==
    [][\A o \in Objects :
          (objects[o].live /\ objects'[o].live /\ objects[o].owner # Nil)
             => objects'[o].owner # Nil /\ objects'[o].owner.cr = objects[o].owner.cr]_vars

\* A MustGatherJob gathers once, whatever is retried, lands late or is restarted:
\* again only if somebody has removed its Job.
GathersOnce ==
    \A c \in CRs : gathers[c] <= 1

\* Once the disturbances end, the ConfigMap of every MustGatherConfig holds its
\* script, also where a MustGatherService controls it or a user has changed it,
\* and every MustGatherService has its ConfigMap.
Provided ==
    <>[](\A c \in CRs : crs[c].live =>
            /\ Kind(c) = "MustGatherConfig" =>
                  objects[Target(c)].live /\ objects[Target(c)].val = crs[c].spec
            /\ Kind(c) = "MustGatherService" => objects[Target(c)].live)

\* Once the disturbances end, every MustGatherJob that the API server accepts
\* has a Job of its own, not of an earlier CR of that name, and has gathered
\* if the ConfigMaps are there.
Gathers ==
    <>[](\A c \in CRs :
           (crs[c].live /\ Kind(c) = "MustGatherJob"
              /\ Admits(Target(c), Desired(c, crs[c].spec)))
             => LET o == Target(c)
                IN  /\ objects[o].live
                    /\ objects[o].owner = [cr |-> c, uid |-> crs[c].uid]
                    /\ Mountable(o) => gathers[c] > 0)

===============================================================================
