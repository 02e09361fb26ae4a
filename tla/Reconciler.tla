------------------------------ MODULE Reconciler ------------------------------
(***************************************************************************)
(* One controller of the operator: a single worker that takes the name of  *)
(* a custom resource (CR) from a work queue and walks through a fixed plan *)
(* of operands, creating or updating one object per step.                  *)
(*                                                                         *)
(* The worker reads through informer caches that lag behind the API server *)
(* and writes to the API server itself, where an update carries the        *)
(* resourceVersion it was computed from.  Around it run the API server,    *)
(* the garbage collector, the users, the pods of the operands, and the     *)
(* crashes of the operator process.                                        *)
(*                                                                         *)
(* The plan is a parameter: HealthService.tla gives the six steps of       *)
(* pkg/controller/healthservice.  The loop itself is the same in every     *)
(* createOrUpdate function of the repository.                              *)
(***************************************************************************)
EXTENDS Integers, FiniteSets, SequencesExt

CONSTANTS
    Names,          \* names of CRs
    Specs,          \* specs a user may give a CR
    Keys,           \* operands, as kind and name
    Pods,           \* names of pods
    NSteps,         \* length of the plan
    CreateOnly,     \* steps that leave an existing object alone
    Workloads,      \* operands that run pods; their steps report pod names
    Watched,        \* operands whose events wake the controller
    Readings,       \* what a step may read besides the CR and its operand
    Resyncs,        \* TRUE if informers replay their contents from time to time
    Budget,         \* how often each kind of disturbance may happen
    GCLead,         \* a bound: the garbage collector acts before the CR informer
                    \* has caught up only on versions below this one
    Nil             \* a value that is none of the others

CONSTANTS
    Target(_, _),       \* the operand of a step, for a spec
    Desired(_, _, _, _),    \* its content, for a step, a CR name, a spec, a reading
    Managed(_),         \* the fields of that content a step's update overwrites
    Contents(_),        \* the contents an operand can have
    Admits(_, _),       \* does the API server admit this content of an operand?
    Release(_),         \* the CR name in the pod labels of a workload's content
    Drifts(_, _)        \* what a user may turn the content of an operand into

Steps == 1 .. NSteps

Disturbances ==
    {"create", "edit", "delete", "remove", "drift", "tamper", "pod", "crash", "fault",
     "gap", "reorder", "contend"}

\* The fields a step manages come from the desired content, all others stay.
Merge(s, old, new) ==
    [f \in DOMAIN old |-> IF f \in Managed(s) THEN new[f] ELSE old[f]]

ASSUME SizesAssumption ==
    /\ NSteps \in Nat \ {0}
    /\ CreateOnly \subseteq Steps
    /\ Workloads \subseteq Keys
    /\ Watched \subseteq Keys
    /\ Resyncs \in BOOLEAN
    /\ Budget \in [Disturbances -> Nat]
    /\ GCLead \in Nat
    /\ IsFiniteSet(Pods)

ASSUME NilAssumption ==
    /\ Nil \notin Names
    /\ Nil \notin Specs

ASSUME PlanAssumption ==
    \A sp \in Specs, s \in Steps :
        /\ Target(s, sp) \in Keys
        /\ \A t \in Steps : Target(s, sp) = Target(t, sp) => s = t
        /\ \A n \in Names, r \in Readings :
              Desired(s, n, sp, r) \in Contents(Target(s, sp))

ASSUME ContentsAssumption ==
    /\ \A sp \in Specs, s \in Steps \ CreateOnly :
        \A v, d \in Contents(Target(s, sp)) :
            /\ Managed(s) \subseteq DOMAIN v
            /\ Merge(s, v, d) \in Contents(Target(s, sp))
    /\ \A k \in Keys : \A v \in Contents(k) : Drifts(k, v) \subseteq Contents(k)
    /\ \A k \in Workloads : \A v \in Contents(k) : Release(v) \in Names

-------------------------------------------------------------------------------

VARIABLES
    crs,        \* the API server: the CRs
    api,        \* the API server: the operands
    pods,       \* the API server: the pods of each workload
    crCache,    \* the informer caches of the operator process ...
    apiCache,
    podCache,
    events,     \* the CRs named in the events not yet delivered of an operand
    queue,      \* the CR names waiting in the work queue
    pc,         \* what the worker is about to do
    req,        \* the CR name it works for
    step,       \* the step of the plan it is at
    h,          \* its copy of the CR
    call,       \* the write it waits for
    orphans,    \* writes still under way that nobody waits for any more
    budget      \* what is left of Budget

server == <<crs, api, pods, events>>
caches == <<crCache, apiCache, podCache>>
worker == <<pc, req, step, h, call>>
vars == <<server, caches, queue, worker, orphans, budget>>

-------------------------------------------------------------------------------
(* Records *)

NodeLists == [Workloads -> Seq(Pods)]
NoNodes == [k \in Workloads |-> <<>>]

\* A CR.  gen counts the versions of its spec and uid its incarnations; both
\* grow for as long as the name is in use, as rv does.
LiveCRs == [live : {TRUE}, uid : Nat, gen : Nat, rv : Nat,
            spec : Specs, nodes : NodeLists]
AbsentCRs == [live : {FALSE}, uid : Nat, gen : Nat, rv : Nat,
              spec : {Nil}, nodes : {NoNodes}]
AbsentCR == [live |-> FALSE, uid |-> 0, gen |-> 0, rv |-> 0,
             spec |-> Nil, nodes |-> NoNodes]

\* An owner reference, as SetControllerReference writes it.
Refs == [name : Names, uid : Nat]

\* Ghost: the version of which CR, and the step, an object was last written for.
Origins == [name : Names, gen : Nat, spec : Specs, step : Steps]

\* An operand.  rv survives deletion: versions are never reused.
LiveObjects(k) == [live : {TRUE}, rv : Nat, owner : Refs, by : Origins,
                   val : Contents(k)]
AbsentObjects == [live : {FALSE}, rv : Nat, owner : {Nil}, by : {Nil}, val : {Nil}]
AbsentObject(rv) ==
    [live |-> FALSE, rv |-> rv, owner |-> Nil, by |-> Nil, val |-> Nil]

\* A write on its way to the API server.
Calls(k) == [kind : {"create", "update"}, key : {k}, rv : Nat, owner : Refs,
             by : Origins, val : Contents(k), nodes : {NoNodes}]
StatusCalls == [kind : {"status"}, key : Workloads, rv : Nat, owner : {Nil},
                by : Origins, val : {Nil}, nodes : NodeLists]
IsCall(c) == c \in StatusCalls \/ \E k \in Keys : c \in Calls(k)

\* A record as its next version.
Version(r) == [r EXCEPT !.rv = @ + 1]

PodRecords == [name : Pods, release : Names]

Init ==
    /\ crs = [n \in Names |-> AbsentCR]
    /\ api = [k \in Keys |-> AbsentObject(0)]
    /\ pods = [k \in Workloads |-> {}]
    /\ events = [k \in Keys |-> {}]
    /\ crCache = crs
    /\ apiCache = api
    /\ podCache = pods
    /\ queue = {}
    /\ pc = "down"
    /\ req = Nil
    /\ step = 1
    /\ h = Nil
    /\ call = Nil
    /\ orphans = {}
    /\ budget = Budget

Spend(d) == budget[d] > 0 /\ budget' = [budget EXCEPT ![d] = @ - 1]

-------------------------------------------------------------------------------
(* The API server *)

\* The controllers of live objects.
OwnersOf(objects) == {o.owner.name : o \in {x \in objects : x.live}}

\* Object o replaces what is stored for k.  A new version is an event for the
\* running process, which names the controller before and the one after.
Put(k, o) ==
    /\ api' = [api EXCEPT ![k] = o]
    /\ events' = IF pc = "down" \/ o.rv = api[k].rv THEN events
                 ELSE [events EXCEPT ![k] = @ \cup OwnersOf({api[k], o})]

\* Mutant: the update carries no resourceVersion.
AcceptedUnconditionally(c) ==
    /\ c.kind = "status" => crs[c.by.name].live /\ c.rv = crs[c.by.name].rv
    /\ c.kind # "status" => Admits(c.key, c.val) /\ (api[c.key].live <=> c.kind = "update")

\* A create needs a free name, an update the version it was computed from.
Accepted(c) ==
    \/ c.kind = "create" /\ ~api[c.key].live /\ Admits(c.key, c.val)
    \/ /\ c.kind = "update"
       /\ api[c.key].live
       /\ c.rv = api[c.key].rv
       /\ Admits(c.key, c.val)
    \/ c.kind = "status" /\ crs[c.by.name].live /\ c.rv = crs[c.by.name].rv

\* An update that changes nothing is not a new version.
Stored(c) ==
    IF c.kind = "update" /\ c.val = api[c.key].val /\ c.owner = api[c.key].owner
    THEN api[c.key]
    ELSE [live |-> TRUE, rv |-> api[c.key].rv + 1,
          owner |-> c.owner, by |-> c.by, val |-> c.val]

Apply(c) ==
    /\ UNCHANGED pods
    /\ \/ /\ c.kind # "status"
          /\ Put(c.key, Stored(c))
          /\ UNCHANGED crs
       \/ /\ c.kind = "status"
          /\ crs' = [crs EXCEPT ![c.by.name] =
                Version([crs[c.by.name] EXCEPT !.nodes = c.nodes])]
          /\ UNCHANGED <<api, events>>

-------------------------------------------------------------------------------
(* The worker *)

Finish ==
    /\ pc' = "idle"
    /\ req' = Nil
    /\ step' = 1
    /\ h' = Nil
    /\ call' = Nil

\* Mutant: the error is logged and Reconcile returns none.
RetryForgotten == Finish /\ UNCHANGED queue

\* Reconcile returned an error: the name goes back into the queue.
Retry == Finish /\ queue' = queue \cup {req}

\* This step is done: on to the next one with the copy cr, or out of Reconcile.
Proceed(cr) ==
    \/ step = NSteps /\ Finish
    \/ /\ step < NSteps
       /\ pc' = "ensure"
       /\ step' = step + 1
       /\ h' = cr
       /\ call' = Nil
       /\ UNCHANGED req

Key == Target(step, h.spec)
Current == apiCache[Key]
Origin == [name |-> req, gen |-> h.gen, spec |-> h.spec, step |-> step]

\* Mutant: the object is created without SetControllerReference.
SelfForgotten == Nil
Self == [name |-> req, uid |-> h.uid]

\* Reconcile reads the CR through the cache and starts the plan ...
Begin(n) ==
    /\ pc = "idle" /\ n \in queue /\ crCache[n].live
    /\ queue' = queue \ {n}
    /\ pc' = "ensure"
    /\ req' = n
    /\ step' = 1
    /\ h' = crCache[n]
    /\ UNCHANGED <<server, caches, call, orphans, budget>>

\* Mutant: a CR that is not found is an error.
IgnoreAsError(n) ==
    /\ pc = "idle" /\ n \in queue /\ ~crCache[n].live
    /\ UNCHANGED vars

\* ... or finds none and leaves its operands to the garbage collector.
Ignore(n) ==
    /\ pc = "idle" /\ n \in queue /\ ~crCache[n].live
    /\ queue' = queue \ {n}
    /\ UNCHANGED <<server, caches, worker, orphans, budget>>

\* The ConfigMap steps do nothing about an object that is there.
SkipExisting ==
    /\ pc = "ensure" /\ step \in CreateOnly /\ Current.live
    /\ Proceed(h)
    /\ UNCHANGED <<server, caches, queue, orphans, budget>>

Send(c) ==
    /\ call' = c
    /\ pc' = "call"
    /\ UNCHANGED <<server, caches, queue, req, step, orphans>>

SendCreate ==
    /\ pc = "ensure" /\ ~Current.live
    /\ \E r \in Readings :
          Send([kind |-> "create", key |-> Key, rv |-> 0, owner |-> Self,
                by |-> Origin, val |-> Desired(step, req, h.spec, r),
                nodes |-> NoNodes])
    /\ UNCHANGED <<h, budget>>

\* Mutant: the update takes the object over.
OwnerTakenOver(ref) == Self

\* SetControllerReference refreshes this CR's own reference, but refuses an
\* object that another CR controls; the refusal is logged and the update sent.
OwnerAfter(ref) == IF ref.name = req THEN Self ELSE ref

SendUpdate ==
    /\ pc = "ensure" /\ step \notin CreateOnly /\ Current.live
    /\ \E r \in Readings :
          Send([kind |-> "update", key |-> Key, rv |-> Current.rv,
                owner |-> OwnerAfter(Current.owner), by |-> Origin,
                val |-> Merge(step, Current.val, Desired(step, req, h.spec, r)),
                nodes |-> NoNodes])
    /\ IF Current.by.name = req THEN UNCHANGED budget ELSE Spend("contend")
    /\ UNCHANGED h

\* A workload's step goes on to report pod names, any other is done.
ObjectDone ==
    /\ pc = "call" /\ call.kind # "status" /\ Accepted(call)
    /\ Apply(call)
    /\ \/ Key \notin Workloads /\ Proceed(h)
       \/ /\ Key \in Workloads
          /\ pc' = "report"
          /\ call' = Nil
          /\ UNCHANGED <<req, step, h>>
    /\ UNCHANGED <<caches, queue, orphans, budget>>

\* The answer to a status update brings the worker's copy up to date.
StatusDone ==
    /\ pc = "call" /\ call.kind = "status" /\ Accepted(call)
    /\ Apply(call)
    /\ Proceed(Version(h))
    /\ UNCHANGED <<caches, queue, orphans, budget>>

\* Conflict, AlreadyExists, NotFound or an invalid object.
Refused ==
    /\ pc = "call" /\ ~Accepted(call)
    /\ Retry
    /\ UNCHANGED <<server, caches, orphans, budget>>

\* The pods with this release label, in the order the cache lists them: any.
Listed == {p.name : p \in {q \in podCache[Key] : q.release = req}}

\* Mutant: only more pods than in the status are a difference.
ReportIfMore ==
    /\ pc = "report" /\ Len(h.nodes[Key]) >= Cardinality(Listed)
    /\ Proceed(h)
    /\ UNCHANGED <<server, caches, queue, orphans, budget>>

Report ==
    /\ pc = "report" /\ h.nodes[Key] \in SetToSeqs(Listed)
    /\ Proceed(h)
    /\ UNCHANGED <<server, caches, queue, orphans, budget>>

\* Any list but the one in the status is a difference to write, another order
\* of the same pods too.
SendStatus ==
    /\ pc = "report"
    /\ \E list \in SetToSeqs(Listed) \ {h.nodes[Key]} :
        LET nodes == [h.nodes EXCEPT ![Key] = list]
        IN  /\ IF Listed = ToSet(h.nodes[Key]) THEN Spend("reorder") ELSE UNCHANGED budget
            /\ h' = [h EXCEPT !.nodes = nodes]
            /\ Send([kind |-> "status", key |-> Key, rv |-> h.rv, owner |-> Nil,
                     by |-> Origin, val |-> Nil, nodes |-> nodes])

\* Mutant: the failed call is logged and the plan goes on.
AbandonIgnored ==
    /\ pc = "call" /\ Spend("fault")
    /\ orphans' = orphans \cup {call}
    /\ Proceed(h)
    /\ UNCHANGED <<server, caches, queue>>

\* The connection breaks under a call: the worker sees an error and retries,
\* the write may still land.
Abandon ==
    /\ pc = "call" /\ Spend("fault")
    /\ orphans' = orphans \cup {call}
    /\ Retry
    /\ UNCHANGED <<server, caches>>

Working ==
    SkipExisting \/ SendCreate \/ SendUpdate \/ Report \/ SendStatus

Answered == ObjectDone \/ StatusDone \/ Refused

-------------------------------------------------------------------------------
(* Informers: a cache moves to a later state of the server, and the events   *)
(* on the way there become requests.                                         *)

SyncCR(n) ==
    /\ pc # "down" /\ crCache[n].rv # crs[n].rv
    /\ crCache' = [crCache EXCEPT ![n] = crs[n]]
    /\ queue' = queue \cup {n}
    /\ UNCHANGED <<server, apiCache, podCache, worker, orphans, budget>>

\* Mutant: the predicates drop delete events.
SyncOperandUndeleted(k) ==
    /\ pc # "down" /\ apiCache[k].rv # api[k].rv
    /\ apiCache' = [apiCache EXCEPT ![k] = api[k]]
    /\ events' = [events EXCEPT ![k] = {}]
    /\ queue' = queue \cup (IF k \in Watched THEN OwnersOf({api[k]}) ELSE {})
    /\ UNCHANGED <<crs, api, pods, crCache, podCache, worker, orphans, budget>>

\* EnqueueRequestForOwner: the controllers the events name.
SyncOperand(k) ==
    /\ pc # "down" /\ apiCache[k].rv # api[k].rv
    /\ apiCache' = [apiCache EXCEPT ![k] = api[k]]
    /\ events' = [events EXCEPT ![k] = {}]
    /\ queue' = queue \cup
          (IF k \in Watched THEN events[k] \cup OwnersOf({apiCache[k], api[k]}) ELSE {})
    /\ UNCHANGED <<crs, api, pods, crCache, podCache, worker, orphans, budget>>

\* The watch breaks and its events are lost: the informer will list instead, and
\* see nothing of an object that was created and removed in between.
Gap(k) ==
    /\ events[k] # {} /\ Spend("gap")
    /\ events' = [events EXCEPT ![k] = {}]
    /\ UNCHANGED <<crs, api, pods, caches, queue, worker, orphans>>

\* A pod is controlled by a ReplicaSet or StatefulSet: no CR is woken.
SyncPods(k) ==
    /\ pc # "down" /\ podCache[k] # pods[k]
    /\ podCache' = [podCache EXCEPT ![k] = pods[k]]
    /\ UNCHANGED <<server, crCache, apiCache, queue, worker, orphans, budget>>

\* Mutant: the informers never resync.
ResyncNever(n) == FALSE

\* The periodic resync replays an unchanged CR as an update event.
Resync(n) ==
    /\ Resyncs
    /\ pc # "down" /\ crCache[n].live /\ n \notin queue
    /\ queue' = queue \cup {n}
    /\ UNCHANGED <<server, caches, worker, orphans, budget>>

-------------------------------------------------------------------------------
(* Users, the garbage collector, pods *)

CreateCR(n, sp) ==
    /\ ~crs[n].live /\ Spend("create")
    /\ crs' = [crs EXCEPT ![n] =
          [live |-> TRUE, uid |-> @.uid + 1, gen |-> @.gen + 1,
           rv |-> @.rv + 1, spec |-> sp, nodes |-> NoNodes]]
    /\ UNCHANGED <<api, pods, events, caches, queue, worker, orphans>>

EditSpec(n, sp) ==
    /\ crs[n].live /\ crs[n].spec # sp /\ Spend("edit")
    /\ crs' = [crs EXCEPT ![n] =
          [live |-> TRUE, uid |-> @.uid, gen |-> @.gen + 1,
           rv |-> @.rv + 1, spec |-> sp, nodes |-> @.nodes]]
    /\ UNCHANGED <<api, pods, events, caches, queue, worker, orphans>>

DeleteCR(n) ==
    /\ crs[n].live /\ Spend("delete")
    /\ crs' = [crs EXCEPT ![n] =
          [live |-> FALSE, uid |-> @.uid, gen |-> @.gen,
           rv |-> @.rv + 1, spec |-> Nil, nodes |-> NoNodes]]
    /\ UNCHANGED <<api, pods, events, caches, queue, worker, orphans>>

Deleted(k) == Put(k, AbsentObject(api[k].rv + 1))

\* Removals and edits of operands are bounded each on their own, or together.
RemoveOperand(k) ==
    /\ api[k].live /\ (Spend("remove") \/ Spend("tamper"))
    /\ Deleted(k)
    /\ UNCHANGED <<crs, pods, caches, queue, worker, orphans>>

EditOperand(k) ==
    /\ api[k].live /\ (Spend("drift") \/ Spend("tamper"))
    /\ \E v \in Drifts(k, api[k].val) \ {api[k].val} :
          Put(k, Version([api[k] EXCEPT !.val = v]))
    /\ UNCHANGED <<crs, pods, caches, queue, worker, orphans>>

\* The owner is gone, or is a later CR of the same name.
Garbage(k) ==
    /\ api[k].live
    /\ LET owner == crs[api[k].owner.name]
       IN  ~owner.live \/ owner.uid # api[k].owner.uid

\* A worker with a stale CR may create again what was collected, and so on for
\* as long as its cache lags: GCLead bounds how often.
Collect(k) ==
    /\ Garbage(k)
    /\ \/ api[k].rv < GCLead
       \/ pc = "down"
       \/ \A n \in Names : crCache[n].rv = crs[n].rv
    /\ Deleted(k)
    /\ UNCHANGED <<crs, pods, caches, queue, worker, orphans, budget>>

\* A new pod shows in the status of its workload, the end of one does not: the
\* count fell when the pod began to terminate.
PodStart(k, p) ==
    /\ api[k].live /\ p \notin {q.name : q \in pods[k]} /\ Spend("pod")
    /\ pods' = [pods EXCEPT
          ![k] = @ \cup {[name |-> p, release |-> Release(api[k].val)]}]
    /\ Put(k, Version(api[k]))
    /\ UNCHANGED <<crs, caches, queue, worker, orphans>>

PodGone(k) ==
    /\ Spend("pod")
    /\ \E q \in pods[k] : pods' = [pods EXCEPT ![k] = @ \ {q}]
    /\ UNCHANGED <<crs, api, events, caches, queue, worker, orphans>>

-------------------------------------------------------------------------------
(* Writes nobody waits for, crashes and restarts *)

Land(c) ==
    /\ orphans' = orphans \ {c}
    /\ Accepted(c) /\ Apply(c)
    /\ UNCHANGED <<caches, queue, worker, budget>>

Lose(c) ==
    /\ orphans' = orphans \ {c}
    /\ UNCHANGED <<server, caches, queue, worker, budget>>

Crash ==
    /\ pc # "down" /\ Spend("crash")
    /\ orphans' = orphans \cup (IF pc = "call" THEN {call} ELSE {})
    /\ pc' = "down"
    /\ req' = Nil
    /\ step' = 1
    /\ h' = Nil
    /\ call' = Nil
    /\ queue' = {}
    /\ crCache' = [n \in Names |-> AbsentCR]
    /\ apiCache' = [k \in Keys |-> AbsentObject(0)]
    /\ podCache' = [k \in Workloads |-> {}]
    /\ events' = [k \in Keys |-> {}]
    /\ UNCHANGED <<crs, api, pods>>

\* Mutant: what is listed at the start is no event.
RestartUnnoticed ==
    /\ pc = "down"
    /\ pc' = "idle"
    /\ crCache' = crs
    /\ apiCache' = api
    /\ podCache' = pods
    /\ queue' = {}
    /\ UNCHANGED <<server, req, step, h, call, orphans, budget>>

\* The manager fills the caches before it starts the worker; every object
\* listed is a create event.
Restart ==
    /\ pc = "down"
    /\ pc' = "idle"
    /\ crCache' = crs
    /\ apiCache' = api
    /\ podCache' = pods
    /\ queue' = {n \in Names : crs[n].live} \cup OwnersOf({api[k] : k \in Watched})
    /\ UNCHANGED <<server, req, step, h, call, orphans, budget>>

-------------------------------------------------------------------------------

Take(n) == Begin(n) \/ Ignore(n)

Informers ==
    \/ \E n \in Names : SyncCR(n) \/ Resync(n)
    \/ \E k \in Keys : SyncOperand(k) \/ Gap(k)
    \/ \E k \in Workloads : SyncPods(k)

Users ==
    \/ \E n \in Names, sp \in Specs : CreateCR(n, sp) \/ EditSpec(n, sp)
    \/ \E n \in Names : DeleteCR(n)
    \/ \E k \in Keys : RemoveOperand(k) \/ EditOperand(k)

Cluster ==
    \/ \E k \in Keys : Collect(k)
    \/ \E k \in Workloads : PodGone(k) \/ \E p \in Pods : PodStart(k, p)

Network == Abandon \/ \E c \in orphans : Land(c) \/ Lose(c)

Process == Crash \/ Restart

Next ==
    \/ \E n \in Names : Take(n)
    \/ Working
    \/ Answered
    \/ Informers
    \/ Users
    \/ Cluster
    \/ Network
    \/ Process

Spec == Init /\ [][Next]_vars

\* A name in the queue is taken in its turn; the worker, the API server, the
\* informers and the garbage collector each go on while they have something to
\* do; a stopped operator pod is replaced; a write under way ends.
Fairness ==
    /\ \A n \in Names : SF_vars(Take(n)) /\ WF_vars(SyncCR(n)) /\ WF_vars(Resync(n))
    /\ WF_vars(Working) /\ WF_vars(Answered)
    /\ \A k \in Keys : WF_vars(SyncOperand(k)) /\ WF_vars(Collect(k))
    /\ \A k \in Workloads : WF_vars(SyncPods(k))
    /\ WF_vars(\E c \in orphans : Land(c) \/ Lose(c))
    /\ WF_vars(Restart)

FairSpec == Spec /\ Fairness

-------------------------------------------------------------------------------
(* Properties *)

ServerOK ==
    /\ crs \in [Names -> LiveCRs \cup AbsentCRs]
    /\ DOMAIN api = Keys
    /\ \A k \in Keys : api[k] \in LiveObjects(k) \cup AbsentObjects
    /\ pods \in [Workloads -> SUBSET PodRecords]
    /\ events \in [Keys -> SUBSET Names]

CachesOK ==
    /\ crCache \in [Names -> LiveCRs \cup AbsentCRs]
    /\ DOMAIN apiCache = Keys
    /\ \A k \in Keys : apiCache[k] \in LiveObjects(k) \cup AbsentObjects
    /\ podCache \in [Workloads -> SUBSET PodRecords]

WorkerOK ==
    /\ pc \in {"down", "idle", "ensure", "call", "report"}
    /\ step \in Steps
    /\ pc \in {"down", "idle"} => req = Nil /\ h = Nil
    /\ pc \notin {"down", "idle"} => req \in Names /\ h \in LiveCRs
    /\ pc = "call" => IsCall(call)
    /\ pc # "call" => call = Nil
    /\ pc = "report" => Key \in Workloads

TypeOK ==
    /\ ServerOK
    /\ CachesOK
    /\ WorkerOK
    /\ queue \subseteq Names
    /\ \A c \in orphans : IsCall(c)
    /\ budget \in [Disturbances -> Nat]

\* An object is written for step s of a spec only after the objects of every
\* earlier step of that spec have existed: the Deployment never before the
\* ConfigMap it mounts, whatever crashes, retries and late writes lie between.
PlanOrder ==
    \A k \in Keys : api[k].live =>
        \A t \in 1 .. api[k].by.step - 1 : api[Target(t, api[k].by.spec)].rv > 0

\* While an object lives, no write puts the outcome of an older version of a
\* CR over that of a newer one: neither a stale cache nor a late write can.
NoRegress ==
    [][\A k \in Keys :
          (api[k].live /\ api'[k].live /\ api[k].by.name = api'[k].by.name)
             => api[k].by.gen <= api'[k].by.gen]_vars

\* An object never passes from one controlling CR to another while it lives.
OwnerStable ==
    [][\A k \in Keys : (api[k].live /\ api'[k].live)
          => api[k].owner.name = api'[k].owner.name]_vars

\* What a step manages has the content that spec sp of CR n gives it.
Fulfils(v, s, n, sp) ==
    \E r \in Readings : \A f \in Managed(s) : v[f] = Desired(s, n, sp, r)[f]

\* The operand of a step is what this CR asks for: it exists, the CR controls it,
\* and what the step manages has the content its spec gives.
ConvergedAt(n, s) ==
    LET o == api[Target(s, crs[n].spec)]
    IN  /\ o.live
        /\ o.owner = [name |-> n, uid |-> crs[n].uid]
        /\ s \notin CreateOnly => Fulfils(o.val, s, n, crs[n].spec)

Converged(n) == \A s \in Steps : ConvergedAt(n, s)

\* Every event is delivered and every write has ended.
Delivered ==
    /\ pc = "idle" /\ queue = {} /\ orphans = {}
    /\ \A n \in Names : crCache[n].rv = crs[n].rv
    /\ \A k \in Keys : apiCache[k].rv = api[k].rv /\ ~Garbage(k)
    /\ podCache = pods

\* Nothing is forgotten: when no event is left to deliver and the worker has
\* nothing queued, every CR has what it asks for.
NoLostWakeup == Delivered => \A n \in Names : crs[n].live => Converged(n)

\* Once the disturbances end, every CR comes to have what it asks for.
Converges == <>[](\A n \in Names : crs[n].live => Converged(n))

Sole(n) == crs[n].live /\ \A m \in Names \ {n} : ~crs[m].live

\* A CR that is left alone with operands which another CR controlled gets them
\* back, provided informers resync: the deletions of the other's operands wake
\* the other only (memcached.go:137).  Said of behaviours that stay below the
\* bound on contention, where the last update is not one the bound forbids.
SoleConverges ==
    <>[](budget["contend"] > 0 => \A n \in Names : Sole(n) => Converged(n))

\* Once the disturbances end, the worker comes to rest.
Settles == <>[](pc \in {"down", "idle"} /\ queue = {})

\* The status names exactly the pods of the CR's workloads.
StatusCurrent(n) ==
    \A k \in Workloads :
        ToSet(crs[n].nodes[k]) = {q.name : q \in {p \in pods[k] : p.release = n}}

\* Once the disturbances end, every status comes to name its pods, provided
\* informers resync.
StatusSettles == <>[](\A n \in Names : crs[n].live => StatusCurrent(n))

\* The status is written only when the set of pods has changed.
StatusWrittenIfNeeded ==
    [][\A n \in Names, k \in Workloads :
          (crs[n].live /\ crs'[n].live /\ crs'[n].nodes[k] # crs[n].nodes[k])
             => ToSet(crs'[n].nodes[k]) # ToSet(crs[n].nodes[k])]_vars

\* When no event is left to deliver, every status names the pods there are.
StatusFollowsPods == Delivered => \A n \in Names : crs[n].live => StatusCurrent(n)

===============================================================================
