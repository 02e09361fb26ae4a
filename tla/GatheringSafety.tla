---------------------------- MODULE GatheringSafety ----------------------------
(***************************************************************************)
(* The composition leaves the process as OperatorProcess has it, so that   *)
(* what is proved of the process holds of the composition; and why no      *)
(* object changes its controlling CR, and why a MustGatherJob gathers      *)
(* once: for any CRs, specs, disturbances and pods.                        *)
(***************************************************************************)
EXTENDS Gathering, OperatorProcessProofs

\* What the workers, the informers, the users and the cluster do leaves the
\* process alone.
LEMMA OthersKeepProcess ==
    ASSUME Workers \/ Informers \/ Users \/ Cluster
    PROVE  UNCHANGED processVars
<1>1. CASE Workers
  BY <1>1 DEF Workers, Work, Ignore, Skip, Create, updateMustGatherConfigMap, Send,
     Answer, Done, Refused, Abandon, Land, Lose
<1>2. CASE Informers
  BY <1>2 DEF Informers, SyncCR, Sync
<1>3. CASE Users
  BY <1>3 DEF Users, CreateCR, EditCR, DeleteCR, Remove, Script
<1>4. CASE Cluster
  BY <1>4 DEF Cluster, Collect, Gather
<1> QED
  BY <1>1, <1>2, <1>3, <1>4

\* Every step of the process is one of OperatorProcess.
LEMMA ProcessKeepsProcess ==
    ASSUME Process
    PROVE  ProcessNext
  BY DEF Process, Pods, Start, Stop, Rollout, ProcessNext

\* The composition implements the process.
THEOREM ProcessImplemented == Spec => ProcessSpec
<1>1. Init => ProcessInit
  BY DEF Init
<1>2. [Next]_vars => [ProcessNext]_processVars
  BY OthersKeepProcess, ProcessKeepsProcess DEF Next, vars
<1> QED
  BY <1>1, <1>2, PTL DEF Spec, ProcessSpec

\* One set of caches and workers is enough for the composition: never are the
\* controllers of two pods at work.
THEOREM OneOperator == Spec => []OneAtWork
  BY ProcessImplemented, OneProcess, PTL

-------------------------------------------------------------------------------
(* The invariant *)

\* The writes on their way, those nobody waits for included.
InFlight == orphans \cup {calls[k] : k \in {x \in Controllers : ~Idle(x)}}

Typed ==
    /\ DOMAIN crs = CRs /\ DOMAIN objects = Objects
    /\ DOMAIN crCache = CRs /\ DOMAIN cache = Objects /\ DOMAIN calls = Controllers
    /\ gathers \in [CRs -> {0, 1}]
    /\ \A c \in CRs : crs[c].uid \in Nat /\ crCache[c].uid \in Nat
    /\ \A o \in Objects : objects[o].rv \in Nat /\ cache[o].rv \in Nat

\* A cached object has the owner of the stored one, or an older version.
CacheBehind ==
    \A o \in Objects :
        /\ objects[o].rv = 0 => ~objects[o].live /\ objects[o].owner = Nil
        /\ cache[o].rv <= objects[o].rv
        /\ cache[o].rv = objects[o].rv =>
              (cache[o].live <=> objects[o].live) /\ cache[o].owner = objects[o].owner

\* A create is for an object of the CR's own; an update is of a ConfigMap, and if
\* it still can be accepted it leaves the ConfigMap with its owner.
WriteOK(w) ==
    /\ w.cr \in CRs /\ w.owner # Nil
    /\ \/ w.verb = "create" /\ w.owner.cr = w.cr
       \/ /\ w.verb = "update" /\ Kind(w.cr) = "MustGatherConfig"
          /\ w.rv \in Nat /\ w.rv <= objects[Target(w.cr)].rv
          /\ (w.rv = objects[Target(w.cr)].rv /\ objects[Target(w.cr)].owner # Nil) =>
                w.owner.cr = objects[Target(w.cr)].owner.cr

WritesOK == \A w \in InFlight : WriteOK(w)

\* A Job belongs to the CR of its name.
JobsOwned ==
    \A o \in JobObjects : objects[o].live =>
        /\ objects[o].owner # Nil
        /\ objects[o].owner.cr \in CRs /\ Target(objects[o].owner.cr) = o

\* A CR that has gathered has its Job, with its uid, so that nothing but a user
\* takes that away.
GatheredOK ==
    \A c \in CRs : gathers[c] = 1 /\ crs[c].live =>
        /\ Target(c) \in JobObjects
        /\ objects[Target(c)].live /\ objects[Target(c)].done
        /\ objects[Target(c)].owner.cr = c /\ objects[Target(c)].owner.uid = crs[c].uid

Inv == Typed /\ CacheBehind /\ WritesOK /\ JobsOwned /\ GatheredOK

-------------------------------------------------------------------------------
(* What a step can do to an object *)

\* Every CR has a target, which is a Job or not as its kind says.
LEMMA TargetFacts ==
    ASSUME NEW c \in CRs
    PROVE  /\ Target(c) \in Objects
           /\ Kind(c) = "MustGatherConfig" => Target(c) \notin JobObjects
           /\ Kind(c) \in Controllers
<1>1. CASE c \in {"MustGatherConfig"} \X Configs
  BY <1>1 DEF Target, Kind, Name, Objects, ConfigMaps, JobObjects, Controllers
<1>2. CASE c \in {"MustGatherJob"} \X Jobs
  BY <1>2 DEF Target, Kind, Name, Objects, ConfigMaps, JobObjects, Controllers
<1>3. CASE c \in {"MustGatherService"} \X Services
  BY <1>3 DEF Target, Kind, Name, Objects, ConfigMaps, JobObjects, Controllers
<1> QED
  BY <1>1, <1>2, <1>3 DEF CRs

\* A write is served, ...
Served(o) ==
    \E w \in InFlight :
        /\ Accepted(w) /\ Target(w.cr) = o
        /\ objects'[o].live /\ objects'[o].owner = w.owner
        /\ objects'[o].rv = objects[o].rv + 1

\* ... a user writes a ConfigMap, ...
Scripted(o) ==
    /\ o \notin JobObjects
    /\ objects'[o].live /\ objects'[o].owner = objects[o].owner
    /\ objects'[o].rv = objects[o].rv + 1

\* ... an object is deleted by a user or the garbage collector, ...
Vanished(o) ==
    /\ Remove(o) \/ Collect(o)
    /\ objects'[o] = Absent(objects[o].rv + 1)

\* ... or a Job has run.
HasRun(o) ==
    /\ objects[o].live /\ objects'[o].live /\ objects'[o].done
    /\ objects'[o].owner = objects[o].owner /\ objects'[o].rv = objects[o].rv

\* A served write changes its own object, or nothing if it says nothing new.
LEMMA ApplySteps ==
    ASSUME Typed, NEW w \in InFlight, w.cr \in CRs, Accepted(w), Apply(w),
           NEW o \in Objects
    PROVE  objects'[o] = objects[o] \/ Served(o)
<1>1. Target(w.cr) \in Objects
  BY TargetFacts
<1> DEFINE t == Target(w.cr)
           new == [live |-> TRUE, rv |-> objects[t].rv + 1, owner |-> w.owner,
                   val |-> w.val, done |-> FALSE]
<1>2. objects' = [objects EXCEPT ![t] = objects[t]] \/ objects' = [objects EXCEPT ![t] = new]
  BY DEF Apply, Put
<1>3. new.live /\ new.owner = w.owner /\ new.rv = objects[t].rv + 1
  OBVIOUS
<1> HIDE DEF new
<1> QED
  BY <1>1, <1>2, <1>3 DEF Typed, Served

\* Every change of an object is one of the four.
LEMMA ObjectSteps ==
    ASSUME Inv, [Next]_vars, NEW o \in Objects
    PROVE  objects'[o] = objects[o] \/ Served(o) \/ Scripted(o) \/ Vanished(o) \/ HasRun(o)
<1>1. ASSUME NEW k \in Controllers, Done(k)
      PROVE  objects'[o] = objects[o] \/ Served(o)
  <2>1. calls[k] \in InFlight
    BY <1>1 DEF Done, InFlight
  <2> QED
    BY <1>1, <2>1, ApplySteps DEF Done, Inv, WritesOK, WriteOK
<1>2. ASSUME NEW w \in orphans, Land(w)
      PROVE  objects'[o] = objects[o] \/ Served(o)
  <2>1. w \in InFlight
    BY DEF InFlight
  <2> QED
    BY <1>2, <2>1, ApplySteps DEF Land, Inv, WritesOK, WriteOK
<1>3. ASSUME NEW q \in Objects, Script(q)
      PROVE  objects'[o] = objects[o] \/ Scripted(o)
  <2> DEFINE new == [live |-> TRUE, rv |-> objects[q].rv + 1, owner |-> objects[q].owner,
                     val |-> "user's", done |-> FALSE]
  <2>1. new.live /\ new.rv = objects[q].rv + 1 /\ new.owner = objects[q].owner
    OBVIOUS
  <2>2. objects' = [objects EXCEPT ![q] = new] /\ q \in ConfigMaps
    BY <1>3 DEF Script, Put
  <2>3. q \notin JobObjects
    BY <2>2 DEF ConfigMaps, JobObjects
  <2> HIDE DEF new
  <2> QED
    BY <2>1, <2>2, <2>3 DEF Inv, Typed, Scripted
<1>4. ASSUME NEW q \in Objects, Remove(q) \/ Collect(q)
      PROVE  objects'[o] = objects[o] \/ Vanished(o)
  BY <1>4 DEF Remove, Collect, Put, Vanished, Inv, Typed
<1>5. ASSUME NEW q \in JobObjects, Gather(q)
      PROVE  objects'[o] = objects[o] \/ HasRun(o)
  <2> DEFINE new == [live |-> TRUE, rv |-> objects[q].rv, owner |-> objects[q].owner,
                     val |-> objects[q].val, done |-> TRUE]
  <2>1. new.live /\ new.done /\ new.rv = objects[q].rv /\ new.owner = objects[q].owner
    OBVIOUS
  <2>2. objects' = [objects EXCEPT ![q] = new] /\ objects[q].live
    BY <1>5 DEF Gather, Put
  <2> HIDE DEF new
  <2> QED
    BY <2>1, <2>2 DEF Inv, Typed, HasRun
<1>6. ASSUME NEW c \in CRs, Work(c) \/ CreateCR(c) \/ EditCR(c) \/ DeleteCR(c)
      PROVE  objects' = objects
  BY <1>6 DEF Work, Ignore, Skip, Create, updateMustGatherConfigMap, Send, CreateCR,
     EditCR, DeleteCR, server
<1>7. ASSUME NEW k \in Controllers, Refused(k) \/ Abandon(k)
      PROVE  objects' = objects
  BY <1>7 DEF Refused, Abandon, server
<1>8. ASSUME NEW w \in orphans, Lose(w)
      PROVE  objects' = objects
  BY <1>8 DEF Lose, server
<1>9. CASE Informers \/ Process \/ UNCHANGED vars
  BY <1>9 DEF Informers, SyncCR, Sync, Process, Pods, Start, Stop, Rollout, server, vars
<1> QED
  BY <1>1, <1>2, <1>3, <1>4, <1>5, <1>6, <1>7, <1>8, <1>9
     DEF Next, Workers, Answer, Users, Cluster

\* Versions only grow, and with an unchanged version goes an unchanged owner.
LEMMA VersionsGrow ==
    ASSUME Inv, [Next]_vars, NEW o \in Objects
    PROVE  /\ objects[o].rv \in Nat /\ objects'[o].rv \in Nat
           /\ objects[o].rv <= objects'[o].rv
           /\ objects'[o].rv = objects[o].rv =>
                 (objects'[o].live <=> objects[o].live) /\ objects'[o].owner = objects[o].owner
<1>1. objects[o].rv \in Nat
  BY DEF Inv, Typed
<1>2. Vanished(o) => objects'[o].rv = objects[o].rv + 1
  BY DEF Vanished, Absent
<1>3. Served(o) \/ Scripted(o) => objects'[o].rv = objects[o].rv + 1
  BY DEF Served, Scripted
<1>4. HasRun(o) => /\ objects'[o].rv = objects[o].rv
                   /\ objects[o].live /\ objects'[o].live
                   /\ objects'[o].owner = objects[o].owner
  BY DEF HasRun
<1> QED
  BY <1>1, <1>2, <1>3, <1>4, ObjectSteps

\* Caches are filled from the server, or emptied.
LEMMA CacheSteps ==
    ASSUME Inv, [Next]_vars, NEW o \in Objects
    PROVE  \/ cache'[o] = cache[o]
           \/ cache'[o] = objects[o] /\ objects' = objects
           \/ cache'[o] = Absent(0)
<1>1. CASE \E q \in Objects : Sync(q)
  BY <1>1 DEF Sync, server, Inv, Typed
<1>2. CASE \E p \in Replicas : Start(p) \/ Stop(p)
  BY <1>2 DEF Start, Stop, server, caches, NoObjects
<1>3. CASE Workers
  BY <1>3 DEF Workers, Work, Ignore, Skip, Create, updateMustGatherConfigMap, Send,
     Answer, Done, Refused, Abandon, Land, Lose, caches
<1>4. CASE Users \/ Cluster \/ UNCHANGED vars
  BY <1>4 DEF Users, CreateCR, EditCR, DeleteCR, Remove, Script, Cluster, Collect,
     Gather, caches, vars
<1>5. CASE Pods \/ (\E p \in Replicas : Rollout(p)) \/ \E c \in CRs : SyncCR(c)
  BY <1>5 DEF Pods, Rollout, SyncCR, caches
<1> QED
  BY <1>1, <1>2, <1>3, <1>4, <1>5 DEF Next, Informers, Process

\* A step changes the incarnation of a CR only by creating it.
LEMMA CRSteps ==
    ASSUME Inv, [Next]_vars, NEW c \in CRs
    PROVE  /\ crs'[c].uid \in Nat
           /\ \/ crs'[c].live => crs[c].live /\ crs'[c].uid = crs[c].uid
              \/ gathers'[c] = 0
<1>1. crs[c].uid \in Nat /\ DOMAIN crs = CRs /\ gathers \in [CRs -> {0, 1}]
  BY DEF Inv, Typed
<1>2. ASSUME NEW d \in CRs, CreateCR(d)
      PROVE  /\ crs'[c].uid \in Nat
             /\ crs'[c] = crs[c] \/ gathers'[c] = 0
  BY <1>1, <1>2 DEF CreateCR
<1>3. ASSUME NEW d \in CRs, EditCR(d)
      PROVE  crs'[c].uid = crs[c].uid /\ (crs'[c].live => crs[c].live)
  BY <1>1, <1>3 DEF EditCR
<1>4. ASSUME NEW d \in CRs, DeleteCR(d)
      PROVE  crs'[c].uid = crs[c].uid /\ (crs'[c].live => crs[c].live)
  BY <1>1, <1>4 DEF DeleteCR
<1>5. CASE Workers \/ Informers \/ Process \/ Cluster \/ UNCHANGED vars
           \/ \E o \in Objects : Remove(o) \/ Script(o)
  BY <1>1, <1>5 DEF Workers, Work, Ignore, Skip, Create, updateMustGatherConfigMap, Send,
     Answer, Done, Refused, Abandon, Land, Lose, Informers, SyncCR, Sync, Process, Pods,
     Start, Stop, Rollout, Cluster, Collect, Gather, Remove, Script, server, vars
<1> QED
  BY <1>1, <1>2, <1>3, <1>4, <1>5 DEF Next, Users

\* Writes on their way come from the workers.
LEMMA WriteSteps ==
    ASSUME Inv, [Next]_vars, NEW w \in InFlight'
    PROVE  \/ w \in InFlight
           \/ \E c \in CRs : /\ Create(c) \/ updateMustGatherConfigMap(c)
                            /\ w = calls'[Kind(c)] /\ Kind(c) \in Controllers
<1>1. ASSUME NEW c \in CRs, Create(c) \/ updateMustGatherConfigMap(c)
      PROVE  w \in InFlight \/ w = calls'[Kind(c)]
  BY <1>1 DEF Create, updateMustGatherConfigMap, Send, InFlight, Idle, Inv, Typed
<1>2. ASSUME NEW c \in CRs, Ignore(c) \/ Skip(c)
      PROVE  w \in InFlight
  BY <1>2 DEF Ignore, Skip, InFlight, Idle
<1>3. ASSUME NEW k \in Controllers, Answer(k) \/ Abandon(k)
      PROVE  w \in InFlight
  BY <1>3 DEF Answer, Done, Refused, Abandon, Return, InFlight, Idle, Inv, Typed
<1>4. ASSUME NEW v \in orphans, Land(v) \/ Lose(v)
      PROVE  w \in InFlight
  BY <1>4 DEF Land, Lose, InFlight, Idle
<1>5. ASSUME NEW p \in Replicas, Stop(p)
      PROVE  w \in InFlight
  BY <1>5 DEF Stop, NoCalls, InFlight, Idle
<1>6. CASE Informers \/ Users \/ Cluster \/ UNCHANGED vars
  BY <1>6 DEF Informers, SyncCR, Sync, Users, CreateCR, EditCR, DeleteCR, Remove,
     Script, Cluster, Collect, Gather, vars, InFlight, Idle
<1>7. CASE Pods \/ \E p \in Replicas : Start(p) \/ Rollout(p)
  BY <1>7 DEF Pods, Start, Rollout, InFlight, Idle
<1> QED
  BY <1>1, <1>2, <1>3, <1>4, <1>5, <1>6, <1>7, TargetFacts DEF Next, Workers, Work, Process

-------------------------------------------------------------------------------
(* The invariant *)

\* A Job runs for a CR that has not gathered.
LEMMA FirstGather ==
    ASSUME Inv, NEW o \in JobObjects, Gather(o), NEW c \in CRs, gathers'[c] # gathers[c]
    PROVE  /\ gathers[c] = 0 /\ gathers'[c] = 1
           /\ crs[c].live /\ Target(c) = o
           /\ objects[o].owner.cr = c /\ objects[o].owner.uid = crs[c].uid
<1> DEFINE ref == objects[o].owner
<1>1. objects[o].live /\ ~objects[o].done
  BY DEF Gather
<1>2. Target(ref.cr) = o
  BY <1>1 DEF Inv, JobsOwned
<1>3. gathers \in [CRs -> {0, 1}]
  BY DEF Inv, Typed
<1>4. crs[ref.cr].live /\ crs[ref.cr].uid = ref.uid /\ gathers' = [gathers EXCEPT ![ref.cr] = @ + 1]
  BY DEF Gather
<1>5. c = ref.cr
  BY <1>3, <1>4
<1>6. gathers[c] = 0
  BY <1>1, <1>2, <1>3, <1>4, <1>5 DEF Inv, GatheredOK
<1> QED
  BY <1>2, <1>3, <1>4, <1>5, <1>6

\* Types.
LEMMA DomainsStep ==
    ASSUME Inv, [Next]_vars
    PROVE  /\ DOMAIN crs' = CRs /\ DOMAIN objects' = Objects
           /\ DOMAIN crCache' = CRs /\ DOMAIN cache' = Objects
           /\ DOMAIN calls' = Controllers
<1>1. CASE Workers
  BY <1>1 DEF Inv, Typed, Workers, Work, Ignore, Skip, Create, updateMustGatherConfigMap,
     Send, Answer, Done, Refused, Abandon, Land, Lose, Return, Apply, Put, caches, server
<1>2. CASE Informers
  BY <1>2 DEF Inv, Typed, Informers, SyncCR, Sync, server
<1>3. CASE Users
  BY <1>3 DEF Inv, Typed, Users, CreateCR, EditCR, DeleteCR, Remove, Script, Put, caches
<1>4. CASE Cluster \/ UNCHANGED vars
  BY <1>4 DEF Inv, Typed, Cluster, Collect, Gather, Put, caches, server, vars
<1>5. CASE Process
  BY <1>5 DEF Inv, Typed, Process, Pods, Start, Stop, Rollout, NoCRs, NoObjects, NoCalls,
     caches, server
<1> QED
  BY <1>1, <1>2, <1>3, <1>4, <1>5 DEF Next

\* A Job that gathers has not gathered for this CR before.
LEMMA GathersStep ==
    ASSUME Inv, [Next]_vars
    PROVE  gathers' \in [CRs -> {0, 1}]
<1>1. gathers \in [CRs -> {0, 1}]
  BY DEF Inv, Typed
<1>2. ASSUME NEW o \in JobObjects, Gather(o)
      PROVE  gathers' \in [CRs -> {0, 1}]
  <2>1. gathers' = gathers \/ \E c : gathers' = [gathers EXCEPT ![c] = @ + 1]
    BY <1>2 DEF Gather
  <2>2. \A c \in CRs : gathers'[c] \in {0, 1}
    BY <1>1, <1>2, FirstGather
  <2> QED
    BY <1>1, <2>1, <2>2
<1>3. ASSUME NEW c \in CRs, CreateCR(c) \/ EditCR(c) \/ DeleteCR(c)
      PROVE  gathers' \in [CRs -> {0, 1}]
  BY <1>1, <1>3 DEF CreateCR, EditCR, DeleteCR
<1>4. ASSUME NEW o \in Objects, Remove(o) \/ Script(o) \/ Collect(o)
      PROVE  gathers' \in [CRs -> {0, 1}]
  BY <1>1, <1>4 DEF Remove, Script, Collect
<1>5. CASE Workers \/ Informers \/ Process \/ UNCHANGED vars
  BY <1>1, <1>5 DEF Workers, Work, Ignore, Skip, Create, updateMustGatherConfigMap, Send,
     Answer, Done, Refused, Abandon, Land, Lose, Informers, SyncCR, Sync, Process, Pods,
     Start, Stop, Rollout, server, vars
<1> QED
  BY <1>2, <1>3, <1>4, <1>5 DEF Next, Users, Cluster

\* Every step keeps counting incarnations and versions, and gatherings to one.
LEMMA TypedStep ==
    ASSUME Inv, [Next]_vars
    PROVE  Typed'
<1>1. ASSUME NEW c \in CRs
      PROVE  crs'[c].uid \in Nat /\ crCache'[c].uid \in Nat
  <2>1. crCache'[c] = crCache[c] \/ crCache'[c] = crs[c] \/ crCache'[c] = AbsentCR
    <3>1. CASE \E d \in CRs : SyncCR(d)
      BY <3>1 DEF SyncCR, Inv, Typed
    <3>2. CASE \E p \in Replicas : Start(p) \/ Stop(p)
      BY <3>2 DEF Start, Stop, caches, NoCRs
    <3>3. CASE Workers \/ Users \/ Cluster \/ UNCHANGED vars \/ (\E o \in Objects : Sync(o))
               \/ Pods \/ \E p \in Replicas : Rollout(p)
      BY <3>3 DEF Workers, Work, Ignore, Skip, Create, updateMustGatherConfigMap, Send,
         Answer, Done, Refused, Abandon, Land, Lose, Users, CreateCR, EditCR, DeleteCR,
         Remove, Script, Cluster, Collect, Gather, Sync, Pods, Rollout, caches, vars
    <3> QED
      BY <3>1, <3>2, <3>3 DEF Next, Informers, Process
  <2>2. AbsentCR.uid \in Nat
    BY DEF AbsentCR
  <2> QED
    BY <2>1, <2>2, CRSteps DEF Inv, Typed
<1>2. ASSUME NEW o \in Objects
      PROVE  objects'[o].rv \in Nat /\ cache'[o].rv \in Nat
  <2>1. Absent(0).rv \in Nat
    BY DEF Absent
  <2> QED
    BY <2>1, VersionsGrow, CacheSteps DEF Inv, Typed
<1> QED
  BY <1>1, <1>2, DomainsStep, GathersStep DEF Typed

\* Every cache stays behind.
LEMMA CacheBehindStep ==
    ASSUME Inv, [Next]_vars
    PROVE  CacheBehind'
<1> SUFFICES ASSUME NEW o \in Objects
             PROVE  /\ objects'[o].rv = 0 => ~objects'[o].live /\ objects'[o].owner = Nil
                    /\ cache'[o].rv <= objects'[o].rv
                    /\ cache'[o].rv = objects'[o].rv =>
                          /\ cache'[o].live <=> objects'[o].live
                          /\ cache'[o].owner = objects'[o].owner
  BY DEF CacheBehind
<1>1. Absent(0).rv = 0 /\ ~Absent(0).live /\ Absent(0).owner = Nil
  BY DEF Absent
<1>2. cache[o].rv \in Nat
  BY DEF Inv, Typed
<1>3. /\ objects[o].rv = 0 => ~objects[o].live /\ objects[o].owner = Nil
      /\ cache[o].rv <= objects[o].rv
      /\ cache[o].rv = objects[o].rv =>
            (cache[o].live <=> objects[o].live) /\ cache[o].owner = objects[o].owner
  BY DEF Inv, CacheBehind
<1>4. objects'[o].rv = 0 => ~objects'[o].live /\ objects'[o].owner = Nil
  BY <1>3, VersionsGrow
<1>5. CASE cache'[o] = cache[o]
  BY <1>2, <1>3, <1>4, <1>5, VersionsGrow
<1>6. CASE cache'[o] = objects[o] /\ objects' = objects
  BY <1>4, <1>6, VersionsGrow
<1>7. CASE cache'[o] = Absent(0)
  BY <1>1, <1>4, <1>7, VersionsGrow
<1> QED
  BY <1>5, <1>6, <1>7, CacheSteps

\* A write on its way stays right: a later version of its object disarms it.
LEMMA WritesOKStep ==
    ASSUME Inv, [Next]_vars
    PROVE  WritesOK'
<1>1. ASSUME NEW w, WriteOK(w)
      PROVE  WriteOK(w)'
  <2>1. Target(w.cr) \in Objects
    BY <1>1, TargetFacts DEF WriteOK
  <2> QED
    BY <1>1, <2>1, VersionsGrow DEF WriteOK
<1>2. ASSUME NEW c \in CRs, Create(c) \/ updateMustGatherConfigMap(c),
             NEW w, w = calls'[Kind(c)]
      PROVE  WriteOK(w)'
  <2>1. Self(c) \in Refs /\ Self(c) # Nil /\ Self(c).cr = c
    BY RefsAssumption DEF Self, Refs, Inv, Typed
  <2>2. Target(c) \in Objects /\ Kind(c) \in Controllers /\ objects' = objects
    BY <1>2, TargetFacts DEF Create, updateMustGatherConfigMap, Send, server
  <2>3. CASE Create(c)
    <3>1. w = [verb |-> "create", cr |-> c, rv |-> 0, owner |-> Self(c),
               val |-> Desired(c, crCache[c].spec)]
      BY <1>2, <2>2, <2>3 DEF Create, Send, Inv, Typed
    <3> QED
      BY <2>1, <3>1 DEF WriteOK
  <2>4. CASE updateMustGatherConfigMap(c)
    <3> DEFINE ref == Found(c).owner
    <3>1. w = [verb |-> "update", cr |-> c, rv |-> Found(c).rv,
               owner |-> OwnerAfter(c, ref), val |-> Desired(c, crCache[c].spec)]
      BY <1>2, <2>2, <2>4 DEF updateMustGatherConfigMap, Send, Inv, Typed
    <3>2. Kind(c) = "MustGatherConfig"
      BY <2>4 DEF updateMustGatherConfigMap, CreateOnly
    <3>3. OwnerAfter(c, ref) # Nil /\ (ref # Nil => OwnerAfter(c, ref).cr = ref.cr)
      BY <2>1 DEF OwnerAfter
    <3>4. /\ Found(c).rv \in Nat /\ Found(c).rv <= objects[Target(c)].rv
          /\ Found(c).rv = objects[Target(c)].rv => ref = objects[Target(c)].owner
      BY <2>2 DEF Found, Inv, Typed, CacheBehind
    <3> HIDE DEF ref
    <3> QED
      BY <2>2, <3>1, <3>2, <3>3, <3>4 DEF WriteOK
  <2> QED
    BY <1>2, <2>3, <2>4
<1>3. ASSUME NEW w \in InFlight'
      PROVE  WriteOK(w)'
  BY <1>1, <1>2, WriteSteps DEF Inv, WritesOK
<1> QED
  BY <1>3 DEF WritesOK

\* A Job is created for the CR of its name, and never updated.
LEMMA JobsOwnedStep ==
    ASSUME Inv, [Next]_vars
    PROVE  JobsOwned'
<1> SUFFICES ASSUME NEW o \in JobObjects, objects'[o].live
             PROVE  /\ objects'[o].owner # Nil
                    /\ objects'[o].owner.cr \in CRs /\ Target(objects'[o].owner.cr) = o
  BY DEF JobsOwned
<1>1. o \in Objects
  BY DEF Objects
<1>2. CASE Served(o)
  <2>1. PICK w \in InFlight : Target(w.cr) = o /\ objects'[o].owner = w.owner
    BY <1>2 DEF Served
  <2>2. WriteOK(w)
    BY DEF Inv, WritesOK
  <2> QED
    BY <2>1, <2>2, TargetFacts DEF WriteOK
<1>3. ~Vanished(o)
  BY DEF Vanished, Absent
<1> QED
  BY <1>1, <1>2, <1>3, ObjectSteps DEF Inv, JobsOwned, Scripted, HasRun

\* Nothing but a user takes a Job away from a CR that has gathered.
LEMMA GatheredOKStep ==
    ASSUME Inv, [Next]_vars
    PROVE  GatheredOK'
<1> SUFFICES ASSUME NEW c \in CRs, gathers'[c] = 1, crs'[c].live
             PROVE  /\ Target(c) \in JobObjects
                    /\ objects'[Target(c)].live /\ objects'[Target(c)].done
                    /\ objects'[Target(c)].owner.cr = c
                    /\ objects'[Target(c)].owner.uid = crs'[c].uid
  BY DEF GatheredOK
<1> DEFINE o == Target(c)
<1>1. crs[c].live /\ crs'[c].uid = crs[c].uid
  BY CRSteps
<1>2. CASE gathers'[c] # gathers[c]
  <2>1. PICK q \in JobObjects : Gather(q)
    <3>1. \A d \in CRs : ~CreateCR(d) /\ ~EditCR(d) /\ ~DeleteCR(d)
      BY <1>1, <1>2 DEF CreateCR, EditCR, DeleteCR, Inv, Typed
    <3>2. \A q \in Objects : ~Remove(q) /\ ~Script(q) /\ ~Collect(q)
      BY <1>2 DEF Remove, Script, Collect
    <3>3. ~Workers /\ ~Informers /\ ~Process /\ ~UNCHANGED vars
      BY <1>2 DEF Workers, Work, Ignore, Skip, Create, updateMustGatherConfigMap, Send,
         Answer, Done, Refused, Abandon, Land, Lose, Informers, SyncCR, Sync, Process,
         Pods, Start, Stop, Rollout, server, vars
    <3> QED
      BY <3>1, <3>2, <3>3 DEF Next, Users, Cluster
  <2>2. o = q /\ objects[o].owner.cr = c /\ objects[o].owner.uid = crs[c].uid
    BY <1>2, <2>1, FirstGather
  <2>3. q \in Objects
    BY DEF Objects
  <2> DEFINE new == [live |-> TRUE, rv |-> objects[q].rv, owner |-> objects[q].owner,
                     val |-> objects[q].val, done |-> TRUE]
  <2>4. objects' = [objects EXCEPT ![q] = new]
    BY <2>1 DEF Gather, Put
  <2>5. new.live /\ new.done /\ new.owner = objects[q].owner
    OBVIOUS
  <2> HIDE DEF new
  <2> QED
    BY <1>1, <2>2, <2>3, <2>4, <2>5 DEF Inv, Typed
<1>3. CASE gathers[c] = 1
  <2>1. /\ o \in JobObjects /\ objects[o].live /\ objects[o].done
        /\ objects[o].owner.cr = c /\ objects[o].owner.uid = crs[c].uid
    BY <1>1, <1>3 DEF Inv, GatheredOK
  <2>2. o \in Objects
    BY TargetFacts
  <2>3. ~Served(o)
    <3>1. ASSUME NEW w \in InFlight, Accepted(w), Target(w.cr) = o
          PROVE  FALSE
      <4>1. WriteOK(w)
        BY DEF Inv, WritesOK
      <4> QED
        BY <2>1, <3>1, <4>1, TargetFacts DEF WriteOK, Accepted
    <3> QED
      BY <3>1 DEF Served
  <2>4. ~Remove(o)
    BY DEF Remove
  <2>5. ~Collect(o)
    BY <1>1, <2>1 DEF Collect, Garbage
  <2> QED
    BY <1>1, <2>1, <2>2, <2>3, <2>4, <2>5, ObjectSteps DEF Scripted, Vanished, HasRun
<1> QED
  BY <1>2, <1>3

\* Init establishes the invariant, every step keeps it.
THEOREM Invariance == Spec => []Inv
<1>1. Init => Inv
  <2> SUFFICES ASSUME Init
               PROVE  Inv
    OBVIOUS
  <2>1. \A o \in Objects : objects[o] = Absent(0) /\ cache[o] = Absent(0)
    BY DEF Init, NoObjects
  <2>2. Absent(0).rv = 0 /\ ~Absent(0).live /\ Absent(0).owner = Nil
    BY DEF Absent
  <2>3. \A c \in CRs : crs[c].uid \in Nat /\ crCache[c].uid \in Nat
    BY DEF Init, NoCRs, AbsentCR
  <2>4. InFlight = {}
    BY DEF Init, NoCalls, InFlight, Idle
  <2>5. JobObjects \subseteq Objects
    BY DEF Objects
  <2>6. Typed
    BY <2>1, <2>2, <2>3 DEF Init, Typed, NoObjects, NoCRs, NoCalls
  <2> QED
    BY <2>1, <2>2, <2>4, <2>5, <2>6
       DEF Init, Inv, CacheBehind, WritesOK, JobsOwned, GatheredOK
<1>2. Inv /\ [Next]_vars => Inv'
  BY TypedStep, CacheBehindStep, WritesOKStep, JobsOwnedStep, GatheredOKStep DEF Inv
<1> QED
  BY <1>1, <1>2, PTL DEF Spec

\* No MustGatherJob gathers twice, whatever is retried, lands late or is sent
\* again by a restarted operator.
THEOREM GatheredOnce == Spec => []GathersOnce
<1>1. Inv => GathersOnce
  BY DEF Inv, Typed, GathersOnce
<1> QED
  BY <1>1, Invariance, PTL

\* No ConfigMap or Job passes to another CR while it lives, though two kinds of
\* CR write the same ConfigMap.
THEOREM ControllersStay == Spec => ControllerStable
<1>1. ASSUME Inv, [Next]_vars, NEW o \in Objects, objects[o].live, objects'[o].live,
             objects[o].owner # Nil
      PROVE  objects'[o].owner # Nil /\ objects'[o].owner.cr = objects[o].owner.cr
  <2>1. CASE Served(o)
    <3>1. PICK w \in InFlight : /\ Accepted(w) /\ Target(w.cr) = o
                               /\ objects'[o].owner = w.owner
      BY <2>1 DEF Served
    <3>2. WriteOK(w)
      BY <1>1 DEF Inv, WritesOK
    <3> QED
      BY <1>1, <3>1, <3>2 DEF WriteOK, Accepted
  <2>2. ~Vanished(o)
    BY <1>1 DEF Vanished, Absent
  <2> QED
    BY <1>1, <2>1, <2>2, ObjectSteps DEF Scripted, HasRun
<1>2. Inv /\ [Next]_vars =>
         [\A o \in Objects :
            (objects[o].live /\ objects'[o].live /\ objects[o].owner # Nil)
               => objects'[o].owner # Nil /\ objects'[o].owner.cr = objects[o].owner.cr]_vars
  BY <1>1
<1> QED
  BY <1>2, Invariance, PTL DEF Spec, ControllerStable

===============================================================================
