--------------------------- MODULE ReconcilerSafety ---------------------------
(***************************************************************************)
(* The safety of Reconciler, for every plan, every set of CRs, specs and   *)
(* pods, and every bound: type correctness, then the inductive invariant   *)
(* behind PlanOrder, NoRegress and OwnerStable and the proofs of the three. *)
(***************************************************************************)
EXTENDS Reconciler, FiniteSetTheorems, TLAPS

-------------------------------------------------------------------------------
(* Lemmas about the operators *)

\* A list of a finite set of pods is a sequence of pods.
LEMMA ListsArePodSequences ==
    ASSUME NEW S \in SUBSET Pods, NEW list \in SetToSeqs(S)
    PROVE  list \in Seq(Pods)
<1>1. IsFiniteSet(S)
  BY FS_Subset, SizesAssumption
<1>2. Cardinality(S) \in Nat
  BY <1>1, FS_CardinalityType
<1>3. list \in [1 .. Cardinality(S) -> S]
  BY DEF SetToSeqs
<1>4. list \in [1 .. Cardinality(S) -> Pods]
  BY <1>3
<1> QED
  BY <1>2, <1>4

\* The next version of a live CR is a live CR, ...
LEMMA CRVersion ==
    ASSUME NEW cr \in LiveCRs
    PROVE  Version(cr) \in LiveCRs
<1>1. cr.rv + 1 \in Nat
  BY DEF LiveCRs
<1>2. [cr EXCEPT !.rv = cr.rv + 1] \in LiveCRs
  BY <1>1 DEF LiveCRs
<1> QED
  BY <1>2 DEF Version

\* ... and that of a live object a live object.
LEMMA ObjectVersion ==
    ASSUME NEW k \in Keys, NEW o \in LiveObjects(k)
    PROVE  Version(o) \in LiveObjects(k)
<1>1. o.rv + 1 \in Nat
  BY DEF LiveObjects
<1>2. [o EXCEPT !.rv = o.rv + 1] \in LiveObjects(k)
  BY <1>1 DEF LiveObjects
<1> QED
  BY <1>2 DEF Version

\* The owners of well-typed objects are CR names.
LEMMA OwnersAreNames ==
    ASSUME NEW objects,
           \A o \in objects : o.live => o.owner \in Refs
    PROVE  OwnersOf(objects) \subseteq Names
  BY DEF OwnersOf, Refs

\* Storing a well-typed object keeps the server well typed.
LEMMA PutType ==
    ASSUME TypeOK, NEW k \in Keys, NEW o \in LiveObjects(k) \cup AbsentObjects,
           Put(k, o)
    PROVE  /\ DOMAIN api' = Keys
           /\ \A j \in Keys : api'[j] \in LiveObjects(j) \cup AbsentObjects
           /\ events' \in [Keys -> SUBSET Names]
<1>1. DOMAIN api' = Keys /\ \A j \in Keys : api'[j] = IF j = k THEN o ELSE api[j]
  BY DEF TypeOK, ServerOK, Put
<1>2. OwnersOf({api[k], o}) \subseteq Names
  <2>1. \A x \in {api[k], o} : x.live => x.owner \in Refs
    BY DEF TypeOK, ServerOK, LiveObjects, AbsentObjects
  <2> QED
    BY <2>1, OwnersAreNames
<1>3. events' \in [Keys -> SUBSET Names]
  BY <1>2 DEF TypeOK, ServerOK, Put
<1> QED
  BY <1>1, <1>3 DEF TypeOK, ServerOK

\* So does deleting one.
LEMMA DeletedType ==
    ASSUME TypeOK, NEW k \in Keys, Deleted(k)
    PROVE  /\ DOMAIN api' = Keys
           /\ \A j \in Keys : api'[j] \in LiveObjects(j) \cup AbsentObjects
           /\ events' \in [Keys -> SUBSET Names]
<1>1. api[k] \in LiveObjects(k) \cup AbsentObjects
  BY DEF TypeOK, ServerOK
<1>. api[k].rv \in Nat
  BY <1>1 DEF LiveObjects, AbsentObjects
<1>2. AbsentObject(api[k].rv + 1) \in AbsentObjects
  BY <1>1 DEF AbsentObject, AbsentObjects
<1> QED
  BY <1>2, PutType DEF Deleted

\* The initial contents of server and caches are well typed.
LEMMA AbsentType ==
    /\ AbsentCR \in AbsentCRs
    /\ AbsentObject(0) \in AbsentObjects
  BY DEF AbsentCR, AbsentCRs, AbsentObject, AbsentObjects

\* What an accepted write stores is a live object.
LEMMA StoredType ==
    ASSUME TypeOK, NEW c, IsCall(c), c.kind # "status", Accepted(c)
    PROVE  c.key \in Keys /\ Stored(c) \in LiveObjects(c.key)
<1>1. PICK k \in Keys : c \in Calls(k)
  BY DEF IsCall, StatusCalls
<1>2. c.key = k /\ c.kind \in {"create", "update"}
  BY <1>1 DEF Calls
<1>3. api[k] \in LiveObjects(k) \cup AbsentObjects /\ api[k].rv \in Nat
  BY DEF TypeOK, ServerOK, LiveObjects, AbsentObjects
<1>4. c.kind = "update" => api[k] \in LiveObjects(k)
  BY <1>2, <1>3 DEF Accepted, AbsentObjects
<1>5. [live |-> TRUE, rv |-> api[k].rv + 1,
       owner |-> c.owner, by |-> c.by, val |-> c.val] \in LiveObjects(k)
  BY <1>1, <1>3 DEF Calls, LiveObjects
<1> QED
  BY <1>2, <1>4, <1>5 DEF Stored

\* A served write keeps the server well typed.
LEMMA ApplyType ==
    ASSUME TypeOK, NEW c, IsCall(c), Accepted(c), Apply(c)
    PROVE  /\ crs' \in [Names -> LiveCRs \cup AbsentCRs]
           /\ DOMAIN api' = Keys
           /\ \A j \in Keys : api'[j] \in LiveObjects(j) \cup AbsentObjects
           /\ events' \in [Keys -> SUBSET Names]
           /\ pods' = pods
<1>1. CASE c.kind # "status"
  <2>1. Put(c.key, Stored(c)) /\ crs' = crs /\ pods' = pods
    BY <1>1 DEF Apply
  <2> QED
    BY <1>1, <2>1, StoredType, PutType DEF TypeOK, ServerOK
<1>2. CASE c.kind = "status"
  <2>1. c \in StatusCalls
    BY <1>2 DEF IsCall, Calls
  <2>2. PICK n \in Names : n = c.by.name
    BY <2>1 DEF StatusCalls, Origins
  <2>3. crs[n] \in LiveCRs /\ c.nodes \in NodeLists
    BY <1>2, <2>1, <2>2 DEF TypeOK, ServerOK, Accepted, AbsentCRs, StatusCalls
  <2>4. crs' = [crs EXCEPT ![n] = Version([crs[n] EXCEPT !.nodes = c.nodes])]
    BY <1>2, <2>2 DEF Apply
  <2>5. Version([crs[n] EXCEPT !.nodes = c.nodes]) \in LiveCRs
    <3>1. [crs[n] EXCEPT !.nodes = c.nodes] \in LiveCRs
      BY <2>3 DEF LiveCRs
    <3> QED
      BY <3>1, CRVersion
  <2>6. api' = api /\ events' = events /\ pods' = pods
    BY <1>2 DEF Apply
  <2> QED
    BY <2>2, <2>4, <2>5, <2>6 DEF TypeOK, ServerOK
<1> QED
  BY <1>1, <1>2

-------------------------------------------------------------------------------
(* Type correctness *)

\* What the worker needs to know of the operand it is at.
LEMMA ActiveType ==
    ASSUME TypeOK, pc \notin {"down", "idle"}
    PROVE  /\ req \in Names /\ h \in LiveCRs /\ h.spec \in Specs
           /\ Key \in Keys
           /\ Current \in LiveObjects(Key) \cup AbsentObjects
           /\ Origin \in Origins /\ Self \in Refs
           /\ \A r \in Readings : Desired(step, req, h.spec, r) \in Contents(Key)
<1>1. req \in Names /\ h \in LiveCRs /\ step \in Steps
  BY DEF TypeOK, WorkerOK
<1>2. h.spec \in Specs /\ h.gen \in Nat /\ h.uid \in Nat
  BY <1>1 DEF LiveCRs
<1>3. Key \in Keys /\ \A r \in Readings : Desired(step, req, h.spec, r) \in Contents(Key)
  BY <1>1, <1>2, PlanAssumption DEF Key
<1>4. Current \in LiveObjects(Key) \cup AbsentObjects
  BY <1>3 DEF TypeOK, CachesOK, Current
<1>5. Origin \in Origins /\ Self \in Refs
  BY <1>1, <1>2 DEF Origin, Origins, Self, Refs
<1> QED
  BY <1>1, <1>2, <1>3, <1>4, <1>5

\* The worker finishes, or moves to the next step, in a well-typed state.
LEMMA FinishType ==
    ASSUME Finish
    PROVE  WorkerOK'
  BY SizesAssumption DEF Finish, WorkerOK, Steps

\* Leaving a step leaves the worker well typed.
LEMMA ProceedType ==
    ASSUME TypeOK, pc \notin {"down", "idle"}, NEW cr \in LiveCRs, Proceed(cr)
    PROVE  WorkerOK'
<1>1. CASE step = NSteps /\ Finish
  BY <1>1, FinishType
<1>2. CASE step < NSteps /\ pc' = "ensure" /\ step' = step + 1 /\ h' = cr
           /\ call' = Nil /\ req' = req
  <2>1. step' \in Steps
    BY <1>2, SizesAssumption DEF TypeOK, WorkerOK, Steps
  <2>2. req' \in Names
    BY <1>2 DEF TypeOK, WorkerOK
  <2> QED
    BY <1>2, <2>1, <2>2 DEF WorkerOK
<1> QED
  BY <1>1, <1>2 DEF Proceed

\* What an action leaves alone stays well typed: the server ...
LEMMA SameServer ==
    ASSUME TypeOK, UNCHANGED server
    PROVE  ServerOK'
  BY DEF TypeOK, ServerOK, server

\* ... the caches ...
LEMMA SameCaches ==
    ASSUME TypeOK, UNCHANGED caches
    PROVE  CachesOK'
  BY DEF TypeOK, CachesOK, caches

\* ... and the worker well typed.
LEMMA SameWorker ==
    ASSUME TypeOK, UNCHANGED worker
    PROVE  WorkerOK'
  BY DEF TypeOK, WorkerOK, worker, Key

\* A spent budget is a budget.
LEMMA SpendType ==
    ASSUME TypeOK, NEW d \in Disturbances, Spend(d)
    PROVE  budget' \in [Disturbances -> Nat]
  BY DEF TypeOK, Spend

\* Error returns put a CR name back into the queue.
LEMMA RetryType ==
    ASSUME TypeOK, pc = "call", Retry
    PROVE  WorkerOK' /\ queue' \subseteq Names
  BY FinishType, ActiveType DEF Retry, TypeOK

\* Each action of the worker keeps the state well typed.
LEMMA TakeType ==
    ASSUME TypeOK, NEW n \in Names, Take(n)
    PROVE  TypeOK'
<1>1. CASE Begin(n)
  <2>1. crCache[n] \in LiveCRs
    BY <1>1 DEF Begin, TypeOK, CachesOK, AbsentCRs
  <2>2. WorkerOK'
    BY <1>1, <2>1, SizesAssumption DEF Begin, TypeOK, WorkerOK, Steps
  <2> QED
    BY <1>1, <2>2, SameServer, SameCaches DEF Begin, TypeOK
<1>2. CASE Ignore(n)
  BY <1>2, SameServer, SameCaches, SameWorker DEF Ignore, TypeOK
<1> QED
  BY <1>1, <1>2 DEF Take

\* The worker's own steps, one by one.
LEMMA SkipExistingType ==
    ASSUME TypeOK, SkipExisting
    PROVE  TypeOK'
<1>1. WorkerOK'
  BY ActiveType, ProceedType DEF SkipExisting
<1> QED
  BY <1>1, SameServer, SameCaches DEF SkipExisting, TypeOK

\* Sending a well-typed write leaves the state well typed.
LEMMA SendType ==
    ASSUME TypeOK, NEW c, IsCall(c), Send(c),
           pc \notin {"down", "idle"}, h' \in LiveCRs,
           budget' \in [Disturbances -> Nat]
    PROVE  TypeOK'
<1>1. WorkerOK'
  BY DEF Send, TypeOK, WorkerOK
<1> QED
  BY <1>1, SameServer, SameCaches DEF Send, TypeOK

\* The object a create carries has the content its step gives it.
LEMMA SendCreateType ==
    ASSUME TypeOK, SendCreate
    PROVE  TypeOK'
<1> DEFINE create(r) == [kind |-> "create", key |-> Key, rv |-> 0, owner |-> Self,
                         by |-> Origin, val |-> Desired(step, req, h.spec, r),
                         nodes |-> NoNodes]
<1> PICK r \in Readings : Send(create(r))
  BY DEF SendCreate
<1> DEFINE c == create(r)
<1>1. pc \notin {"down", "idle"} /\ Send(c) /\ h' = h /\ budget' = budget
  BY DEF SendCreate
<1>2. c \in Calls(Key) /\ Key \in Keys /\ h \in LiveCRs
  BY <1>1, ActiveType DEF Calls
<1>3. IsCall(c)
  BY <1>2 DEF IsCall
<1> HIDE DEF c
<1> QED
  BY <1>1, <1>2, <1>3, SendType DEF TypeOK

\* An update merges two contents of the operand.
LEMMA SendUpdateType ==
    ASSUME TypeOK, SendUpdate
    PROVE  TypeOK'
<1> DEFINE update(r) ==
             [kind |-> "update", key |-> Key, rv |-> Current.rv,
              owner |-> OwnerAfter(Current.owner), by |-> Origin,
              val |-> Merge(step, Current.val, Desired(step, req, h.spec, r)),
              nodes |-> NoNodes]
<1> PICK r \in Readings : Send(update(r))
  BY DEF SendUpdate
<1> DEFINE c == update(r)
<1>1. pc \notin {"down", "idle"} /\ Send(c) /\ h' = h
  BY DEF SendUpdate
<1>2. budget' \in [Disturbances -> Nat]
  BY SpendType DEF SendUpdate, Disturbances, TypeOK
<1>3. Current \in LiveObjects(Key)
  BY <1>1, ActiveType DEF SendUpdate, AbsentObjects
<1>4. Current.rv \in Nat /\ Current.owner \in Refs /\ Current.val \in Contents(Key)
  BY <1>3 DEF LiveObjects
<1>5. OwnerAfter(Current.owner) \in Refs
  BY <1>1, <1>4, ActiveType DEF OwnerAfter
<1>6. Merge(step, Current.val, Desired(step, req, h.spec, r)) \in Contents(Key)
  <2>1. step \in Steps \ CreateOnly
    BY DEF SendUpdate, TypeOK, WorkerOK
  <2> QED
    BY <1>1, <1>4, <2>1, ActiveType, ContentsAssumption DEF Key
<1>7. c \in Calls(Key) /\ Key \in Keys /\ h \in LiveCRs
  BY <1>1, <1>4, <1>5, <1>6, ActiveType DEF Calls
<1>8. IsCall(c)
  BY <1>7 DEF IsCall
<1> HIDE DEF c
<1> QED
  BY <1>1, <1>2, <1>7, <1>8, SendType

\* A report that finds nothing to write only leaves its step.
LEMMA ReportType ==
    ASSUME TypeOK, Report
    PROVE  TypeOK'
<1>1. WorkerOK'
  BY ActiveType, ProceedType DEF Report
<1> QED
  BY <1>1, SameServer, SameCaches DEF Report, TypeOK

\* A status carries a list of pods.
LEMMA SendStatusType ==
    ASSUME TypeOK, SendStatus
    PROVE  TypeOK'
<1>1. pc \notin {"down", "idle"} /\ Key \in Workloads /\ h \in LiveCRs /\ Origin \in Origins
  BY ActiveType DEF SendStatus, TypeOK, WorkerOK
<1>2. Listed \in SUBSET Pods
  <2>1. podCache[Key] \subseteq PodRecords
    BY <1>1 DEF TypeOK, CachesOK
  <2> QED
    BY <2>1 DEF Listed, PodRecords
<1>3. PICK list \in SetToSeqs(Listed) :
        LET nodes == [h.nodes EXCEPT ![Key] = list]
        IN  /\ IF Listed = ToSet(h.nodes[Key]) THEN Spend("reorder") ELSE UNCHANGED budget
            /\ h' = [h EXCEPT !.nodes = nodes]
            /\ Send([kind |-> "status", key |-> Key, rv |-> h.rv, owner |-> Nil,
                     by |-> Origin, val |-> Nil, nodes |-> nodes])
  BY DEF SendStatus
<1> DEFINE nodes == [h.nodes EXCEPT ![Key] = list]
           c == [kind |-> "status", key |-> Key, rv |-> h.rv, owner |-> Nil,
                 by |-> Origin, val |-> Nil, nodes |-> nodes]
<1>4. Send(c) /\ h' = [h EXCEPT !.nodes = nodes]
  BY <1>3
<1>5. budget' \in [Disturbances -> Nat]
  BY <1>3, SpendType DEF Disturbances, TypeOK
<1>6. nodes \in NodeLists
  <2>1. list \in Seq(Pods)
    BY <1>2, ListsArePodSequences
  <2>2. h.nodes \in NodeLists
    BY <1>1 DEF LiveCRs
  <2> QED
    BY <1>1, <2>1, <2>2 DEF NodeLists
<1>7. h' \in LiveCRs /\ h.rv \in Nat
  BY <1>1, <1>4, <1>6 DEF LiveCRs
<1>8. IsCall(c)
  BY <1>1, <1>6, <1>7 DEF IsCall, StatusCalls
<1> HIDE DEF c
<1> QED
  BY <1>1, <1>4, <1>5, <1>7, <1>8, SendType

\* The answers to the worker's writes.
LEMMA AnsweredType ==
    ASSUME TypeOK, Answered
    PROVE  TypeOK'
<1>1. CASE ObjectDone
  <2>1. pc = "call" /\ IsCall(call) /\ Accepted(call) /\ Apply(call)
    BY <1>1 DEF ObjectDone, TypeOK, WorkerOK
  <2>2. ServerOK'
    BY <2>1, ApplyType DEF TypeOK, ServerOK
  <2>3. WorkerOK'
    <3>1. CASE Key \notin Workloads /\ Proceed(h)
      BY <2>1, <3>1, ActiveType, ProceedType
    <3>2. CASE Key \in Workloads /\ pc' = "report" /\ call' = Nil /\ UNCHANGED <<req, step, h>>
      BY <2>1, <3>2, ActiveType DEF TypeOK, WorkerOK, Key
    <3> QED
      BY <1>1, <3>1, <3>2 DEF ObjectDone
  <2> QED
    BY <1>1, <2>2, <2>3, SameCaches DEF ObjectDone, TypeOK
<1>2. CASE StatusDone
  <2>1. pc = "call" /\ IsCall(call) /\ Accepted(call) /\ Apply(call)
    BY <1>2 DEF StatusDone, TypeOK, WorkerOK
  <2>2. ServerOK'
    BY <2>1, ApplyType DEF TypeOK, ServerOK
  <2>3. WorkerOK'
    <3>1. Version(h) \in LiveCRs
      BY <2>1, ActiveType, CRVersion
    <3> QED
      BY <1>2, <2>1, <3>1, ProceedType DEF StatusDone
  <2> QED
    BY <1>2, <2>2, <2>3, SameCaches DEF StatusDone, TypeOK
<1>3. CASE Refused
  BY <1>3, RetryType, SameServer, SameCaches DEF Refused, TypeOK
<1> QED
  BY <1>1, <1>2, <1>3 DEF Answered

\* Informers.
LEMMA InformersType ==
    ASSUME TypeOK, Informers
    PROVE  TypeOK'
<1>1. ASSUME NEW n \in Names, SyncCR(n)
      PROVE  TypeOK'
  <2>1. CachesOK'
    BY <1>1 DEF SyncCR, TypeOK, ServerOK, CachesOK
  <2> QED
    BY <1>1, <2>1, SameServer, SameWorker DEF SyncCR, TypeOK
<1>2. ASSUME NEW n \in Names, Resync(n)
      PROVE  TypeOK'
  BY <1>2, SameServer, SameCaches, SameWorker DEF Resync, TypeOK
<1>3. ASSUME NEW k \in Keys, SyncOperand(k)
      PROVE  TypeOK'
  <2>1. CachesOK'
    BY <1>3 DEF SyncOperand, TypeOK, ServerOK, CachesOK
  <2>2. ServerOK'
    BY <1>3 DEF SyncOperand, TypeOK, ServerOK
  <2>3. events[k] \subseteq Names
    BY DEF TypeOK, ServerOK
  <2>4. OwnersOf({apiCache[k], api[k]}) \subseteq Names
    <3>1. \A x \in {apiCache[k], api[k]} : x.live => x.owner \in Refs
      BY DEF TypeOK, ServerOK, CachesOK, LiveObjects, AbsentObjects
    <3> QED
      BY <3>1, OwnersAreNames
  <2>5. queue' \subseteq Names
    BY <1>3, <2>3, <2>4 DEF SyncOperand, TypeOK
  <2> QED
    BY <1>3, <2>1, <2>2, <2>5, SameWorker DEF SyncOperand, TypeOK
<1>4. ASSUME NEW k \in Keys, Gap(k)
      PROVE  TypeOK'
  <2>1. ServerOK'
    BY <1>4 DEF Gap, TypeOK, ServerOK
  <2>2. budget' \in [Disturbances -> Nat]
    BY <1>4, SpendType DEF Gap, Disturbances
  <2> QED
    BY <1>4, <2>1, <2>2, SameCaches, SameWorker DEF Gap, TypeOK
<1>5. ASSUME NEW k \in Workloads, SyncPods(k)
      PROVE  TypeOK'
  <2>1. CachesOK'
    BY <1>5 DEF SyncPods, TypeOK, ServerOK, CachesOK
  <2> QED
    BY <1>5, <2>1, SameServer, SameWorker DEF SyncPods, TypeOK
<1> QED
  BY <1>1, <1>2, <1>3, <1>4, <1>5 DEF Informers

\* Users.
LEMMA UsersType ==
    ASSUME TypeOK, Users
    PROVE  TypeOK'
<1>1. ASSUME NEW n \in Names, NEW cr \in LiveCRs \cup AbsentCRs, NEW d \in Disturbances,
             crs' = [crs EXCEPT ![n] = cr], Spend(d),
             UNCHANGED <<api, pods, events, caches, queue, worker, orphans>>
      PROVE  TypeOK'
  <2>1. ServerOK'
    BY <1>1 DEF TypeOK, ServerOK
  <2> QED
    BY <1>1, <2>1, SpendType, SameCaches, SameWorker DEF TypeOK
<1>2. ASSUME NEW n \in Names
      PROVE  crs[n].uid \in Nat /\ crs[n].gen \in Nat /\ crs[n].rv \in Nat
  BY DEF TypeOK, ServerOK, LiveCRs, AbsentCRs
<1>3. NoNodes \in NodeLists
  BY DEF NoNodes, NodeLists
<1>4. ASSUME NEW n \in Names, NEW sp \in Specs, CreateCR(n, sp)
      PROVE  TypeOK'
  <2>1. [live |-> TRUE, uid |-> crs[n].uid + 1, gen |-> crs[n].gen + 1,
         rv |-> crs[n].rv + 1, spec |-> sp, nodes |-> NoNodes] \in LiveCRs
    BY <1>2, <1>3 DEF LiveCRs
  <2> QED
    BY <1>1, <1>4, <2>1 DEF CreateCR, Disturbances
<1>5. ASSUME NEW n \in Names, NEW sp \in Specs, EditSpec(n, sp)
      PROVE  TypeOK'
  <2>1. crs[n] \in LiveCRs
    BY <1>5 DEF EditSpec, TypeOK, ServerOK, AbsentCRs
  <2>2. crs[n].nodes \in NodeLists
    BY <2>1 DEF LiveCRs
  <2>3. [live |-> TRUE, uid |-> crs[n].uid, gen |-> crs[n].gen + 1,
         rv |-> crs[n].rv + 1, spec |-> sp, nodes |-> crs[n].nodes] \in LiveCRs
    BY <1>2, <2>2 DEF LiveCRs
  <2> QED
    BY <1>1, <1>5, <2>3 DEF EditSpec, Disturbances
<1>6. ASSUME NEW n \in Names, DeleteCR(n)
      PROVE  TypeOK'
  <2>1. [live |-> FALSE, uid |-> crs[n].uid, gen |-> crs[n].gen,
         rv |-> crs[n].rv + 1, spec |-> Nil, nodes |-> NoNodes] \in AbsentCRs
    BY <1>2 DEF AbsentCRs
  <2> QED
    BY <1>1, <1>6, <2>1 DEF DeleteCR, Disturbances
<1>7. ASSUME NEW k \in Keys, RemoveOperand(k)
      PROVE  TypeOK'
  <2>1. ServerOK'
    BY <1>7, DeletedType DEF RemoveOperand, TypeOK, ServerOK
  <2> QED
    BY <1>7, <2>1, SpendType, SameCaches, SameWorker DEF RemoveOperand, TypeOK, Disturbances
<1>8. ASSUME NEW k \in Keys, EditOperand(k)
      PROVE  TypeOK'
  <2>1. api[k] \in LiveObjects(k)
    BY <1>8 DEF EditOperand, TypeOK, ServerOK, AbsentObjects
  <2>2. PICK v \in Drifts(k, api[k].val) : Put(k, Version([api[k] EXCEPT !.val = v]))
    BY <1>8 DEF EditOperand
  <2>3. v \in Contents(k)
    BY <2>1, <2>2, ContentsAssumption DEF LiveObjects
  <2>4. [api[k] EXCEPT !.val = v] \in LiveObjects(k)
    BY <2>1, <2>3 DEF LiveObjects
  <2>5. ServerOK'
    BY <1>8, <2>2, <2>4, ObjectVersion, PutType DEF EditOperand, TypeOK, ServerOK
  <2> QED
    BY <1>8, <2>5, SpendType, SameCaches, SameWorker DEF EditOperand, TypeOK, Disturbances
<1> QED
  BY <1>4, <1>5, <1>6, <1>7, <1>8 DEF Users

\* The garbage collector and the pods.
LEMMA ClusterType ==
    ASSUME TypeOK, Cluster
    PROVE  TypeOK'
<1>1. ASSUME NEW k \in Keys, Collect(k)
      PROVE  TypeOK'
  <2>1. ServerOK'
    BY <1>1, DeletedType DEF Collect, TypeOK, ServerOK
  <2> QED
    BY <1>1, <2>1, SameCaches, SameWorker DEF Collect, TypeOK
<1>2. ASSUME NEW k \in Workloads, PodGone(k)
      PROVE  TypeOK'
  <2>1. ServerOK'
    BY <1>2 DEF PodGone, TypeOK, ServerOK
  <2> QED
    BY <1>2, <2>1, SpendType, SameCaches, SameWorker DEF PodGone, TypeOK, Disturbances
<1>3. ASSUME NEW k \in Workloads, NEW p \in Pods, PodStart(k, p)
      PROVE  TypeOK'
  <2>1. k \in Keys
    BY SizesAssumption
  <2>2. api[k] \in LiveObjects(k)
    BY <1>3, <2>1 DEF PodStart, TypeOK, ServerOK, AbsentObjects
  <2>3. Release(api[k].val) \in Names
    BY <2>2, ContentsAssumption DEF LiveObjects
  <2>4. pods' \in [Workloads -> SUBSET PodRecords]
    <3>1. [name |-> p, release |-> Release(api[k].val)] \in PodRecords
      BY <2>3 DEF PodRecords
    <3> QED
      BY <1>3, <3>1 DEF PodStart, TypeOK, ServerOK
  <2>5. ServerOK'
    BY <1>3, <2>1, <2>2, <2>4, ObjectVersion, PutType DEF PodStart, TypeOK, ServerOK
  <2> QED
    BY <1>3, <2>5, SpendType, SameCaches, SameWorker DEF PodStart, TypeOK, Disturbances
<1> QED
  BY <1>1, <1>2, <1>3 DEF Cluster

\* Broken connections.
LEMMA NetworkType ==
    ASSUME TypeOK, Network
    PROVE  TypeOK'
<1>1. CASE Abandon
  <2>1. \A c \in orphans' : IsCall(c)
    BY <1>1 DEF Abandon, TypeOK, WorkerOK
  <2> QED
    BY <1>1, <2>1, RetryType, SpendType, SameServer, SameCaches DEF Abandon, TypeOK, Disturbances
<1>2. ASSUME NEW c \in orphans, Land(c)
      PROVE  TypeOK'
  <2>1. ServerOK'
    BY <1>2, ApplyType DEF Land, TypeOK, ServerOK
  <2> QED
    BY <1>2, <2>1, SameCaches, SameWorker DEF Land, TypeOK
<1>3. ASSUME NEW c \in orphans, Lose(c)
      PROVE  TypeOK'
  BY <1>3, SameServer, SameCaches, SameWorker DEF Lose, TypeOK
<1> QED
  BY <1>1, <1>2, <1>3 DEF Network

\* Crashes and restarts.
LEMMA ProcessType ==
    ASSUME TypeOK, Process
    PROVE  TypeOK'
<1>1. CASE Crash
  <2>1. ServerOK'
    BY <1>1 DEF Crash, TypeOK, ServerOK
  <2>2. CachesOK'
    BY <1>1, AbsentType DEF Crash, CachesOK
  <2>3. WorkerOK'
    BY <1>1, SizesAssumption DEF Crash, WorkerOK, Steps
  <2>4. \A c \in orphans' : IsCall(c)
    BY <1>1 DEF Crash, TypeOK, WorkerOK
  <2>5. budget' \in [Disturbances -> Nat]
    BY <1>1, SpendType DEF Crash, Disturbances
  <2>6. queue' \subseteq Names
    BY <1>1 DEF Crash
  <2> QED
    BY <2>1, <2>2, <2>3, <2>4, <2>5, <2>6 DEF TypeOK
<1>2. CASE Restart
  <2>1. CachesOK'
    BY <1>2 DEF Restart, TypeOK, ServerOK, CachesOK
  <2>2. WorkerOK'
    BY <1>2 DEF Restart, TypeOK, WorkerOK
  <2>3. queue' \subseteq Names
    <3>1. \A x \in {api[k] : k \in Watched} : x.live => x.owner \in Refs
      BY SizesAssumption DEF TypeOK, ServerOK, LiveObjects, AbsentObjects
    <3>2. OwnersOf({api[k] : k \in Watched}) \subseteq Names
      BY <3>1, OwnersAreNames
    <3> QED
      BY <1>2, <3>2 DEF Restart
  <2> QED
    BY <1>2, <2>1, <2>2, <2>3, SameServer DEF Restart, TypeOK
<1> QED
  BY <1>1, <1>2 DEF Process

\* The operator is down, the server empty.
LEMMA TypeInitially ==
    ASSUME Init
    PROVE  TypeOK
<1>1. ServerOK
  BY AbsentType DEF Init, ServerOK
<1>2. CachesOK
  BY AbsentType DEF Init, CachesOK
<1>3. WorkerOK
  BY SizesAssumption DEF Init, WorkerOK, Steps
<1> QED
  BY <1>1, <1>2, <1>3, SizesAssumption DEF Init, TypeOK

\* Every reachable state is well typed: no handler, informer or disturbance
\* leaves the worker, a cache or the server in a state the code cannot be in.
THEOREM TypeCorrect == Spec => []TypeOK
<1>1. Init => TypeOK
  BY TypeInitially
<1>2. TypeOK /\ [Next]_vars => TypeOK'
  <2> SUFFICES ASSUME TypeOK, [Next]_vars
               PROVE  TypeOK'
    OBVIOUS
  <2>1. CASE \E n \in Names : Take(n)
    BY <2>1, TakeType
  <2>2. CASE Working
    BY <2>2, SkipExistingType, SendCreateType, SendUpdateType, ReportType,
       SendStatusType DEF Working
  <2>3. CASE UNCHANGED vars
    BY <2>3, SameServer, SameCaches, SameWorker DEF vars, TypeOK
  <2> QED
    BY <2>1, <2>2, <2>3, AnsweredType, InformersType, UsersType, ClusterType,
       NetworkType, ProcessType DEF Next
<1> QED
  BY <1>1, <1>2, PTL DEF Spec

-------------------------------------------------------------------------------
(* The invariant *)

Active == pc \notin {"down", "idle"}

\* The writes on their way, those nobody waits for included.
InFlight == orphans \cup (IF pc = "call" THEN {call} ELSE {})

\* A cache is behind the server or equal to it, never ahead or beside it.
CachesBehind ==
    /\ \A k \in Keys : /\ apiCache[k].rv <= api[k].rv
                       /\ api[k].live => api[k].rv > 0
                       /\ apiCache[k].live => apiCache[k].rv > 0
    /\ pc # "down" => \A k \in Keys : apiCache[k].rv = api[k].rv => apiCache[k] = api[k]
    /\ \A n \in Names : crCache[n].gen <= crs[n].gen

\* The write the worker waits for is that of its current step.
CallOfStep ==
    pc = "call" => call.key = Key /\ call.by = Origin

\* The operands of the steps before s have all existed.
Earlier(objects, s, sp) == \A t \in 1 .. s - 1 : objects[Target(t, sp)].rv > 0

PlanInv ==
    /\ PlanOrder
    /\ \A c \in InFlight : Earlier(api, c.by.step, c.by.spec)
    /\ Active => Earlier(api, step, h.spec)
    /\ pc = "report" \/ (pc = "call" /\ call.kind = "status") => api[Key].rv > 0

\* The newest version of a CR that any of its writes can carry.
Latest ==
    [n \in Names |-> IF Active /\ n = req THEN h.gen
                     ELSE IF pc = "down" THEN crs[n].gen
                     ELSE crCache[n].gen]

GenInv ==
    /\ Active => h.gen <= crCache[req].gen
    /\ \A k \in Keys : api[k].live => api[k].by.gen <= Latest[api[k].by.name]
    /\ \A c \in InFlight : c.by.gen <= Latest[c.by.name]

\* An update that still can be accepted carries no older a version of its CR
\* than the object does, and leaves it with its owner.
UpdateInv ==
    \A c \in InFlight : c.kind = "update" =>
        /\ c.rv <= api[c.key].rv
        /\ (api[c.key].live /\ c.rv = api[c.key].rv) =>
              /\ c.owner.name = api[c.key].owner.name
              /\ c.by.name = api[c.key].by.name => api[c.key].by.gen <= c.by.gen

Inv ==
    /\ TypeOK
    /\ CachesBehind
    /\ CallOfStep
    /\ PlanInv
    /\ GenInv
    /\ UpdateInv

-------------------------------------------------------------------------------
(* What a step can do to the server, and what to the writes on their way *)

\* The outcomes of a step for an operand: a write on its way is served, ...
Written(k) ==
    \E c \in InFlight :
        /\ c.kind # "status" /\ c.key = k /\ Accepted(c)
        /\ api'[k] = [live |-> TRUE, rv |-> api[k].rv + 1,
                      owner |-> c.owner, by |-> c.by, val |-> c.val]

\* ... a user or a pod makes it a new version, or it is deleted.
Touched(k) ==
    /\ api[k].live /\ api'[k].live
    /\ api'[k].rv = api[k].rv + 1
    /\ api'[k].by = api[k].by /\ api'[k].owner = api[k].owner
    /\ api'[k].val \in {api[k].val} \cup Drifts(k, api[k].val)

Gone(k) == api'[k] = AbsentObject(api[k].rv + 1)

\* A served write changes its own operand, and only as Written says.
LEMMA ApplySteps ==
    ASSUME TypeOK, NEW c \in InFlight, IsCall(c), Accepted(c), Apply(c), NEW k \in Keys
    PROVE  api'[k] = api[k] \/ Written(k)
<1>1. CASE c.kind = "status"
  BY <1>1 DEF Apply
<1>2. CASE c.kind # "status"
  <2>1. api' = [api EXCEPT ![c.key] = Stored(c)] /\ c.key \in Keys
    BY <1>2, StoredType DEF Apply, Put
  <2>2. CASE c.key = k
    BY <1>2, <2>1, <2>2 DEF TypeOK, ServerOK, Stored, Written
  <2>3. CASE c.key # k
    BY <2>1, <2>3
  <2> QED
    BY <2>2, <2>3
<1> QED
  BY <1>1, <1>2

\* Every change of an operand is one of the three.
LEMMA ServerSteps ==
    ASSUME TypeOK, [Next]_vars, NEW k \in Keys
    PROVE  api'[k] = api[k] \/ Written(k) \/ Touched(k) \/ Gone(k)
<1>1. CASE Answered
  <2>1. CASE Refused
    BY <2>1 DEF Refused, server
  <2>2. CASE ObjectDone \/ StatusDone
    <3>1. pc = "call" /\ IsCall(call) /\ Accepted(call) /\ Apply(call)
      BY <2>2 DEF ObjectDone, StatusDone, TypeOK, WorkerOK
    <3>2. call \in InFlight
      BY <3>1 DEF InFlight
    <3> QED
      BY <3>1, <3>2, ApplySteps
  <2> QED
    BY <1>1, <2>1, <2>2 DEF Answered
<1>2. CASE Network
  <2>1. ASSUME NEW c \in orphans, Land(c)
        PROVE  api'[k] = api[k] \/ Written(k)
    BY <2>1, ApplySteps DEF Land, InFlight, TypeOK
  <2> QED
    BY <1>2, <2>1 DEF Network, Abandon, Lose, server
<1>3. CASE Users
  <2>1. ASSUME NEW j \in Keys, RemoveOperand(j)
        PROVE  api'[k] = api[k] \/ Gone(k)
    BY <2>1 DEF RemoveOperand, Deleted, Put, Gone, TypeOK, ServerOK
  <2>2. ASSUME NEW j \in Keys, EditOperand(j)
        PROVE  api'[k] = api[k] \/ Touched(k)
    <3>1. PICK v \in Drifts(j, api[j].val) : Put(j, Version([api[j] EXCEPT !.val = v]))
      BY <2>2 DEF EditOperand
    <3>2. api[j] \in LiveObjects(j)
      BY <2>2 DEF EditOperand, TypeOK, ServerOK, AbsentObjects
    <3> DEFINE o == Version([api[j] EXCEPT !.val = v])
    <3>3. /\ o.live /\ o.rv = api[j].rv + 1
          /\ o.by = api[j].by /\ o.owner = api[j].owner /\ o.val = v
      BY <3>2 DEF LiveObjects, Version
    <3> HIDE DEF o
    <3> QED
      BY <2>2, <3>1, <3>3 DEF EditOperand, Put, Touched, TypeOK, ServerOK, o
  <2> QED
    BY <1>3, <2>1, <2>2 DEF Users, CreateCR, EditSpec, DeleteCR
<1>4. CASE Cluster
  <2>1. ASSUME NEW j \in Keys, Collect(j)
        PROVE  api'[k] = api[k] \/ Gone(k)
    BY <2>1 DEF Collect, Deleted, Put, Gone, TypeOK, ServerOK
  <2>2. ASSUME NEW j \in Workloads, NEW p \in Pods, PodStart(j, p)
        PROVE  api'[k] = api[k] \/ Touched(k)
    <3>1. j \in Keys
      BY SizesAssumption
    <3>2. api[j] \in LiveObjects(j)
      BY <2>2, <3>1 DEF PodStart, TypeOK, ServerOK, AbsentObjects
    <3> DEFINE o == Version(api[j])
    <3>3. /\ o.live /\ o.rv = api[j].rv + 1
          /\ o.by = api[j].by /\ o.owner = api[j].owner /\ o.val = api[j].val
      BY <3>2 DEF LiveObjects, Version
    <3>4. Put(j, o)
      BY <2>2 DEF PodStart
    <3> HIDE DEF o
    <3> QED
      BY <2>2, <3>1, <3>3, <3>4 DEF PodStart, Put, Touched, TypeOK, ServerOK
  <2> QED
    BY <1>4, <2>1, <2>2 DEF Cluster, PodGone
<1>5. CASE (\E n \in Names : Take(n)) \/ Working \/ Informers \/ Process \/ UNCHANGED vars
  BY <1>5 DEF Take, Begin, Ignore, Working, SkipExisting, SendCreate, SendUpdate,
     Report, SendStatus, Send, Informers, SyncCR, Resync, SyncOperand, Gap,
     SyncPods, Process, Crash, Restart, server, vars
<1> QED
  BY <1>1, <1>2, <1>3, <1>4, <1>5 DEF Next


\* Versions of an object only grow, and a changed object has a new one.
LEMMA VersionsGrow ==
    ASSUME TypeOK, [Next]_vars, NEW k \in Keys
    PROVE  /\ api[k].rv \in Nat /\ api'[k].rv \in Nat
           /\ api[k].rv <= api'[k].rv
           /\ api'[k] # api[k] => api[k].rv < api'[k].rv
<1>1. api[k].rv \in Nat
  BY DEF TypeOK, ServerOK, LiveObjects, AbsentObjects
<1>2. api'[k] = api[k] \/ Written(k) \/ Touched(k) \/ Gone(k)
  BY ServerSteps
<1>3. Written(k) => api'[k].rv = api[k].rv + 1
  BY DEF Written
<1>4. Gone(k) => api'[k].rv = api[k].rv + 1
  BY DEF Gone, AbsentObject
<1>5. api'[k] = api[k] \/ api'[k].rv = api[k].rv + 1
  BY <1>2, <1>3, <1>4 DEF Touched
<1> QED
  BY <1>1, <1>5

\* Whatever is live has a positive version.
LEMMA LiveVersions ==
    ASSUME TypeOK, [Next]_vars, NEW k \in Keys, api[k].live => api[k].rv > 0
    PROVE  api'[k].live => api'[k].rv > 0
<1>1. api[k].rv \in Nat
  BY DEF TypeOK, ServerOK, LiveObjects, AbsentObjects
<1>2. api'[k] = api[k] \/ api[k].rv < api'[k].rv
  BY VersionsGrow
<1>3. api'[k].rv \in Nat
  BY VersionsGrow
<1> QED
  BY <1>1, <1>2, <1>3

\* A served write, a status report included, leaves the version of the spec alone.
LEMMA ApplyKeepsGenerations ==
    ASSUME TypeOK, NEW n \in Names, NEW c, IsCall(c), Accepted(c), Apply(c)
    PROVE  crs'[n].gen = crs[n].gen
<1>1. CASE c.kind # "status"
  BY <1>1 DEF Apply
<1>2. CASE c.kind = "status"
  <2>1. crs \in [Names -> LiveCRs \cup AbsentCRs]
    BY DEF TypeOK, ServerOK
  <2>2. crs[c.by.name] \in LiveCRs
    <3>1. c.by.name \in Names
      BY <1>2 DEF IsCall, StatusCalls, Calls, Origins
    <3> QED
      BY <1>2, <2>1, <3>1 DEF Accepted, AbsentCRs
  <2> DEFINE with == [crs[c.by.name] EXCEPT !.nodes = c.nodes]
  <2>3. with.gen = crs[c.by.name].gen
    BY <2>2 DEF LiveCRs
  <2>4. Version(with).gen = with.gen
    BY <2>2 DEF LiveCRs, Version
  <2>5. crs' = [crs EXCEPT ![c.by.name] = Version(with)]
    BY <1>2 DEF Apply
  <2> HIDE DEF with
  <2> QED
    BY <2>1, <2>3, <2>4, <2>5
<1> QED
  BY <1>1, <1>2

\* Versions of the spec of a CR only grow.
LEMMA GenerationsGrow ==
    ASSUME TypeOK, [Next]_vars, NEW n \in Names
    PROVE  crs[n].gen \in Nat /\ crs'[n].gen \in Nat /\ crs[n].gen <= crs'[n].gen
<1>1. \A m \in Names : crs[m].gen \in Nat
  BY DEF TypeOK, ServerOK, LiveCRs, AbsentCRs
<1>2. crs \in [Names -> LiveCRs \cup AbsentCRs]
  BY DEF TypeOK, ServerOK
<1>3. ASSUME NEW c, IsCall(c), Accepted(c), Apply(c)
      PROVE  crs'[n].gen = crs[n].gen
  BY <1>3, ApplyKeepsGenerations
<1>4. CASE Answered
  <2>1. crs' = crs \/ (IsCall(call) /\ Accepted(call) /\ Apply(call))
    BY <1>4 DEF Answered, ObjectDone, StatusDone, Refused, server, TypeOK, WorkerOK
  <2> QED
    BY <1>1, <1>3, <2>1
<1>5. CASE Network
  <2>1. crs' = crs \/ \E c : IsCall(c) /\ Accepted(c) /\ Apply(c)
    BY <1>5 DEF Network, Abandon, Land, Lose, server, TypeOK
  <2> QED
    BY <1>1, <1>3, <2>1
<1>6. CASE Users
  <2>1. ASSUME NEW m \in Names, NEW new, crs' = [crs EXCEPT ![m] = new],
               new.gen = crs[m].gen \/ new.gen = crs[m].gen + 1
        PROVE  crs'[n].gen = crs[n].gen \/ crs'[n].gen = crs[n].gen + 1
    BY <1>2, <2>1
  <2>2. ASSUME NEW m \in Names, NEW sp \in Specs, CreateCR(m, sp)
        PROVE  crs'[n].gen = crs[n].gen \/ crs'[n].gen = crs[n].gen + 1
    BY <2>1, <2>2 DEF CreateCR
  <2>3. ASSUME NEW m \in Names, NEW sp \in Specs, EditSpec(m, sp)
        PROVE  crs'[n].gen = crs[n].gen \/ crs'[n].gen = crs[n].gen + 1
    BY <2>1, <2>3 DEF EditSpec
  <2>4. ASSUME NEW m \in Names, DeleteCR(m)
        PROVE  crs'[n].gen = crs[n].gen \/ crs'[n].gen = crs[n].gen + 1
    BY <2>1, <2>4 DEF DeleteCR
  <2> QED
    BY <1>1, <1>6, <2>2, <2>3, <2>4 DEF Users, RemoveOperand, EditOperand
<1>7. CASE (\E m \in Names : Take(m)) \/ Working \/ Informers \/ Cluster \/ Process
           \/ UNCHANGED vars
  <2>1. crs' = crs
    BY <1>7 DEF Take, Begin, Ignore, Working, SkipExisting, SendCreate, SendUpdate,
       Report, SendStatus, Send, Informers, SyncCR, Resync, SyncOperand, Gap,
       SyncPods, Cluster, Collect, PodGone, PodStart, Process, Crash, Restart,
       server, vars
  <2> QED
    BY <1>1, <2>1
<1>8. crs[n].gen <= crs'[n].gen
  BY <1>1, <1>4, <1>5, <1>6, <1>7 DEF Next
<1>9. crs'[n].gen \in Nat
  BY <1>1, <1>4, <1>5, <1>6, <1>7 DEF Next
<1> QED
  BY <1>1, <1>8, <1>9

-------------------------------------------------------------------------------
(* What a step can do to the worker and to the writes on their way *)

\* The worker sends a write of its step.
Sends ==
    /\ pc \in {"ensure", "report"} /\ pc' = "call"
    /\ call'.key = Key /\ call'.by = Origin
    /\ call'.kind = "status" => pc = "report"
    /\ call'.kind = "create" => call'.owner.name = req
    /\ call'.kind = "update" =>
          /\ call'.rv = Current.rv /\ Current.live
          /\ call'.owner.name = Current.owner.name
    /\ req' = req /\ step' = step /\ h'.spec = h.spec /\ h'.gen = h.gen
    /\ api' = api /\ orphans' = orphans

\* The others.
Keeps == InFlight' \subseteq InFlight

\* Steps that are not the worker's leave it alone.
LEMMA OthersKeepWorker ==
    ASSUME Informers \/ Users \/ Cluster \/ \E c \in orphans : Land(c) \/ Lose(c)
    PROVE  UNCHANGED worker /\ Keeps
  BY DEF Informers, SyncCR, Resync, SyncOperand, Gap, SyncPods, Users, CreateCR,
     EditSpec, DeleteCR, RemoveOperand, EditOperand, Cluster, Collect, PodGone,
     PodStart, Land, Lose, worker, InFlight, Keeps

\* What the worker sends is the write of its current step.
LEMMA SendSteps ==
    ASSUME TypeOK, SendCreate \/ SendUpdate \/ SendStatus
    PROVE  Sends
<1>1. CASE SendCreate
  BY <1>1 DEF SendCreate, Send, Sends, Self, server
<1>2. CASE SendUpdate
  BY <1>2 DEF SendUpdate, Send, Sends, OwnerAfter, Self, server
<1>3. CASE SendStatus
  <2>1. h \in LiveCRs
    BY <1>3 DEF SendStatus, TypeOK, WorkerOK
  <2>2. PICK list : /\ h' = [h EXCEPT !.nodes = [h.nodes EXCEPT ![Key] = list]]
                    /\ Send([kind |-> "status", key |-> Key, rv |-> h.rv,
                             owner |-> Nil, by |-> Origin, val |-> Nil,
                             nodes |-> [h.nodes EXCEPT ![Key] = list]])
    BY <1>3 DEF SendStatus
  <2>3. h'.spec = h.spec /\ h'.gen = h.gen
    BY <2>1, <2>2 DEF LiveCRs
  <2> QED
    BY <1>3, <2>2, <2>3 DEF SendStatus, Send, Sends, server
<1> QED
  BY <1>1, <1>2, <1>3

\* Writes on their way come from the worker alone.
LEMMA CallSteps ==
    ASSUME TypeOK, [Next]_vars
    PROVE  Sends \/ Keeps
<1>1. CASE \E n \in Names : Take(n)
  BY <1>1 DEF Take, Begin, Ignore, Keeps, InFlight, worker
<1>2. CASE SkipExisting \/ Report
  BY <1>2 DEF SkipExisting, Report, Proceed, Finish, Keeps, InFlight
<1>3. CASE Answered
  BY <1>3 DEF Answered, ObjectDone, StatusDone, Refused, Retry, Proceed, Finish,
     Keeps, InFlight
<1>4. CASE Abandon \/ Process \/ UNCHANGED vars
  BY <1>4 DEF Abandon, Retry, Finish, Process, Crash, Restart, vars, worker,
     Keeps, InFlight
<1> QED
  BY <1>1, <1>2, <1>3, <1>4, SendSteps, OthersKeepWorker DEF Next, Working, Network


\* What typing says of the values the invariant compares.
LEMMA Typed ==
    ASSUME TypeOK
    PROVE  /\ \A n \in Names : crs[n].gen \in Nat /\ crCache[n].gen \in Nat
           /\ \A k \in Keys : api[k].rv \in Nat /\ apiCache[k].rv \in Nat
           /\ \A k \in Keys : api[k].live => api[k].by \in Origins
           /\ Active => req \in Names /\ h \in LiveCRs
           /\ \A c \in InFlight :
                 IsCall(c) /\ c.by \in Origins
                 /\ (c.kind # "status" => c.key \in Keys /\ c.rv \in Nat)
<1>1. \A n \in Names : crs[n].gen \in Nat /\ crCache[n].gen \in Nat
  BY DEF TypeOK, ServerOK, CachesOK, LiveCRs, AbsentCRs
<1>2. \A k \in Keys : api[k].rv \in Nat /\ apiCache[k].rv \in Nat
  BY DEF TypeOK, ServerOK, CachesOK, LiveObjects, AbsentObjects
<1>3. \A k \in Keys : api[k].live => api[k].by \in Origins
  BY DEF TypeOK, ServerOK, LiveObjects, AbsentObjects
<1>4. \A c \in InFlight : IsCall(c)
  BY DEF InFlight, TypeOK, WorkerOK
<1>5. \A c : IsCall(c) => c.by \in Origins
                          /\ (c.kind # "status" => c.key \in Keys /\ c.rv \in Nat)
  BY DEF IsCall, StatusCalls, Calls
<1> QED
  BY <1>1, <1>2, <1>3, <1>4, <1>5 DEF TypeOK, WorkerOK, Active

\* The steps of the worker: it starts a plan, advances in it, stays where it
\* is, or rests.
Starts ==
    /\ pc = "idle" /\ pc' = "ensure" /\ step' = 1
    /\ req' \in Names /\ h' = crCache[req']

Advances ==
    /\ Active /\ pc' = "ensure" /\ api'[Key].rv > 0
    /\ req' = req /\ step' = step + 1 /\ h'.spec = h.spec /\ h'.gen = h.gen

Stays ==
    /\ Active /\ Active'
    /\ req' = req /\ step' = step /\ h'.spec = h.spec /\ h'.gen = h.gen

Rests == ~Active'

\* An answered create or update leaves a version of the step's operand.
LEMMA ObjectDoneLeavesVersion ==
    ASSUME TypeOK, CachesBehind, CallOfStep, ObjectDone
    PROVE  api'[Key].rv > 0
<1>1. call.key = Key /\ IsCall(call) /\ Accepted(call) /\ call.kind # "status"
  BY DEF ObjectDone, CallOfStep, TypeOK, WorkerOK
<1>2. Key \in Keys /\ Stored(call) \in LiveObjects(Key)
  BY <1>1, StoredType
<1>3. api'[Key] = Stored(call)
  BY <1>1, <1>2 DEF ObjectDone, Apply, Put, TypeOK, ServerOK
<1>4. CASE Stored(call) = api[Key]
  BY <1>2, <1>3, <1>4 DEF CachesBehind, LiveObjects
<1>5. CASE Stored(call) # api[Key]
  <2>1. Stored(call).rv = api[Key].rv + 1
    BY <1>1, <1>5 DEF Stored
  <2>2. api[Key].rv \in Nat
    BY <1>2, Typed
  <2> QED
    BY <1>3, <2>1, <2>2
<1> QED
  BY <1>4, <1>5

\* A worker at work is at an operand of the plan.
LEMMA KeyIsKey ==
    ASSUME TypeOK, Active
    PROVE  Key \in Keys
  BY PlanAssumption DEF TypeOK, WorkerOK, Active, LiveCRs, Key

\* Proceed leaves the plan or advances in it.
LEMMA ProceedSteps ==
    ASSUME Active, NEW cr, Proceed(cr), cr.spec = h.spec, cr.gen = h.gen, api'[Key].rv > 0
    PROVE  Advances \/ Rests
  BY DEF Proceed, Finish, Advances, Rests, Active

\* Every step of the worker is one of the four.
LEMMA WorkerSteps ==
    ASSUME TypeOK, CachesBehind, CallOfStep, PlanInv, [Next]_vars
    PROVE  Starts \/ Advances \/ Stays \/ Rests
<1>1. CASE \E n \in Names : Take(n)
  BY <1>1 DEF Take, Begin, Ignore, Starts, Rests, Active, worker
<1>2. CASE SkipExisting
  <2>1. Active /\ Key \in Keys
    BY <1>2, KeyIsKey DEF SkipExisting, Active
  <2>2. api'[Key].rv > 0
    BY <1>2, <2>1, Typed DEF SkipExisting, CachesBehind, Current, server
  <2> QED
    BY <1>2, <2>1, <2>2, ProceedSteps DEF SkipExisting
<1>3. CASE Report
  <2>1. api'[Key].rv > 0
    BY <1>3 DEF Report, PlanInv, server
  <2> QED
    BY <1>3, <2>1, ProceedSteps DEF Report, Active
<1>4. CASE SendCreate \/ SendUpdate \/ SendStatus
  BY <1>4, SendSteps DEF Sends, Stays, Active
<1>5. CASE ObjectDone
  <2>1. api'[Key].rv > 0
    BY <1>5, ObjectDoneLeavesVersion
  <2> QED
    BY <1>5, <2>1, ProceedSteps DEF ObjectDone, Stays, Active
<1>6. CASE StatusDone
  <2>1. h \in LiveCRs
    BY <1>6 DEF StatusDone, TypeOK, WorkerOK
  <2>2. Version(h).spec = h.spec /\ Version(h).gen = h.gen
    BY <2>1 DEF LiveCRs, Version
  <2>3. api' = api
    BY <1>6 DEF StatusDone, Apply
  <2>4. api'[Key].rv > 0
    BY <1>6, <2>3 DEF StatusDone, PlanInv
  <2> QED
    BY <1>6, <2>2, <2>4, ProceedSteps DEF StatusDone, Active
<1>7. CASE Refused \/ Abandon \/ Process
  BY <1>7 DEF Refused, Abandon, Retry, Finish, Process, Crash, Restart, Rests, Active
<1>8. CASE UNCHANGED worker
  BY <1>8 DEF worker, Stays, Rests, Active
<1> QED
  BY <1>1, <1>2, <1>3, <1>4, <1>5, <1>6, <1>7, <1>8, OthersKeepWorker
     DEF Next, Working, Answered, Network, vars


\* The worker comes to wait for a write by sending it, and to report by having
\* its operand written.
LEMMA WaitingSteps ==
    ASSUME TypeOK, [Next]_vars
    PROVE  /\ pc' = "call" => Sends \/ UNCHANGED worker
           /\ pc' = "report" =>
                 UNCHANGED worker \/ (ObjectDone /\ step' = step /\ h'.spec = h.spec)
<1>1. CASE Working
  <2>1. CASE SkipExisting \/ Report
    BY <2>1 DEF SkipExisting, Report, Proceed, Finish
  <2>2. CASE SendCreate \/ SendUpdate \/ SendStatus
    BY <2>2, SendSteps DEF Sends
  <2> QED
    BY <1>1, <2>1, <2>2 DEF Working
<1>2. CASE (\E n \in Names : Take(n)) \/ Answered \/ Abandon \/ Process
           \/ UNCHANGED vars
  BY <1>2 DEF Take, Begin, Ignore, Answered, ObjectDone, StatusDone, Refused, Abandon,
     Retry, Proceed, Finish, Process, Crash, Restart, vars, worker
<1> QED
  BY <1>1, <1>2, OthersKeepWorker DEF Next, Network

\* The caches: one that changes takes over the server's state, or is emptied by
\* a crash; a restart takes over all of it.
LEMMA OperandCacheSteps ==
    ASSUME TypeOK, [Next]_vars, NEW k \in Keys
    PROVE  \/ apiCache'[k] = apiCache[k] /\ (pc = "down" => pc' = "down")
           \/ apiCache'[k] = api[k] /\ api' = api
           \/ apiCache'[k] = AbsentObject(0) /\ pc' = "down"
<1>1. CASE Informers
  BY <1>1 DEF Informers, SyncCR, Resync, SyncOperand, Gap, SyncPods, TypeOK, CachesOK,
     worker, server, caches
<1>2. CASE Process
  BY <1>2 DEF Process, Crash, Restart, server
<1>3. CASE (\E n \in Names : Take(n)) \/ Working \/ Answered \/ Abandon
  BY <1>3 DEF Take, Begin, Ignore, Working, SkipExisting, SendCreate, SendUpdate,
     Report, SendStatus, Send, Answered, ObjectDone, StatusDone, Refused, Retry, Abandon,
     caches, worker
<1>4. CASE Users \/ Cluster \/ (\E c \in orphans : Land(c) \/ Lose(c)) \/ UNCHANGED vars
  BY <1>4 DEF Users, CreateCR, EditSpec, DeleteCR, RemoveOperand, EditOperand, Cluster,
     Collect, PodGone, PodStart, Land, Lose, worker, caches, vars
<1> QED
  BY <1>1, <1>2, <1>3, <1>4 DEF Next, Network

\* The same for the cache of the CRs.
LEMMA CRCacheSteps ==
    ASSUME TypeOK, [Next]_vars, NEW n \in Names
    PROVE  \/ crCache'[n] = crCache[n] /\ (pc = "down" <=> pc' = "down")
           \/ crCache'[n] = crs[n] /\ crs' = crs
              /\ pc' # "down" /\ (pc = "down" => pc' = "idle")
           \/ crCache'[n] = AbsentCR /\ crs' = crs /\ pc # "down" /\ pc' = "down"
<1>1. CASE Informers
  BY <1>1 DEF Informers, SyncCR, Resync, SyncOperand, Gap, SyncPods, TypeOK, CachesOK,
     worker, server, caches
<1>2. CASE Process
  BY <1>2 DEF Process, Crash, Restart, server
<1>3. CASE (\E m \in Names : Take(m)) \/ Working \/ Answered \/ Abandon
  BY <1>3 DEF Take, Begin, Ignore, Working, SkipExisting, SendCreate, SendUpdate,
     Report, SendStatus, Send, Answered, ObjectDone, StatusDone, Refused, Retry, Abandon,
     Proceed, Finish, caches, worker
<1>4. CASE Users \/ Cluster \/ (\E c \in orphans : Land(c) \/ Lose(c)) \/ UNCHANGED vars
  BY <1>4 DEF Users, CreateCR, EditSpec, DeleteCR, RemoveOperand, EditOperand, Cluster,
     Collect, PodGone, PodStart, Land, Lose, worker, caches, vars
<1> QED
  BY <1>1, <1>2, <1>3, <1>4 DEF Next, Network

-------------------------------------------------------------------------------
(* The invariant is inductive, part by part *)

\* No informer, crash or restart puts a cache ahead of the server.
LEMMA CachesBehindStep ==
    ASSUME TypeOK, CachesBehind, [Next]_vars
    PROVE  CachesBehind'
<1>1. ASSUME NEW k \in Keys
      PROVE  /\ apiCache'[k].rv <= api'[k].rv
             /\ api'[k].live => api'[k].rv > 0
             /\ apiCache'[k].live => apiCache'[k].rv > 0
             /\ pc' # "down" => (apiCache'[k].rv = api'[k].rv => apiCache'[k] = api'[k])
  <2>1. api[k].rv <= api'[k].rv /\ (api'[k] # api[k] => api[k].rv < api'[k].rv)
    BY VersionsGrow
  <2>2. api'[k].live => api'[k].rv > 0
    BY LiveVersions DEF CachesBehind
  <2>3. api[k].rv \in Nat /\ apiCache[k].rv \in Nat /\ api'[k].rv \in Nat
    BY Typed, VersionsGrow
  <2>4. AbsentObject(0).rv = 0 /\ ~AbsentObject(0).live
    BY DEF AbsentObject
  <2> QED
    BY <2>1, <2>2, <2>3, <2>4, OperandCacheSteps DEF CachesBehind
<1>2. ASSUME NEW n \in Names
      PROVE  crCache'[n].gen <= crs'[n].gen
  <2>1. crs[n].gen <= crs'[n].gen /\ crs[n].gen \in Nat /\ crs'[n].gen \in Nat
    BY GenerationsGrow
  <2>2. crCache[n].gen \in Nat /\ AbsentCR.gen = 0
    BY Typed DEF AbsentCR
  <2> QED
    BY <2>1, <2>2, CRCacheSteps DEF CachesBehind
<1> QED
  BY <1>1, <1>2 DEF CachesBehind

\* The worker leaves a step only once its write is answered or given up.
LEMMA CallOfStepStep ==
    ASSUME TypeOK, CallOfStep, [Next]_vars
    PROVE  CallOfStep'
<1>1. CASE Sends
  BY <1>1 DEF Sends, CallOfStep, Key, Origin
<1>2. CASE UNCHANGED worker
  BY <1>2 DEF worker, CallOfStep, Key, Origin
<1> QED
  BY <1>1, <1>2, WaitingSteps DEF CallOfStep

\* What has existed, has existed for good.
LEMMA EarlierStays ==
    ASSUME TypeOK, [Next]_vars, NEW sp \in Specs, NEW s \in Steps, Earlier(api, s, sp)
    PROVE  Earlier(api', s, sp)
<1>1. ASSUME NEW t \in 1 .. s - 1
      PROVE  api'[Target(t, sp)].rv > 0
  <2>1. t \in Steps
    BY SizesAssumption DEF Steps
  <2>2. Target(t, sp) \in Keys
    BY <2>1, PlanAssumption
  <2>3. api[Target(t, sp)].rv > 0
    BY DEF Earlier
  <2> QED
    BY <2>2, <2>3, VersionsGrow
<1> QED
  BY <1>1 DEF Earlier

\* What is written was sent when the operands before it had existed.
LEMMA PlanOrderStep ==
    ASSUME TypeOK, PlanInv, [Next]_vars
    PROVE  PlanOrder'
<1>1. ASSUME NEW k \in Keys, api'[k].live
      PROVE  Earlier(api', api'[k].by.step, api'[k].by.spec)
  <2>1. CASE (api'[k] = api[k] \/ Touched(k)) /\ api[k].live
    <3>1. api'[k].by = api[k].by /\ api[k].by \in Origins
      BY <2>1, Typed DEF Touched
    <3>2. Earlier(api, api[k].by.step, api[k].by.spec)
      BY <2>1 DEF PlanInv, PlanOrder, Earlier
    <3> QED
      BY <3>1, <3>2, EarlierStays DEF Origins
  <2>2. CASE Written(k)
    <3>1. PICK c \in InFlight : api'[k].by = c.by
      BY <2>2 DEF Written
    <3>2. Earlier(api, c.by.step, c.by.spec) /\ c.by \in Origins
      BY Typed DEF PlanInv
    <3>3. Earlier(api', c.by.step, c.by.spec)
      BY <3>2, EarlierStays DEF Origins
    <3> QED
      BY <3>1, <3>3
  <2>3. ~Gone(k)
    BY <1>1 DEF Gone, AbsentObject
  <2> QED
    BY <1>1, <2>1, <2>2, <2>3, ServerSteps DEF Touched
<1> QED
  BY <1>1 DEF PlanOrder, Earlier

\* The worker advances only past an operand that has existed.
LEMMA PlanInvStep ==
    ASSUME TypeOK, CachesBehind, CallOfStep, PlanInv, [Next]_vars, TypeOK'
    PROVE  PlanInv'
<1>1. Active => step \in Steps /\ h.spec \in Specs /\ Key \in Keys
  BY KeyIsKey DEF TypeOK, WorkerOK, Active, LiveCRs
<1>2. ASSUME Active, Active'
      PROVE  Earlier(api', step', h'.spec)
  <2>1. CASE Stays
    BY <1>1, <1>2, <2>1, EarlierStays DEF Stays, PlanInv
  <2>2. CASE Advances
    <3>1. Earlier(api', step, h.spec)
      BY <1>1, <1>2, EarlierStays DEF PlanInv
    <3>2. \A t \in 1 .. step' - 1 : t \in 1 .. step - 1 \/ t = step
      BY <1>1, <2>2 DEF Advances, Steps
    <3> QED
      BY <2>2, <3>1, <3>2 DEF Advances, Earlier, Key
  <2>3. ~Starts /\ ~Rests
    BY <1>2 DEF Active, Starts, Rests
  <2> QED
    BY <2>1, <2>2, <2>3, WorkerSteps
<1>3. ASSUME ~Active, Active'
      PROVE  Earlier(api', step', h'.spec)
  BY <1>3, WorkerSteps DEF Starts, Advances, Stays, Rests, Earlier
<1>4. ASSUME NEW c \in InFlight'
      PROVE  Earlier(api', c.by.step, c.by.spec)
  <2>1. CASE c \in InFlight
    <3>1. c.by \in Origins /\ Earlier(api, c.by.step, c.by.spec)
      BY <2>1, Typed DEF PlanInv
    <3> QED
      BY <3>1, EarlierStays DEF Origins
  <2>2. CASE c \notin InFlight
    <3>1. Sends
      BY <1>4, <2>2, CallSteps DEF Keeps
    <3>2. c = call'
      BY <1>4, <2>2, <3>1 DEF Sends, InFlight
    <3>3. c.by.step = step /\ c.by.spec = h.spec /\ Active
      BY <3>1, <3>2 DEF Sends, Origin, Active
    <3> QED
      BY <1>1, <3>3, EarlierStays DEF PlanInv
  <2> QED
    BY <2>1, <2>2
<1>5. ASSUME pc' = "report" \/ (pc' = "call" /\ call'.kind = "status")
      PROVE  api'[Key'].rv > 0
  <2>1. CASE UNCHANGED worker
    <3>1. api[Key].rv > 0 /\ Key' = Key /\ Active
      BY <1>5, <2>1 DEF worker, Key, PlanInv, Active
    <3> QED
      BY <1>1, <3>1, VersionsGrow
  <2>2. CASE Sends
    <3>1. pc = "report" /\ api' = api /\ Key' = Key
      BY <1>5, <2>2 DEF Sends, Key
    <3> QED
      BY <3>1 DEF PlanInv
  <2>3. CASE ObjectDone /\ step' = step /\ h'.spec = h.spec
    BY <2>3, ObjectDoneLeavesVersion DEF Key
  <2> QED
    BY <1>5, <2>1, <2>2, <2>3, WaitingSteps
<1> QED
  BY <1>2, <1>3, <1>4, <1>5, PlanOrderStep DEF PlanInv

\* The newest version a write can carry never becomes older.
LEMMA LatestGrows ==
    ASSUME TypeOK, CachesBehind, CallOfStep, PlanInv, GenInv, [Next]_vars, NEW n \in Names
    PROVE  /\ Latest[n] <= Latest'[n]
           /\ pc' # "down" => crCache[n].gen <= crCache'[n].gen
<1>1. crs[n].gen \in Nat /\ crs'[n].gen \in Nat /\ crs[n].gen <= crs'[n].gen
  BY GenerationsGrow
<1>2. crCache[n].gen \in Nat /\ crCache[n].gen <= crs[n].gen
  BY Typed DEF CachesBehind
<1>3. pc' # "down" =>
         \/ crCache'[n].gen = crCache[n].gen /\ pc # "down"
         \/ crCache'[n].gen = crs[n].gen /\ (pc = "down" => pc' = "idle")
  BY CRCacheSteps
<1>4. Active => h.gen \in Nat /\ req \in Names /\ h.gen <= crCache[req].gen
  BY Typed DEF GenInv, LiveCRs
<1>5. CASE pc' = "down"
  <2>1. Latest'[n] = crs'[n].gen
    BY <1>5 DEF Latest, Active
  <2>2. Latest[n] <= crs[n].gen
    BY <1>1, <1>2, <1>4 DEF Latest
  <2>3. Latest[n] \in Nat
    BY <1>1, <1>2, <1>4 DEF Latest
  <2> QED
    BY <1>1, <1>5, <2>1, <2>2, <2>3
<1>6. CASE pc' # "down" /\ pc = "down"
  BY <1>1, <1>2, <1>3, <1>6, CRCacheSteps DEF Latest, Active
<1>7. CASE pc' # "down" /\ pc # "down"
  <2>1. crCache[n].gen <= crCache'[n].gen /\ crCache'[n].gen \in Nat
    BY <1>1, <1>2, <1>3, <1>7
  <2>2. CASE Starts
    BY <1>7, <2>1, <2>2, <1>2 DEF Starts, Latest, Active
  <2>3. CASE Advances \/ Stays
    BY <1>2, <1>4, <1>7, <2>1, <2>3 DEF Advances, Stays, Latest, Active
  <2>4. CASE Rests
    BY <1>2, <1>4, <1>7, <2>1, <2>4 DEF Rests, Latest, Active
  <2> QED
    BY <2>1, <2>2, <2>3, <2>4, WorkerSteps
<1> QED
  BY <1>5, <1>6, <1>7

\* No write carries a version of its CR newer than the cache holds.
LEMMA GenInvStep ==
    ASSUME TypeOK, CachesBehind, CallOfStep, PlanInv, GenInv, [Next]_vars, TypeOK'
    PROVE  GenInv'
<1>1. ASSUME Active'
      PROVE  h'.gen <= crCache'[req'].gen
  <2>1. pc' # "down"
    BY <1>1 DEF Active
  <2>2. CASE Starts
    <3>1. crCache[req'].gen <= crCache'[req'].gen
      BY <2>1, <2>2, LatestGrows DEF Starts
    <3> QED
      BY <2>2, <3>1 DEF Starts
  <2>3. CASE Advances \/ Stays
    <3>1. h'.gen = h.gen /\ req' = req /\ Active
      BY <2>3 DEF Advances, Stays
    <3>2. req \in Names /\ h.gen \in Nat /\ h.gen <= crCache[req].gen
      BY <3>1, Typed DEF GenInv, LiveCRs
    <3>3. crCache[req].gen <= crCache'[req].gen
      BY <2>1, <3>2, LatestGrows
    <3>4. crCache[req].gen \in Nat /\ crCache'[req].gen \in Nat
      BY <3>2 DEF TypeOK, CachesOK, LiveCRs, AbsentCRs
    <3> QED
      BY <3>1, <3>2, <3>3, <3>4
  <2> QED
    BY <1>1, <2>2, <2>3, WorkerSteps DEF Rests
<1>2. \A n \in Names : Latest[n] \in Nat /\ Latest'[n] \in Nat
  BY DEF Latest, Active, TypeOK, ServerOK, CachesOK, WorkerOK, LiveCRs, AbsentCRs
<1>3. ASSUME NEW b \in Origins, b.gen <= Latest[b.name]
      PROVE  b.gen <= Latest'[b.name]
  <2>1. b.name \in Names /\ b.gen \in Nat
    BY DEF Origins
  <2>2. Latest[b.name] <= Latest'[b.name]
    BY <2>1, LatestGrows
  <2> QED
    BY <1>2, <1>3, <2>1, <2>2
<1>4. ASSUME NEW c \in InFlight'
      PROVE  c.by.gen <= Latest'[c.by.name]
  <2>1. CASE c \in InFlight
    BY <1>3, <2>1, Typed DEF GenInv
  <2>2. CASE c \notin InFlight
    <3>1. Sends
      BY <1>4, <2>2, CallSteps DEF Keeps
    <3>2. c = call'
      BY <1>4, <2>2, <3>1 DEF Sends, InFlight
    <3>3. c.by.name = req' /\ c.by.gen = h'.gen /\ Active'
      BY <3>1, <3>2 DEF Sends, Origin, Active
    <3>4. h'.gen \in Nat /\ Latest'[c.by.name] = h'.gen
      BY <3>3 DEF Latest, TypeOK, WorkerOK, Active, LiveCRs
    <3> QED
      BY <3>3, <3>4
  <2> QED
    BY <2>1, <2>2
<1>5. ASSUME NEW k \in Keys, api'[k].live
      PROVE  api'[k].by.gen <= Latest'[api'[k].by.name]
  <2>1. PICK b \in Origins : api'[k].by = b /\ b.gen <= Latest[b.name]
    <3>1. CASE (api'[k] = api[k] \/ Touched(k)) /\ api[k].live
      BY <3>1, Typed DEF Touched, GenInv
    <3>2. CASE Written(k)
      BY <3>2, Typed DEF Written, GenInv
    <3>3. ~Gone(k)
      BY <1>5 DEF Gone, AbsentObject
    <3> QED
      BY <1>5, <3>1, <3>2, <3>3, ServerSteps DEF Touched
  <2>2. b.gen <= Latest'[b.name]
    BY <1>3, <2>1
  <2> QED
    BY <2>1, <2>2
<1> QED
  BY <1>1, <1>4, <1>5 DEF GenInv

\* An update is sent from a cached object; if that is still the stored one, the
\* cached CR is no older than the version the object was written for.
LEMMA UpdateInvStep ==
    ASSUME TypeOK, CachesBehind, GenInv, UpdateInv, [Next]_vars
    PROVE  UpdateInv'
<1> SUFFICES ASSUME NEW c \in InFlight', c.kind = "update"
             PROVE  /\ c.rv <= api'[c.key].rv
                    /\ (api'[c.key].live /\ c.rv = api'[c.key].rv) =>
                          /\ c.owner.name = api'[c.key].owner.name
                          /\ c.by.name = api'[c.key].by.name =>
                                api'[c.key].by.gen <= c.by.gen
  BY DEF UpdateInv
<1>1. CASE c \in InFlight
  <2>1. c.key \in Keys /\ c.rv \in Nat
    BY <1>1, Typed
  <2>2. /\ api[c.key].rv \in Nat /\ api'[c.key].rv \in Nat
        /\ api'[c.key] = api[c.key] \/ api[c.key].rv < api'[c.key].rv
    BY <2>1, VersionsGrow
  <2> QED
    BY <1>1, <2>1, <2>2 DEF UpdateInv
<1>2. CASE c \notin InFlight
  <2>1. Sends
    BY <1>2, CallSteps DEF Keeps
  <2>2. c = call'
    BY <1>2, <2>1 DEF Sends, InFlight
  <2>3. /\ c.key = Key /\ c.by.name = req /\ c.by.gen = h.gen
        /\ c.rv = apiCache[Key].rv /\ apiCache[Key].live
        /\ c.owner.name = apiCache[Key].owner.name
        /\ api' = api /\ Active /\ pc # "down"
    BY <2>1, <2>2 DEF Sends, Origin, Current, Active
  <2>4. Key \in Keys
    BY <2>3, KeyIsKey
  <2>5. apiCache[Key].rv <= api[Key].rv
    BY <2>4 DEF CachesBehind
  <2>6. apiCache[Key].rv = api[Key].rv => apiCache[Key] = api[Key]
    BY <2>3, <2>4 DEF CachesBehind
  <2>7. api[Key].live /\ api[Key].by.name = req => api[Key].by.gen <= h.gen
    <3>1. Latest[req] = h.gen
      BY <2>3, Typed DEF Latest
    <3> QED
      BY <2>4, <3>1 DEF GenInv
  <2> QED
    BY <2>3, <2>5, <2>6, <2>7
<1> QED
  BY <1>1, <1>2

\* Together.
LEMMA InvInductive ==
    ASSUME Inv, [Next]_vars, TypeOK'
    PROVE  Inv'
  BY CachesBehindStep, CallOfStepStep, PlanInvStep, GenInvStep, UpdateInvStep DEF Inv

\* Init establishes the invariant, every step keeps it.
THEOREM Invariance == Spec => []Inv
<1>1. Init => Inv
  <2> SUFFICES ASSUME Init, TypeOK
               PROVE  Inv
    BY TypeInitially
  <2>1. CachesBehind
    BY DEF Init, CachesBehind, AbsentObject, AbsentCR
  <2>2. InFlight = {} /\ ~Active
    BY DEF Init, InFlight, Active
  <2>3. \A k \in Keys : ~api[k].live
    BY DEF Init, AbsentObject
  <2> QED
    BY <2>1, <2>2, <2>3 DEF Init, Inv, CallOfStep, PlanInv, PlanOrder, GenInv, UpdateInv
<1>2. Inv /\ [Next]_vars /\ TypeOK' => Inv'
  BY InvInductive
<1> QED
  BY <1>1, <1>2, TypeCorrect, PTL DEF Spec

\* The Deployment is never written before the ConfigMap it mounts has existed,
\* nor any operand before those of the steps ahead of it.
THEOREM OrderKept == Spec => []PlanOrder
<1>1. Inv => PlanOrder
  BY DEF Inv, PlanInv
<1> QED
  BY <1>1, Invariance, PTL

\* What an accepted write puts over a live object.
LEMMA WrittenOverLive ==
    ASSUME Inv, NEW k \in Keys, Written(k), api[k].live
    PROVE  /\ api'[k].owner.name = api[k].owner.name
           /\ api'[k].by.name = api[k].by.name => api[k].by.gen <= api'[k].by.gen
<1>1. PICK c \in InFlight :
         /\ c.key = k /\ Accepted(c) /\ c.kind # "status"
         /\ api'[k].owner = c.owner /\ api'[k].by = c.by
  BY DEF Written
<1>2. c.kind = "update" /\ c.rv = api[k].rv
  BY <1>1 DEF Accepted
<1> QED
  BY <1>1, <1>2 DEF Inv, UpdateInv

\* No write, late or stale, puts an older version of a CR over a newer one.
THEOREM NeverRegresses == Spec => NoRegress
<1>1. ASSUME Inv, [Next]_vars, NEW k \in Keys, api[k].live, api'[k].live,
             api[k].by.name = api'[k].by.name
      PROVE  api[k].by.gen <= api'[k].by.gen
  <2>1. api[k].by.gen \in Nat
    BY <1>1, Typed DEF Inv, Origins
  <2>2. ~Gone(k)
    BY <1>1 DEF Gone, AbsentObject
  <2> QED
    BY <1>1, <2>1, <2>2, ServerSteps, WrittenOverLive DEF Inv, Touched
<1>2. Inv /\ [Next]_vars =>
         [\A k \in Keys :
            (api[k].live /\ api'[k].live /\ api[k].by.name = api'[k].by.name)
               => api[k].by.gen <= api'[k].by.gen]_vars
  BY <1>1
<1> QED
  BY <1>2, Invariance, PTL DEF Spec, NoRegress

\* No reconcile takes an operand over from the CR that controls it.
THEOREM OwnersStay == Spec => OwnerStable
<1>1. ASSUME Inv, [Next]_vars, NEW k \in Keys, api[k].live, api'[k].live
      PROVE  api[k].owner.name = api'[k].owner.name
  <2>1. ~Gone(k)
    BY <1>1 DEF Gone, AbsentObject
  <2> QED
    BY <1>1, <2>1, ServerSteps, WrittenOverLive DEF Inv, Touched
<1>2. Inv /\ [Next]_vars =>
         [\A k \in Keys : (api[k].live /\ api'[k].live)
            => api[k].owner.name = api'[k].owner.name]_vars
  BY <1>1
<1> QED
  BY <1>2, Invariance, PTL DEF Spec, OwnerStable

===============================================================================
