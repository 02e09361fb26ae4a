------------------------ MODULE MustGatherServiceProofs ------------------------
(***************************************************************************)
(* What is proved of every plan, for the plan of MustGatherService; and    *)
(* what its operands hold.                                                 *)
(***************************************************************************)
EXTENDS MustGatherService, TLAPS

P == INSTANCE ReconcilerWakeups WITH
    Keys <- Operands,
    NSteps <- Len(Plan),
    CreateOnly <- CreateOnlySteps,
    Workloads <- {StatefulSet},
    Watched <- WatchedOperands,
    Readings <- ClassReadings,
    Target <- OperandOf,
    Desired <- DesiredBy,
    Managed <- ManagedBy,
    Contents <- ContentsOf,
    Admits <- AdmitsContent,
    Release <- ReleaseOf,
    Drifts <- DriftsOf

-------------------------------------------------------------------------------
(* The plan *)

\* There are five steps; the claim and the ConfigMap are only created.
LEMMA PlanLength ==
    /\ Len(Plan) = 5 /\ DOMAIN Plan = 1 .. 5
    /\ CreateOnlySteps = {1, 5}
<1>1. Len(Plan) = 5 /\ DOMAIN Plan = 1 .. 5
  BY DEF Plan
<1>2. CreateOnlySteps = {1, 5}
  BY <1>1 DEF CreateOnlySteps, Plan
<1> QED
  BY <1>1, <1>2

\* What each step writes, ...
LEMMA PlanOperands ==
    ASSUME NEW sp
    PROVE  /\ OperandOf(1, sp) = PVC(sp.persistentVolumeClaim.name)
           /\ OperandOf(2, sp) = StatefulSet
           /\ OperandOf(3, sp) = Service
           /\ OperandOf(4, sp) = Ingress
           /\ OperandOf(5, sp) = Configmap
  BY DEF OperandOf, Plan

\* ... what it asks for, ...
LEMMA PlanDesired ==
    ASSUME NEW n, NEW sp, NEW r
    PROVE  /\ DesiredBy(1, n, sp, r) = desiredMustGatherServicePVC(n, sp, r)
           /\ DesiredBy(2, n, sp, r) = desiredMustGatherServiceStatefulset(n, sp)
           /\ DesiredBy(3, n, sp, r) = desiredMustGatherServiceService(n)
           /\ DesiredBy(4, n, sp, r) = desiredMustGatherServiceIngress(n)
           /\ DesiredBy(5, n, sp, r) = MustGatherServiceConfigmap(n)
  BY DEF DesiredBy, Plan

\* ... and what of it when there is something already.
LEMMA PlanManaged ==
    /\ ManagedBy(2) = updateMustGatherServiceStatefulSet
    /\ ManagedBy(3) = updateMustGatherServiceService
    /\ ManagedBy(4) = updateMustGatherServiceIngress
  BY DEF ManagedBy, Plan

\* No two operands are the same.
LEMMA OperandsDiffer ==
    /\ StatefulSet \notin {Service, Ingress, Configmap}
    /\ Service \notin {Ingress, Configmap}
    /\ Ingress # Configmap
    /\ \A x : PVC(x) \notin {StatefulSet, Service, Ingress, Configmap}
  BY DEF StatefulSet, Service, Ingress, Configmap, PVC, mustGatherResourceName,
     mustGatherCustomCMName

\* What each operand can hold.
LEMMA ContentsByOperand ==
    /\ ContentsOf(StatefulSet) = StatefulSetContents
    /\ ContentsOf(Service) = ServiceContents
    /\ ContentsOf(Ingress) = IngressContents
    /\ ContentsOf(Configmap) = ConfigmapContents
    /\ \A x : ContentsOf(PVC(x)) = ClaimContents(x)
<1>1. \A x : PVC(x)[2] = x
  BY DEF PVC
<1> QED
  BY <1>1, OperandsDiffer DEF ContentsOf

\* What a step asks for is a content of its operand.
LEMMA DesiredIsContent ==
    ASSUME NEW sp \in Specs, NEW s \in 1 .. 5, NEW n \in Names, NEW r \in ClassReadings
    PROVE  DesiredBy(s, n, sp, r) \in ContentsOf(OperandOf(s, sp))
<1>1. sp.mustGather.replicas \in Int /\ sp.persistentVolumeClaim.storage \in Nat
  BY SpecsAssumption DEF MustGatherServiceSpecs
<1>2. labelsForMustGatherService(mustGatherResourceName, n) \in Labels
  BY DEF Labels
<1>3. desiredMustGatherServicePVC(n, sp, r) \in ClaimContents(sp.persistentVolumeClaim.name)
  <2> DEFINE claim == sp.persistentVolumeClaim
             d == desiredMustGatherServicePVC(n, sp, r)
  <2>1. claim.storageClassName \in {x.persistentVolumeClaim.storageClassName : x \in Specs}
    OBVIOUS
  <2>2. d = [labels |-> labelsForMustGatherService(claim.name, n), annotations |-> "product",
             storage |-> d.storage, storageClassName |-> d.storageClassName]
    BY DEF desiredMustGatherServicePVC
  <2>3. d.storage \in Nat
    BY <1>1 DEF desiredMustGatherServicePVC
  <2>4. d.storageClassName \in {claim.storageClassName} \cup ClassReadings
    BY DEF desiredMustGatherServicePVC
  <2> HIDE DEF d
  <2>5. labelsForMustGatherService(claim.name, n)
           \in {labelsForMustGatherService(claim.name, m) : m \in Names}
    OBVIOUS
  <2> DEFINE classes == ClassReadings \cup {x.persistentVolumeClaim.storageClassName : x \in Specs}
             labels == {labelsForMustGatherService(claim.name, m) : m \in Names}
  <2>6. d.storageClassName \in classes /\ labelsForMustGatherService(claim.name, n) \in labels
    BY <2>1, <2>4, <2>5
  <2>7. ClaimContents(claim.name) = [labels : labels, annotations : {"product"}, storage : Nat,
                                     storageClassName : classes]
    BY DEF ClaimContents
  <2> HIDE DEF classes, labels
  <2>8. d \in ClaimContents(claim.name)
    BY <2>2, <2>3, <2>6, <2>7
  <2> QED
    BY <2>8 DEF d
<1>4. desiredMustGatherServiceStatefulset(n, sp) \in StatefulSetContents
  BY <1>1, <1>2 DEF desiredMustGatherServiceStatefulset, StatefulSetContents
<1>5. desiredMustGatherServiceService(n) \in ServiceContents
  BY <1>2 DEF desiredMustGatherServiceService, ServiceContents
<1>6. desiredMustGatherServiceIngress(n) \in IngressContents
  BY <1>2 DEF desiredMustGatherServiceIngress, IngressContents
<1>7. MustGatherServiceConfigmap(n) \in ConfigmapContents
  BY DEF MustGatherServiceConfigmap, ConfigmapContents
<1>8. s = 1 \/ s = 2 \/ s = 3 \/ s = 4 \/ s = 5
  OBVIOUS
<1> QED
  BY <1>3, <1>4, <1>5, <1>6, <1>7, <1>8, PlanOperands, PlanDesired, ContentsByOperand

\* So is what an update makes of one.
LEMMA MergeIsContent ==
    ASSUME NEW sp \in Specs, NEW s \in {2, 3, 4},
           NEW v \in ContentsOf(OperandOf(s, sp)), NEW d \in ContentsOf(OperandOf(s, sp))
    PROVE  /\ ManagedBy(s) \subseteq DOMAIN v
           /\ P!Merge(s, v, d) \in ContentsOf(OperandOf(s, sp))
<1>1. CASE s = 2
  <2>1. v \in StatefulSetContents /\ d \in StatefulSetContents
    BY <1>1, PlanOperands, ContentsByOperand
  <2>2. ManagedBy(s) = updateMustGatherServiceStatefulSet
    BY <1>1, PlanManaged
  <2>3. ManagedBy(s) \subseteq DOMAIN v /\ P!Merge(s, v, d) \in StatefulSetContents
    BY <2>1, <2>2 DEF P!Merge, updateMustGatherServiceStatefulSet, StatefulSetContents
  <2> QED
    BY <1>1, <2>3, PlanOperands, ContentsByOperand
<1>2. CASE s = 3
  <2>1. v \in ServiceContents /\ d \in ServiceContents
    BY <1>2, PlanOperands, ContentsByOperand
  <2>2. ManagedBy(s) = updateMustGatherServiceService
    BY <1>2, PlanManaged
  <2>3. ManagedBy(s) \subseteq DOMAIN v /\ P!Merge(s, v, d) \in ServiceContents
    BY <2>1, <2>2 DEF P!Merge, updateMustGatherServiceService, ServiceContents
  <2> QED
    BY <1>2, <2>3, PlanOperands, ContentsByOperand
<1>3. CASE s = 4
  <2>1. v \in IngressContents /\ d \in IngressContents
    BY <1>3, PlanOperands, ContentsByOperand
  <2>2. ManagedBy(s) = updateMustGatherServiceIngress
    BY <1>3, PlanManaged
  <2>3. ManagedBy(s) \subseteq DOMAIN v /\ P!Merge(s, v, d) \in IngressContents
    BY <2>1, <2>2 DEF P!Merge, updateMustGatherServiceIngress, IngressContents
  <2> QED
    BY <1>3, <2>3, PlanOperands, ContentsByOperand
<1> QED
  BY <1>1, <1>2, <1>3

\* An operand is a claim or one of the other four.
LEMMA FiveOperands ==
    ASSUME NEW k \in Operands
    PROVE  \/ k \in {StatefulSet, Service, Ingress, Configmap}
           \/ \E x : k = PVC(x)
<1>1. PICK s \in 1 .. 5, sp \in Specs : k = OperandOf(s, sp)
  BY PlanLength DEF Operands
<1>2. s = 1 \/ s = 2 \/ s = 3 \/ s = 4 \/ s = 5
  OBVIOUS
<1> QED
  BY <1>1, <1>2, PlanOperands

\* What users make of the StatefulSet.
LEMMA StatefulSetDrifts ==
    ASSUME NEW v
    PROVE  DriftsOf(StatefulSet, v)
              = {[v EXCEPT !.replicas = 0, !.volumes = EditedVolumes],
                 [v EXCEPT !.labels = EditedLabels, !.annotations = EditedAnnotations]}
<1>1. /\ StatefulSet[1] = "StatefulSet"
      /\ "StatefulSet" \notin {"Service", "Ingress", "ConfigMap", "PersistentVolumeClaim"}
  BY DEF StatefulSet
<1> QED
  BY <1>1, Zenon DEF DriftsOf

\* What users make of a content of an operand is one, too.
LEMMA DriftsAreContents ==
    ASSUME NEW k \in Operands, NEW v \in ContentsOf(k)
    PROVE  DriftsOf(k, v) \subseteq ContentsOf(k)
<1>1. CASE k = StatefulSet
  <2>1. v \in StatefulSetContents
    BY <1>1, ContentsByOperand
  <2>2. /\ [v EXCEPT !.replicas = 0, !.volumes = EditedVolumes] \in StatefulSetContents
        /\ [v EXCEPT !.labels = EditedLabels, !.annotations = EditedAnnotations]
              \in StatefulSetContents
    BY <2>1 DEF StatefulSetContents
  <2>3. DriftsOf(StatefulSet, v)
           = {[v EXCEPT !.replicas = 0, !.volumes = EditedVolumes],
              [v EXCEPT !.labels = EditedLabels, !.annotations = EditedAnnotations]}
    BY StatefulSetDrifts, Zenon
  <2> QED
    BY <1>1, <2>2, <2>3, ContentsByOperand
<1>2. CASE k = Service
  <2>1. v \in ServiceContents
    BY <1>2, ContentsByOperand
  <2>2. [v EXCEPT !.ports = 0] \in ServiceContents
    BY <2>1 DEF ServiceContents
  <2> QED
    BY <1>2, <2>2, ContentsByOperand DEF DriftsOf, Service
<1>3. CASE k = Ingress
  <2>1. v \in IngressContents
    BY <1>3, ContentsByOperand
  <2>2. [v EXCEPT !.rules = [v.rules EXCEPT !.service = "other"]] \in IngressContents
    BY <2>1 DEF IngressContents
  <2> QED
    BY <1>3, <2>2, ContentsByOperand DEF DriftsOf, Ingress
<1>4. CASE k = Configmap
  <2>1. v \in ConfigmapContents
    BY <1>4, ContentsByOperand
  <2>2. [v EXCEPT !.data = "edited"] \in ConfigmapContents
    BY <2>1 DEF ConfigmapContents
  <2> QED
    BY <1>4, <2>2, ContentsByOperand DEF DriftsOf, Configmap
<1>5. CASE \E x : k = PVC(x)
  BY <1>5 DEF DriftsOf, PVC
<1> QED
  BY <1>1, <1>2, <1>3, <1>4, <1>5, FiveOperands

\* The plan meets what Reconciler assumes of one.
LEMMA PlanFits ==
    /\ /\ Len(Plan) \in Nat \ {0}
       /\ CreateOnlySteps \subseteq P!Steps
       /\ {StatefulSet} \subseteq Operands
       /\ WatchedOperands \subseteq Operands
       /\ Resyncs \in BOOLEAN
       /\ Budget \in [P!Disturbances -> Nat]
       /\ GCLead \in Nat
       /\ P!IsFiniteSet(Pods)
    /\ /\ Nil \notin Names
       /\ Nil \notin Specs
    /\ \A sp \in Specs, s \in P!Steps :
          /\ OperandOf(s, sp) \in Operands
          /\ \A t \in P!Steps : OperandOf(s, sp) = OperandOf(t, sp) => s = t
          /\ \A n \in Names, r \in ClassReadings :
                DesiredBy(s, n, sp, r) \in ContentsOf(OperandOf(s, sp))
    /\ /\ \A sp \in Specs, s \in P!Steps \ CreateOnlySteps :
             \A v, d \in ContentsOf(OperandOf(s, sp)) :
                 /\ ManagedBy(s) \subseteq DOMAIN v
                 /\ P!Merge(s, v, d) \in ContentsOf(OperandOf(s, sp))
       /\ \A k \in Operands : \A v \in ContentsOf(k) : DriftsOf(k, v) \subseteq ContentsOf(k)
       /\ \A k \in {StatefulSet} : \A v \in ContentsOf(k) : ReleaseOf(v) \in Names
<1>1. P!Steps = 1 .. 5
  BY PlanLength DEF P!Steps
<1>2. StatefulSet \in Operands /\ WatchedOperands \subseteq Operands
  <2>1. PICK sp \in Specs : TRUE
    BY SpecsAssumption
  <2>2. OperandOf(2, sp) \in Operands
    BY PlanLength DEF Operands
  <2> QED
    BY <2>2, PlanOperands DEF WatchedOperands
<1>3. Budget \in [P!Disturbances -> Nat]
  BY BoundsAssumption DEF Disturbances, P!Disturbances
<1>4. P!IsFiniteSet(Pods)
  BY BoundsAssumption DEF IsFiniteSet, P!IsFiniteSet
<1>5. ASSUME NEW sp \in Specs, NEW s \in P!Steps
      PROVE  /\ OperandOf(s, sp) \in Operands
             /\ \A t \in P!Steps : OperandOf(s, sp) = OperandOf(t, sp) => s = t
             /\ \A n \in Names, r \in ClassReadings :
                   DesiredBy(s, n, sp, r) \in ContentsOf(OperandOf(s, sp))
  <2>1. OperandOf(s, sp) \in Operands
    BY <1>1, PlanLength DEF Operands
  <2>2. ASSUME NEW t \in P!Steps, OperandOf(s, sp) = OperandOf(t, sp)
        PROVE  s = t
    <3>1. /\ s = 1 \/ s = 2 \/ s = 3 \/ s = 4 \/ s = 5
          /\ t = 1 \/ t = 2 \/ t = 3 \/ t = 4 \/ t = 5
      BY <1>1
    <3> QED
      BY <2>2, <3>1, PlanOperands, OperandsDiffer
  <2> QED
    BY <1>1, <2>1, <2>2, DesiredIsContent
<1>6. ASSUME NEW v \in ContentsOf(StatefulSet)
      PROVE  ReleaseOf(v) \in Names
  <2>1. v.selector \in Labels
    BY ContentsByOperand DEF StatefulSetContents
  <2> QED
    BY <2>1 DEF ReleaseOf, Labels, labelsForMustGatherService
<1>7. P!Steps \ CreateOnlySteps = {2, 3, 4}
  BY <1>1, PlanLength
<1> QED
  BY <1>1, <1>2, <1>3, <1>4, <1>5, <1>6, <1>7, PlanLength, BoundsAssumption, MergeIsContent,
     DriftsAreContents

-------------------------------------------------------------------------------
(* MustGatherService is Reconciler with this plan *)

\* Lists of pods are the same in both.
LEMMA SameLists ==
    /\ \A S : SetToSeqs(S) = P!SetToSeqs(S)
    /\ \A list : ToSet(list) = P!ToSet(list)
  BY DEF SetToSeqs, P!SetToSeqs, Cardinality, P!Cardinality, ToSet, P!ToSet

\* Both start in the same states; ...
LEMMA SameInit == Init => P!Init
  BY DEF Init, P!Init, AbsentCR, P!AbsentCR, AbsentObject, P!AbsentObject, NoNodes,
     P!NoNodes

\* ... the worker takes and works through the plan in the same steps, ...
LEMMA SameWorker == (\E n \in Names : Take(n)) \/ Working => P!Next
<1>1. (\E n \in Names : Take(n)) => \E n \in Names : P!Take(n)
  BY DEF Take, P!Take, Begin, P!Begin, Ignore, P!Ignore, server, P!server, caches,
     P!caches, worker, P!worker
<1>2. SkipExisting => P!SkipExisting
  BY DEF SkipExisting, P!SkipExisting, Current, P!Current, Key, P!Key, Proceed,
     P!Proceed, Finish, P!Finish, server, P!server, caches, P!caches, worker,
     P!worker
<1>3. SendCreate => P!SendCreate
  BY DEF SendCreate, P!SendCreate, Current, P!Current, Key, P!Key, Origin, P!Origin,
     Self, P!Self, Send, P!Send, NoNodes, P!NoNodes, server, P!server, caches,
     P!caches, worker, P!worker
<1>4. SendUpdate => P!SendUpdate
  BY DEF SendUpdate, P!SendUpdate, Current, P!Current, Key, P!Key, Origin, P!Origin,
     Self, P!Self, OwnerAfter, P!OwnerAfter, Merge, P!Merge, Spend, P!Spend, Send,
     P!Send, NoNodes, P!NoNodes, server, P!server, caches, P!caches, worker,
     P!worker
<1>5. Report => P!Report
  BY SameLists DEF Report, P!Report, Key, P!Key, Listed, P!Listed, Proceed,
     P!Proceed, Finish, P!Finish, server, P!server, caches, P!caches, worker,
     P!worker
<1>6. SendStatus => P!SendStatus
  BY SameLists DEF SendStatus, P!SendStatus, Key, P!Key, Origin, P!Origin, Listed,
     P!Listed, Spend, P!Spend, Send, P!Send, server, P!server, caches, P!caches,
     worker, P!worker
<1> QED
  BY <1>1, <1>2, <1>3, <1>4, <1>5, <1>6 DEF Working, P!Working, P!Next

\* ... the API server answers it in the same way, ...
LEMMA SameServer == Answered \/ Network => P!Next
<1>1. \A c : Accepted(c) /\ Apply(c) => P!Accepted(c) /\ P!Apply(c)
  BY DEF Accepted, P!Accepted, Apply, P!Apply, Stored, P!Stored, Put, P!Put,
     OwnersOf, P!OwnersOf, Version, P!Version
<1>2. ObjectDone => P!ObjectDone
  BY <1>1 DEF ObjectDone, P!ObjectDone, Key, P!Key, Proceed, P!Proceed, Finish,
     P!Finish, server, P!server, caches, P!caches, worker, P!worker
<1>3. StatusDone => P!StatusDone
  BY <1>1 DEF StatusDone, P!StatusDone, Version, P!Version, Proceed, P!Proceed,
     Finish, P!Finish, server, P!server, caches, P!caches, worker, P!worker
<1>4. Refused => P!Refused
  BY DEF Refused, P!Refused, Accepted, P!Accepted, Retry, P!Retry, Finish, P!Finish,
     server, P!server, caches, P!caches, worker, P!worker
<1>5. Network => P!Network
  BY <1>1 DEF Network, P!Network, Abandon, P!Abandon, Land, P!Land, Lose, P!Lose,
     Spend, P!Spend, Retry, P!Retry, Finish, P!Finish, server, P!server, caches,
     P!caches, worker, P!worker
<1> QED
  BY <1>2, <1>3, <1>4, <1>5 DEF Answered, P!Answered, P!Next

\* ... and informers, users, the cluster and crashes do the same to both.
LEMMA SameSurroundings == Informers \/ Users \/ Cluster \/ Process => P!Next
<1>1. Informers => P!Informers
  BY DEF Informers, P!Informers, SyncCR, P!SyncCR, Resync, P!Resync, SyncOperand,
     P!SyncOperand, Gap, P!Gap, SyncPods, P!SyncPods, Spend, P!Spend, OwnersOf,
     P!OwnersOf, server, P!server, caches, P!caches, worker, P!worker
<1>2. Users => P!Users
  BY DEF Users, P!Users, CreateCR, P!CreateCR, EditSpec, P!EditSpec, DeleteCR,
     P!DeleteCR, RemoveOperand, P!RemoveOperand, EditOperand, P!EditOperand,
     Deleted, P!Deleted, AbsentObject, P!AbsentObject, Put, P!Put, OwnersOf,
     P!OwnersOf, Version, P!Version, NoNodes, P!NoNodes, Spend, P!Spend, server,
     P!server, caches, P!caches, worker, P!worker
<1>3. Cluster => P!Cluster
  BY DEF Cluster, P!Cluster, Collect, P!Collect, Garbage, P!Garbage, PodGone,
     P!PodGone, PodStart, P!PodStart, Deleted, P!Deleted, AbsentObject,
     P!AbsentObject, Put, P!Put, OwnersOf, P!OwnersOf, Version, P!Version, Spend,
     P!Spend, server, P!server, caches, P!caches, worker, P!worker
<1>4. Process => P!Process
  <2>1. AbsentCR = P!AbsentCR /\ \A rv : AbsentObject(rv) = P!AbsentObject(rv)
    BY DEF AbsentCR, P!AbsentCR, AbsentObject, P!AbsentObject, NoNodes, P!NoNodes
  <2>2. \A objects : OwnersOf(objects) = P!OwnersOf(objects)
    BY DEF OwnersOf, P!OwnersOf
  <2>3. Crash => P!Crash
    BY <2>1 DEF Crash, P!Crash, Spend, P!Spend
  <2>4. Restart => P!Restart
    BY <2>2 DEF Restart, P!Restart, server, P!server
  <2> QED
    BY <2>3, <2>4 DEF Process, P!Process
<1> QED
  BY <1>1, <1>2, <1>3, <1>4 DEF P!Next

\* Every behaviour of MustGatherService is one of Reconciler with its plan.
LEMMA PlanImplemented == Spec => P!Spec
<1>1. [Next]_vars => [P!Next]_(P!vars)
  <2>1. vars = P!vars /\ vars' = P!vars'
    BY DEF vars, P!vars, server, P!server, caches, P!caches, worker, P!worker
  <2> QED
    BY <2>1, SameWorker, SameServer, SameSurroundings DEF Next
<1> QED
  BY <1>1, SameInit, PTL DEF Spec, P!Spec

\* So all that is proved of a plan's reconciler is true of this one.
LEMMA PlanWakeups == Spec => []P!WakeupsInv
<1>1. P!Spec => []P!WakeupsInv
  BY PlanFits, P!Wakeups
<1> QED
  BY <1>1, PlanImplemented, PTL

\* The operands are written in the order of the plan, no accepted write carries an
\* older version of the CR than the live object it replaces, and no live operand
\* passes from one controlling CR to another.
THEOREM MustGatherServiceSafe == Spec => []PlanOrder /\ NoRegress /\ OwnerStable
<1>1. P!Spec => []P!PlanOrder /\ P!NoRegress /\ P!OwnerStable
  BY PlanFits, P!OrderKept, P!NeverRegresses, P!OwnersStay
<1>2. P!PlanOrder => PlanOrder
  BY DEF PlanOrder, P!PlanOrder
<1>3. vars = P!vars /\ vars' = P!vars'
  BY DEF vars, P!vars, server, P!server, caches, P!caches, worker, P!worker
<1> DEFINE NoneOlder ==
              \A k \in Operands :
                 (api[k].live /\ api'[k].live /\ api[k].by.name = api'[k].by.name)
                    => api[k].by.gen <= api'[k].by.gen
           OneOwner ==
              \A k \in Operands : (api[k].live /\ api'[k].live)
                 => api[k].owner.name = api'[k].owner.name
<1>4. P!NoRegress => NoRegress
  <2>1. [NoneOlder]_(P!vars) => [NoneOlder]_vars
    BY <1>3
  <2> QED
    BY <2>1, PTL DEF NoRegress, P!NoRegress
<1>5. P!OwnerStable => OwnerStable
  <2>1. [OneOwner]_(P!vars) => [OneOwner]_vars
    BY <1>3
  <2> QED
    BY <2>1, PTL DEF OwnerStable, P!OwnerStable
<1> QED
  BY <1>1, <1>2, <1>4, <1>5, PlanImplemented, PTL

\* Its operands are at all times those of the abstract store.
THEOREM MustGatherServiceStore == Spec => P!Implements
<1>1. P!Spec => P!Implements
  BY PlanFits, P!StoreImplemented
<1> QED
  BY <1>1, PlanImplemented, PTL

-------------------------------------------------------------------------------
(* What the operands hold *)

\* What users give the fields of the StatefulSet.
UserValues == [labels |-> {EditedLabels}, selector |-> {},
               annotations |-> {EditedAnnotations}, volumes |-> {EditedVolumes}]

\* The StatefulSet is written by the one step that looks for it, and users give
\* its labels, annotations and volumes one content each, and its selector none.
LEMMA StatefulSetFields ==
    /\ \A w \in P!Writers(StatefulSet) : w.step = 2
    /\ \A f \in DOMAIN UserValues : \A x :
           P!FromUsers(StatefulSet, f, x) => x \in UserValues[f]
<1>1. P!Steps = 1 .. 5
  BY PlanLength DEF P!Steps
<1>2. ASSUME NEW s \in P!Steps, NEW sp, OperandOf(s, sp) = StatefulSet
      PROVE  s = 2
  <2>1. s = 1 \/ s = 2 \/ s = 3 \/ s = 4 \/ s = 5
    BY <1>1
  <2> QED
    BY <1>2, <2>1, PlanOperands, OperandsDiffer
<1>3. ASSUME NEW v \in ContentsOf(StatefulSet), NEW w \in DriftsOf(StatefulSet, v),
             NEW f \in DOMAIN UserValues, f \in DOMAIN w
      PROVE  f \in DOMAIN v /\ (w[f] = v[f] \/ w[f] \in UserValues[f])
  <2>1. DriftsOf(StatefulSet, v)
           = {[v EXCEPT !.replicas = 0, !.volumes = EditedVolumes],
              [v EXCEPT !.labels = EditedLabels, !.annotations = EditedAnnotations]}
    BY StatefulSetDrifts, Zenon
  <2>2. \/ w = [v EXCEPT !.replicas = 0, !.volumes = EditedVolumes]
        \/ w = [v EXCEPT !.labels = EditedLabels, !.annotations = EditedAnnotations]
    BY <2>1
  <2>3. f \in DOMAIN v /\ (\/ w[f] = v[f]
                           \/ f = "volumes" /\ w[f] = EditedVolumes
                           \/ f = "labels" /\ w[f] = EditedLabels
                           \/ f = "annotations" /\ w[f] = EditedAnnotations)
    <3>1. f # "replicas"
      BY DEF UserValues
    <3> QED
      BY <1>3, <2>2, <3>1
  <2> QED
    BY <2>3 DEF UserValues
<1>4. \A f \in DOMAIN UserValues : \A x :
           P!FromUsers(StatefulSet, f, x) => x \in UserValues[f]
  BY <1>3 DEF P!FromUsers
<1> QED
  BY <1>2, <1>4 DEF P!Writers

\* So what is not a user's of these comes from that step, for a CR that has been
\* there and a claim that has been there.
LEMMA StatefulSetSourced ==
    ASSUME P!WakeupsInv, api[StatefulSet].live,
           NEW f \in {"labels", "selector", "annotations", "volumes"},
           api[StatefulSet].val[f] \notin UserValues[f]
    PROVE  /\ api[StatefulSet].val \in StatefulSetContents
           /\ \E n \in Names, sp \in Specs :
                 /\ P!Known(n)
                 /\ api[PVC(sp.persistentVolumeClaim.name)].rv > 0
                 /\ api[StatefulSet].val[f]
                       = desiredMustGatherServiceStatefulset(n, sp)[f]
<1> DEFINE v == api[StatefulSet].val
<1>1. StatefulSet \in Operands
  BY PlanFits
<1>2. v \in StatefulSetContents
  BY <1>1, ContentsByOperand
     DEF P!WakeupsInv, P!Inv, P!TypeOK, P!ServerOK, P!LiveObjects, P!AbsentObjects
<1>3. v[f] \in P!Sources(StatefulSet, f)
  <2>1. f \in DOMAIN v
    BY <1>2 DEF StatefulSetContents
  <2>2. P!Sourced(StatefulSet, v)
    BY <1>1 DEF P!WakeupsInv, P!FieldsInv
  <2> QED
    BY <2>1, <2>2, StatefulSetFields DEF P!Sourced, UserValues
<1>4. PICK w \in P!Writers(StatefulSet), r \in ClassReadings :
           v[f] = DesiredBy(w.step, w.name, w.spec, r)[f]
  BY <1>3 DEF P!Sources
<1>5. /\ w.step = 2 /\ w.name \in Names /\ w.spec \in Specs
      /\ P!Known(w.name) /\ P!Earlier(api, w.step, w.spec)
  BY StatefulSetFields DEF P!Writers
<1>6. api[PVC(w.spec.persistentVolumeClaim.name)].rv > 0
  BY <1>5, PlanOperands DEF P!Earlier
<1>7. v[f] = desiredMustGatherServiceStatefulset(w.name, w.spec)[f]
  BY <1>4, <1>5, PlanDesired
<1> QED
  BY <1>2, <1>5, <1>6, <1>7

\* The StatefulSet is never there before the claim it mounts has been: whoever
\* wrote its volumes had passed the step of that claim, or is a user.
THEOREM ClaimWasThere == Spec => []ClaimExists
<1>1. P!WakeupsInv => ClaimExists
  <2> SUFFICES ASSUME P!WakeupsInv, api[StatefulSet].live,
                      api[StatefulSet].val.volumes # EditedVolumes
               PROVE  \E k \in Operands :
                         k = PVC(api[StatefulSet].val.volumes) /\ api[k].rv > 0
    BY DEF ClaimExists
  <2>1. PICK n \in Names, sp \in Specs :
             /\ api[PVC(sp.persistentVolumeClaim.name)].rv > 0
             /\ api[StatefulSet].val["volumes"]
                   = desiredMustGatherServiceStatefulset(n, sp)["volumes"]
    BY StatefulSetSourced DEF UserValues
  <2>2. api[StatefulSet].val.volumes = sp.persistentVolumeClaim.name
    BY <2>1 DEF desiredMustGatherServiceStatefulset
  <2>3. PVC(sp.persistentVolumeClaim.name) \in Operands
    BY PlanLength, PlanOperands DEF Operands
  <2> QED
    BY <2>1, <2>2, <2>3
<1> QED
  BY <1>1, PlanWakeups, PTL

-------------------------------------------------------------------------------
(* Nothing is forgotten of what is watched *)

\* What a step manages, what no user can change, what is always the same and the
\* labels and annotations of the StatefulSet are all there is to the operands that
\* are watched and updated.
LEMMA ConvergedIsReached ==
    ASSUME P!WakeupsInv, P!Undisturbed, Delivered, NEW n \in Names, crs[n].live,
           NEW s \in Steps \ CreateOnlySteps, NEW class \in ClassReadings,
           OperandOf(s, crs[n].spec) \in WatchedOperands
    PROVE  Reached(n, s, class)
<1> DEFINE sp == crs[n].spec
           v == api[OperandOf(s, sp)].val
           d == DesiredBy(s, n, sp, class)
<1>1. sp \in Specs /\ P!Known(n) /\ s \in P!Steps
  BY DEF P!WakeupsInv, P!CRsBehind, P!Inv, P!TypeOK, P!ServerOK, P!LiveCRs, P!AbsentCRs,
     Steps, P!Steps
<1>2. s \in {2, 4}
  <2>1. s \in {2, 3, 4}
    BY <1>1, PlanLength DEF P!Steps
  <2>2. Service \notin WatchedOperands
    BY DEF Service, WatchedOperands
  <2> QED
    BY <2>1, <2>2, PlanOperands
<1>3. OperandOf(s, sp) \in Operands
  BY <1>1, PlanFits
<1>4. P!Delivered
  BY DEF Delivered, P!Delivered, Garbage, P!Garbage
<1>5. P!ConvergedAt(n, s)
  BY <1>1, <1>4, PlanFits, P!RestMeansConverged
<1>6. /\ api[OperandOf(s, sp)].live
      /\ \E r \in ClassReadings : \A f \in ManagedBy(s) : v[f] = DesiredBy(s, n, sp, r)[f]
  BY <1>5 DEF P!ConvergedAt, P!Fulfils
<1>7. \A f \in ManagedBy(s) : v[f] = d[f]
  BY <1>2, <1>6, PlanDesired
<1>8. v \in ContentsOf(OperandOf(s, sp))
  BY <1>3, <1>6
     DEF P!WakeupsInv, P!Inv, P!TypeOK, P!ServerOK, P!LiveObjects, P!AbsentObjects
<1>9. CASE s = 2
  <2>1. v \in StatefulSetContents /\ d = desiredMustGatherServiceStatefulset(n, sp)
    BY <1>8, <1>9, PlanOperands, PlanDesired, ContentsByOperand
  <2>2. \A f \in updateMustGatherServiceStatefulSet : v[f] = d[f]
    BY <1>7, <1>9, PlanManaged
  <2>3. ASSUME NEW f \in {"labels", "selector", "annotations"}, v[f] \notin UserValues[f]
        PROVE  v[f] = d[f]
    <3>1. api[StatefulSet].live /\ v = api[StatefulSet].val
      BY <1>6, <1>9, PlanOperands
    <3>2. PICK m \in Names, ms \in Specs :
               P!Known(m) /\ v[f] = desiredMustGatherServiceStatefulset(m, ms)[f]
      BY <2>3, <3>1, StatefulSetSourced
    <3>3. m = n
      BY <1>1, <3>2 DEF P!Undisturbed, P!Lone
    <3> HIDE DEF v, d
    <3> QED
      BY <2>1, <3>2, <3>3 DEF desiredMustGatherServiceStatefulset
  <2>4. /\ v.labels \in {d.labels, EditedLabels} /\ v.selector = d.selector
        /\ v.annotations \in {d.annotations, EditedAnnotations}
    BY <2>3 DEF UserValues
  <2>5. OperandOf(s, sp) = StatefulSet
    BY <1>9, PlanOperands
  <2> HIDE DEF v, d
  <2>6. v = [d EXCEPT !.labels = v.labels, !.annotations = v.annotations]
    BY <2>1, <2>2, <2>4
       DEF desiredMustGatherServiceStatefulset, updateMustGatherServiceStatefulSet,
           StatefulSetContents
  <2>7. \E l \in {d.labels, EditedLabels}, a \in {d.annotations, EditedAnnotations} :
           v = [d EXCEPT !.labels = l, !.annotations = a]
    BY <2>4, <2>6
  <2> QED
    BY <2>5, <2>7, Zenon DEF Reached, v, d
<1>10. CASE s = 4
  <2>1. v \in IngressContents /\ d = desiredMustGatherServiceIngress(n)
    BY <1>8, <1>10, PlanOperands, PlanDesired, ContentsByOperand
  <2>2. \A f \in updateMustGatherServiceIngress : v[f] = d[f]
    BY <1>7, <1>10, PlanManaged
  <2> HIDE DEF v, d
  <2>3. v = d
    BY <2>1, <2>2
       DEF desiredMustGatherServiceIngress, updateMustGatherServiceIngress, IngressContents
  <2> QED
    BY <2>3, Zenon DEF Reached, v, d
<1> QED
  BY <1>2, <1>9, <1>10

\* At rest the StatefulSet and the Ingress are what the spec makes them to the last
\* field, except for labels and annotations that a user wrote into the StatefulSet,
\* as long as one CR name is used and no watch breaks.
THEOREM WatchedIsReached == Spec => [](P!Undisturbed => WatchedReached)
<1>1. P!WakeupsInv => (P!Undisturbed => WatchedReached)
  BY ConvergedIsReached DEF WatchedReached
<1> QED
  BY <1>1, PlanWakeups, PTL

===============================================================================
