-------------------------- MODULE HealthServiceProofs --------------------------
(***************************************************************************)
(* What is proved of every plan, for the plan of HealthService; and what   *)
(* its operands hold.                                                      *)
(***************************************************************************)
EXTENDS HealthService, TLAPS

P == INSTANCE ReconcilerWakeups WITH
    Keys <- Operands,
    NSteps <- Len(Plan),
    CreateOnly <- CreateOnlySteps,
    Workloads <- Deployments,
    Watched <- Operands,
    Readings <- {ManifestReadable},
    Target <- OperandOf,
    Desired <- DesiredBy,
    Managed <- ManagedBy,
    Contents <- ContentsOf,
    Admits <- AdmitsContent,
    Release <- ReleaseOf,
    Drifts <- DriftsOf

-------------------------------------------------------------------------------
(* The plan *)

\* There are six steps; the ConfigMap is only created.
LEMMA PlanLength ==
    /\ Len(Plan) = 6 /\ DOMAIN Plan = 1 .. 6
    /\ CreateOnlySteps = {3}
<1>1. Len(Plan) = 6 /\ DOMAIN Plan = 1 .. 6
  BY DEF Plan
<1>2. CreateOnlySteps = {3}
  BY <1>1 DEF CreateOnlySteps, Plan
<1> QED
  BY <1>1, <1>2

\* What each step writes, ...
LEMMA PlanOperands ==
    ASSUME NEW sp
    PROVE  /\ OperandOf(1, sp) = MemcachedDeployment
           /\ OperandOf(2, sp) = MemcachedService
           /\ OperandOf(3, sp) = Configmap(sp.healthService.configmapName)
           /\ OperandOf(4, sp) = HealthServiceDeployment
           /\ OperandOf(5, sp) = HealthServiceService
           /\ OperandOf(6, sp) = HealthServiceIngress
  BY DEF OperandOf, Plan

\* ... what it asks for, ...
LEMMA PlanDesired ==
    ASSUME NEW n, NEW sp, NEW r
    PROVE  /\ DesiredBy(1, n, sp, r) = desiredMemcachedDeployment(n, sp)
           /\ DesiredBy(2, n, sp, r) = desiredMemcachedService(n)
           /\ DesiredBy(3, n, sp, r) = HealthServiceConfigmap(n, r)
           /\ DesiredBy(4, n, sp, r) = desiredHealthServiceDeployment(n, sp)
           /\ DesiredBy(5, n, sp, r) = desiredHealthServiceService(n)
           /\ DesiredBy(6, n, sp, r) = desiredHealthServiceIngress(n)
  BY DEF DesiredBy, Plan

\* ... and what of it when there is something already.
LEMMA PlanManaged ==
    /\ ManagedBy(1) = updateMemcachedDeployment
    /\ ManagedBy(2) = updateMemcachedService
    /\ ManagedBy(4) = updateHealthServiceDeployment
    /\ ManagedBy(5) = updateHealthServiceService
    /\ ManagedBy(6) = updateHealthServiceIngress
  BY DEF ManagedBy, Plan

\* No two operands are the same.
LEMMA OperandsDiffer ==
    /\ MemcachedDeployment # HealthServiceDeployment
    /\ MemcachedService \notin {MemcachedDeployment, HealthServiceDeployment}
    /\ HealthServiceService \notin
          {MemcachedDeployment, HealthServiceDeployment, MemcachedService}
    /\ HealthServiceIngress \notin
          {MemcachedDeployment, HealthServiceDeployment, MemcachedService,
           HealthServiceService}
    /\ \A x : Configmap(x) \notin
          {MemcachedDeployment, HealthServiceDeployment, MemcachedService,
           HealthServiceService, HealthServiceIngress}
  BY DEF MemcachedDeployment, MemcachedService, Configmap, HealthServiceDeployment,
     HealthServiceService, HealthServiceIngress, memResourceName, memSvcName,
     healthResourceName

\* What each operand can hold.
LEMMA ContentsByOperand ==
    /\ ContentsOf(MemcachedDeployment) = MemcachedDeploymentContents
    /\ ContentsOf(MemcachedService) = MemcachedServiceContents
    /\ ContentsOf(HealthServiceDeployment) = HealthServiceDeploymentContents
    /\ ContentsOf(HealthServiceService) = HealthServiceServiceContents
    /\ ContentsOf(HealthServiceIngress) = HealthServiceIngressContents
    /\ \A x : ContentsOf(Configmap(x)) = ConfigmapContents
  BY OperandsDiffer DEF ContentsOf

\* What a step asks for is a content of its operand.
LEMMA DesiredIsContent ==
    ASSUME NEW sp \in Specs, NEW s \in 1 .. 6, NEW n \in Names, NEW r \in {ManifestReadable}
    PROVE  DesiredBy(s, n, sp, r) \in ContentsOf(OperandOf(s, sp))
<1>1. sp.memcached.replicas \in Int /\ sp.healthService.replicas \in Int
  BY SpecsAssumption DEF HealthServiceSpecs
<1>2. labelsForMemcached(n) \in MemcachedLabels /\ labelsForHealthService(n) \in HealthLabels
  BY DEF MemcachedLabels, HealthLabels
<1>3. ReplicasOf(sp.memcached) \in Nat /\ ReplicasOf(sp.healthService) \in Nat
  BY <1>1 DEF ReplicasOf
<1>4. desiredMemcachedDeployment(n, sp) \in MemcachedDeploymentContents
  BY <1>2, <1>3 DEF desiredMemcachedDeployment, MemcachedDeploymentContents
<1>5. desiredMemcachedService(n) \in MemcachedServiceContents
  BY <1>2 DEF desiredMemcachedService, MemcachedServiceContents
<1>6. HealthServiceConfigmap(n, r) \in ConfigmapContents
  BY <1>2 DEF HealthServiceConfigmap, ConfigmapContents
<1>7. desiredHealthServiceDeployment(n, sp) \in HealthServiceDeploymentContents
  BY <1>1, <1>2, <1>3 DEF desiredHealthServiceDeployment, HealthServiceDeploymentContents
<1>8. desiredHealthServiceService(n) \in HealthServiceServiceContents
  BY <1>2 DEF desiredHealthServiceService, HealthServiceServiceContents
<1>9. desiredHealthServiceIngress(n) \in HealthServiceIngressContents
  BY <1>2 DEF desiredHealthServiceIngress, HealthServiceIngressContents
<1>10. s = 1 \/ s = 2 \/ s = 3 \/ s = 4 \/ s = 5 \/ s = 6
  OBVIOUS
<1> QED
  BY <1>4, <1>5, <1>6, <1>7, <1>8, <1>9, <1>10, PlanOperands, PlanDesired, ContentsByOperand

\* So is what an update makes of one.
LEMMA MergeIsContent ==
    ASSUME NEW sp \in Specs, NEW s \in 1 .. 6, s # 3,
           NEW v \in ContentsOf(OperandOf(s, sp)), NEW d \in ContentsOf(OperandOf(s, sp))
    PROVE  /\ ManagedBy(s) \subseteq DOMAIN v
           /\ P!Merge(s, v, d) \in ContentsOf(OperandOf(s, sp))
<1>1. CASE s = 1
  <2>1. v \in MemcachedDeploymentContents /\ d \in MemcachedDeploymentContents
    BY <1>1, PlanOperands, ContentsByOperand
  <2>2. ManagedBy(s) = updateMemcachedDeployment
    BY <1>1, PlanManaged
  <2>3. ManagedBy(s) \subseteq DOMAIN v /\ P!Merge(s, v, d) \in MemcachedDeploymentContents
    BY <2>1, <2>2 DEF P!Merge, updateMemcachedDeployment, MemcachedDeploymentContents
  <2> QED
    BY <1>1, <2>3, PlanOperands, ContentsByOperand
<1>2. CASE s = 2
  <2>1. v \in MemcachedServiceContents /\ d \in MemcachedServiceContents
    BY <1>2, PlanOperands, ContentsByOperand
  <2>2. ManagedBy(s) = updateMemcachedService
    BY <1>2, PlanManaged
  <2>3. ManagedBy(s) \subseteq DOMAIN v /\ P!Merge(s, v, d) \in MemcachedServiceContents
    BY <2>1, <2>2 DEF P!Merge, updateMemcachedService, MemcachedServiceContents
  <2> QED
    BY <1>2, <2>3, PlanOperands, ContentsByOperand
<1>3. CASE s = 4
  <2>1. v \in HealthServiceDeploymentContents /\ d \in HealthServiceDeploymentContents
    BY <1>3, PlanOperands, ContentsByOperand
  <2>2. ManagedBy(s) = updateHealthServiceDeployment
    BY <1>3, PlanManaged
  <2>3. ManagedBy(s) \subseteq DOMAIN v /\ P!Merge(s, v, d) \in HealthServiceDeploymentContents
    BY <2>1, <2>2 DEF P!Merge, updateHealthServiceDeployment, HealthServiceDeploymentContents
  <2> QED
    BY <1>3, <2>3, PlanOperands, ContentsByOperand
<1>4. CASE s = 5
  <2>1. v \in HealthServiceServiceContents /\ d \in HealthServiceServiceContents
    BY <1>4, PlanOperands, ContentsByOperand
  <2>2. ManagedBy(s) = updateHealthServiceService
    BY <1>4, PlanManaged
  <2>3. ManagedBy(s) \subseteq DOMAIN v /\ P!Merge(s, v, d) \in HealthServiceServiceContents
    BY <2>1, <2>2 DEF P!Merge, updateHealthServiceService, HealthServiceServiceContents
  <2> QED
    BY <1>4, <2>3, PlanOperands, ContentsByOperand
<1>5. CASE s = 6
  <2>1. v \in HealthServiceIngressContents /\ d \in HealthServiceIngressContents
    BY <1>5, PlanOperands, ContentsByOperand
  <2>2. ManagedBy(s) = updateHealthServiceIngress
    BY <1>5, PlanManaged
  <2>3. ManagedBy(s) \subseteq DOMAIN v /\ P!Merge(s, v, d) \in HealthServiceIngressContents
    BY <2>1, <2>2 DEF P!Merge, updateHealthServiceIngress, HealthServiceIngressContents
  <2> QED
    BY <1>5, <2>3, PlanOperands, ContentsByOperand
<1> QED
  BY <1>1, <1>2, <1>3, <1>4, <1>5

\* An operand is one of the six.
LEMMA SixOperands ==
    ASSUME NEW k \in Operands
    PROVE  \/ k \in {MemcachedDeployment, MemcachedService, HealthServiceDeployment,
                     HealthServiceService, HealthServiceIngress}
           \/ \E x : k = Configmap(x)
<1>1. PICK s \in 1 .. 6, sp \in Specs : k = OperandOf(s, sp)
  BY PlanLength DEF Operands
<1>2. s = 1 \/ s = 2 \/ s = 3 \/ s = 4 \/ s = 5 \/ s = 6
  OBVIOUS
<1> QED
  BY <1>1, <1>2, PlanOperands

\* What users make of the two Deployments.
LEMMA DeploymentDrifts ==
    ASSUME NEW v
    PROVE  /\ DriftsOf(MemcachedDeployment, v)
                 = {[v EXCEPT !.replicas = 0], [v EXCEPT !.labels = EditedLabels]}
           /\ DriftsOf(HealthServiceDeployment, v)
                 = {[v EXCEPT !.replicas = 0, !.volumes = EditedVolumes],
                    [v EXCEPT !.labels = EditedLabels]}
<1>1. \A k \in {MemcachedDeployment, HealthServiceDeployment} :
         k[1] # "Service" /\ k[1] # "Ingress" /\ k[1] # "ConfigMap"
  BY DEF MemcachedDeployment, HealthServiceDeployment
<1>2. MemcachedDeployment # HealthServiceDeployment
  BY OperandsDiffer
<1> QED
  BY <1>1, <1>2, Zenon DEF DriftsOf

\* What users make of a content of an operand is one, too.
LEMMA DriftsAreContents ==
    ASSUME NEW k \in Operands, NEW v \in ContentsOf(k)
    PROVE  DriftsOf(k, v) \subseteq ContentsOf(k)
<1>1. CASE k = MemcachedDeployment
  <2>1. v \in MemcachedDeploymentContents
    BY <1>1, ContentsByOperand
  <2>2. /\ [v EXCEPT !.replicas = 0] \in MemcachedDeploymentContents
        /\ [v EXCEPT !.labels = EditedLabels] \in MemcachedDeploymentContents
    BY <2>1 DEF MemcachedDeploymentContents
  <2>3. DriftsOf(MemcachedDeployment, v)
           = {[v EXCEPT !.replicas = 0], [v EXCEPT !.labels = EditedLabels]}
    BY DeploymentDrifts, Zenon
  <2> QED
    BY <1>1, <2>2, <2>3, ContentsByOperand
<1>2. CASE k = HealthServiceDeployment
  <2>1. v \in HealthServiceDeploymentContents
    BY <1>2, ContentsByOperand
  <2>2. /\ [v EXCEPT !.replicas = 0, !.volumes = EditedVolumes]
              \in HealthServiceDeploymentContents
        /\ [v EXCEPT !.labels = EditedLabels] \in HealthServiceDeploymentContents
    BY <2>1 DEF HealthServiceDeploymentContents
  <2>3. DriftsOf(HealthServiceDeployment, v)
           = {[v EXCEPT !.replicas = 0, !.volumes = EditedVolumes],
              [v EXCEPT !.labels = EditedLabels]}
    BY DeploymentDrifts, Zenon
  <2> QED
    BY <1>2, <2>2, <2>3, ContentsByOperand
<1>3. CASE k = MemcachedService
  <2>1. v \in MemcachedServiceContents
    BY <1>3, ContentsByOperand
  <2>2. [v EXCEPT !.ports = 0] \in MemcachedServiceContents
    BY <2>1 DEF MemcachedServiceContents
  <2> QED
    BY <1>3, <2>2, ContentsByOperand, OperandsDiffer DEF DriftsOf, MemcachedService
<1>4. CASE k = HealthServiceService
  <2>1. v \in HealthServiceServiceContents
    BY <1>4, ContentsByOperand
  <2>2. [v EXCEPT !.ports = 0] \in HealthServiceServiceContents
    BY <2>1 DEF HealthServiceServiceContents
  <2> QED
    BY <1>4, <2>2, ContentsByOperand, OperandsDiffer DEF DriftsOf, HealthServiceService
<1>5. CASE k = HealthServiceIngress
  <2>1. v \in HealthServiceIngressContents
    BY <1>5, ContentsByOperand
  <2>2. [v EXCEPT !.rules = [v.rules EXCEPT !.service = "other"]]
           \in HealthServiceIngressContents
    BY <2>1 DEF HealthServiceIngressContents
  <2> QED
    BY <1>5, <2>2, ContentsByOperand, OperandsDiffer DEF DriftsOf, HealthServiceIngress
<1>6. CASE \E x : k = Configmap(x)
  <2>1. v \in ConfigmapContents
    BY <1>6, ContentsByOperand
  <2>2. [v EXCEPT !.data = "edited"] \in ConfigmapContents
    BY <2>1 DEF ConfigmapContents
  <2> QED
    BY <1>6, <2>2, ContentsByOperand, OperandsDiffer DEF DriftsOf, Configmap
<1> QED
  BY <1>1, <1>2, <1>3, <1>4, <1>5, <1>6, SixOperands

\* The plan meets what Reconciler assumes of one.
LEMMA PlanFits ==
    /\ /\ Len(Plan) \in Nat \ {0}
       /\ CreateOnlySteps \subseteq P!Steps
       /\ Deployments \subseteq Operands
       /\ Operands \subseteq Operands
       /\ Resyncs \in BOOLEAN
       /\ Budget \in [P!Disturbances -> Nat]
       /\ GCLead \in Nat
       /\ P!IsFiniteSet(Pods)
    /\ /\ Nil \notin Names
       /\ Nil \notin Specs
    /\ \A sp \in Specs, s \in P!Steps :
          /\ OperandOf(s, sp) \in Operands
          /\ \A t \in P!Steps : OperandOf(s, sp) = OperandOf(t, sp) => s = t
          /\ \A n \in Names, r \in {ManifestReadable} :
                DesiredBy(s, n, sp, r) \in ContentsOf(OperandOf(s, sp))
    /\ /\ \A sp \in Specs, s \in P!Steps \ CreateOnlySteps :
             \A v, d \in ContentsOf(OperandOf(s, sp)) :
                 /\ ManagedBy(s) \subseteq DOMAIN v
                 /\ P!Merge(s, v, d) \in ContentsOf(OperandOf(s, sp))
       /\ \A k \in Operands : \A v \in ContentsOf(k) : DriftsOf(k, v) \subseteq ContentsOf(k)
       /\ \A k \in Deployments : \A v \in ContentsOf(k) : ReleaseOf(v) \in Names
<1>1. P!Steps = 1 .. 6
  BY PlanLength DEF P!Steps
<1>2. Deployments \subseteq Operands
  <2>1. PICK sp \in Specs : TRUE
    BY SpecsAssumption
  <2>2. OperandOf(1, sp) \in Operands /\ OperandOf(4, sp) \in Operands
    BY PlanLength DEF Operands
  <2> QED
    BY <2>2, PlanOperands DEF Deployments
<1>3. Budget \in [P!Disturbances -> Nat]
  BY BoundsAssumption DEF Disturbances, P!Disturbances
<1>4. P!IsFiniteSet(Pods)
  BY BoundsAssumption DEF IsFiniteSet, P!IsFiniteSet
<1>5. ASSUME NEW sp \in Specs, NEW s \in P!Steps
      PROVE  /\ OperandOf(s, sp) \in Operands
             /\ \A t \in P!Steps : OperandOf(s, sp) = OperandOf(t, sp) => s = t
             /\ \A n \in Names, r \in {ManifestReadable} :
                   DesiredBy(s, n, sp, r) \in ContentsOf(OperandOf(s, sp))
  <2>1. OperandOf(s, sp) \in Operands
    BY <1>1, PlanLength DEF Operands
  <2>2. ASSUME NEW t \in P!Steps, OperandOf(s, sp) = OperandOf(t, sp)
        PROVE  s = t
    <3>1. /\ s = 1 \/ s = 2 \/ s = 3 \/ s = 4 \/ s = 5 \/ s = 6
          /\ t = 1 \/ t = 2 \/ t = 3 \/ t = 4 \/ t = 5 \/ t = 6
      BY <1>1
    <3> QED
      BY <2>2, <3>1, PlanOperands, OperandsDiffer
  <2> QED
    BY <1>1, <2>1, <2>2, DesiredIsContent
<1>6. ASSUME NEW k \in Deployments, NEW v \in ContentsOf(k)
      PROVE  ReleaseOf(v) \in Names
  <2>1. v \in MemcachedDeploymentContents \/ v \in HealthServiceDeploymentContents
    BY ContentsByOperand DEF Deployments
  <2>2. v.selector \in MemcachedLabels \/ v.selector \in HealthLabels
    BY <2>1 DEF MemcachedDeploymentContents, HealthServiceDeploymentContents
  <2> QED
    BY <2>2 DEF ReleaseOf, MemcachedLabels, HealthLabels, labelsForMemcached,
       labelsForHealthService
<1> QED
  BY <1>1, <1>2, <1>3, <1>4, <1>5, <1>6, PlanLength, BoundsAssumption, MergeIsContent,
     DriftsAreContents

-------------------------------------------------------------------------------
(* HealthService is Reconciler with this plan *)

\* Lists of pods are the same in both.
LEMMA SameLists ==
    /\ \A S : SetToSeqs(S) = P!SetToSeqs(S)
    /\ \A list : ToSet(list) = P!ToSet(list)
  BY DEF SetToSeqs, P!SetToSeqs, Cardinality, P!Cardinality, ToSet, P!ToSet

\* Both start in the same states; ...
LEMMA SameInit == Init => P!Init
  BY DEF Init, P!Init, AbsentCR, P!AbsentCR, AbsentObject, P!AbsentObject, NoNodes,
     P!NoNodes

\* ... the worker takes and works through the plan in the same steps, ...
LEMMA SameWorker == (\E n \in Names : Take(n)) \/ Working => P!Next
<1>1. (\E n \in Names : Take(n)) => \E n \in Names : P!Take(n)
  BY DEF Take, P!Take, Begin, P!Begin, Ignore, P!Ignore, server, P!server, caches,
     P!caches, worker, P!worker
<1>2. SkipExisting => P!SkipExisting
  BY DEF SkipExisting, P!SkipExisting, Current, P!Current, Key, P!Key, Proceed,
     P!Proceed, Finish, P!Finish, server, P!server, caches, P!caches, worker,
     P!worker
<1>3. SendCreate => P!SendCreate
  BY DEF SendCreate, P!SendCreate, Current, P!Current, Key, P!Key, Origin, P!Origin,
     Self, P!Self, Send, P!Send, NoNodes, P!NoNodes, server, P!server, caches,
     P!caches, worker, P!worker
<1>4. SendUpdate => P!SendUpdate
  BY DEF SendUpdate, P!SendUpdate, Current, P!Current, Key, P!Key, Origin, P!Origin,
     Self, P!Self, OwnerAfter, P!OwnerAfter, Merge, P!Merge, Spend, P!Spend, Send,
     P!Send, NoNodes, P!NoNodes, server, P!server, caches, P!caches, worker,
     P!worker
<1>5. Report => P!Report
  BY SameLists DEF Report, P!Report, Key, P!Key, Listed, P!Listed, Proceed,
     P!Proceed, Finish, P!Finish, server, P!server, caches, P!caches, worker,
     P!worker
<1>6. SendStatus => P!SendStatus
  BY SameLists DEF SendStatus, P!SendStatus, Key, P!Key, Origin, P!Origin, Listed,
     P!Listed, Spend, P!Spend, Send, P!Send, server, P!server, caches, P!caches,
     worker, P!worker
<1> QED
  BY <1>1, <1>2, <1>3, <1>4, <1>5, <1>6 DEF Working, P!Working, P!Next

\* ... the API server answers it in the same way, ...
LEMMA SameServer == Answered \/ Network => P!Next
<1>1. \A c : Accepted(c) /\ Apply(c) => P!Accepted(c) /\ P!Apply(c)
  BY DEF Accepted, P!Accepted, Apply, P!Apply, Stored, P!Stored, Put, P!Put,
     OwnersOf, P!OwnersOf, Version, P!Version
<1>2. ObjectDone => P!ObjectDone
  BY <1>1 DEF ObjectDone, P!ObjectDone, Key, P!Key, Proceed, P!Proceed, Finish,
     P!Finish, server, P!server, caches, P!caches, worker, P!worker
<1>3. StatusDone => P!StatusDone
  BY <1>1 DEF StatusDone, P!StatusDone, Version, P!Version, Proceed, P!Proceed,
     Finish, P!Finish, server, P!server, caches, P!caches, worker, P!worker
<1>4. Refused => P!Refused
  BY DEF Refused, P!Refused, Accepted, P!Accepted, Retry, P!Retry, Finish, P!Finish,
     server, P!server, caches, P!caches, worker, P!worker
<1>5. Network => P!Network
  BY <1>1 DEF Network, P!Network, Abandon, P!Abandon, Land, P!Land, Lose, P!Lose,
     Spend, P!Spend, Retry, P!Retry, Finish, P!Finish, server, P!server, caches,
     P!caches, worker, P!worker
<1> QED
  BY <1>2, <1>3, <1>4, <1>5 DEF Answered, P!Answered, P!Next

\* ... and informers, users, the cluster and crashes do the same to both.
LEMMA SameSurroundings == Informers \/ Users \/ Cluster \/ Process => P!Next
<1>1. Informers => P!Informers
  BY DEF Informers, P!Informers, SyncCR, P!SyncCR, Resync, P!Resync, SyncOperand,
     P!SyncOperand, Gap, P!Gap, SyncPods, P!SyncPods, Spend, P!Spend, OwnersOf,
     P!OwnersOf, server, P!server, caches, P!caches, worker, P!worker
<1>2. Users => P!Users
  BY DEF Users, P!Users, CreateCR, P!CreateCR, EditSpec, P!EditSpec, DeleteCR,
     P!DeleteCR, RemoveOperand, P!RemoveOperand, EditOperand, P!EditOperand,
     Deleted, P!Deleted, AbsentObject, P!AbsentObject, Put, P!Put, OwnersOf,
     P!OwnersOf, Version, P!Version, NoNodes, P!NoNodes, Spend, P!Spend, server,
     P!server, caches, P!caches, worker, P!worker
<1>3. Cluster => P!Cluster
  BY DEF Cluster, P!Cluster, Collect, P!Collect, Garbage, P!Garbage, PodGone,
     P!PodGone, PodStart, P!PodStart, Deleted, P!Deleted, AbsentObject,
     P!AbsentObject, Put, P!Put, OwnersOf, P!OwnersOf, Version, P!Version, Spend,
     P!Spend, server, P!server, caches, P!caches, worker, P!worker
<1>4. Process => P!Process
  <2>1. AbsentCR = P!AbsentCR /\ \A rv : AbsentObject(rv) = P!AbsentObject(rv)
    BY DEF AbsentCR, P!AbsentCR, AbsentObject, P!AbsentObject, NoNodes, P!NoNodes
  <2>2. \A objects : OwnersOf(objects) = P!OwnersOf(objects)
    BY DEF OwnersOf, P!OwnersOf
  <2>3. Crash => P!Crash
    BY <2>1 DEF Crash, P!Crash, Spend, P!Spend
  <2>4. Restart => P!Restart
    BY <2>2 DEF Restart, P!Restart, server, P!server
  <2> QED
    BY <2>3, <2>4 DEF Process, P!Process
<1> QED
  BY <1>1, <1>2, <1>3, <1>4 DEF P!Next

\* Every behaviour of HealthService is one of Reconciler with its plan.
LEMMA PlanImplemented == Spec => P!Spec
<1>1. [Next]_vars => [P!Next]_(P!vars)
  <2>1. vars = P!vars /\ vars' = P!vars'
    BY DEF vars, P!vars, server, P!server, caches, P!caches, worker, P!worker
  <2> QED
    BY <2>1, SameWorker, SameServer, SameSurroundings DEF Next
<1> QED
  BY <1>1, SameInit, PTL DEF Spec, P!Spec

\* So all that is proved of a plan's reconciler is true of this one.
LEMMA PlanWakeups == Spec => []P!WakeupsInv
<1>1. P!Spec => []P!WakeupsInv
  BY PlanFits, P!Wakeups
<1> QED
  BY <1>1, PlanImplemented, PTL

\* The operands are written in the order of the plan, no accepted write carries an
\* older version of the CR than the live object it replaces, and no live operand
\* passes from one controlling CR to another.
THEOREM HealthServiceSafe == Spec => []PlanOrder /\ NoRegress /\ OwnerStable
<1>1. P!Spec => []P!PlanOrder /\ P!NoRegress /\ P!OwnerStable
  BY PlanFits, P!OrderKept, P!NeverRegresses, P!OwnersStay
<1>2. P!PlanOrder => PlanOrder
  BY DEF PlanOrder, P!PlanOrder
<1>3. vars = P!vars /\ vars' = P!vars'
  BY DEF vars, P!vars, server, P!server, caches, P!caches, worker, P!worker
<1> DEFINE NoneOlder ==
              \A k \in Operands :
                 (api[k].live /\ api'[k].live /\ api[k].by.name = api'[k].by.name)
                    => api[k].by.gen <= api'[k].by.gen
           OneOwner ==
              \A k \in Operands : (api[k].live /\ api'[k].live)
                 => api[k].owner.name = api'[k].owner.name
<1>4. P!NoRegress => NoRegress
  <2>1. [NoneOlder]_(P!vars) => [NoneOlder]_vars
    BY <1>3
  <2> QED
    BY <2>1, PTL DEF NoRegress, P!NoRegress
<1>5. P!OwnerStable => OwnerStable
  <2>1. [OneOwner]_(P!vars) => [OneOwner]_vars
    BY <1>3
  <2> QED
    BY <2>1, PTL DEF OwnerStable, P!OwnerStable
<1> QED
  BY <1>1, <1>2, <1>4, <1>5, PlanImplemented, PTL

\* Its operands are at all times those of the abstract store.
THEOREM HealthServiceStore == Spec => P!Implements
<1>1. P!Spec => P!Implements
  BY PlanFits, P!StoreImplemented
<1> QED
  BY <1>1, PlanImplemented, PTL

-------------------------------------------------------------------------------
(* What the operands hold *)

\* Users give the volumes of the health service Deployment and the labels of both
\* Deployments one content each, and the selectors none.
LEMMA UserFields ==
    /\ \A x : P!FromUsers(HealthServiceDeployment, "volumes", x) => x = EditedVolumes
    /\ \A k \in Deployments : \A x :
          /\ P!FromUsers(k, "labels", x) => x = EditedLabels
          /\ ~P!FromUsers(k, "selector", x)
<1>1. ASSUME NEW v \in ContentsOf(MemcachedDeployment),
             NEW w \in DriftsOf(MemcachedDeployment, v),
             NEW f \in {"labels", "selector"}, f \in DOMAIN w
      PROVE  f \in DOMAIN v /\ (w[f] = v[f] \/ (f = "labels" /\ w[f] = EditedLabels))
  <2>1. DriftsOf(MemcachedDeployment, v)
           = {[v EXCEPT !.replicas = 0], [v EXCEPT !.labels = EditedLabels]}
    BY DeploymentDrifts, Zenon
  <2>2. w = [v EXCEPT !.replicas = 0] \/ w = [v EXCEPT !.labels = EditedLabels]
    BY <2>1
  <2> QED
    BY <1>1, <2>2
<1>2. ASSUME NEW v \in ContentsOf(HealthServiceDeployment),
             NEW w \in DriftsOf(HealthServiceDeployment, v),
             NEW f \in {"labels", "selector", "volumes"}, f \in DOMAIN w
      PROVE  /\ f \in DOMAIN v
             /\ \/ w[f] = v[f]
                \/ f = "labels" /\ w[f] = EditedLabels
                \/ f = "volumes" /\ w[f] = EditedVolumes
  <2>1. DriftsOf(HealthServiceDeployment, v)
           = {[v EXCEPT !.replicas = 0, !.volumes = EditedVolumes],
              [v EXCEPT !.labels = EditedLabels]}
    BY DeploymentDrifts, Zenon
  <2>2. \/ w = [v EXCEPT !.replicas = 0, !.volumes = EditedVolumes]
        \/ w = [v EXCEPT !.labels = EditedLabels]
    BY <2>1
  <2> QED
    BY <1>2, <2>2
<1>3. ASSUME NEW x, P!FromUsers(HealthServiceDeployment, "volumes", x)
      PROVE  x = EditedVolumes
  BY <1>2, <1>3 DEF P!FromUsers
<1>4. ASSUME NEW k \in Deployments, NEW x
      PROVE  /\ P!FromUsers(k, "labels", x) => x = EditedLabels
             /\ ~P!FromUsers(k, "selector", x)
  BY <1>1, <1>2 DEF P!FromUsers, Deployments
<1> QED
  BY <1>3, <1>4

\* A Deployment is written by the one step that looks for it.
LEMMA DeploymentWriters ==
    /\ \A w \in P!Writers(MemcachedDeployment) : w.step = 1
    /\ \A w \in P!Writers(HealthServiceDeployment) : w.step = 4
<1>1. P!Steps = 1 .. 6
  BY PlanLength DEF P!Steps
<1>2. ASSUME NEW s \in P!Steps, NEW sp
      PROVE  /\ OperandOf(s, sp) = MemcachedDeployment => s = 1
             /\ OperandOf(s, sp) = HealthServiceDeployment => s = 4
  <2>1. s = 1 \/ s = 2 \/ s = 3 \/ s = 4 \/ s = 5 \/ s = 6
    BY <1>1
  <2> QED
    BY <2>1, PlanOperands, OperandsDiffer
<1> QED
  BY <1>2 DEF P!Writers

\* What the health service Deployment mounts is a step's, unless it is a user's.
LEMMA VolumeSourced == P!WakeupsInv => VolumeExists
<1> SUFFICES ASSUME P!WakeupsInv, api[HealthServiceDeployment].live,
                    api[HealthServiceDeployment].val.volumes # EditedVolumes
             PROVE  \E k \in Operands :
                       /\ k = Configmap(api[HealthServiceDeployment].val.volumes)
                       /\ api[k].rv > 0
  BY DEF VolumeExists
<1> DEFINE v == api[HealthServiceDeployment].val
<1>1. HealthServiceDeployment \in Operands
  BY PlanFits DEF Deployments
<1>2. P!Sourced(HealthServiceDeployment, v)
  BY <1>1 DEF P!WakeupsInv, P!FieldsInv
<1>3. v \in HealthServiceDeploymentContents
  BY <1>1, ContentsByOperand
     DEF P!WakeupsInv, P!Inv, P!TypeOK, P!ServerOK, P!LiveObjects, P!AbsentObjects
<1>4. v.volumes \in P!Sources(HealthServiceDeployment, "volumes")
  <2>1. "volumes" \in DOMAIN v
    BY <1>3 DEF HealthServiceDeploymentContents
  <2> QED
    BY <1>2, <2>1, UserFields DEF P!Sourced
<1>5. PICK w \in P!Writers(HealthServiceDeployment), r \in {ManifestReadable} :
           v.volumes = DesiredBy(w.step, w.name, w.spec, r).volumes
  BY <1>4 DEF P!Sources
<1>6. w.step = 4 /\ w.spec \in Specs /\ P!Earlier(api, w.step, w.spec)
  BY DeploymentWriters DEF P!Writers
<1>7. v.volumes = w.spec.healthService.configmapName
  BY <1>5, <1>6, PlanDesired DEF desiredHealthServiceDeployment
<1>8. api[OperandOf(3, w.spec)].rv > 0
  BY <1>6 DEF P!Earlier
<1>9. OperandOf(3, w.spec) = Configmap(v.volumes)
  BY <1>7, PlanOperands
<1>10. OperandOf(3, w.spec) \in Operands
  BY <1>6, PlanLength DEF Operands
<1> QED
  BY <1>8, <1>9, <1>10

\* The health service Deployment is never there before the ConfigMap it mounts:
\* whoever wrote its volumes had passed the step of that ConfigMap, or is a user.
THEOREM VolumeIsThere == Spec => []VolumeExists
  BY PlanWakeups, VolumeSourced, PTL

-------------------------------------------------------------------------------
(* Nothing is forgotten *)

\* Every operand is watched, so nothing a CR asks for is forgotten as long as one
\* CR name is used and no watch breaks.
THEOREM HealthServiceNotForgotten == Spec => [](P!Undisturbed => NoLostWakeup)
<1>1. P!Spec => [](P!Undisturbed => P!NoLostWakeup)
  BY PlanFits, P!NothingForgotten
<1>2. P!NoLostWakeup => NoLostWakeup
  BY DEF NoLostWakeup, P!NoLostWakeup, Delivered, P!Delivered, Garbage, P!Garbage,
     Converged, P!Converged, ConvergedAt, P!ConvergedAt, Fulfils, P!Fulfils, Steps,
     P!Steps
<1> QED
  BY <1>1, <1>2, PlanImplemented, PTL

\* As long as one CR name is used, what a Deployment says of the CR's name is this
\* CR's name; its labels may be a user's.
LEMMA LabelsSourced ==
    ASSUME P!WakeupsInv, P!Lone, NEW n \in Names, P!Known(n), NEW k \in Deployments,
           api[k].live
    PROVE  /\ k = MemcachedDeployment =>
                 /\ api[k].val.labels \in {labelsForMemcached(n), EditedLabels}
                 /\ api[k].val.selector = labelsForMemcached(n)
           /\ k = HealthServiceDeployment =>
                 /\ api[k].val.labels \in {labelsForHealthService(n), EditedLabels}
                 /\ api[k].val.selector = labelsForHealthService(n)
<1> DEFINE v == api[k].val
<1>1. k \in Operands /\ v \in ContentsOf(k)
  BY PlanFits
     DEF P!WakeupsInv, P!Inv, P!TypeOK, P!ServerOK, P!LiveObjects, P!AbsentObjects
<1>2. /\ v.labels \in P!Sources(k, "labels") \cup {EditedLabels}
      /\ v.selector \in P!Sources(k, "selector")
  <2>1. v \in MemcachedDeploymentContents \/ v \in HealthServiceDeploymentContents
    BY <1>1, ContentsByOperand DEF Deployments
  <2>2. {"labels", "selector"} \subseteq DOMAIN v
    BY <2>1 DEF MemcachedDeploymentContents, HealthServiceDeploymentContents
  <2>3. P!Sourced(k, v)
    BY <1>1 DEF P!WakeupsInv, P!FieldsInv
  <2> QED
    BY <2>2, <2>3, UserFields DEF P!Sourced
<1>3. \A w \in P!Writers(k) : w.name = n
  BY DEF P!Writers, P!Lone
<1>4. ASSUME NEW f \in {"labels", "selector"}, NEW x \in P!Sources(k, f)
      PROVE  \E w \in P!Writers(k) :
                x = DesiredBy(w.step, n, w.spec, ManifestReadable)[f]
  BY <1>3, <1>4 DEF P!Sources
<1>5. CASE k = MemcachedDeployment
  <2>1. ASSUME NEW f \in {"labels", "selector"}, NEW x \in P!Sources(k, f)
        PROVE  x = labelsForMemcached(n)
    BY <1>4, <1>5, <2>1, DeploymentWriters, PlanDesired DEF desiredMemcachedDeployment
  <2> QED
    BY <1>2, <1>5, <2>1, OperandsDiffer
<1>6. CASE k = HealthServiceDeployment
  <2>1. ASSUME NEW f \in {"labels", "selector"}, NEW x \in P!Sources(k, f)
        PROVE  x = labelsForHealthService(n)
    BY <1>4, <1>6, <2>1, DeploymentWriters, PlanDesired DEF desiredHealthServiceDeployment
  <2> QED
    BY <1>2, <1>6, <2>1, OperandsDiffer
<1> QED
  BY <1>5, <1>6 DEF Deployments

\* What a step manages, what no user can change, what is always the same and the
\* labels of a Deployment are all there is to an operand.
LEMMA ConvergedIsReached ==
    ASSUME P!WakeupsInv, P!Undisturbed, Delivered, NEW n \in Names, crs[n].live,
           NEW s \in Steps \ CreateOnlySteps
    PROVE  LET k == OperandOf(s, crs[n].spec)
               d == DesiredBy(s, n, crs[n].spec, ManifestReadable)
           IN  \/ api[k].val = d
               \/ k \in Deployments /\ api[k].val = [d EXCEPT !.labels = EditedLabels]
<1> DEFINE sp == crs[n].spec
           v == api[OperandOf(s, sp)].val
           d == DesiredBy(s, n, sp, ManifestReadable)
<1> SUFFICES v = d \/ (OperandOf(s, sp) \in Deployments
                         /\ v = [d EXCEPT !.labels = EditedLabels])
  OBVIOUS
<1>1. sp \in Specs /\ P!Known(n) /\ s \in P!Steps
  BY DEF P!WakeupsInv, P!CRsBehind, P!Inv, P!TypeOK, P!ServerOK, P!LiveCRs, P!AbsentCRs,
     Steps, P!Steps
<1>2. s \in {1, 2, 4, 5, 6}
  BY <1>1, PlanLength DEF P!Steps
<1>3. OperandOf(s, sp) \in Operands
  BY <1>1, PlanFits
<1>4. P!Delivered
  BY DEF Delivered, P!Delivered, Garbage, P!Garbage
<1>5. P!ConvergedAt(n, s)
  BY <1>1, <1>3, <1>4, PlanFits, P!RestMeansConverged
<1>6. api[OperandOf(s, sp)].live /\ \A f \in ManagedBy(s) : v[f] = d[f]
  BY <1>5 DEF P!ConvergedAt, P!Fulfils
<1>7. v \in ContentsOf(OperandOf(s, sp))
  BY <1>3, <1>6
     DEF P!WakeupsInv, P!Inv, P!TypeOK, P!ServerOK, P!LiveObjects, P!AbsentObjects
<1>8. CASE s = 1
  <2>1. v \in MemcachedDeploymentContents /\ d = desiredMemcachedDeployment(n, sp)
    BY <1>7, <1>8, PlanOperands, PlanDesired, ContentsByOperand
  <2>2. \A f \in updateMemcachedDeployment : v[f] = d[f]
    BY <1>6, <1>8, PlanManaged
  <2>3. /\ v.labels \in {labelsForMemcached(n), EditedLabels}
        /\ v.selector = labelsForMemcached(n)
    BY <1>1, <1>6, <1>8, PlanOperands, LabelsSourced DEF P!Undisturbed, Deployments
  <2>4. OperandOf(s, sp) \in Deployments
    BY <1>8, PlanOperands DEF Deployments
  <2> HIDE DEF v, d
  <2>5. v = d \/ v = [d EXCEPT !.labels = EditedLabels]
    BY <2>1, <2>2, <2>3
       DEF desiredMemcachedDeployment, updateMemcachedDeployment, MemcachedDeploymentContents
  <2> QED
    BY <2>4, <2>5
<1>9. CASE s = 2
  <2>1. v \in MemcachedServiceContents /\ d = desiredMemcachedService(n)
    BY <1>7, <1>9, PlanOperands, PlanDesired, ContentsByOperand
  <2>2. \A f \in updateMemcachedService : v[f] = d[f]
    BY <1>6, <1>9, PlanManaged
  <2> HIDE DEF v, d
  <2> QED
    BY <2>1, <2>2 DEF desiredMemcachedService, updateMemcachedService, MemcachedServiceContents
<1>10. CASE s = 4
  <2>1. v \in HealthServiceDeploymentContents /\ d = desiredHealthServiceDeployment(n, sp)
    BY <1>7, <1>10, PlanOperands, PlanDesired, ContentsByOperand
  <2>2. \A f \in updateHealthServiceDeployment : v[f] = d[f]
    BY <1>6, <1>10, PlanManaged
  <2>3. /\ v.labels \in {labelsForHealthService(n), EditedLabels}
        /\ v.selector = labelsForHealthService(n)
    BY <1>1, <1>6, <1>10, PlanOperands, LabelsSourced DEF P!Undisturbed, Deployments
  <2>4. OperandOf(s, sp) \in Deployments
    BY <1>10, PlanOperands DEF Deployments
  <2> HIDE DEF v, d
  <2>5. v = d \/ v = [d EXCEPT !.labels = EditedLabels]
    BY <2>1, <2>2, <2>3
       DEF desiredHealthServiceDeployment, updateHealthServiceDeployment,
           HealthServiceDeploymentContents
  <2> QED
    BY <2>4, <2>5
<1>11. CASE s = 5
  <2>1. v \in HealthServiceServiceContents /\ d = desiredHealthServiceService(n)
    BY <1>7, <1>11, PlanOperands, PlanDesired, ContentsByOperand
  <2>2. \A f \in updateHealthServiceService : v[f] = d[f]
    BY <1>6, <1>11, PlanManaged
  <2> HIDE DEF v, d
  <2> QED
    BY <2>1, <2>2
       DEF desiredHealthServiceService, updateHealthServiceService, HealthServiceServiceContents
<1>12. CASE s = 6
  <2>1. v \in HealthServiceIngressContents /\ d = desiredHealthServiceIngress(n)
    BY <1>7, <1>12, PlanOperands, PlanDesired, ContentsByOperand
  <2>2. \A f \in updateHealthServiceIngress : v[f] = d[f]
    BY <1>6, <1>12, PlanManaged
  <2> HIDE DEF v, d
  <2> QED
    BY <2>1, <2>2
       DEF desiredHealthServiceIngress, updateHealthServiceIngress, HealthServiceIngressContents
<1> QED
  BY <1>2, <1>8, <1>9, <1>10, <1>11, <1>12

\* At rest every operand that is updated has what the spec gives it to the last
\* field, except for labels that a user wrote into a Deployment, as long as one CR
\* name is used and no watch breaks.
THEOREM SpecIsReached == Spec => [](P!Undisturbed => SpecReached)
<1>1. P!WakeupsInv => (P!Undisturbed => SpecReached)
  BY ConvergedIsReached DEF SpecReached
<1> QED
  BY <1>1, PlanWakeups, PTL

===============================================================================
