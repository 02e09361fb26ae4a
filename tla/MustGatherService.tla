--------------------------- MODULE MustGatherService ---------------------------
(***************************************************************************)
(* pkg/controller/mustgatherservice: the plan by which a MustGatherService *)
(* CR becomes a PersistentVolumeClaim, a StatefulSet that mounts it, a     *)
(* Service, an Ingress and a ConfigMap, carried out by Reconciler.         *)
(***************************************************************************)
EXTENDS Common, FiniteSets, SequencesExt

CONSTANTS
    Names,              \* names of MustGatherService CRs
    Specs,              \* their specs: see MustGatherServiceSpecs
    Pods,
    Resyncs,
    Budget,
    GCLead,
    ManifestReadable,   \* can the operator read the ConfigMap's manifest?
    StorageClasses,     \* the storage classes of the cluster, as they are listed
    Nil

\* The fields of a spec that the code reads; "" and 0 are an absent field.
MustGatherServiceSpecs ==
    [mustGather : [replicas : Int, resources : Resources],
     persistentVolumeClaim : [name : STRING, storageClassName : STRING, storage : Nat]]

ASSUME SpecsAssumption ==
    /\ Specs \subseteq MustGatherServiceSpecs
    /\ Specs # {}
    /\ ManifestReadable \in BOOLEAN
    /\ StorageClasses \in
          Seq([name : STRING, provisions : BOOLEAN, default : BOOLEAN])

-------------------------------------------------------------------------------

mustGatherResourceName == "must-gather-service"
mustGatherCustomCMName == "ibm-mustgather-customscript-default"

labelsForMustGatherService(name, releaseName) == [app |-> name, release |-> releaseName]
labelsForMustGatherServiceCustomCM(name, releaseName) ==
    [app |-> name, release |-> releaseName, addon |-> "default"]

\* The first default class of those that provision volumes, else the first of
\* them, else none.
getDefaultStorageClass(classes) ==
    LET usable == SelectSeq(classes, LAMBDA c : c.provisions)
        defaults == SelectSeq(usable, LAMBDA c : c.default)
    IN  CASE defaults # <<>> -> defaults[1].name
          [] defaults = <<>> /\ usable # <<>> -> usable[1].name
          [] OTHER -> ""

\* The storage classes are listed from the API server, and a list that fails is
\* taken for an empty one.
ClassReadings ==
    {getDefaultStorageClass(StorageClasses), getDefaultStorageClass(<<>>)}

desiredMustGatherServicePVC(n, sp, default) ==
    LET claim == sp.persistentVolumeClaim
    IN  [labels |-> labelsForMustGatherService(claim.name, n),
         annotations |-> "product",
         storage |-> IF claim.storage # 0 THEN claim.storage ELSE 2048,
         storageClassName |->
            IF claim.storageClassName # "" THEN claim.storageClassName ELSE default]

desiredMustGatherServiceStatefulset(n, sp) ==
    [labels |-> labelsForMustGatherService(mustGatherResourceName, n),
     selector |-> labelsForMustGatherService(mustGatherResourceName, n),
     annotations |-> "product",
     replicas |-> IF sp.mustGather.replicas > 0 THEN sp.mustGather.replicas ELSE 1,
     containers |-> [image |-> mustGatherResourceName,
                     resources |-> GetResources(sp.mustGather.resources)],
     volumes |-> sp.persistentVolumeClaim.name]

\* Mutant: the update leaves the volumes alone.
updateWithoutVolumes == {"replicas", "containers"}

updateMustGatherServiceStatefulSet == {"replicas", "containers", "volumes"}

desiredMustGatherServiceService(n) ==
    [labels |-> labelsForMustGatherService(mustGatherResourceName, n),
     ports |-> 6967,
     selector |-> labelsForMustGatherService(mustGatherResourceName, n),
     type |-> "ClusterIP"]

updateMustGatherServiceService == {"labels", "ports", "selector", "type"}

desiredMustGatherServiceIngress(n) ==
    [labels |-> labelsForMustGatherService(mustGatherResourceName, n),
     annotations |-> "rewrite",
     rules |-> [path |-> "/must-gather/", service |-> mustGatherResourceName, port |-> 6967]]

updateMustGatherServiceIngress == {"labels", "annotations", "rules"}

MustGatherServiceConfigmap(n) ==
    [labels |-> labelsForMustGatherServiceCustomCM(mustGatherResourceName, n),
     data |-> IF ManifestReadable THEN "script" ELSE "empty"]

-------------------------------------------------------------------------------
(* The plan: the calls of Reconcile, in their order *)

\* Mutant: the StatefulSet comes before its claim.
PlanSwapped ==
    <<"createOrUpdateMustGatherServiceStatefulSet",
      "createOrUpdateMustGatherServicePVC",
      "createOrUpdateMustGatherServiceService",
      "createOrUpdateMustGatherServiceIngress",
      "createOrUpdateMustGatherServiceConfigmap">>

Plan ==
    <<"createOrUpdateMustGatherServicePVC",
      "createOrUpdateMustGatherServiceStatefulSet",
      "createOrUpdateMustGatherServiceService",
      "createOrUpdateMustGatherServiceIngress",
      "createOrUpdateMustGatherServiceConfigmap">>

PVC(name) == <<"PersistentVolumeClaim", name>>
StatefulSet == <<"StatefulSet", mustGatherResourceName>>
Service == <<"Service", mustGatherResourceName>>
Ingress == <<"Ingress", mustGatherResourceName>>
Configmap == <<"ConfigMap", mustGatherCustomCMName>>

\* The operand each call looks for, ...
OperandOf(s, sp) ==
    CASE Plan[s] = "createOrUpdateMustGatherServicePVC" ->
            PVC(sp.persistentVolumeClaim.name)
      [] Plan[s] = "createOrUpdateMustGatherServiceStatefulSet" -> StatefulSet
      [] Plan[s] = "createOrUpdateMustGatherServiceService" -> Service
      [] Plan[s] = "createOrUpdateMustGatherServiceIngress" -> Ingress
      [] Plan[s] = "createOrUpdateMustGatherServiceConfigmap" -> Configmap

\* ... what it creates if there is none, ...
DesiredBy(s, n, sp, class) ==
    CASE Plan[s] = "createOrUpdateMustGatherServicePVC" ->
            desiredMustGatherServicePVC(n, sp, class)
      [] Plan[s] = "createOrUpdateMustGatherServiceStatefulSet" ->
            desiredMustGatherServiceStatefulset(n, sp)
      [] Plan[s] = "createOrUpdateMustGatherServiceService" ->
            desiredMustGatherServiceService(n)
      [] Plan[s] = "createOrUpdateMustGatherServiceIngress" ->
            desiredMustGatherServiceIngress(n)
      [] Plan[s] = "createOrUpdateMustGatherServiceConfigmap" ->
            MustGatherServiceConfigmap(n)

\* ... and which fields it overwrites if there is one.
ManagedBy(s) ==
    CASE Plan[s] = "createOrUpdateMustGatherServiceStatefulSet" ->
            updateMustGatherServiceStatefulSet
      [] Plan[s] = "createOrUpdateMustGatherServiceService" ->
            updateMustGatherServiceService
      [] Plan[s] = "createOrUpdateMustGatherServiceIngress" ->
            updateMustGatherServiceIngress
      [] OTHER -> {}

CreateOnlySteps ==
    {s \in DOMAIN Plan : Plan[s] \in {"createOrUpdateMustGatherServicePVC",
                                      "createOrUpdateMustGatherServiceConfigmap"}}

Operands == {OperandOf(s, sp) : s \in DOMAIN Plan, sp \in Specs}

\* add watches neither claims nor Services.
WatchedOperands ==
    {k \in Operands : k[1] \in {"StatefulSet", "Ingress", "ConfigMap"}}

-------------------------------------------------------------------------------
(* The API server's side of the operands *)

\* What users put in the place of labels and annotations, and of volumes.
EditedLabels == [app |-> "edited", release |-> "edited"]
EditedAnnotations == "edited"
EditedVolumes == "edited"

\* Users edit what the updates write: they scale the StatefulSet to nothing, have
\* it mount another claim, and point the Service and the Ingress elsewhere.  They
\* edit what no update writes, too: the data of the ConfigMap, and the labels and
\* annotations of the StatefulSet, which stand for what else only its creation
\* gives it.  A selector and a claim cannot be changed.
DriftsOf(k, v) ==
    CASE k[1] = "StatefulSet" ->
            {[v EXCEPT !.replicas = 0, !.volumes = EditedVolumes],
             [v EXCEPT !.labels = EditedLabels, !.annotations = EditedAnnotations]}
      [] k[1] = "Service" -> {[v EXCEPT !.ports = 0]}
      [] k[1] = "Ingress" -> {[v EXCEPT !.rules.service = "other"]}
      [] k[1] = "ConfigMap" -> {[v EXCEPT !.data = "edited"]}
      [] k[1] = "PersistentVolumeClaim" -> {}

Labels == {labelsForMustGatherService(mustGatherResourceName, n) : n \in Names}

StatefulSetContents ==
    [labels : Labels \cup {EditedLabels}, selector : Labels,
     annotations : {"product", EditedAnnotations}, replicas : Nat,
     containers : [image : {mustGatherResourceName},
                   resources : {GetResources(sp.mustGather.resources) : sp \in Specs}],
     volumes : {sp.persistentVolumeClaim.name : sp \in Specs} \cup {EditedVolumes}]
ServiceContents ==
    [labels : Labels, ports : Nat, selector : Labels, type : {"ClusterIP"}]
IngressContents ==
    [labels : Labels, annotations : {"rewrite"},
     rules : [path : {"/must-gather/"}, service : {mustGatherResourceName, "other"},
              port : {6967}]]
ConfigmapContents ==
    [labels : {labelsForMustGatherServiceCustomCM(mustGatherResourceName, n) : n \in Names},
     data : {"script", "empty", "edited"}]
ClaimContents(name) ==
    [labels : {labelsForMustGatherService(name, n) : n \in Names},
     annotations : {"product"}, storage : Nat,
     storageClassName : ClassReadings \cup
        {sp.persistentVolumeClaim.storageClassName : sp \in Specs}]

ContentsOf(k) ==
    CASE k = StatefulSet -> StatefulSetContents
      [] k = Service -> ServiceContents
      [] k = Ingress -> IngressContents
      [] k = Configmap -> ConfigmapContents
      [] OTHER -> ClaimContents(k[2])

\* An object needs a name, and a container no request above its limit.
AdmitsContent(k, v) ==
    /\ k[2] # ""
    /\ k[1] = "StatefulSet" => ValidRequirements(v.containers.resources)

\* The pod template carries the labels of the selector.
ReleaseOf(v) == v.selector.release

-------------------------------------------------------------------------------

VARIABLES crs, api, pods, crCache, apiCache, podCache, events, queue,
          pc, req, step, h, call, orphans, budget

INSTANCE Reconciler WITH
    Keys <- Operands,
    NSteps <- Len(Plan),
    CreateOnly <- CreateOnlySteps,
    Workloads <- {StatefulSet},
    Watched <- WatchedOperands,
    Readings <- ClassReadings,
    Target <- OperandOf,
    Desired <- DesiredBy,
    Managed <- ManagedBy,
    Contents <- ContentsOf,
    Admits <- AdmitsContent,
    Release <- ReleaseOf,
    Drifts <- DriftsOf

ASSUME BoundsAssumption ==
    /\ Budget \in [Disturbances -> Nat]
    /\ GCLead \in Nat
    /\ Resyncs \in BOOLEAN
    /\ IsFiniteSet(Pods)
    /\ Nil \notin Names
    /\ Nil \notin Specs

-------------------------------------------------------------------------------

\* The StatefulSet is never there before the claim it mounts has been, unless a
\* user has it mount another one.
ClaimExists ==
    (api[StatefulSet].live /\ api[StatefulSet].val.volumes # EditedVolumes) =>
        \E k \in Operands : k = PVC(api[StatefulSet].val.volumes) /\ api[k].rv > 0

\* The operand of step s has what the spec of the CR gives it to the last field,
\* except for what users wrote into fields of the StatefulSet that no update
\* writes.
Reached(n, s, class) ==
    LET k == OperandOf(s, crs[n].spec)
        d == DesiredBy(s, n, crs[n].spec, class)
    IN  \/ api[k].val = d
        \/ /\ k = StatefulSet
           /\ \E l \in {d.labels, EditedLabels},
                 a \in {d.annotations, EditedAnnotations} :
                 api[k].val = [d EXCEPT !.labels = l, !.annotations = a]

\* When no event is left to deliver, the StatefulSet and the Ingress, which add
\* watches, are what the spec of the CR makes them.
WatchedReached ==
    Delivered => \A n \in Names : crs[n].live =>
        \A s \in Steps \ CreateOnlySteps, class \in ClassReadings :
            OperandOf(s, crs[n].spec) \in WatchedOperands => Reached(n, s, class)

\* Every operand that is updated comes to be what its spec makes it, though a
\* removed or edited Service wakes nobody: informers that resync do.
SpecSettles ==
    <>[](\A n \in Names : crs[n].live =>
            \A s \in Steps \ CreateOnlySteps, class \in ClassReadings : Reached(n, s, class))

\* A claim that names no class gets the cluster's default class, if there is one.
DefaultClassUsed ==
    LET defaults == {c.name : c \in {x \in ToSet(StorageClasses) : x.provisions /\ x.default}}
    IN  \A k \in Operands :
            (/\ k[1] = "PersistentVolumeClaim"
             /\ api[k].live
             /\ api[k].by.spec.persistentVolumeClaim.storageClassName = ""
             /\ defaults # {})
                => api[k].val.storageClassName \in defaults

===============================================================================
