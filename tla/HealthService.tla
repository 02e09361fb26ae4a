---------------------------- MODULE HealthService ----------------------------
(***************************************************************************)
(* pkg/controller/healthservice: the plan by which a HealthService CR      *)
(* becomes a memcached Deployment and Service and a health service         *)
(* ConfigMap, Deployment, Service and Ingress, carried out by Reconciler.  *)
(*                                                                         *)
(* All CRs are in one namespace: a controller's operands never leave the   *)
(* namespace of their CR, and their names do not depend on the CR.         *)
(***************************************************************************)
EXTENDS Common, FiniteSets, Sequences

CONSTANTS
    Names,              \* names of HealthService CRs
    Specs,              \* their specs: see HealthServiceSpecs
    Pods,
    Resyncs,
    Budget,
    GCLead,
    ManifestReadable,   \* can the operator read the ConfigMap's manifest?
    Nil

\* The fields of a spec that the code reads, and the names it does not read.
HealthServiceSpecs ==
    [memcached : [name : STRING, replicas : Int, command : STRING,
                  resources : Resources],
     healthService : [name : STRING, replicas : Int, configmapName : STRING,
                      settings : STRING, resources : Resources]]

ASSUME SpecsAssumption ==
    /\ Specs \subseteq HealthServiceSpecs
    /\ Specs # {}
    /\ ManifestReadable \in BOOLEAN

-------------------------------------------------------------------------------
(* Values both services use *)

memResourceName == "icp-memcached"
memSvcName == "memcached"
healthResourceName == "system-healthcheck-service"

labelsForMemcached(releaseName) == [app |-> memResourceName, release |-> releaseName]
labelsForHealthService(releaseName) == [app |-> healthResourceName, release |-> releaseName]

\* Zero and less mean the default.
ReplicasOf(section) == IF section.replicas > 0 THEN section.replicas ELSE 1
CommandOf(section) == IF section.command = "" THEN "memcached" ELSE section.command

-------------------------------------------------------------------------------
(* memcached *)

desiredMemcachedDeployment(n, sp) ==
    [labels |-> labelsForMemcached(n),
     selector |-> labelsForMemcached(n),
     replicas |-> ReplicasOf(sp.memcached),
     annotations |-> "product",
     containers |-> [image |-> memResourceName,
                     command |-> CommandOf(sp.memcached),
                     resources |-> GetResources(sp.memcached.resources)]]

updateMemcachedDeployment == {"replicas", "annotations", "containers"}

desiredMemcachedService(n) ==
    [labels |-> labelsForMemcached(n),
     ports |-> 11211,
     selector |-> labelsForMemcached(n),
     clusterIP |-> "None"]

updateMemcachedService == {"labels", "ports", "selector", "clusterIP"}

-------------------------------------------------------------------------------
(* health service *)

\* A manifest that cannot be opened is logged and leaves the data empty.
HealthServiceConfigmap(n, readable) ==
    [labels |-> labelsForHealthService(n),
     data |-> IF readable THEN "cpnames" ELSE "empty"]

desiredHealthServiceDeployment(n, sp) ==
    [labels |-> labelsForHealthService(n),
     selector |-> labelsForHealthService(n),
     replicas |-> ReplicasOf(sp.healthService),
     annotations |-> "product",
     containers |-> [image |-> healthResourceName,
                     env |-> sp.healthService.settings,
                     resources |-> GetResources(sp.healthService.resources)],
     volumes |-> sp.healthService.configmapName]

\* Mutant: the update leaves the volumes alone.
updateWithoutVolumes == {"replicas", "annotations", "containers"}

updateHealthServiceDeployment ==
    {"replicas", "annotations", "containers", "volumes"}

desiredHealthServiceService(n) ==
    [labels |-> labelsForHealthService(n),
     ports |-> 6967,
     selector |-> labelsForHealthService(n),
     type |-> "ClusterIP"]

updateHealthServiceService == {"labels", "ports", "selector", "type"}

desiredHealthServiceIngress(n) ==
    [labels |-> labelsForHealthService(n),
     annotations |-> "rewrite",
     rules |-> [path |-> "/cluster-health/", service |-> healthResourceName, port |-> 6967]]

updateHealthServiceIngress == {"labels", "annotations", "rules"}

-------------------------------------------------------------------------------
(* The plan: the calls of Reconcile, in their order *)

\* Mutant: the health service Deployment comes before its ConfigMap.
PlanSwapped ==
    <<"createOrUpdateMemcachedDeploy",
      "createOrUpdateMemcachedService",
      "createOrUpdateHealthServiceDeploy",
      "createOrUpdateHealthServiceConfigmap",
      "createOrUpdateHealthServiceService",
      "createOrUpdateHealthServiceIngress">>

Plan ==
    <<"createOrUpdateMemcachedDeploy",
      "createOrUpdateMemcachedService",
      "createOrUpdateHealthServiceConfigmap",
      "createOrUpdateHealthServiceDeploy",
      "createOrUpdateHealthServiceService",
      "createOrUpdateHealthServiceIngress">>

MemcachedDeployment == <<"Deployment", memResourceName>>
MemcachedService == <<"Service", memSvcName>>
Configmap(name) == <<"ConfigMap", name>>
HealthServiceDeployment == <<"Deployment", healthResourceName>>
HealthServiceService == <<"Service", healthResourceName>>
HealthServiceIngress == <<"Ingress", healthResourceName>>

\* The operand each call looks for, ...
OperandOf(s, sp) ==
    CASE Plan[s] = "createOrUpdateMemcachedDeploy" -> MemcachedDeployment
      [] Plan[s] = "createOrUpdateMemcachedService" -> MemcachedService
      [] Plan[s] = "createOrUpdateHealthServiceConfigmap" ->
            Configmap(sp.healthService.configmapName)
      [] Plan[s] = "createOrUpdateHealthServiceDeploy" -> HealthServiceDeployment
      [] Plan[s] = "createOrUpdateHealthServiceService" -> HealthServiceService
      [] Plan[s] = "createOrUpdateHealthServiceIngress" -> HealthServiceIngress

\* ... what it creates if there is none, ...
DesiredBy(s, n, sp, readable) ==
    CASE Plan[s] = "createOrUpdateMemcachedDeploy" -> desiredMemcachedDeployment(n, sp)
      [] Plan[s] = "createOrUpdateMemcachedService" -> desiredMemcachedService(n)
      [] Plan[s] = "createOrUpdateHealthServiceConfigmap" -> HealthServiceConfigmap(n, readable)
      [] Plan[s] = "createOrUpdateHealthServiceDeploy" ->
            desiredHealthServiceDeployment(n, sp)
      [] Plan[s] = "createOrUpdateHealthServiceService" -> desiredHealthServiceService(n)
      [] Plan[s] = "createOrUpdateHealthServiceIngress" -> desiredHealthServiceIngress(n)

\* ... and which fields it overwrites if there is one.
ManagedBy(s) ==
    CASE Plan[s] = "createOrUpdateMemcachedDeploy" -> updateMemcachedDeployment
      [] Plan[s] = "createOrUpdateMemcachedService" -> updateMemcachedService
      [] Plan[s] = "createOrUpdateHealthServiceConfigmap" -> {}
      [] Plan[s] = "createOrUpdateHealthServiceDeploy" -> updateHealthServiceDeployment
      [] Plan[s] = "createOrUpdateHealthServiceService" -> updateHealthServiceService
      [] Plan[s] = "createOrUpdateHealthServiceIngress" -> updateHealthServiceIngress

CreateOnlySteps == {s \in DOMAIN Plan : Plan[s] = "createOrUpdateHealthServiceConfigmap"}

Operands == {OperandOf(s, sp) : s \in DOMAIN Plan, sp \in Specs}
Deployments == {MemcachedDeployment, HealthServiceDeployment}

-------------------------------------------------------------------------------
(* The API server's side of the operands *)

\* What users put in the place of labels and of volumes.
EditedLabels == [app |-> "edited", release |-> "edited"]
EditedVolumes == "edited"

\* Users edit what the updates write: they scale a Deployment to nothing, have it
\* mount another ConfigMap, and point a Service and an Ingress elsewhere.  They
\* edit what no update writes, too: the data of a ConfigMap, and the labels of a
\* Deployment, which stand for its service account, its tolerations and whatever
\* else only its creation gives it.  A selector cannot be changed.
DriftsOf(k, v) ==
    CASE k = MemcachedDeployment ->
            {[v EXCEPT !.replicas = 0], [v EXCEPT !.labels = EditedLabels]}
      [] k = HealthServiceDeployment ->
            {[v EXCEPT !.replicas = 0, !.volumes = EditedVolumes],
             [v EXCEPT !.labels = EditedLabels]}
      [] k[1] = "Service" -> {[v EXCEPT !.ports = 0]}
      [] k[1] = "Ingress" -> {[v EXCEPT !.rules.service = "other"]}
      [] k[1] = "ConfigMap" -> {[v EXCEPT !.data = "edited"]}

MemcachedLabels == {labelsForMemcached(n) : n \in Names}
HealthLabels == {labelsForHealthService(n) : n \in Names}

MemcachedDeploymentContents ==
    [labels : MemcachedLabels \cup {EditedLabels}, selector : MemcachedLabels,
     replicas : Nat, annotations : {"product"},
     containers : [image : {memResourceName},
                   command : {CommandOf(sp.memcached) : sp \in Specs},
                   resources : {GetResources(sp.memcached.resources) : sp \in Specs}]]
MemcachedServiceContents ==
    [labels : MemcachedLabels, ports : Nat,
     selector : MemcachedLabels, clusterIP : {"None"}]
ConfigmapContents ==
    [labels : HealthLabels, data : {"cpnames", "empty", "edited"}]
HealthServiceDeploymentContents ==
    [labels : HealthLabels \cup {EditedLabels}, selector : HealthLabels,
     replicas : Nat, annotations : {"product"},
     containers : [image : {healthResourceName},
                   env : {sp.healthService.settings : sp \in Specs},
                   resources : {GetResources(sp.healthService.resources) : sp \in Specs}],
     volumes : {sp.healthService.configmapName : sp \in Specs} \cup {EditedVolumes}]
HealthServiceServiceContents ==
    [labels : HealthLabels, ports : Nat,
     selector : HealthLabels, type : {"ClusterIP"}]
HealthServiceIngressContents ==
    [labels : HealthLabels, annotations : {"rewrite"},
     rules : [path : {"/cluster-health/"}, service : {healthResourceName, "other"},
              port : {6967}]]

ContentsOf(k) ==
    CASE k = MemcachedDeployment -> MemcachedDeploymentContents
      [] k = MemcachedService -> MemcachedServiceContents
      [] k = HealthServiceDeployment -> HealthServiceDeploymentContents
      [] k = HealthServiceService -> HealthServiceServiceContents
      [] k = HealthServiceIngress -> HealthServiceIngressContents
      [] OTHER -> ConfigmapContents

\* An object needs a name, and a container no request above its limit.
AdmitsContent(k, v) ==
    /\ k[2] # ""
    /\ k[1] = "Deployment" => ValidRequirements(v.containers.resources)

\* The pod template carries the labels of the selector.
ReleaseOf(v) == v.selector.release

-------------------------------------------------------------------------------

VARIABLES crs, api, pods, crCache, apiCache, podCache, events, queue,
          pc, req, step, h, call, orphans, budget

\* watchOperandResources and add watch every kind of operand, and no pods.
INSTANCE Reconciler WITH
    Keys <- Operands,
    NSteps <- Len(Plan),
    CreateOnly <- CreateOnlySteps,
    Workloads <- Deployments,
    Watched <- Operands,
    Readings <- {ManifestReadable},
    Target <- OperandOf,
    Desired <- DesiredBy,
    Managed <- ManagedBy,
    Contents <- ContentsOf,
    Admits <- AdmitsContent,
    Release <- ReleaseOf,
    Drifts <- DriftsOf

ASSUME BoundsAssumption ==
    /\ Budget \in [Disturbances -> Nat]
    /\ GCLead \in Nat
    /\ Resyncs \in BOOLEAN
    /\ IsFiniteSet(Pods)
    /\ Nil \notin Names
    /\ Nil \notin Specs

-------------------------------------------------------------------------------

\* When no event is left to deliver, every operand of a CR but the ConfigMap,
\* which is only created, has what the spec gives it to the last field: no update
\* leaves out a field that depends on the spec, nor one that users have edited.
\* Except for what users wrote into fields of a Deployment that are given to it
\* when it is created and that no update writes: that stays.
SpecReached ==
    Delivered => \A n \in Names : crs[n].live =>
        \A s \in Steps \ CreateOnlySteps :
            LET k == OperandOf(s, crs[n].spec)
                d == DesiredBy(s, n, crs[n].spec, ManifestReadable)
            IN  \/ api[k].val = d
                \/ k \in Deployments /\ api[k].val = [d EXCEPT !.labels = EditedLabels]

\* The health service Deployment is never there before the ConfigMap it mounts,
\* unless a user has it mount another one.
VolumeExists ==
    (/\ api[HealthServiceDeployment].live
     /\ api[HealthServiceDeployment].val.volumes # EditedVolumes)
        => \E k \in Operands :
              /\ k = Configmap(api[HealthServiceDeployment].val.volumes)
              /\ api[k].rv > 0

\* CRs that name different memcached and health service Deployments do not
\* disturb each other: what was written for one is not rewritten for another.
NamedApart(n, m) ==
    /\ crs[n].live /\ crs[m].live
    /\ crs[n].spec.memcached.name # crs[m].spec.memcached.name
    /\ crs[n].spec.healthService.name # crs[m].spec.healthService.name

NoOverwrite ==
    [][\A k \in Operands :
          (api[k].live /\ api'[k].live)
             => ~NamedApart(api[k].by.name, api'[k].by.name)]_vars

===============================================================================
