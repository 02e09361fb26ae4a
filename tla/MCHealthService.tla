--------------------------- MODULE MCHealthService ---------------------------
(***************************************************************************)
(* Instances of HealthService: two specs that differ in what reaches each  *)
(* Deployment and in the name of the ConfigMap.                            *)
(***************************************************************************)
EXTENDS HealthService

Blank == [x \in ResourceNames |-> Unset]
NoResources == [requests |-> Blank, limits |-> Blank]
SomeResources == [requests |-> [Blank EXCEPT !["cpu"] = 100], limits |-> Blank]

SpecX ==
    [memcached |-> [name |-> "icp-memcached", replicas |-> 0, command |-> "",
                    resources |-> NoResources],
     healthService |-> [name |-> "system-healthcheck-service", replicas |-> 1,
                        configmapName |-> "x", settings |-> "",
                        resources |-> NoResources]]

SpecY ==
    [memcached |-> [name |-> "cache", replicas |-> 2, command |-> "memcached -vv",
                    resources |-> NoResources],
     healthService |-> [name |-> "health", replicas |-> 2,
                        configmapName |-> "y", settings |-> "labels",
                        resources |-> SomeResources]]

OneSpec == {SpecX}
TwoSpecs == {SpecX, SpecY}

\* The disturbances of Reconciler.
Kinds ==
    {"create", "edit", "delete", "remove", "drift", "tamper", "pod", "crash",
     "fault", "gap", "reorder", "contend"}
NoBudget == [d \in Kinds |-> 0]
EditBudget ==
    [NoBudget EXCEPT !["create"] = 1, !["edit"] = 1, !["tamper"] = 1]
PodBudget ==
    [NoBudget EXCEPT !["create"] = 1, !["pod"] = 2]
ReorderBudget ==
    [NoBudget EXCEPT !["create"] = 1, !["pod"] = 2, !["reorder"] = 1]
TwoBudget ==
    [NoBudget EXCEPT !["create"] = 2, !["contend"] = 1]
===============================================================================
