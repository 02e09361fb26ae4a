-------------------------- MODULE MCMustGatherService --------------------------
(***************************************************************************)
(* Instances of MustGatherService: two specs that differ in the claim and  *)
(* in what reaches the StatefulSet; a cluster whose default storage class  *)
(* is not the first one listed.                                            *)
(***************************************************************************)
EXTENDS MustGatherService

Blank == [x \in ResourceNames |-> Unset]
NoResources == [requests |-> Blank, limits |-> Blank]
SomeResources == [requests |-> Blank, limits |-> [Blank EXCEPT !["memory"] = 128]]

SpecX ==
    [mustGather |-> [replicas |-> 0, resources |-> NoResources],
     persistentVolumeClaim |-> [name |-> "x", storageClassName |-> "", storage |-> 0]]
SpecY ==
    [mustGather |-> [replicas |-> 2, resources |-> SomeResources],
     persistentVolumeClaim |-> [name |-> "y", storageClassName |-> "fast", storage |-> 512]]

OneSpec == {SpecX}
TwoSpecs == {SpecX, SpecY}

Classes ==
    <<[name |-> "local", provisions |-> FALSE, default |-> TRUE],
      [name |-> "fast", provisions |-> TRUE, default |-> FALSE],
      [name |-> "shared", provisions |-> TRUE, default |-> TRUE]>>

NoClasses == <<>>

\* The disturbances of Reconciler.
Kinds ==
    {"create", "edit", "delete", "remove", "drift", "tamper", "pod", "crash",
     "fault", "gap", "reorder", "contend"}
NoBudget == [d \in Kinds |-> 0]
FairBudget ==
    [NoBudget EXCEPT !["create"] = 1, !["edit"] = 1, !["tamper"] = 1]
ClaimBudget ==
    [NoBudget EXCEPT !["create"] = 1]
===============================================================================
