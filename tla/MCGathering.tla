----------------------------- MODULE MCGathering -----------------------------
(***************************************************************************)
(* A MustGatherConfig with the name of the ConfigMap that a                *)
(* MustGatherService creates by default, and a MustGatherJob which mounts  *)
(* that ConfigMap or forgets to say which.                                 *)
(***************************************************************************)
EXTENDS Gathering, TLC

MCJobSpecs == {[command |-> FALSE, config |-> "cm"], [command |-> FALSE, config |-> ""],
               [command |-> TRUE, config |-> ""]}

MCBefore == <<"MustGatherConfig", "cm">> :> "s1" @@ <<"MustGatherService", "svc">> :> "default"
              @@ <<"MustGatherJob", "job">> :> [command |-> FALSE, config |-> "cm"]

MCBirths == [c \in CRs |-> IF Kind(c) = "MustGatherJob" THEN 1 ELSE 0]

\* Any one disturbance by a user or the network, or two of the pods.
MCCost == [edit |-> 3, delete |-> 3, meddle |-> 3, fault |-> 3, exit |-> 2, surge |-> 1]
===============================================================================
