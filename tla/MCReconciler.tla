----------------------------- MODULE MCReconciler -----------------------------
(***************************************************************************)
(* A plan of two steps, the smallest that has every feature of the plans   *)
(* of the repository: a ConfigMap whose name comes from the spec and which *)
(* is only created, then a Deployment which mounts it, is updated, and     *)
(* whose pods are reported in the status.                                  *)
(***************************************************************************)
EXTENDS ReconcilerStore

MCSpecs == {[cfg |-> "x", replicas |-> 1], [cfg |-> "y", replicas |-> 2]}
OneSpec == {[cfg |-> "x", replicas |-> 1]}
MCKeys == {"cm-x", "cm-y", "deploy"}
MCWorkloads == {"deploy"}
MCCreateOnly == {1}

MCTarget(s, sp) ==
    IF s = 1 THEN IF sp.cfg = "x" THEN "cm-x" ELSE "cm-y" ELSE "deploy"

MCDesired(s, n, sp, r) ==
    IF s = 1 THEN [labels |-> n]
    ELSE [labels |-> n, replicas |-> sp.replicas, volume |-> sp.cfg, other |-> "default"]

MCManaged(s) == IF s = 1 THEN {} ELSE {"replicas", "volume"}

MCContents(k) ==
    IF k = "deploy"
    THEN [labels : Names, replicas : 0 .. 2, volume : {"x", "y"},
          other : {"default", "user"}]
    ELSE [labels : Names]

MCAdmits(k, v) == TRUE
MCRelease(v) == v.labels

\* A user scales a Deployment of two replicas down and sets a field the operator
\* leaves alone.
MCDrifts(k, v) ==
    IF k = "deploy" /\ v.replicas = 2
    THEN {[v EXCEPT !.replicas = 0, !.other = "user"]}
    ELSE {}

NoBudget ==
    [d \in {"create", "edit", "delete", "remove", "drift", "tamper", "pod",
            "crash", "fault", "gap", "reorder", "contend"} |-> 0]

\* An edit of the spec, an operand edited by a user and one removed, with a crash and
\* two broken connections between them.
EditBudget ==
    [NoBudget EXCEPT !["create"] = 1, !["edit"] = 1, !["remove"] = 1,
                     !["drift"] = 1, !["crash"] = 1, !["fault"] = 2]
\* A CR deleted and created again under the worker.
RecreateBudget ==
    [NoBudget EXCEPT !["create"] = 2, !["delete"] = 1, !["fault"] = 1]
\* Pods that come and go, and operands removed while a watch is broken.
StatusBudget ==
    [NoBudget EXCEPT !["create"] = 1, !["pod"] = 2, !["remove"] = 2, !["gap"] = 1,
                     !["reorder"] = 1]
\* Two CRs that contend for the same operands; one of them is deleted.
TwoBudget ==
    [NoBudget EXCEPT !["create"] = 2, !["delete"] = 1, !["contend"] = 3]
===============================================================================
