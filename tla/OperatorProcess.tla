---------------------------- MODULE OperatorProcess ----------------------------
(***************************************************************************)
(* The pods of the operator's Deployment and the process in each of them   *)
(* (cmd/manager/main.go): it waits until it is the leader, registers its   *)
(* controllers and runs them until it exits.                               *)
(*                                                                         *)
(* The lock is a ConfigMap which names the pod that holds it and belongs   *)
(* to that pod: nothing but the garbage collector ever takes it away, when *)
(* the pod is gone.  A rolling update and the replacement of a pod that is *)
(* being deleted both let two pods overlap.                                *)
(***************************************************************************)
EXTENDS Integers

CONSTANTS
    MaxPods,        \* how many pods there may ever be: a bound
    MaxExits,       \* how often a process may exit: a bound
    Nil             \* a value that is none of the others

ASSUME PodsAssumption == MaxPods \in Nat /\ MaxExits \in Nat /\ Nil \notin Nat

\* Pods, in the order in which they are created.
Replicas == 1 .. MaxPods

VARIABLES
    proc,       \* the process of each pod
    lock,       \* the pod named in the lock
    exits       \* what is left of MaxExits

processVars == <<proc, lock, exits>>

Stages == {"none", "starting", "leading", "running", "exited", "gone"}

ProcessInit ==
    /\ proc = [p \in Replicas |-> "none"]
    /\ lock = Nil
    /\ exits = MaxExits

Goes(p, from, to) == proc[p] \in from /\ proc' = [proc EXCEPT ![p] = to]

Alive == {p \in Replicas : proc[p] \notin {"none", "gone"}}

Schedule(p) ==
    /\ \A q \in 1 .. p - 1 : proc[q] # "none"
    /\ Goes(p, {"none"}, "starting")
    /\ UNCHANGED <<lock, exits>>

\* The Deployment keeps one pod ...
Replace(p) == Alive = {} /\ Schedule(p)

\* ... and starts another beside it in a rolling update, or when the first is
\* being deleted but has not shut down.
Surge(p) == Alive # {} /\ Schedule(p)

\* Mutant: the process goes on when it has waited long enough.
BecomeUnchecked(p) ==
    /\ Goes(p, {"starting"}, "leading")
    /\ lock' = p
    /\ UNCHANGED exits

\* Mutant: a lock from before a restart is not recognised.
BecomeAnew(p) ==
    /\ Goes(p, {"starting"}, "leading")
    /\ lock = Nil
    /\ lock' = p
    /\ UNCHANGED exits

\* leader.Become: creates the lock, or finds its own from before a restart;
\* waits for as long as another pod holds it.
Become(p) ==
    /\ Goes(p, {"starting"}, "leading")
    /\ lock \in {Nil, p}
    /\ lock' = p
    /\ UNCHANGED exits

\* The manager is made, every controller added to it, and started.
Run(p) ==
    /\ Goes(p, {"leading"}, "running")
    /\ UNCHANGED <<lock, exits>>

\* Any error before the start, an error or a signal after it.
Exit(p) ==
    /\ exits > 0 /\ exits' = exits - 1
    /\ Goes(p, {"starting", "leading", "running"}, "exited")
    /\ UNCHANGED lock

\* The kubelet starts the container of a pod again.
Again(p) ==
    /\ Goes(p, {"exited"}, "starting")
    /\ UNCHANGED <<lock, exits>>

\* A pod that is being deleted is gone once its container has stopped.  The last
\* name left stays: a bound, the Deployment would make another.
Gone(p) ==
    /\ Goes(p, {"exited"}, "gone")
    /\ \E q \in Replicas \ {p} : proc[q] # "gone"
    /\ UNCHANGED <<lock, exits>>

\* The garbage collector deletes the lock of a pod that is gone.
CollectLock ==
    /\ \E p \in Replicas : lock = p /\ proc[p] = "gone"
    /\ lock' = Nil
    /\ UNCHANGED <<proc, exits>>

ProcessNext ==
    \/ \E p \in Replicas :
          \/ Replace(p) \/ Surge(p) \/ Become(p) \/ Run(p)
          \/ Exit(p) \/ Again(p) \/ Gone(p)
    \/ CollectLock

ProcessSpec == ProcessInit /\ [][ProcessNext]_processVars

-------------------------------------------------------------------------------
(* Properties *)

ProcessTypeOK ==
    /\ proc \in [Replicas -> Stages]
    /\ lock \in Replicas \cup {Nil}
    /\ exits \in Nat

AtWork(p) == proc[p] \in {"leading", "running"}

\* Never do the controllers of two pods work at the same time, however pods
\* overlap, exit and come back (main.go:101-107).
OneAtWork == \A p, q \in Replicas : AtWork(p) /\ AtWork(q) => p = q

\* What OneAtWork rests on: a process at work holds the lock.
LockHeld == \A p \in Replicas : AtWork(p) => lock = p

\* Once processes exit no more, one of them runs its controllers for good: the
\* lock of a pod that is gone does not stay in the way of the next.
Serving == <>[](\E p \in Replicas : proc[p] = "running")

===============================================================================
