---------------------------- MODULE ReconcilerStore ----------------------------
(***************************************************************************)
(* Reconciler as an implementation of OperandStore: what remains of it     *)
(* when caches, worker, calls in flight and contents are left out.         *)
(***************************************************************************)
EXTENDS Reconciler

StoredLatest == [n \in Names |-> [gen |-> crs[n].gen, spec |-> crs[n].spec]]

StoredOperand(o) ==
    [live |-> o.live, rv |-> o.rv,
     owner |-> IF o.live THEN o.owner.name ELSE Nil, by |-> o.by]
StoredOperands == [k \in Keys |-> StoredOperand(api[k])]

Store == INSTANCE OperandStore WITH latest <- StoredLatest, operands <- StoredOperands

\* Whatever crashes, lags, is retried, lands late or contends, the operands are
\* those of a store whose writes are in plan order, are for no version of a CR
\* that has not been there and for the newest one with its own spec, keep the
\* owner and never go back to an older version.
Implements == Store!Spec

===============================================================================
