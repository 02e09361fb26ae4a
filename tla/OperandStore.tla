----------------------------- MODULE OperandStore -----------------------------
(***************************************************************************)
(* What the operator promises of its operands, with neither caches nor a   *)
(* worker: a store in which each operand is absent or holds the outcome of *)
(* one version of one CR.  Reconciler implements it.                       *)
(***************************************************************************)
EXTENDS Integers

CONSTANTS
    Names,          \* names of CRs
    Specs,          \* specs of CRs
    Keys,           \* operands
    Steps,          \* steps of the plan
    Target(_, _),   \* the operand of a step, for a spec
    Nil             \* a value that is none of the others

VARIABLES
    latest,     \* the newest version of each CR: its number and its spec
    operands    \* whether each operand lives, its version, the CR that controls
                \* it, and the version of which CR, and the step, it is written for

vars == <<latest, operands>>

Absent(rv) == [live |-> FALSE, rv |-> rv, owner |-> Nil, by |-> Nil]

Init ==
    /\ latest = [n \in Names |-> [gen |-> 0, spec |-> Nil]]
    /\ operands = [k \in Keys |-> Absent(0)]

\* A user creates or edits a CR ...
Revise(n, sp) ==
    /\ latest' = [latest EXCEPT ![n] = [gen |-> @.gen + 1, spec |-> sp]]
    /\ UNCHANGED operands

\* ... or deletes it.
Retire(n) ==
    /\ latest' = [latest EXCEPT ![n] = [gen |-> @.gen, spec |-> Nil]]
    /\ UNCHANGED operands

\* Step s of a plan for version g of CR n, with spec sp, writes its operand, when
\* the operands of the earlier steps have been there.  The newest version of a CR
\* is written with its own spec.  The step makes the operand its own if there is
\* none, else leaves it with its owner and does not go back to an older version of
\* the same CR.
Write(n, g, sp, s) ==
    LET k == Target(s, sp)
        old == operands[k]
    IN  /\ g <= latest[n].gen
        /\ latest[n].gen = g => latest[n].spec \in {sp, Nil}
        /\ \A t \in 1 .. s - 1 : operands[Target(t, sp)].rv > 0
        /\ old.live /\ old.by.name = n => old.by.gen <= g
        /\ operands' = [operands EXCEPT ![k] =
              [live |-> TRUE, rv |-> old.rv + 1,
               owner |-> IF old.live THEN old.owner ELSE n,
               by |-> [name |-> n, gen |-> g, spec |-> sp, step |-> s]]]
        /\ UNCHANGED latest

\* Somebody else makes a new version of an operand ...
Touch(k) ==
    /\ operands[k].live
    /\ operands' = [operands EXCEPT ![k] =
          [live |-> TRUE, rv |-> @.rv + 1, owner |-> @.owner, by |-> @.by]]
    /\ UNCHANGED latest

\* ... or a user or the garbage collector deletes it.
Remove(k) ==
    /\ operands' = [operands EXCEPT ![k] = Absent(@.rv + 1)]
    /\ UNCHANGED latest

Next ==
    \/ \E n \in Names : Retire(n) \/ \E sp \in Specs : Revise(n, sp)
    \/ \E n \in Names, sp \in Specs, s \in Steps :
          \E g \in 0 .. latest[n].gen : Write(n, g, sp, s)
    \/ \E k \in Keys : Touch(k) \/ Remove(k)

Spec == Init /\ [][Next]_vars

===============================================================================
