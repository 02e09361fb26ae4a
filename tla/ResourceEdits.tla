----------------------------- MODULE ResourceEdits -----------------------------
(***************************************************************************)
(* The resources section of a CR under edits of one field at a time, and   *)
(* what the container is given after each.                                 *)
(***************************************************************************)
EXTENDS Common

CONSTANT Quantities     \* the quantities a field may hold

ASSUME QuantitiesAssumption == Quantities \subseteq Nat

Values == Quantities \cup {Unset, Garbled}
Sections == {"requests", "limits"}

VARIABLE res

Init == res \in [Sections -> [ResourceNames -> {Unset}]]

Edit(section, x, v) == res' = [res EXCEPT ![section][x] = v]

Next == \E section \in Sections, x \in ResourceNames, v \in Values : Edit(section, x, v)

Spec == Init /\ [][Next]_res

-------------------------------------------------------------------------------

\* What the user wrote can be read, and asks for no more than it allows.
Readable == \A s \in Sections, x \in ResourceNames : res[s][x] # Garbled
Consistent ==
    \A x \in ResourceNames :
        (res.requests[x] # Unset /\ res.limits[x] # Unset)
            => res.requests[x] <= res.limits[x]

\* A default never turns a consistent section into requirements that the API
\* server refuses, which would stop the plan at its Deployment for good.
DefaultsAdmitted ==
    (Readable /\ Consistent) => ValidRequirements(GetResources(res))

\* The requirement for one resource in one section, if there is one.
Outcome(section, x) ==
    IF x \in DOMAIN GetResources(res)[section]
    THEN GetResources(res)[section][x] ELSE Unset

Blank == \A s \in Sections, x \in ResourceNames : res[s][x] = Unset

\* An edit of one field changes the requirement of that field alone; only the
\* first field that is set, and the last that is unset, change the others.
FieldsApart ==
    [][(~Blank /\ ~Blank') =>
          \A s \in Sections, x \in ResourceNames :
              res'[s][x] = res[s][x] => Outcome(s, x)' = Outcome(s, x)]_res

===============================================================================
