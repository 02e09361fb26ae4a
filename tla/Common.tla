-------------------------------- MODULE Common --------------------------------
(***************************************************************************)
(* pkg/controller/common: the container resources both long-running        *)
(* services are given, computed from the resources section of a CR.        *)
(*                                                                         *)
(* A quantity is a natural number of millicores or MiB.  A field of a CR   *)
(* may also be unset or hold a string that is no quantity.                 *)
(***************************************************************************)
EXTENDS Integers

Unset == -1
Garbled == -2

ResourceNames == {"cpu", "memory"}
Fields == Nat \cup {Unset, Garbled}
Resources == [requests : [ResourceNames -> Fields],
              limits : [ResourceNames -> Fields]]

defaultRequests == [x \in ResourceNames |-> IF x = "cpu" THEN 50 ELSE 64]
defaultLimits == [x \in ResourceNames |-> IF x = "cpu" THEN 500 ELSE 512]

\* The resources a section names, whether or not they parse.
Given(section) == {x \in ResourceNames : section[x] # Unset}

\* ParseQuantity, where an error leaves the default in place.
Parsed(q, default) == IF q = Garbled THEN default ELSE q

\* Mutant: the defaults fill in for what is not given, too.
FilledThroughout(section, defaults) ==
    [x \in ResourceNames |->
        IF x \in Given(section) THEN Parsed(section[x], defaults[x]) ELSE defaults[x]]

\* The defaults of a section fill in for what does not parse, ...
Filled(section, defaults) ==
    [x \in Given(section) |-> Parsed(section[x], defaults[x])]

\* Mutant: only requests are counted.
GetResourcesByRequests(res) ==
    IF Given(res.requests) = {}
    THEN [requests |-> defaultRequests, limits |-> defaultLimits]
    ELSE [requests |-> Filled(res.requests, defaultRequests),
          limits |-> Filled(res.limits, defaultLimits)]

\* ... and stand for whole sections only if neither section names anything.
GetResources(res) ==
    IF Given(res.requests) \cup Given(res.limits) = {}
    THEN [requests |-> defaultRequests, limits |-> defaultLimits]
    ELSE [requests |-> Filled(res.requests, defaultRequests),
          limits |-> Filled(res.limits, defaultLimits)]

\* What the API server asks of a container: no request above its limit.
ValidRequirements(r) ==
    \A x \in (DOMAIN r.requests) \cap DOMAIN r.limits : r.requests[x] <= r.limits[x]
===============================================================================
