-------------------------- MODULE ResourceEditsProofs --------------------------
(***************************************************************************)
(* What is said of the resources of a CR, for every set of quantities.     *)
(***************************************************************************)
EXTENDS ResourceEdits, TLAPS

SectionsOK == res \in [Sections -> [ResourceNames -> Values]]

\* Every edit leaves two sections of fields.
LEMMA SectionsStay == Spec => []SectionsOK
<1>1. Init => SectionsOK
  BY DEF Init, Values, SectionsOK
<1>2. SectionsOK /\ [Next]_res => SectionsOK'
  <2> SUFFICES ASSUME SectionsOK,
                      NEW s \in Sections, NEW x \in ResourceNames, NEW v \in Values,
                      Edit(s, x, v)
               PROVE  SectionsOK'
    BY DEF Next, SectionsOK
  <2>1. [res[s] EXCEPT ![x] = v] \in [ResourceNames -> Values]
    BY DEF SectionsOK
  <2>2. res' = [res EXCEPT ![s] = [res[s] EXCEPT ![x] = v]]
    BY DEF Edit, SectionsOK
  <2> QED
    BY <2>1, <2>2 DEF SectionsOK
<1> QED
  BY <1>1, <1>2, PTL DEF Spec

\* The container requirements computed from a readable and consistent section
\* are admitted, whatever the user asks for and in whatever order of edits.
THEOREM AlwaysAdmitted == Spec => []DefaultsAdmitted
<1>1. ASSUME SectionsOK
      PROVE  DefaultsAdmitted
  <2> SUFFICES ASSUME Readable, Consistent
               PROVE  ValidRequirements(GetResources(res))
    BY DEF DefaultsAdmitted
  <2>1. CASE Given(res.requests) \cup Given(res.limits) = {}
    <3>1. GetResources(res) = [requests |-> defaultRequests, limits |-> defaultLimits]
      BY <2>1 DEF GetResources
    <3>2. \A x \in ResourceNames : defaultRequests[x] <= defaultLimits[x]
      BY DEF defaultRequests, defaultLimits, ResourceNames
    <3> QED
      BY <3>1, <3>2 DEF ValidRequirements, defaultRequests, defaultLimits
  <2>2. CASE Given(res.requests) \cup Given(res.limits) # {}
    <3> DEFINE q == Filled(res.requests, defaultRequests)
               l == Filled(res.limits, defaultLimits)
    <3>1. GetResources(res) = [requests |-> q, limits |-> l]
      BY <2>2 DEF GetResources
    <3>2. ASSUME NEW x \in Given(res.requests) \cap Given(res.limits)
          PROVE  q[x] <= l[x]
      <4>1. x \in ResourceNames /\ res.requests[x] # Unset /\ res.limits[x] # Unset
        BY DEF Given
      <4>2. q[x] = res.requests[x] /\ l[x] = res.limits[x]
        BY <4>1 DEF Filled, Parsed, Readable, Sections
      <4> QED
        BY <4>1, <4>2 DEF Consistent
    <3>3. DOMAIN q = Given(res.requests) /\ DOMAIN l = Given(res.limits)
      BY DEF Filled
    <3> HIDE DEF q, l
    <3> QED
      BY <3>1, <3>2, <3>3 DEF ValidRequirements
  <2> QED
    BY <2>1, <2>2
<1> QED
  BY <1>1, SectionsStay, PTL

\* Once a field of either section is set, the requirement that follows from a
\* field depends on no other field.
LEMMA OneFieldDecides ==
    ASSUME NEW r \in [Sections -> [ResourceNames -> Values]],
           \E t \in Sections, y \in ResourceNames : r[t][y] # Unset,
           NEW s \in Sections, NEW x \in ResourceNames
    PROVE  LET default == IF s = "requests" THEN defaultRequests ELSE defaultLimits
           IN  /\ x \in DOMAIN GetResources(r)[s] <=> r[s][x] # Unset
               /\ r[s][x] # Unset => GetResources(r)[s][x] = Parsed(r[s][x], default[x])
<1>1. Given(r.requests) \cup Given(r.limits) # {}
  <2>1. PICK t \in Sections, y \in ResourceNames : r[t][y] # Unset
    OBVIOUS
  <2>2. y \in Given(r[t]) /\ (t = "requests" \/ t = "limits")
    BY <2>1 DEF Given, Sections
  <2> QED
    BY <2>2
<1>2. GetResources(r) = [requests |-> Filled(r.requests, defaultRequests),
                         limits |-> Filled(r.limits, defaultLimits)]
  BY <1>1 DEF GetResources
<1>3. \A section, defaults :
         /\ DOMAIN Filled(section, defaults) = Given(section)
         /\ \A y \in Given(section) :
               Filled(section, defaults)[y] = Parsed(section[y], defaults[y])
  BY DEF Filled
<1>4. x \in Given(r[s]) <=> r[s][x] # Unset
  BY DEF Given
<1>5. CASE s = "requests"
  BY <1>2, <1>3, <1>4, <1>5
<1>6. CASE s = "limits"
  BY <1>2, <1>3, <1>4, <1>6
<1> QED
  BY <1>5, <1>6 DEF Sections

\* An edit of one field changes the requirement of that field alone, except where
\* the first field is set or the last one unset, whatever the quantities.
THEOREM EditsApart == Spec => FieldsApart
<1> DEFINE Apart == (~Blank /\ ~Blank') =>
                       \A s \in Sections, x \in ResourceNames :
                           res'[s][x] = res[s][x] => Outcome(s, x)' = Outcome(s, x)
<1>1. ASSUME SectionsOK, SectionsOK'
      PROVE  Apart
  <2> SUFFICES ASSUME ~Blank, ~Blank', NEW s \in Sections, NEW x \in ResourceNames,
                      res'[s][x] = res[s][x]
               PROVE  Outcome(s, x)' = Outcome(s, x)
    OBVIOUS
  <2>1. \E t \in Sections, y \in ResourceNames : res[t][y] # Unset
    BY DEF Blank
  <2>2. \E t \in Sections, y \in ResourceNames : res'[t][y] # Unset
    BY DEF Blank
  <2>3. CASE res[s][x] = Unset
    BY <1>1, <2>1, <2>2, <2>3, OneFieldDecides DEF Outcome, SectionsOK
  <2>4. CASE res[s][x] # Unset
    <3>1. /\ x \in DOMAIN GetResources(res)[s] /\ x \in DOMAIN GetResources(res')[s]
          /\ GetResources(res)[s][x] = GetResources(res')[s][x]
      BY <1>1, <2>1, <2>2, <2>4, OneFieldDecides DEF SectionsOK
    <3> QED
      BY <3>1 DEF Outcome
  <2> QED
    BY <2>3, <2>4
<1>2. SectionsOK /\ SectionsOK' /\ [Next]_res => [Apart]_res
  BY <1>1
<1> QED
  BY <1>2, SectionsStay, PTL DEF Spec, FieldsApart

===============================================================================
