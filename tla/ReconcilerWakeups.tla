--------------------------- MODULE ReconcilerWakeups ---------------------------
(***************************************************************************)
(* What the operands hold, and that nothing is forgotten: the inductive    *)
(* invariant behind NoLostWakeup and the properties of the operands of the *)
(* two plans, and its proof.  With several CRs that contend for the same   *)
(* operands, or once the events of a broken watch are lost, NoLostWakeup   *)
(* does not hold; so it is said of the states in which neither has         *)
(* happened yet.                                                           *)
(***************************************************************************)
EXTENDS ReconcilerRefinement

\* A CR of this name has been there.
Known(n) == crs[n].rv > 0

\* No second CR has been there, and no events have been lost, so far.
Lone == \A m, n \in Names : Known(m) /\ Known(n) => m = n
Gapless == budget["gap"] = Budget["gap"]
Undisturbed == Lone /\ Gapless

\* The cache of the CRs is behind the server or equal to it.
CRsBehind ==
    /\ \A n \in Names : /\ crCache[n].rv <= crs[n].rv
                        /\ crs[n].live => Known(n)
                        /\ crCache[n].live => crCache[n].rv > 0
    /\ pc # "down" => \A n \in Names : crCache[n].rv = crs[n].rv => crCache[n] = crs[n]

\* Whatever names a CR names one that has been there.
NamesKnown ==
    /\ \A k \in Keys : /\ api[k].live => Known(api[k].owner.name)
                       /\ apiCache[k].live => Known(apiCache[k].owner.name)
    /\ \A c \in InFlight : c.kind # "status" => Known(c.owner.name)
    /\ Active => Known(req)

\* A write has the content its step gives it, for the version it is written for.
CallsFulfil ==
    \A c \in InFlight : c.kind # "status" =>
        /\ c.key = Target(c.by.step, c.by.spec)
        /\ c.kind = "update" => c.by.step \notin CreateOnly
        /\ Fulfils(c.val, c.by.step, c.by.name, c.by.spec)

\* What users can turn field f of operand k into, when it is something else.
FromUsers(k, f, x) ==
    \E v \in Contents(k) : \E w \in Drifts(k, v) :
        /\ f \in DOMAIN w /\ w[f] = x
        /\ f \in DOMAIN v => v[f] # x

\* The steps that can have written operand k: those of CRs that have been there,
\* and of specs whose earlier operands have existed.
Writers(k) ==
    {w \in [name : Names, step : Steps, spec : Specs] :
        /\ Known(w.name)
        /\ Target(w.step, w.spec) = k
        /\ Earlier(api, w.step, w.spec)}

\* A field has the content that such a step gives it, or one that users give it.
Sources(k, f) == {Desired(w.step, w.name, w.spec, r)[f] : w \in Writers(k), r \in Readings}

Sourced(k, v) == \A f \in DOMAIN v : v[f] \in Sources(k, f) \/ FromUsers(k, f, v[f])

FieldsInv ==
    /\ \A k \in Keys : /\ api[k].live => Sourced(k, api[k].val)
                       /\ apiCache[k].live => Sourced(k, apiCache[k].val)
    /\ \A c \in InFlight : c.kind # "status" => Sourced(c.key, c.val)

\* What still brings CR n to the operand of step s: the worker is on its way
\* there with the spec the cache holds, ...
Ahead(n, s) ==
    /\ Active /\ req = n /\ h.spec = crCache[n].spec
    /\ \/ step < s
       \/ step = s /\ (pc = "ensure" \/ (pc = "call" /\ call.kind # "status"))

\* ... or the informer has yet to deliver an event that names n.
Pending(n, k) ==
    /\ apiCache[k].rv # api[k].rv
    /\ n \in events[k] \cup OwnersOf({apiCache[k], api[k]})

\* Or nothing is left to do there.
Satisfied(n, s) ==
    LET k == Target(s, crCache[n].spec)
    IN  /\ api[k].live
        /\ s \notin CreateOnly => Fulfils(api[k].val, s, n, crCache[n].spec)

Awake(n, s) ==
    \/ n \in queue
    \/ Ahead(n, s)
    \/ Pending(n, Target(s, crCache[n].spec))
    \/ Satisfied(n, s)

\* The bound on lost events is used up, never replenished.
GapsLeft == budget["gap"] <= Budget["gap"]

WakeupInv ==
    (Undisturbed /\ pc # "down") =>
        \A n \in Names, s \in Steps :
            (crCache[n].live /\ Target(s, crCache[n].spec) \in Watched) => Awake(n, s)

-------------------------------------------------------------------------------
(* Versions of CRs *)

\* A served write makes a CR its next version or leaves it alone.
LEMMA ApplyVersions ==
    ASSUME TypeOK, NEW n \in Names, NEW c, IsCall(c), Accepted(c), Apply(c)
    PROVE  crs'[n] = crs[n] \/ crs'[n].rv = crs[n].rv + 1
<1>1. CASE c.kind # "status"
  BY <1>1 DEF Apply
<1>2. CASE c.kind = "status"
  <2>1. crs \in [Names -> LiveCRs \cup AbsentCRs]
    BY DEF TypeOK, ServerOK
  <2>2. crs[c.by.name] \in LiveCRs
    <3>1. c.by.name \in Names
      BY <1>2 DEF IsCall, StatusCalls, Calls, Origins
    <3> QED
      BY <1>2, <2>1, <3>1 DEF Accepted, AbsentCRs
  <2> DEFINE with == [crs[c.by.name] EXCEPT !.nodes = c.nodes]
  <2>3. with.rv = crs[c.by.name].rv
    BY <2>2 DEF LiveCRs
  <2>4. Version(with).rv = with.rv + 1
    BY <2>2 DEF LiveCRs, Version
  <2>5. crs' = [crs EXCEPT ![c.by.name] = Version(with)]
    BY <1>2 DEF Apply
  <2> HIDE DEF with
  <2> QED
    BY <2>1, <2>3, <2>4, <2>5
<1> QED
  BY <1>1, <1>2

\* Versions of a CR only grow, and a changed CR has a new one.
LEMMA CRVersionsGrow ==
    ASSUME TypeOK, [Next]_vars, NEW n \in Names
    PROVE  /\ crs[n].rv \in Nat /\ crs'[n].rv \in Nat
           /\ crs[n].rv <= crs'[n].rv
           /\ crs'[n] # crs[n] => crs[n].rv < crs'[n].rv
<1>1. crs[n].rv \in Nat
  BY DEF TypeOK, ServerOK, LiveCRs, AbsentCRs
<1>2. crs \in [Names -> LiveCRs \cup AbsentCRs]
  BY DEF TypeOK, ServerOK
<1> DEFINE Grown == crs'[n] = crs[n] \/ crs'[n].rv = crs[n].rv + 1
<1> SUFFICES Grown
  BY <1>1
<1>3. CASE Answered
  <2>1. crs' = crs \/ (IsCall(call) /\ Accepted(call) /\ Apply(call))
    BY <1>3 DEF Answered, ObjectDone, StatusDone, Refused, server, TypeOK, WorkerOK
  <2> QED
    BY <2>1, ApplyVersions
<1>4. CASE Network
  <2>1. crs' = crs \/ \E c : IsCall(c) /\ Accepted(c) /\ Apply(c)
    BY <1>4 DEF Network, Abandon, Land, Lose, server, TypeOK
  <2> QED
    BY <2>1, ApplyVersions
<1>5. CASE Users
  <2>1. ASSUME NEW m \in Names, NEW new, crs' = [crs EXCEPT ![m] = new],
               new.rv = crs[m].rv + 1
        PROVE  Grown
    BY <1>2, <2>1
  <2>2. ASSUME NEW m \in Names, NEW sp \in Specs, CreateCR(m, sp) \/ EditSpec(m, sp)
        PROVE  Grown
    BY <2>1, <2>2 DEF CreateCR, EditSpec
  <2>3. ASSUME NEW m \in Names, DeleteCR(m)
        PROVE  Grown
    BY <2>1, <2>3 DEF DeleteCR
  <2> QED
    BY <1>5, <2>2, <2>3 DEF Users, RemoveOperand, EditOperand
<1>6. CASE (\E m \in Names : Take(m)) \/ Working \/ Informers \/ Cluster \/ Process
           \/ UNCHANGED vars
  BY <1>6 DEF Take, Begin, Ignore, Working, SkipExisting, SendCreate, SendUpdate,
     Report, SendStatus, Send, Informers, SyncCR, Resync, SyncOperand, Gap,
     SyncPods, Cluster, Collect, PodGone, PodStart, Process, Crash, Restart,
     server, vars
<1> QED
  BY <1>3, <1>4, <1>5, <1>6 DEF Next

\* A name that has been there has been there for good.
LEMMA KnownStays ==
    ASSUME TypeOK, [Next]_vars, NEW n \in Names, Known(n)
    PROVE  crs'[n].rv > 0
  BY CRVersionsGrow DEF Known

\* No informer, crash or restart puts the cache of the CRs ahead of the server.
LEMMA CRsBehindStep ==
    ASSUME TypeOK, CRsBehind, [Next]_vars
    PROVE  CRsBehind'
<1> SUFFICES ASSUME NEW n \in Names
             PROVE  /\ crCache'[n].rv <= crs'[n].rv
                    /\ crs'[n].live => crs'[n].rv > 0
                    /\ crCache'[n].live => crCache'[n].rv > 0
                    /\ pc' # "down" => (crCache'[n].rv = crs'[n].rv => crCache'[n] = crs'[n])
  BY DEF CRsBehind, Known
<1>1. /\ crs[n].rv \in Nat /\ crs'[n].rv \in Nat /\ crs[n].rv <= crs'[n].rv
      /\ crs'[n] # crs[n] => crs[n].rv < crs'[n].rv
  BY CRVersionsGrow
<1>2. crCache[n].rv \in Nat
  BY DEF TypeOK, CachesOK, LiveCRs, AbsentCRs
<1>3. AbsentCR.rv = 0 /\ ~AbsentCR.live
  BY DEF AbsentCR
<1> QED
  BY <1>1, <1>2, <1>3, CRCacheSteps DEF CRsBehind, Known

-------------------------------------------------------------------------------
(* Writes *)

\* A write that is new on its way was sent by the worker for its current step.
LEMMA NewCalls ==
    ASSUME TypeOK, [Next]_vars, NEW c \in InFlight', c \notin InFlight
    PROVE  c = call' /\ (SendCreate \/ SendUpdate \/ SendStatus)
<1>1. CASE \E n \in Names : Take(n)
  BY <1>1 DEF Take, Begin, Ignore, InFlight, worker
<1>2. CASE SkipExisting \/ Report
  BY <1>2 DEF SkipExisting, Report, Proceed, Finish, InFlight
<1>3. CASE Answered
  BY <1>3 DEF Answered, ObjectDone, StatusDone, Refused, Retry, Proceed, Finish, InFlight
<1>4. CASE Abandon \/ Process \/ UNCHANGED vars
  BY <1>4 DEF Abandon, Retry, Finish, Process, Crash, Restart, vars, worker, InFlight
<1>5. CASE SendCreate \/ SendUpdate \/ SendStatus
  BY <1>5 DEF SendCreate, SendUpdate, SendStatus, Send, InFlight
<1> QED
  BY <1>1, <1>2, <1>3, <1>4, <1>5, OthersKeepWorker DEF Next, Working, Network, Keeps

\* What an update of a step makes of an operand is what the step asks for.
LEMMA MergeFulfils ==
    ASSUME NEW sp \in Specs, NEW s \in Steps \ CreateOnly, NEW n \in Names,
           NEW r \in Readings, NEW v \in Contents(Target(s, sp))
    PROVE  Fulfils(Merge(s, v, Desired(s, n, sp, r)), s, n, sp)
<1>1. Desired(s, n, sp, r) \in Contents(Target(s, sp))
  BY PlanAssumption
<1>2. Managed(s) \subseteq DOMAIN v
  BY <1>1, ContentsAssumption
<1>3. \A f \in Managed(s) : Merge(s, v, Desired(s, n, sp, r))[f] = Desired(s, n, sp, r)[f]
  BY <1>2 DEF Merge
<1> QED
  BY <1>3 DEF Fulfils

\* Every write that is sent has the content its step asks for.
LEMMA CallsFulfilStep ==
    ASSUME TypeOK, CallsFulfil, [Next]_vars
    PROVE  CallsFulfil'
<1> SUFFICES ASSUME NEW c \in InFlight', c \notin InFlight, c.kind # "status"
             PROVE  /\ c.key = Target(c.by.step, c.by.spec)
                    /\ c.kind = "update" => c.by.step \notin CreateOnly
                    /\ Fulfils(c.val, c.by.step, c.by.name, c.by.spec)
  BY DEF CallsFulfil
<1>1. c = call' /\ (SendCreate \/ SendUpdate \/ SendStatus)
  BY NewCalls
<1>2. CASE SendCreate
  <2>1. PICK r \in Readings :
           /\ c.kind = "create" /\ c.key = Key /\ c.by = Origin
           /\ c.val = Desired(step, req, h.spec, r)
    BY <1>1, <1>2 DEF SendCreate, Send
  <2> QED
    BY <2>1 DEF Origin, Key, Fulfils
<1>3. CASE SendUpdate
  <2>1. PICK r \in Readings :
           /\ c.kind = "update" /\ c.key = Key /\ c.by = Origin
           /\ c.val = Merge(step, Current.val, Desired(step, req, h.spec, r))
    BY <1>1, <1>3 DEF SendUpdate, Send
  <2>2. /\ step \in Steps \ CreateOnly /\ req \in Names /\ h.spec \in Specs
        /\ Current.val \in Contents(Key)
    BY <1>3, ActiveType DEF SendUpdate, TypeOK, WorkerOK, LiveObjects, AbsentObjects
  <2>3. Fulfils(c.val, step, req, h.spec)
    BY <2>1, <2>2, MergeFulfils DEF Key
  <2> QED
    BY <2>1, <2>2, <2>3 DEF Origin, Key
<1>4. CASE SendStatus
  BY <1>1, <1>4 DEF SendStatus, Send
<1> QED
  BY <1>1, <1>2, <1>3, <1>4

\* No step makes up a name of a CR.
LEMMA NamesKnownStep ==
    ASSUME TypeOK, TypeOK', CachesBehind, CallOfStep, PlanInv, CRsBehind, NamesKnown,
           [Next]_vars
    PROVE  NamesKnown'
<1>1. ASSUME NEW k \in Keys, api'[k].live
      PROVE  crs'[api'[k].owner.name].rv > 0
  <2>1. \A o : o \in LiveObjects(k) => o.owner.name \in Names
    BY DEF LiveObjects, Refs
  <2>2. CASE (api'[k] = api[k] \/ Touched(k)) /\ api[k].live
    <3>1. api'[k].owner = api[k].owner /\ api[k] \in LiveObjects(k)
      BY <2>2 DEF Touched, TypeOK, ServerOK, AbsentObjects
    <3> QED
      BY <2>1, <2>2, <3>1, KnownStays DEF NamesKnown
  <2>3. CASE Written(k)
    <3>1. PICK c \in InFlight : c.kind # "status" /\ api'[k].owner = c.owner
      BY <2>3 DEF Written
    <3>2. c.owner.name \in Names
      BY <3>1, Typed DEF IsCall, StatusCalls, Calls, Refs
    <3> QED
      BY <3>1, <3>2, KnownStays DEF NamesKnown
  <2>4. ~Gone(k)
    BY <1>1 DEF Gone, AbsentObject
  <2> QED
    BY <1>1, <2>2, <2>3, <2>4, ServerSteps DEF Touched
<1>2. ASSUME NEW k \in Keys, apiCache'[k].live
      PROVE  crs'[apiCache'[k].owner.name].rv > 0
  <2>1. ~AbsentObject(0).live
    BY DEF AbsentObject
  <2>2. apiCache'[k] = apiCache[k] \/ apiCache'[k] = api[k]
    BY <1>2, <2>1, OperandCacheSteps
  <2>3. Known(apiCache'[k].owner.name)
    BY <1>2, <2>2 DEF NamesKnown
  <2>4. apiCache'[k].owner.name \in Names
    BY <1>2, <2>2 DEF TypeOK, ServerOK, CachesOK, LiveObjects, AbsentObjects, Refs
  <2> QED
    BY <2>3, <2>4, KnownStays
<1>3. ASSUME NEW c \in InFlight', c.kind # "status"
      PROVE  crs'[c.owner.name].rv > 0
  <2>1. CASE c \in InFlight
    <3>1. c.owner.name \in Names
      BY <1>3, <2>1, Typed DEF IsCall, StatusCalls, Calls, Refs
    <3> QED
      BY <1>3, <2>1, <3>1, KnownStays DEF NamesKnown
  <2>2. CASE c \notin InFlight
    <3>1. c = call' /\ (SendCreate \/ SendUpdate \/ SendStatus)
      BY <2>2, NewCalls
    <3>2. Sends
      BY <3>1, SendSteps
    <3>3. Active /\ Key \in Keys /\ req \in Names
      BY <3>2, KeyIsKey DEF Sends, Active, TypeOK, WorkerOK
    <3>4. CASE SendCreate
      <4>1. c.owner.name = req
        BY <3>1, <3>4 DEF SendCreate, Send, Self
      <4> QED
        BY <3>3, <4>1, KnownStays DEF NamesKnown
    <3>5. CASE SendUpdate
      <4>1. c.owner.name = Current.owner.name /\ Current.live
        BY <3>1, <3>5 DEF SendUpdate, Send, OwnerAfter, Self
      <4>2. Current.owner.name \in Names
        BY <3>3, <4>1 DEF Current, TypeOK, CachesOK, LiveObjects, AbsentObjects, Refs
      <4> QED
        BY <3>3, <4>1, <4>2, KnownStays DEF NamesKnown, Current
    <3>6. CASE SendStatus
      BY <1>3, <3>1, <3>6 DEF SendStatus, Send
    <3> QED
      BY <3>1, <3>4, <3>5, <3>6
  <2> QED
    BY <2>1, <2>2
<1>4. ASSUME Active'
      PROVE  crs'[req'].rv > 0
  <2>1. req' \in Names /\ h' \in LiveCRs
    BY <1>4 DEF Active, TypeOK, WorkerOK
  <2>2. CASE Starts
    <3>1. crCache[req'].live
      BY <2>1, <2>2 DEF Starts, LiveCRs
    <3>2. Known(req')
      <4>1. crCache[req'].rv \in Nat /\ crs[req'].rv \in Nat
        BY <2>1 DEF TypeOK, ServerOK, CachesOK, LiveCRs, AbsentCRs
      <4> QED
        BY <2>1, <3>1, <4>1 DEF CRsBehind, Known
    <3> QED
      BY <2>1, <3>2, CRVersionsGrow DEF Known
  <2>3. CASE Advances \/ Stays
    <3>1. Known(req) /\ req' = req
      BY <2>3 DEF Advances, Stays, NamesKnown
    <3> QED
      BY <2>1, <3>1, CRVersionsGrow DEF Known
  <2> QED
    BY <1>4, <2>2, <2>3, WorkerSteps DEF Rests
<1> QED
  BY <1>1, <1>2, <1>3, <1>4 DEF NamesKnown, Known

-------------------------------------------------------------------------------
(* Fields *)

\* Who can have written an operand can have done so for good.
LEMMA SourcesStay ==
    ASSUME TypeOK, [Next]_vars, NEW k, NEW f
    PROVE  Sources(k, f) \subseteq Sources(k, f)'
<1> SUFFICES ASSUME NEW w \in Writers(k)
             PROVE  w \in Writers(k)'
  BY DEF Sources
<1>1. /\ w.name \in Names /\ w.step \in Steps /\ w.spec \in Specs
      /\ Known(w.name) /\ Earlier(api, w.step, w.spec)
  BY DEF Writers
<1>2. crs'[w.name].rv > 0 /\ Earlier(api', w.step, w.spec)
  BY <1>1, KnownStays, EarlierStays
<1> QED
  BY <1>2 DEF Writers, Known, Earlier

\* Every field of what a step asks for is one the step gives.
LEMMA DesiredSourced ==
    ASSUME TypeOK, Active, PlanInv, NamesKnown, NEW r \in Readings
    PROVE  Sourced(Key, Desired(step, req, h.spec, r))
<1> DEFINE w == [name |-> req, step |-> step, spec |-> h.spec]
<1>1. w \in [name : Names, step : Steps, spec : Specs]
  BY ActiveType DEF Active, TypeOK, WorkerOK
<1>2. w \in Writers(Key)
  BY <1>1 DEF Writers, Key, PlanInv, NamesKnown
<1>3. \A f : Desired(w.step, w.name, w.spec, r)[f] \in Sources(Key, f)
  BY <1>2 DEF Sources
<1> QED
  BY <1>3 DEF Sourced

\* Every field of a write, an operand and its copy in the cache comes from a step
\* or from users.
LEMMA FieldsInvStep ==
    ASSUME TypeOK, PlanInv, NamesKnown, FieldsInv, [Next]_vars
    PROVE  FieldsInv'
<1>1. ASSUME NEW k, NEW v, Sourced(k, v)
      PROVE  \A f \in DOMAIN v : v[f] \in Sources(k, f)' \/ FromUsers(k, f, v[f])
  BY <1>1, SourcesStay DEF Sourced
<1>2. ASSUME NEW c \in InFlight', c.kind # "status"
      PROVE  Sourced(c.key, c.val)
  <2>1. CASE c \in InFlight
    BY <1>2, <2>1 DEF FieldsInv
  <2>2. CASE c \notin InFlight
    <3>1. c = call' /\ (SendCreate \/ SendUpdate \/ SendStatus)
      BY <2>2, NewCalls
    <3>2. Active /\ Key \in Keys
      BY <3>1, KeyIsKey DEF SendCreate, SendUpdate, SendStatus, Active
    <3>3. CASE SendCreate
      <4>1. PICK r \in Readings : c.key = Key /\ c.val = Desired(step, req, h.spec, r)
        BY <3>1, <3>3 DEF SendCreate, Send
      <4> QED
        BY <3>2, <4>1, DesiredSourced
    <3>4. CASE SendUpdate
      <4>1. PICK r \in Readings :
               /\ c.key = Key
               /\ c.val = Merge(step, Current.val, Desired(step, req, h.spec, r))
        BY <3>1, <3>4 DEF SendUpdate, Send
      <4> DEFINE d == Desired(step, req, h.spec, r)
      <4>2. Sourced(Key, d) /\ Sourced(Key, Current.val)
        BY <3>2, <3>4, DesiredSourced DEF SendUpdate, Current, FieldsInv
      <4>3. Managed(step) \subseteq DOMAIN d
        <5>1. step \in Steps \ CreateOnly /\ req \in Names /\ h.spec \in Specs
          BY <3>2, <3>4, ActiveType DEF SendUpdate, Active, TypeOK, WorkerOK
        <5>2. d \in Contents(Target(step, h.spec))
          BY <5>1, PlanAssumption
        <5> QED
          BY <5>1, <5>2, ContentsAssumption
      <4>4. \A f \in DOMAIN c.val :
               \/ f \in DOMAIN d /\ c.val[f] = d[f]
               \/ f \in DOMAIN Current.val /\ c.val[f] = Current.val[f]
        BY <4>1, <4>3 DEF Merge
      <4> HIDE DEF d
      <4> QED
        BY <4>1, <4>2, <4>4 DEF Sourced
    <3>5. CASE SendStatus
      BY <1>2, <3>1, <3>5 DEF SendStatus, Send
    <3> QED
      BY <3>1, <3>3, <3>4, <3>5
  <2> QED
    BY <2>1, <2>2
<1>3. ASSUME NEW k \in Keys, api'[k].live
      PROVE  Sourced(k, api'[k].val)
  <2>1. CASE api'[k] = api[k]
    BY <1>3, <2>1 DEF FieldsInv
  <2>2. CASE Written(k)
    BY <2>2 DEF Written, FieldsInv
  <2>3. CASE Touched(k)
    <3>1. Sourced(k, api[k].val) /\ api[k].val \in Contents(k)
      BY <2>3 DEF Touched, FieldsInv, TypeOK, ServerOK, LiveObjects, AbsentObjects
    <3> QED
      BY <2>3, <3>1 DEF Touched, Sourced, FromUsers
  <2>4. ~Gone(k)
    BY <1>3 DEF Gone, AbsentObject
  <2> QED
    BY <2>1, <2>2, <2>3, <2>4, ServerSteps
<1>4. ASSUME NEW k \in Keys, apiCache'[k].live
      PROVE  Sourced(k, apiCache'[k].val)
  <2>1. ~AbsentObject(0).live
    BY DEF AbsentObject
  <2>2. apiCache'[k] = apiCache[k] \/ apiCache'[k] = api[k]
    BY <1>4, <2>1, OperandCacheSteps
  <2> QED
    BY <1>4, <2>2 DEF FieldsInv
<1>5. \A c \in InFlight' : c.kind # "status" =>
         \A f \in DOMAIN c.val :
            c.val[f] \in Sources(c.key, f)' \/ FromUsers(c.key, f, c.val[f])
  BY <1>1, <1>2
<1>6. \A k \in Keys :
         /\ api'[k].live => \A f \in DOMAIN api'[k].val :
               api'[k].val[f] \in Sources(k, f)' \/ FromUsers(k, f, api'[k].val[f])
         /\ apiCache'[k].live => \A f \in DOMAIN apiCache'[k].val :
               apiCache'[k].val[f] \in Sources(k, f)' \/ FromUsers(k, f, apiCache'[k].val[f])
  BY <1>1, <1>3, <1>4
<1> QED
  BY <1>5, <1>6 DEF FieldsInv, Sourced, FromUsers

-------------------------------------------------------------------------------
(* Events *)

\* An operand stays as it is, or its change is announced: to the controller it
\* had and the one it has.
Announced(k) ==
    /\ events[k] \subseteq events'[k]
    /\ \/ api'[k] = api[k]
       \/ /\ api[k].rv < api'[k].rv
          /\ OwnersOf({api[k], api'[k]}) \subseteq events'[k]

\* What is stored while the operator runs is announced.
LEMMA PutAnnounces ==
    ASSUME TypeOK, NEW j \in Keys, NEW o, Put(j, o), pc # "down",
           o = api[j] \/ o.rv = api[j].rv + 1, NEW k \in Keys
    PROVE  Announced(k)
<1>1. api[k].rv \in Nat /\ api[j].rv \in Nat
  BY Typed
<1>2. api'[k] = IF k = j THEN o ELSE api[k]
  BY DEF Put, TypeOK, ServerOK
<1>3. CASE o = api[j]
  <2>1. events' = events /\ api'[k] = api[k]
    BY <1>2, <1>3 DEF Put
  <2> QED
    BY <2>1 DEF Announced
<1>4. CASE o.rv = api[j].rv + 1
  <2>1. o.rv # api[j].rv /\ api[j].rv < o.rv
    BY <1>1, <1>4
  <2>2. events' = [events EXCEPT ![j] = @ \cup OwnersOf({api[j], o})]
    BY <2>1 DEF Put
  <2>3. events'[k] = IF k = j THEN events[k] \cup OwnersOf({api[j], o}) ELSE events[k]
    BY <2>2 DEF TypeOK, ServerOK
  <2>4. CASE k = j
    BY <1>2, <2>1, <2>3, <2>4 DEF Announced
  <2>5. CASE k # j
    BY <1>2, <2>3, <2>5 DEF Announced
  <2> QED
    BY <2>4, <2>5
<1> QED
  BY <1>3, <1>4

\* A served write is announced, ...
LEMMA ApplyAnnounces ==
    ASSUME TypeOK, NEW c, IsCall(c), Accepted(c), Apply(c), pc # "down", NEW k \in Keys
    PROVE  Announced(k)
<1>1. CASE c.kind = "status"
  BY <1>1 DEF Apply, Announced
<1>2. CASE c.kind # "status"
  <2>1. Put(c.key, Stored(c)) /\ c.key \in Keys
    BY <1>2, StoredType DEF Apply
  <2>2. Stored(c) = api[c.key] \/ Stored(c).rv = api[c.key].rv + 1
    BY DEF Stored
  <2> QED
    BY <2>1, <2>2, PutAnnounces
<1> QED
  BY <1>1, <1>2

\* ... and so is what users, pods and the garbage collector do.
LEMMA OutsideAnnounces ==
    ASSUME TypeOK, Users \/ Cluster, pc # "down", NEW k \in Keys
    PROVE  Announced(k)
<1>1. ASSUME NEW j \in Keys, Deleted(j)
      PROVE  Announced(k)
  <2>1. AbsentObject(api[j].rv + 1).rv = api[j].rv + 1
    BY DEF AbsentObject
  <2> QED
    BY <1>1, <2>1, PutAnnounces DEF Deleted
<1>2. ASSUME NEW j \in Keys, NEW o, o \in LiveObjects(j), Put(j, Version(o)),
             o.rv = api[j].rv
      PROVE  Announced(k)
  <2>1. Version(o).rv = api[j].rv + 1
    BY <1>2 DEF Version, LiveObjects
  <2> QED
    BY <1>2, <2>1, PutAnnounces
<1>3. ASSUME NEW j \in Keys, EditOperand(j)
      PROVE  Announced(k)
  <2>1. api[j] \in LiveObjects(j)
    BY <1>3 DEF EditOperand, TypeOK, ServerOK, AbsentObjects
  <2>2. PICK v \in Drifts(j, api[j].val) : Put(j, Version([api[j] EXCEPT !.val = v]))
    BY <1>3 DEF EditOperand
  <2>3. v \in Contents(j)
    BY <2>1, <2>2, ContentsAssumption DEF LiveObjects
  <2> DEFINE o == [api[j] EXCEPT !.val = v]
  <2>4. o \in LiveObjects(j) /\ o.rv = api[j].rv
    BY <2>1, <2>3 DEF LiveObjects
  <2> HIDE DEF o
  <2>5. Put(j, Version(o))
    BY <2>2 DEF o
  <2> QED
    BY <1>2, <2>4, <2>5
<1>4. ASSUME NEW j \in Workloads, NEW p \in Pods, PodStart(j, p)
      PROVE  Announced(k)
  <2>1. j \in Keys
    BY SizesAssumption
  <2>2. api[j] \in LiveObjects(j)
    BY <1>4, <2>1 DEF PodStart, TypeOK, ServerOK, AbsentObjects
  <2> QED
    BY <1>2, <1>4, <2>1, <2>2 DEF PodStart
<1>5. CASE api' = api /\ events' = events
  BY <1>5 DEF Announced
<1> QED
  BY <1>1, <1>3, <1>4, <1>5 DEF Users, CreateCR, EditSpec, DeleteCR, RemoveOperand,
     Cluster, Collect, PodGone

\* While the operator runs and no watch breaks, an informer delivers the events
\* of an operand, or all that happens to the operand is announced.
LEMMA EventSteps ==
    ASSUME TypeOK, [Next]_vars, pc # "down", pc' # "down",
           budget'["gap"] = budget["gap"], NEW k \in Keys
    PROVE  SyncOperand(k) \/ (apiCache'[k] = apiCache[k] /\ Announced(k))
<1>1. CASE UNCHANGED <<api, events, apiCache>>
  BY <1>1 DEF Announced
<1>2. CASE Answered
  BY <1>2, ApplyAnnounces, <1>1
     DEF Answered, ObjectDone, StatusDone, Refused, TypeOK, WorkerOK, caches, server
<1>3. CASE Network
  BY <1>3, ApplyAnnounces, <1>1 DEF Network, Abandon, Land, Lose, TypeOK, caches, server
<1>4. CASE Users \/ Cluster
  <2>1. apiCache' = apiCache
    BY <1>4 DEF Users, CreateCR, EditSpec, DeleteCR, RemoveOperand, EditOperand,
       Cluster, Collect, PodGone, PodStart, caches
  <2> QED
    BY <1>4, <2>1, OutsideAnnounces
<1>5. CASE Informers
  <2>1. ASSUME NEW j \in Keys, SyncOperand(j), j # k
        PROVE  apiCache'[k] = apiCache[k] /\ events'[k] = events[k] /\ api' = api
    BY <2>1 DEF SyncOperand, TypeOK, ServerOK, CachesOK
  <2>2. ASSUME NEW j \in Keys, Gap(j)
        PROVE  FALSE
    <3>1. budget["gap"] \in Nat /\ "gap" \in DOMAIN budget
      BY DEF TypeOK, Disturbances
    <3> QED
      BY <2>2, <3>1 DEF Gap, Spend
  <2>3. ASSUME NEW n \in Names, SyncCR(n) \/ Resync(n)
        PROVE  UNCHANGED <<api, events, apiCache>>
    BY <2>3 DEF SyncCR, Resync, server, caches
  <2>4. ASSUME NEW j \in Workloads, SyncPods(j)
        PROVE  UNCHANGED <<api, events, apiCache>>
    BY <2>4 DEF SyncPods, server
  <2> QED
    BY <1>1, <1>5, <2>1, <2>2, <2>3, <2>4 DEF Informers, Announced
<1>6. CASE (\E n \in Names : Take(n)) \/ Working \/ UNCHANGED vars
  BY <1>1, <1>6 DEF Take, Begin, Ignore, Working, SkipExisting, SendCreate, SendUpdate,
     Report, SendStatus, Send, server, caches, vars
<1>7. ~Process
  BY DEF Process, Crash, Restart
<1> QED
  BY <1>2, <1>3, <1>4, <1>5, <1>6, <1>7 DEF Next

-------------------------------------------------------------------------------
(* Wakeups *)

\* No step gives a lost event back.
LEMMA GapsSteps ==
    ASSUME TypeOK, [Next]_vars
    PROVE  budget["gap"] \in Nat /\ budget'["gap"] \in Nat /\ budget'["gap"] <= budget["gap"]
<1>1. budget \in [Disturbances -> Nat] /\ "gap" \in Disturbances
  BY DEF TypeOK, Disturbances
<1> DEFINE Less == budget' = budget \/ \E d \in Disturbances : Spend(d)
<1>2. Less => /\ budget["gap"] \in Nat /\ budget'["gap"] \in Nat
              /\ budget'["gap"] <= budget["gap"]
  <2>1. ASSUME NEW d \in Disturbances, Spend(d)
        PROVE  /\ budget["gap"] \in Nat /\ budget'["gap"] \in Nat
               /\ budget'["gap"] <= budget["gap"]
    <3>1. budget["gap"] \in Nat /\ budget[d] \in Nat /\ budget[d] > 0
      BY <1>1, <2>1 DEF Spend
    <3>2. budget'["gap"] = IF d = "gap" THEN budget[d] - 1 ELSE budget["gap"]
      BY <1>1, <2>1 DEF Spend
    <3> QED
      BY <3>1, <3>2
  <2> QED
    BY <1>1, <2>1
<1> SUFFICES Less
  BY <1>2
<1>3. CASE (\E n \in Names : Take(n)) \/ Answered \/ UNCHANGED vars
  BY <1>3 DEF Take, Begin, Ignore, Answered, ObjectDone, StatusDone, Refused, vars
<1>4. CASE Working
  <2>1. CASE SendUpdate
    <3>1. budget' = budget \/ Spend("contend")
      BY <2>1 DEF SendUpdate
    <3> QED
      BY <3>1 DEF Disturbances
  <2>2. CASE SendStatus
    <3>1. budget' = budget \/ Spend("reorder")
      BY <2>2 DEF SendStatus
    <3> QED
      BY <3>1 DEF Disturbances
  <2> QED
    BY <1>4, <2>1, <2>2 DEF Working, SkipExisting, SendCreate, Report
<1>5. CASE Informers
  <2>1. budget' = budget \/ Spend("gap")
    BY <1>5 DEF Informers, SyncCR, Resync, SyncOperand, Gap, SyncPods
  <2> QED
    BY <2>1 DEF Disturbances
<1>6. CASE Users
  <2>1. \/ Spend("create") \/ Spend("edit") \/ Spend("delete")
        \/ Spend("remove") \/ Spend("drift") \/ Spend("tamper")
    BY <1>6 DEF Users, CreateCR, EditSpec, DeleteCR, RemoveOperand, EditOperand
  <2> QED
    BY <2>1 DEF Disturbances
<1>7. CASE Cluster
  <2>1. budget' = budget \/ Spend("pod")
    BY <1>7 DEF Cluster, Collect, PodGone, PodStart
  <2> QED
    BY <2>1 DEF Disturbances
<1>8. CASE Network \/ Process
  <2>1. budget' = budget \/ Spend("fault") \/ Spend("crash")
    BY <1>8 DEF Network, Abandon, Land, Lose, Process, Crash, Restart
  <2> QED
    BY <2>1 DEF Disturbances
<1> QED
  BY <1>3, <1>4, <1>5, <1>6, <1>7, <1>8 DEF Next

\* Nothing disturbed now was disturbed before.
LEMMA UndisturbedBefore ==
    ASSUME TypeOK, GapsLeft, [Next]_vars, Undisturbed'
    PROVE  Undisturbed /\ budget'["gap"] = budget["gap"]
<1>1. Lone
  BY KnownStays DEF Undisturbed, Lone, Known
<1>2. Gapless /\ budget'["gap"] = budget["gap"]
  <2>1. Budget["gap"] \in Nat
    BY SizesAssumption DEF Disturbances
  <2> QED
    BY <2>1, GapsSteps DEF Undisturbed, Gapless, GapsLeft
<1> QED
  BY <1>1, <1>2 DEF Undisturbed

\* When only one CR has been there, it owns whatever there is.
LEMMA OneOwner ==
    ASSUME TypeOK, NamesKnown, Lone, NEW n \in Names, Known(n)
    PROVE  \A k \in Keys : /\ api[k].live => api[k].owner.name = n
                           /\ apiCache[k].live => apiCache[k].owner.name = n
<1>1. \A k \in Keys : /\ api[k].live => api[k].owner.name \in Names
                      /\ apiCache[k].live => apiCache[k].owner.name \in Names
  BY DEF TypeOK, ServerOK, CachesOK, LiveObjects, AbsentObjects, Refs
<1> QED
  BY <1>1 DEF NamesKnown, Lone

\* A name leaves the queue when its turn comes, and only then.
LEMMA QueueSteps ==
    ASSUME TypeOK, [Next]_vars, pc # "down", pc' # "down", NEW n \in Names
    PROVE  /\ n \in queue => n \in queue' \/ Begin(n) \/ Ignore(n)
           /\ crCache'[n] = crCache[n] \/ n \in queue'
<1>1. CASE \E m \in Names : Take(m)
  BY <1>1 DEF Take, Begin, Ignore, caches
<1>2. CASE Informers
  BY <1>2 DEF Informers, SyncCR, Resync, SyncOperand, Gap, SyncPods, caches, TypeOK, CachesOK
<1>3. CASE Working \/ Answered \/ UNCHANGED vars
  BY <1>3 DEF Working, SkipExisting, SendCreate, SendUpdate, Report, SendStatus, Send,
     Answered, ObjectDone, StatusDone, Refused, Retry, caches, vars
<1>4. CASE Users \/ Cluster \/ Network
  BY <1>4 DEF Users, CreateCR, EditSpec, DeleteCR, RemoveOperand, EditOperand, Cluster,
     Collect, PodGone, PodStart, Network, Abandon, Retry, Land, Lose, caches
<1>5. ~Process
  BY DEF Process, Crash, Restart
<1> QED
  BY <1>1, <1>2, <1>3, <1>4, <1>5 DEF Next

\* A CR whose turn comes has its whole plan ahead of it.
LEMMA TakenIsAhead ==
    ASSUME TypeOK, NEW n \in Names, Begin(n), NEW s \in Steps
    PROVE  Ahead(n, s)'
  BY DEF Begin, Ahead, Active, Steps, caches

\* A pending event is delivered or stays pending, and more so.
LEMMA PendingStep ==
    ASSUME TypeOK, CachesBehind, [Next]_vars, pc # "down", pc' # "down",
           budget'["gap"] = budget["gap"],
           NEW n \in Names, NEW k \in Watched, Pending(n, k)
    PROVE  n \in queue' \/ Pending(n, k)'
<1>1. k \in Keys
  BY SizesAssumption
<1>2. CASE SyncOperand(k)
  BY <1>2 DEF SyncOperand, Pending
<1>3. CASE apiCache'[k] = apiCache[k] /\ Announced(k)
  <2>1. apiCache[k].rv < api[k].rv /\ api[k].rv \in Nat /\ apiCache[k].rv \in Nat
    BY <1>1, Typed DEF Pending, CachesBehind
  <2>2. api[k].rv <= api'[k].rv /\ api'[k].rv \in Nat
    BY <1>1, VersionsGrow
  <2>3. apiCache'[k].rv # api'[k].rv
    BY <1>3, <2>1, <2>2
  <2>4. n \in events'[k] \cup OwnersOf({apiCache'[k], api'[k]})
    BY <1>3 DEF Pending, Announced, OwnersOf
  <2> QED
    BY <2>3, <2>4 DEF Pending
<1> QED
  BY <1>1, <1>2, <1>3, EventSteps

\* What is done stays done, or its undoing is pending.
LEMMA SatisfiedStep ==
    ASSUME TypeOK, CachesBehind, NamesKnown, Lone, [Next]_vars, pc # "down", pc' # "down",
           budget'["gap"] = budget["gap"],
           NEW n \in Names, Known(n), NEW s \in Steps,
           crCache'[n] = crCache[n], crCache[n].live, Satisfied(n, s)
    PROVE  Satisfied(n, s)' \/ Pending(n, Target(s, crCache[n].spec))'
<1> DEFINE k == Target(s, crCache[n].spec)
<1>1. k \in Keys
  BY PlanAssumption DEF TypeOK, CachesOK, LiveCRs, AbsentCRs
<1>2. api[k].live /\ api[k].owner.name = n
  BY <1>1, OneOwner DEF Satisfied
<1>3. CASE api'[k] = api[k]
  BY <1>3 DEF Satisfied
<1>4. CASE apiCache'[k] = apiCache[k] /\ Announced(k) /\ api'[k] # api[k]
  <2>1. apiCache[k].rv <= api[k].rv /\ api[k].rv \in Nat /\ apiCache[k].rv \in Nat
    BY <1>1, Typed DEF CachesBehind
  <2>2. api[k].rv < api'[k].rv /\ api'[k].rv \in Nat
    BY <1>1, <1>4, VersionsGrow
  <2>3. n \in events'[k]
    BY <1>2, <1>4 DEF Announced, OwnersOf
  <2> QED
    BY <1>4, <2>1, <2>2, <2>3 DEF Pending
<1>5. SyncOperand(k) => api'[k] = api[k]
  BY DEF SyncOperand
<1> QED
  BY <1>1, <1>3, <1>4, <1>5, EventSteps

\* A step before s that is done leads on towards s.
LEMMA ProceedAhead ==
    ASSUME TypeOK, Active, NEW n \in Names, req = n, h.spec = crCache[n].spec,
           crCache'[n] = crCache[n], NEW s \in Steps, step < s,
           NEW cr, cr.spec = h.spec, Proceed(cr)
    PROVE  Ahead(n, s)'
<1>1. step \in Nat /\ s \in Nat /\ NSteps \in Nat /\ s <= NSteps
  BY SizesAssumption DEF TypeOK, WorkerOK, Steps
<1>2. step # NSteps
  BY <1>1
<1>3. pc' = "ensure" /\ step' = step + 1 /\ h' = cr /\ req' = req
  BY <1>2 DEF Proceed
<1>4. step' < s \/ step' = s
  BY <1>1, <1>3
<1> QED
  BY <1>3, <1>4 DEF Ahead, Active

\* The write of step s gives its operand what the step asks for.
LEMMA ObjectDoneSatisfies ==
    ASSUME TypeOK, CallOfStep, CallsFulfil, ObjectDone, NEW n \in Names, req = n,
           NEW s \in Steps, step = s, h.spec = crCache[n].spec, crCache' = crCache
    PROVE  Satisfied(n, s)'
<1>1. /\ call.key = Key /\ call.by = Origin /\ IsCall(call)
      /\ Accepted(call) /\ call.kind # "status"
  BY DEF ObjectDone, CallOfStep, TypeOK, WorkerOK
<1>2. call \in InFlight
  BY DEF ObjectDone, InFlight
<1>3. Key \in Keys /\ Stored(call) \in LiveObjects(Key)
  BY <1>1, StoredType
<1>4. api'[Key] = Stored(call)
  BY <1>1, <1>3 DEF ObjectDone, Apply, Put, TypeOK, ServerOK
<1>5. Stored(call).live /\ Stored(call).val = call.val
  BY <1>1, <1>3 DEF Stored, LiveObjects
<1>6. Fulfils(call.val, s, n, h.spec)
  BY <1>1, <1>2 DEF CallsFulfil, Origin
<1>7. Target(s, crCache'[n].spec) = Key
  BY DEF Key
<1> QED
  BY <1>4, <1>5, <1>6, <1>7 DEF Satisfied

\* The worker on its way to step s goes on, gets there, or gives up and puts the
\* name back into the queue.
LEMMA AheadStep ==
    ASSUME TypeOK, CachesBehind, CallOfStep, NamesKnown, CallsFulfil, Lone,
           [Next]_vars, pc # "down", pc' # "down",
           NEW n \in Names, Known(n), NEW s \in Steps,
           crCache'[n] = crCache[n], Ahead(n, s)
    PROVE  \/ n \in queue'
           \/ Ahead(n, s)'
           \/ Pending(n, Target(s, crCache[n].spec))'
           \/ Satisfied(n, s)'
<1>1. /\ Active /\ req = n /\ h.spec = crCache[n].spec
      /\ step < s \/ (step = s /\ (pc = "ensure" \/ (pc = "call" /\ call.kind # "status")))
  BY DEF Ahead
<1>2. Key = Target(step, crCache[n].spec) /\ Key \in Keys /\ step \in Nat /\ s \in Nat
  BY <1>1, KeyIsKey DEF Key, TypeOK, WorkerOK, Steps
<1>3. CASE UNCHANGED worker
  BY <1>1, <1>3 DEF worker, Ahead, Active
<1>4. CASE SkipExisting
  <2>1. CASE step < s
    BY <1>1, <1>4, <2>1, ProceedAhead DEF SkipExisting
  <2>2. CASE step = s /\ apiCache[Key].rv = api[Key].rv
    <3>1. api[Key].live /\ s \in CreateOnly /\ api' = api
      BY <1>2, <1>4, <2>2 DEF SkipExisting, Current, CachesBehind, server
    <3> QED
      BY <1>2, <2>2, <3>1 DEF Satisfied
  <2>3. CASE step = s /\ apiCache[Key].rv # api[Key].rv
    <3>1. apiCache[Key].live /\ apiCache[Key].owner.name = n
      BY <1>2, <1>4, OneOwner DEF SkipExisting, Current
    <3>2. n \in OwnersOf({apiCache[Key], api[Key]})
      BY <3>1 DEF OwnersOf
    <3>3. apiCache' = apiCache /\ api' = api
      BY <1>4 DEF SkipExisting, server, caches
    <3> QED
      BY <1>2, <2>3, <3>2, <3>3 DEF Pending
  <2> QED
    BY <1>1, <2>1, <2>2, <2>3
<1>5. CASE SendCreate \/ SendUpdate
  BY <1>1, <1>5 DEF SendCreate, SendUpdate, Send, Ahead, Active
<1>6. CASE SendStatus
  <2>1. Sends /\ step < s
    BY <1>1, <1>6, SendSteps DEF SendStatus
  <2> QED
    BY <1>1, <2>1 DEF Sends, Ahead, Active
<1>7. CASE Report
  <2>1. step < s
    BY <1>1, <1>7 DEF Report
  <2> QED
    BY <1>1, <1>7, <2>1, ProceedAhead DEF Report
<1>8. CASE ObjectDone
  <2>1. CASE step = s
    BY <1>1, <1>8, <2>1, ObjectDoneSatisfies DEF ObjectDone, caches
  <2>2. CASE step < s /\ Proceed(h)
    BY <1>1, <2>2, ProceedAhead
  <2>3. CASE step < s /\ pc' = "report" /\ UNCHANGED <<req, step, h>>
    BY <1>1, <2>3 DEF Ahead, Active
  <2> QED
    BY <1>1, <1>8, <2>1, <2>2, <2>3 DEF ObjectDone
<1>9. CASE StatusDone
  <2>1. step < s /\ h \in LiveCRs
    BY <1>1, <1>9 DEF StatusDone, TypeOK, WorkerOK
  <2>2. Version(h).spec = h.spec
    BY <2>1 DEF LiveCRs, Version
  <2> QED
    BY <1>1, <1>9, <2>1, <2>2, ProceedAhead DEF StatusDone
<1>10. CASE Refused \/ Abandon
  BY <1>1, <1>10 DEF Refused, Abandon, Retry
<1>11. CASE \E m \in Names : Take(m)
  BY <1>1, <1>3, <1>11 DEF Take, Begin, Ignore, Active
<1>12. ~Process
  BY DEF Process, Crash, Restart
<1>13. CASE UNCHANGED vars
  BY <1>3, <1>13 DEF vars
<1> QED
  BY <1>3, <1>4, <1>5, <1>6, <1>7, <1>8, <1>9, <1>10, <1>11, <1>12, <1>13, OthersKeepWorker
     DEF Next, Working, Answered, Network

\* Together: whatever a CR asks of its operands, something is still going to
\* bring it there, or it has it.
LEMMA WakeupStep ==
    ASSUME TypeOK, TypeOK', CachesBehind, CallOfStep, CRsBehind, NamesKnown, CallsFulfil,
           GapsLeft, WakeupInv, [Next]_vars
    PROVE  WakeupInv'
<1> SUFFICES ASSUME Undisturbed', pc' # "down",
                    NEW n \in Names, NEW s \in Steps, crCache'[n].live,
                    Target(s, crCache'[n].spec) \in Watched
             PROVE  Awake(n, s)'
  BY DEF WakeupInv
<1>1. Lone /\ Gapless /\ budget'["gap"] = budget["gap"]
  BY UndisturbedBefore DEF Undisturbed
<1>2. CASE pc = "down"
  <2>1. Restart
    BY <1>2 DEF Next, Take, Begin, Ignore, Working, SkipExisting, SendCreate, SendUpdate,
       Report, SendStatus, Answered, ObjectDone, StatusDone, Refused, Informers, SyncCR,
       Resync, SyncOperand, Gap, SyncPods, Users, CreateCR, EditSpec, DeleteCR,
       RemoveOperand, EditOperand, Cluster, Collect, PodGone, PodStart, Network, Abandon,
       Land, Lose, Process, Crash, worker, vars
  <2> QED
    BY <2>1 DEF Restart, Awake
<1>3. CASE pc # "down" /\ n \in queue'
  BY <1>3 DEF Awake
<1>4. CASE pc # "down" /\ n \notin queue'
  <2>1. crCache'[n] = crCache[n]
    BY <1>4, QueueSteps
  <2>2. Known(n)
    <3>1. crCache[n].rv \in Nat /\ crs[n].rv \in Nat
      BY DEF TypeOK, ServerOK, CachesOK, LiveCRs, AbsentCRs
    <3> QED
      BY <2>1, <3>1 DEF CRsBehind, Known
  <2> DEFINE k == Target(s, crCache[n].spec)
  <2>3. k \in Watched /\ Target(s, crCache'[n].spec) = k
    BY <2>1
  <2>4. Awake(n, s)
    BY <1>1, <1>4, <2>1, <2>3 DEF WakeupInv, Undisturbed
  <2>5. CASE n \in queue
    BY <1>4, <2>1, <2>5, QueueSteps, TakenIsAhead DEF Ignore, Awake
  <2>6. CASE Ahead(n, s)
    BY <1>1, <1>4, <2>1, <2>2, <2>6, AheadStep DEF Awake
  <2>7. CASE Pending(n, k)
    BY <1>1, <1>4, <2>1, <2>3, <2>7, PendingStep DEF Awake
  <2>8. CASE Satisfied(n, s)
    BY <1>1, <1>4, <2>1, <2>2, <2>8, SatisfiedStep DEF Awake
  <2> QED
    BY <2>4, <2>5, <2>6, <2>7, <2>8 DEF Awake
<1> QED
  BY <1>2, <1>3, <1>4

-------------------------------------------------------------------------------

WakeupsInv ==
    /\ Inv
    /\ CRsBehind
    /\ NamesKnown
    /\ FieldsInv
    /\ CallsFulfil
    /\ GapsLeft
    /\ WakeupInv

\* Init establishes the invariant, every step keeps it.
THEOREM Wakeups == Spec => []WakeupsInv
<1>1. Init /\ Inv => WakeupsInv
  <2> SUFFICES ASSUME Init, Inv
               PROVE  /\ CRsBehind /\ NamesKnown /\ FieldsInv
                      /\ CallsFulfil /\ GapsLeft /\ WakeupInv
    BY DEF WakeupsInv
  <2>1. CRsBehind
    BY DEF Init, CRsBehind, AbsentCR
  <2>2. InFlight = {} /\ ~Active /\ pc = "down"
    BY DEF Init, InFlight, Active
  <2>3. NamesKnown /\ FieldsInv /\ CallsFulfil
    BY <2>2 DEF Init, NamesKnown, FieldsInv, CallsFulfil, AbsentObject
  <2>4. GapsLeft
    BY SizesAssumption DEF Init, GapsLeft, Disturbances
  <2> QED
    BY <2>1, <2>2, <2>3, <2>4 DEF WakeupInv
<1>2. WakeupsInv /\ [Next]_vars /\ Inv' => WakeupsInv'
  <2> SUFFICES ASSUME WakeupsInv, [Next]_vars, Inv'
               PROVE  WakeupsInv'
    OBVIOUS
  <2>1. TypeOK /\ TypeOK' /\ CachesBehind /\ CallOfStep /\ PlanInv
    BY DEF WakeupsInv, Inv
  <2>2. CRsBehind /\ NamesKnown /\ FieldsInv /\ CallsFulfil /\ GapsLeft /\ WakeupInv
    BY DEF WakeupsInv
  <2>3. CRsBehind' /\ CallsFulfil'
    BY <2>1, <2>2, CRsBehindStep, CallsFulfilStep
  <2>4. NamesKnown' /\ FieldsInv'
    BY <2>1, <2>2, NamesKnownStep, FieldsInvStep
  <2>5. GapsLeft'
    <3>1. Budget["gap"] \in Nat
      BY SizesAssumption DEF Disturbances
    <3> QED
      BY <2>1, <2>2, <3>1, GapsSteps DEF GapsLeft
  <2>6. WakeupInv'
    BY <2>1, <2>2, WakeupStep
  <2> QED
    BY <2>3, <2>4, <2>5, <2>6 DEF WakeupsInv
<1> QED
  BY <1>1, <1>2, Invariance, PTL DEF Spec

\* Every field of an operand has the content some step gives it whose earlier
\* operands have existed, or one that users can turn it into.
THEOREM FieldsSourced ==
    Spec => [](\A k \in Keys : api[k].live => Sourced(k, api[k].val))
<1>1. WakeupsInv => \A k \in Keys : api[k].live => Sourced(k, api[k].val)
  BY DEF WakeupsInv, FieldsInv
<1> QED
  BY <1>1, Wakeups, PTL

\* At rest the operand of every step whose events wake the controller is what
\* the CR asks for.
LEMMA RestMeansConverged ==
    ASSUME WakeupsInv, Undisturbed, Delivered, NEW n \in Names, crs[n].live,
           NEW s \in Steps, Target(s, crs[n].spec) \in Watched
    PROVE  ConvergedAt(n, s)
<1> DEFINE k == Target(s, crs[n].spec)
<1>1. pc = "idle" /\ queue = {} /\ crCache[n].rv = crs[n].rv
  BY DEF Delivered
<1>2. crCache[n] = crs[n]
  BY <1>1 DEF WakeupsInv, CRsBehind
<1>3. k \in Keys
  BY SizesAssumption
<1>4. ~Ahead(n, s) /\ ~Pending(n, k)
  BY <1>1, <1>3 DEF Delivered, Ahead, Active, Pending
<1>5. Satisfied(n, s)
  BY <1>1, <1>2, <1>4 DEF WakeupsInv, WakeupInv, Awake
<1>6. api[k].live /\ (s \notin CreateOnly => Fulfils(api[k].val, s, n, crs[n].spec))
  BY <1>2, <1>5 DEF Satisfied
<1>7. api[k].owner = [name |-> n, uid |-> crs[n].uid]
  <2>1. api[k].owner.name = n
    BY <1>2, <1>3, <1>6, OneOwner DEF WakeupsInv, Inv, CRsBehind, Undisturbed
  <2>2. api[k].owner.uid = crs[n].uid
    BY <1>3, <1>6, <2>1 DEF Delivered, Garbage
  <2>3. api[k].owner \in Refs
    BY <1>3, <1>6 DEF WakeupsInv, Inv, TypeOK, ServerOK, LiveObjects, AbsentObjects
  <2> QED
    BY <2>1, <2>2, <2>3 DEF Refs
<1> QED
  BY <1>6, <1>7 DEF ConvergedAt

\* Nothing is forgotten of the operands the controller watches: as long as one CR
\* name is used and no watch breaks, all that has been delivered has been done,
\* whatever was edited, removed, refused, repeated or interrupted by a crash.
THEOREM WatchedNotForgotten ==
    Spec => [](Undisturbed /\ Delivered =>
                  \A n \in Names, s \in Steps :
                      (crs[n].live /\ Target(s, crs[n].spec) \in Watched)
                         => ConvergedAt(n, s))
<1>1. WakeupsInv => (Undisturbed /\ Delivered =>
                        \A n \in Names, s \in Steps :
                            (crs[n].live /\ Target(s, crs[n].spec) \in Watched)
                               => ConvergedAt(n, s))
  BY RestMeansConverged
<1> QED
  BY <1>1, Wakeups, PTL

\* With every operand watched, that is all a CR asks for.
THEOREM NothingForgotten ==
    ASSUME Watched = Keys
    PROVE  Spec => [](Undisturbed => NoLostWakeup)
<1>1. WakeupsInv => (Undisturbed => NoLostWakeup)
  <2> SUFFICES ASSUME WakeupsInv, Undisturbed, Delivered, NEW n \in Names, crs[n].live,
                      NEW s \in Steps
               PROVE  ConvergedAt(n, s)
    BY DEF NoLostWakeup, Converged
  <2>1. crs[n].spec \in Specs
    BY DEF WakeupsInv, Inv, TypeOK, ServerOK, LiveCRs, AbsentCRs
  <2>2. Target(s, crs[n].spec) \in Watched
    BY <2>1, PlanAssumption
  <2> QED
    BY <2>2, RestMeansConverged
<1> QED
  BY <1>1, Wakeups, PTL

===============================================================================
