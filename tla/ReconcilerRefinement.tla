------------------------- MODULE ReconcilerRefinement -------------------------
(***************************************************************************)
(* The reconcile loop implements OperandStore, for every plan, any CRs,    *)
(* pods and disturbances: each of its steps is a step of the store or      *)
(* leaves the store as it is.                                              *)
(***************************************************************************)
EXTENDS ReconcilerSafety, ReconcilerStore

\* A write on its way is for the operand of its step, and an object is created
\* under the control of the CR it is created for.
CallInv ==
    \A c \in InFlight : c.kind # "status" =>
        /\ c.key = Target(c.by.step, c.by.spec)
        /\ c.kind = "create" => c.owner.name = c.by.name

\* A write that is sent keeps this, and nothing changes one under way.
LEMMA CallInvStep ==
    ASSUME TypeOK, CallInv, [Next]_vars
    PROVE  CallInv'
<1> SUFFICES ASSUME NEW c \in InFlight', c.kind # "status"
             PROVE  /\ c.key = Target(c.by.step, c.by.spec)
                    /\ c.kind = "create" => c.owner.name = c.by.name
  BY DEF CallInv
<1>1. CASE c \in InFlight
  BY <1>1 DEF CallInv
<1>2. CASE c \notin InFlight
  <2>1. Sends
    BY <1>2, CallSteps DEF Keeps
  <2>2. c = call'
    BY <1>2, <2>1 DEF Sends, InFlight
  <2> QED
    BY <2>1, <2>2 DEF Sends, Origin, Key
<1> QED
  BY <1>1, <1>2

\* Version g of CR n can have spec sp: it is the spec of the CR if that is the
\* version the CR has.
Fits(n, g, sp) == crs[n].gen = g => crs[n].spec \in {sp, Nil}

\* The cache, the worker's copy and the writes on their way have the specs of
\* their versions.
SpecInv ==
    /\ \A n \in Names : crCache[n].live => Fits(n, crCache[n].gen, crCache[n].spec)
    /\ Active => Fits(req, h.gen, h.spec)
    /\ \A c \in InFlight : Fits(c.by.name, c.by.gen, c.by.spec)

-------------------------------------------------------------------------------
(* One change at a time *)

\* What a served write changes.
LEMMA ApplyChanges ==
    ASSUME TypeOK, NEW c, IsCall(c), Accepted(c), Apply(c)
    PROVE  \/ api' = api
           \/ crs' = crs /\ \E k \in Keys : \E o : api' = [api EXCEPT ![k] = o]
<1>1. CASE c.kind = "status"
  BY <1>1 DEF Apply
<1>2. CASE c.kind # "status"
  <2>1. c.key \in Keys
    BY <1>2, StoredType
  <2> QED
    BY <1>2, <2>1 DEF Apply, Put
<1> QED
  BY <1>1, <1>2

\* A step that changes operands changes one, and no CR.
LEMMA OneOperand ==
    ASSUME TypeOK, [Next]_vars
    PROVE  \/ api' = api
           \/ crs' = crs /\ \E k \in Keys : \E o : api' = [api EXCEPT ![k] = o]
<1>1. CASE Answered
  <2>1. CASE Refused
    BY <2>1 DEF Refused, server
  <2>2. CASE ObjectDone \/ StatusDone
    BY <2>2, ApplyChanges DEF ObjectDone, StatusDone, TypeOK, WorkerOK
  <2> QED
    BY <1>1, <2>1, <2>2 DEF Answered
<1>2. CASE Network
  <2>1. ASSUME NEW c \in orphans, Land(c)
        PROVE  \/ api' = api
               \/ crs' = crs /\ \E k \in Keys : \E o : api' = [api EXCEPT ![k] = o]
    BY <2>1, ApplyChanges DEF Land, TypeOK
  <2> QED
    BY <1>2, <2>1 DEF Network, Abandon, Lose, server
<1>3. CASE Users
  BY <1>3 DEF Users, CreateCR, EditSpec, DeleteCR, RemoveOperand, EditOperand,
     Deleted, Put
<1>4. CASE Cluster
  BY <1>4, SizesAssumption DEF Cluster, Collect, PodStart, PodGone, Deleted, Put
<1>5. CASE (\E n \in Names : Take(n)) \/ Working \/ Informers \/ Process \/ UNCHANGED vars
  BY <1>5 DEF Take, Begin, Ignore, Working, SkipExisting, SendCreate, SendUpdate,
     Report, SendStatus, Send, Informers, SyncCR, Resync, SyncOperand, Gap,
     SyncPods, Process, Crash, Restart, server, vars
<1> QED
  BY <1>1, <1>2, <1>3, <1>4, <1>5 DEF Next

\* A served write leaves the spec of every CR alone.
LEMMA ApplyKeepsSpecs ==
    ASSUME TypeOK, NEW n \in Names, NEW c, IsCall(c), Accepted(c), Apply(c)
    PROVE  crs'[n].gen = crs[n].gen /\ crs'[n].spec = crs[n].spec
<1>1. crs'[n].gen = crs[n].gen
  BY ApplyKeepsGenerations
<1>2. CASE c.kind # "status"
  BY <1>1, <1>2 DEF Apply
<1>3. CASE c.kind = "status"
  <2>1. crs \in [Names -> LiveCRs \cup AbsentCRs]
    BY DEF TypeOK, ServerOK
  <2>2. crs[c.by.name] \in LiveCRs
    <3>1. c.by.name \in Names
      BY <1>3 DEF IsCall, StatusCalls, Calls, Origins
    <3> QED
      BY <1>3, <2>1, <3>1 DEF Accepted, AbsentCRs
  <2> DEFINE with == [crs[c.by.name] EXCEPT !.nodes = c.nodes]
  <2>3. Version(with).spec = crs[c.by.name].spec
    BY <2>2 DEF LiveCRs, Version
  <2>4. crs' = [crs EXCEPT ![c.by.name] = Version(with)]
    BY <1>3 DEF Apply
  <2> HIDE DEF with
  <2> QED
    BY <1>1, <2>1, <2>3, <2>4
<1> QED
  BY <1>2, <1>3

\* Only users make new versions of CRs.
LEMMA OnlyUsersRevise ==
    ASSUME TypeOK, [Next]_vars, ~Users, NEW n \in Names
    PROVE  crs'[n].gen = crs[n].gen /\ crs'[n].spec = crs[n].spec
<1>1. ASSUME NEW c, IsCall(c), Accepted(c), Apply(c)
      PROVE  crs'[n].gen = crs[n].gen /\ crs'[n].spec = crs[n].spec
  BY <1>1, ApplyKeepsSpecs
<1>2. CASE Answered
  <2>1. crs' = crs \/ (IsCall(call) /\ Accepted(call) /\ Apply(call))
    BY <1>2 DEF Answered, ObjectDone, StatusDone, Refused, server, TypeOK, WorkerOK
  <2> QED
    BY <1>1, <2>1
<1>3. CASE Network
  <2>1. crs' = crs \/ \E c : IsCall(c) /\ Accepted(c) /\ Apply(c)
    BY <1>3 DEF Network, Abandon, Land, Lose, server, TypeOK
  <2> QED
    BY <1>1, <2>1
<1>4. CASE (\E m \in Names : Take(m)) \/ Working \/ Informers \/ Cluster \/ Process
           \/ UNCHANGED vars
  <2>1. crs' = crs
    BY <1>4 DEF Take, Begin, Ignore, Working, SkipExisting, SendCreate, SendUpdate,
       Report, SendStatus, Send, Informers, SyncCR, Resync, SyncOperand, Gap,
       SyncPods, Cluster, Collect, PodGone, PodStart, Process, Crash, Restart,
       server, vars
  <2> QED
    BY <2>1
<1> QED
  BY <1>2, <1>3, <1>4 DEF Next

\* No write is for a version of a CR that has not been there.
LEMMA WritesKnown ==
    ASSUME Inv, NEW c \in InFlight
    PROVE  c.by.gen <= crs[c.by.name].gen
<1>1. c.by.name \in Names /\ c.by.gen \in Nat
  BY Typed DEF Inv, Origins
<1>2. ASSUME NEW n \in Names
      PROVE  Latest[n] <= crs[n].gen /\ Latest[n] \in Nat
  <2>1. crs[n].gen \in Nat /\ crCache[n].gen \in Nat /\ crCache[n].gen <= crs[n].gen
    BY Typed DEF Inv, CachesBehind
  <2>2. Active => h.gen \in Nat /\ h.gen <= crCache[req].gen
    BY Typed DEF Inv, GenInv, LiveCRs
  <2> QED
    BY <2>1, <2>2 DEF Latest
<1>3. c.by.gen <= Latest[c.by.name] /\ crs[c.by.name].gen \in Nat
  BY <1>1, Typed DEF Inv, GenInv
<1> QED
  BY <1>1, <1>2, <1>3

\* A step makes at most one CR a new version, or deletes one.
LEMMA OneRevision ==
    ASSUME TypeOK, [Next]_vars
    PROVE  \/ StoredLatest' = StoredLatest
           \/ \E n \in Names, sp \in Specs : StoredLatest' =
                 [StoredLatest EXCEPT ![n] = [gen |-> @.gen + 1, spec |-> sp]]
           \/ \E n \in Names : StoredLatest' =
                 [StoredLatest EXCEPT ![n] = [gen |-> @.gen, spec |-> Nil]]
<1>1. crs \in [Names -> LiveCRs \cup AbsentCRs]
  BY DEF TypeOK, ServerOK
<1>2. CASE Users
  <2>1. ASSUME NEW m \in Names, NEW new, crs' = [crs EXCEPT ![m] = new]
        PROVE  StoredLatest' =
                  [StoredLatest EXCEPT ![m] = [gen |-> new.gen, spec |-> new.spec]]
    BY <1>1, <2>1 DEF StoredLatest
  <2>2. \A m \in Names : StoredLatest[m].gen = crs[m].gen
    BY DEF StoredLatest
  <2>3. ASSUME NEW m \in Names, NEW sp \in Specs, CreateCR(m, sp)
        PROVE  StoredLatest' =
                  [StoredLatest EXCEPT ![m] = [gen |-> @.gen + 1, spec |-> sp]]
    <3> DEFINE new == [live |-> TRUE, uid |-> crs[m].uid + 1, gen |-> crs[m].gen + 1,
                       rv |-> crs[m].rv + 1, spec |-> sp, nodes |-> NoNodes]
    <3>1. crs' = [crs EXCEPT ![m] = new]
      BY <1>1, <2>3 DEF CreateCR
    <3>2. new.gen = crs[m].gen + 1 /\ new.spec = sp
      OBVIOUS
    <3> HIDE DEF new
    <3>3. StoredLatest' =
             [StoredLatest EXCEPT ![m] = [gen |-> new.gen, spec |-> new.spec]]
      BY <2>1, <3>1
    <3> QED
      BY <2>2, <3>2, <3>3
  <2>4. ASSUME NEW m \in Names, NEW sp \in Specs, EditSpec(m, sp)
        PROVE  StoredLatest' =
                  [StoredLatest EXCEPT ![m] = [gen |-> @.gen + 1, spec |-> sp]]
    <3> DEFINE new == [live |-> TRUE, uid |-> crs[m].uid, gen |-> crs[m].gen + 1,
                       rv |-> crs[m].rv + 1, spec |-> sp, nodes |-> crs[m].nodes]
    <3>1. crs' = [crs EXCEPT ![m] = new]
      BY <1>1, <2>4 DEF EditSpec
    <3>2. new.gen = crs[m].gen + 1 /\ new.spec = sp
      OBVIOUS
    <3> HIDE DEF new
    <3>3. StoredLatest' =
             [StoredLatest EXCEPT ![m] = [gen |-> new.gen, spec |-> new.spec]]
      BY <2>1, <3>1
    <3> QED
      BY <2>2, <3>2, <3>3
  <2>5. ASSUME NEW m \in Names, DeleteCR(m)
        PROVE  StoredLatest' =
                  [StoredLatest EXCEPT ![m] = [gen |-> @.gen, spec |-> Nil]]
    <3> DEFINE new == [live |-> FALSE, uid |-> crs[m].uid, gen |-> crs[m].gen,
                       rv |-> crs[m].rv + 1, spec |-> Nil, nodes |-> NoNodes]
    <3>1. crs' = [crs EXCEPT ![m] = new]
      BY <1>1, <2>5 DEF DeleteCR
    <3>2. new.gen = crs[m].gen /\ new.spec = Nil
      OBVIOUS
    <3> HIDE DEF new
    <3>3. StoredLatest' =
             [StoredLatest EXCEPT ![m] = [gen |-> new.gen, spec |-> new.spec]]
      BY <2>1, <3>1
    <3> QED
      BY <2>2, <3>2, <3>3
  <2>6. ASSUME NEW k \in Keys, RemoveOperand(k) \/ EditOperand(k)
        PROVE  StoredLatest' = StoredLatest
    BY <2>6 DEF RemoveOperand, EditOperand, StoredLatest
  <2> QED
    BY <1>2, <2>3, <2>4, <2>5, <2>6 DEF Users
<1>3. CASE ~Users
  <2>1. \A n \in Names : crs'[n].gen = crs[n].gen /\ crs'[n].spec = crs[n].spec
    BY <1>3, OnlyUsersRevise
  <2> QED
    BY <2>1 DEF StoredLatest
<1> QED
  BY <1>2, <1>3

-------------------------------------------------------------------------------
(* Versions and their specs *)

\* What fits a version of a CR fits it for good.
LEMMA FitsStays ==
    ASSUME TypeOK, [Next]_vars, NEW n \in Names, NEW g \in Nat, NEW sp,
           g <= crs[n].gen, Fits(n, g, sp)
    PROVE  Fits(n, g, sp)'
<1>1. crs[n].gen \in Nat
  BY Typed
<1>2. StoredLatest[n].gen = crs[n].gen /\ StoredLatest[n].spec = crs[n].spec
  BY DEF StoredLatest
<1>3. StoredLatest'[n].gen = crs'[n].gen /\ StoredLatest'[n].spec = crs'[n].spec
  BY DEF StoredLatest
<1>4. DOMAIN StoredLatest = Names
  BY DEF StoredLatest
<1>5. \/ crs'[n].gen = crs[n].gen /\ crs'[n].spec \in {crs[n].spec, Nil}
      \/ crs'[n].gen = crs[n].gen + 1
  BY <1>2, <1>3, <1>4, OneRevision
<1> QED
  BY <1>1, <1>5 DEF Fits

\* No step copies another spec for a version than the CR has.
LEMMA SpecInvStep ==
    ASSUME Inv, SpecInv, [Next]_vars, TypeOK'
    PROVE  SpecInv'
<1>1. TypeOK /\ CachesBehind /\ CallOfStep /\ PlanInv /\ GenInv
  BY DEF Inv
<1>2. Active => /\ req \in Names /\ h.gen \in Nat /\ h.gen <= crs[req].gen
                /\ Fits(req, h.gen, h.spec)
  <2>1. Active => req \in Names /\ h.gen \in Nat /\ h.gen <= crCache[req].gen
    BY <1>1, Typed DEF GenInv, LiveCRs
  <2>2. Active => /\ crCache[req].gen <= crs[req].gen
                  /\ crCache[req].gen \in Nat /\ crs[req].gen \in Nat
    BY <1>1, <2>1, Typed DEF CachesBehind
  <2> QED
    BY <2>1, <2>2 DEF SpecInv
<1>3. ASSUME NEW n \in Names, crCache[n].live
      PROVE  crs'[n].gen = crCache[n].gen => crs'[n].spec \in {crCache[n].spec, Nil}
  <2>1. /\ crCache[n].gen \in Nat /\ crCache[n].gen <= crs[n].gen
        /\ Fits(n, crCache[n].gen, crCache[n].spec)
    BY <1>1, <1>3, Typed DEF CachesBehind, SpecInv
  <2> QED
    BY <1>1, <2>1, FitsStays DEF Fits
<1>4. ASSUME NEW n \in Names, crCache'[n].live
      PROVE  crs'[n].gen = crCache'[n].gen => crs'[n].spec \in {crCache'[n].spec, Nil}
  <2>1. CASE crCache'[n] = crCache[n]
    BY <1>3, <1>4, <2>1
  <2>2. CASE crCache'[n] = crs[n] /\ crs' = crs
    BY <2>2
  <2>3. crCache'[n] # AbsentCR
    BY <1>4 DEF AbsentCR
  <2> QED
    BY <1>1, <2>1, <2>2, <2>3, CRCacheSteps
<1>5. ASSUME Active'
      PROVE  crs'[req'].gen = h'.gen => crs'[req'].spec \in {h'.spec, Nil}
  <2>1. CASE Starts
    <3>1. req' \in Names /\ h' = crCache[req'] /\ crCache[req'].live
      BY <1>5, <2>1 DEF Starts, TypeOK, WorkerOK, Active, LiveCRs
    <3> QED
      BY <1>3, <3>1
  <2>2. CASE Advances \/ Stays
    <3>1. Active /\ req' = req /\ h'.spec = h.spec /\ h'.gen = h.gen
      BY <2>2 DEF Advances, Stays
    <3>2. crs'[req].gen = h.gen => crs'[req].spec \in {h.spec, Nil}
      BY <1>1, <1>2, <3>1, FitsStays DEF Fits
    <3> QED
      BY <3>1, <3>2
  <2> QED
    BY <1>1, <1>5, <2>1, <2>2, WorkerSteps DEF Rests
<1>6. ASSUME NEW c \in InFlight'
      PROVE  crs'[c.by.name].gen = c.by.gen => crs'[c.by.name].spec \in {c.by.spec, Nil}
  <2>1. CASE c \in InFlight
    <3>1. /\ c.by.name \in Names /\ c.by.gen \in Nat /\ c.by.gen <= crs[c.by.name].gen
          /\ Fits(c.by.name, c.by.gen, c.by.spec)
      BY <1>1, <2>1, Typed, WritesKnown DEF Origins, SpecInv
    <3> QED
      BY <1>1, <3>1, FitsStays DEF Fits
  <2>2. CASE c \notin InFlight
    <3>1. Sends
      BY <1>1, <1>6, <2>2, CallSteps DEF Keeps
    <3>2. c = call' /\ Active
      BY <1>6, <2>2, <3>1 DEF Sends, InFlight, Active
    <3>3. c.by.name = req /\ c.by.gen = h.gen /\ c.by.spec = h.spec
      BY <3>1, <3>2 DEF Sends, Origin
    <3> QED
      BY <1>1, <1>2, <3>2, <3>3, FitsStays DEF Fits
  <2> QED
    BY <2>1, <2>2
<1> QED
  BY <1>4, <1>5, <1>6 DEF SpecInv, Fits

-------------------------------------------------------------------------------
(* The refinement *)

StoreInv == Inv /\ CallInv /\ SpecInv

\* A step that writes, touches or deletes operand k does so in the store.
LEMMA OperandStep ==
    ASSUME StoreInv, NEW k \in Keys, crs' = crs, NEW o, api' = [api EXCEPT ![k] = o],
           Written(k) \/ Touched(k) \/ Gone(k)
    PROVE  Store!Next
<1> DEFINE old == StoredOperands[k]
<1>1. StoredLatest' = StoredLatest
  BY DEF StoredLatest
<1>2. DOMAIN api = Keys /\ api'[k] = o
  BY DEF StoreInv, Inv, TypeOK, ServerOK
<1>3. StoredOperands' = [StoredOperands EXCEPT ![k] = StoredOperand(o)]
  BY <1>2 DEF StoredOperands, StoredOperand
<1>4. old = [live |-> api[k].live, rv |-> api[k].rv,
             owner |-> IF api[k].live THEN api[k].owner.name ELSE Nil, by |-> api[k].by]
  BY DEF StoredOperands, StoredOperand
<1>5. CASE Written(k)
  <2>1. PICK c \in InFlight :
           /\ c.kind # "status" /\ c.key = k /\ Accepted(c)
           /\ o = [live |-> TRUE, rv |-> api[k].rv + 1,
                   owner |-> c.owner, by |-> c.by, val |-> c.val]
    BY <1>2, <1>5 DEF Written
  <2> DEFINE b == c.by
  <2>2. b \in Origins
    BY <2>1, Typed DEF StoreInv, Inv
  <2>3. k = Target(b.step, b.spec)
    BY <2>1 DEF StoreInv, CallInv
  <2>4. /\ b.gen \in 0 .. StoredLatest[b.name].gen
        /\ StoredLatest[b.name].gen = b.gen => StoredLatest[b.name].spec \in {b.spec, Nil}
    <3>1. b.name \in Names /\ b.gen \in Nat /\ crs[b.name].gen \in Nat
      BY <2>2, Typed DEF StoreInv, Inv, Origins
    <3>2. b.gen <= crs[b.name].gen /\ Fits(b.name, b.gen, b.spec)
      BY <2>1, WritesKnown DEF StoreInv, SpecInv
    <3>3. /\ StoredLatest[b.name].gen = crs[b.name].gen
          /\ StoredLatest[b.name].spec = crs[b.name].spec
      BY <3>1 DEF StoredLatest
    <3> QED
      BY <3>1, <3>2, <3>3 DEF Fits
  <2>5. \A t \in 1 .. b.step - 1 : StoredOperands[Target(t, b.spec)].rv > 0
    <3>1. Earlier(api, b.step, b.spec)
      BY <2>1 DEF StoreInv, Inv, PlanInv
    <3> SUFFICES ASSUME NEW t \in 1 .. b.step - 1
                 PROVE  StoredOperands[Target(t, b.spec)].rv > 0
      OBVIOUS
    <3>2. Target(t, b.spec) \in Keys
      BY <2>2, PlanAssumption, SizesAssumption DEF Origins, Steps
    <3> QED
      BY <3>1, <3>2 DEF Earlier, StoredOperands, StoredOperand
  <2>6. old.live /\ old.by.name = b.name => old.by.gen <= b.gen
    BY <1>2, <1>4, <1>5, <2>1, WrittenOverLive DEF StoreInv
  <2>7. c.owner.name = IF old.live THEN old.owner ELSE b.name
    <3>1. CASE api[k].live
      BY <1>2, <1>4, <1>5, <2>1, <3>1, WrittenOverLive DEF StoreInv
    <3>2. CASE ~api[k].live
      BY <1>4, <2>1, <3>2 DEF Accepted, StoreInv, CallInv
    <3> QED
      BY <3>1, <3>2
  <2>8. b = [name |-> b.name, gen |-> b.gen, spec |-> b.spec, step |-> b.step]
    BY <2>2 DEF Origins
  <2>9. StoredOperand(o) =
          [live |-> TRUE, rv |-> old.rv + 1, owner |-> IF old.live THEN old.owner ELSE b.name,
           by |-> [name |-> b.name, gen |-> b.gen, spec |-> b.spec, step |-> b.step]]
    <3>1. o.live = TRUE /\ o.rv = api[k].rv + 1 /\ o.owner = c.owner /\ o.by = c.by
      BY <2>1
    <3>2. old.rv = api[k].rv
      BY <1>4
    <3> HIDE DEF old
    <3> QED
      BY <2>7, <2>8, <3>1, <3>2 DEF StoredOperand
  <2>10. Store!Write(b.name, b.gen, b.spec, b.step)
    BY <1>1, <1>3, <2>3, <2>4, <2>5, <2>6, <2>9 DEF Store!Write
  <2>11. b.name \in Names /\ b.spec \in Specs /\ b.step \in Steps
    BY <2>2 DEF Origins
  <2> QED
    BY <2>4, <2>10, <2>11 DEF Store!Next
<1>6. CASE Touched(k)
  <2>1. o.live /\ o.rv = api[k].rv + 1 /\ o.by = api[k].by /\ o.owner = api[k].owner
    BY <1>2, <1>6 DEF Touched
  <2>2. api[k].live = TRUE /\ o.live = TRUE
    BY <1>2, <1>6, <2>1 DEF Touched, StoreInv, Inv, TypeOK, ServerOK, LiveObjects
  <2>3. StoredOperand(o) =
          [live |-> TRUE, rv |-> old.rv + 1, owner |-> old.owner, by |-> old.by]
    <3>1. old.rv = api[k].rv /\ old.owner = api[k].owner.name /\ old.by = api[k].by
      BY <1>4, <2>2
    <3> HIDE DEF old
    <3> QED
      BY <2>1, <2>2, <3>1 DEF StoredOperand
  <2>4. Store!Touch(k)
    BY <1>1, <1>3, <1>4, <2>2, <2>3 DEF Store!Touch
  <2> QED
    BY <2>4 DEF Store!Next
<1>7. CASE Gone(k)
  <2>1. StoredOperand(o) = Store!Absent(old.rv + 1)
    BY <1>2, <1>4, <1>7 DEF Gone, AbsentObject, StoredOperand, Store!Absent
  <2>2. Store!Remove(k)
    BY <1>1, <1>3, <2>1 DEF Store!Remove
  <2> QED
    BY <2>2 DEF Store!Next
<1> QED
  BY <1>5, <1>6, <1>7

\* Every step is a step of the store or none.
LEMMA StoreStep ==
    ASSUME StoreInv, [Next]_vars
    PROVE  [Store!Next]_Store!vars
<1>1. CASE api' = api
  <2>1. StoredOperands' = StoredOperands
    BY <1>1 DEF StoredOperands
  <2> QED
    BY <2>1, OneRevision
       DEF StoreInv, Inv, Store!Next, Store!Revise, Store!Retire, Store!vars
<1>2. CASE api' # api
  <2> PICK k \in Keys : crs' = crs /\ \E o : api' = [api EXCEPT ![k] = o]
    BY <1>2, OneOperand DEF StoreInv, Inv
  <2>1. PICK o : crs' = crs /\ api' = [api EXCEPT ![k] = o]
    OBVIOUS
  <2>2. CASE api'[k] = api[k]
    <3>1. \A j \in Keys : api'[j] = api[j]
      BY <2>1, <2>2 DEF StoreInv, Inv, TypeOK, ServerOK
    <3>2. UNCHANGED <<StoredLatest, StoredOperands>>
      BY <2>1, <3>1 DEF StoredLatest, StoredOperands, StoredOperand
    <3> QED
      BY <3>2 DEF Store!vars
  <2>3. CASE Written(k) \/ Touched(k) \/ Gone(k)
    BY <2>1, <2>3, OperandStep
  <2> QED
    BY <2>2, <2>3, ServerSteps DEF StoreInv, Inv
<1> QED
  BY <1>1, <1>2

\* Whatever crashes, lags, is retried, lands late or contends, the operands are
\* those of a store written in plan order, for versions that have been there and
\* for the newest one with its own spec, which keeps owners and never goes back to
\* an older version of a CR.
THEOREM StoreImplemented == Spec => Implements
<1>1. Init => Store!Init
  BY DEF Init, Store!Init, Store!Absent, StoredLatest, StoredOperands, StoredOperand,
     AbsentCR, AbsentObject
<1>2. Init => CallInv /\ SpecInv
  BY DEF Init, CallInv, SpecInv, InFlight, Active, AbsentCR
<1>3. Inv /\ CallInv /\ [Next]_vars => CallInv'
  BY CallInvStep DEF Inv
<1>4. Inv /\ SpecInv /\ [Next]_vars /\ Inv' => SpecInv'
  BY SpecInvStep DEF Inv
<1>5. Inv /\ CallInv /\ SpecInv /\ [Next]_vars => [Store!Next]_Store!vars
  BY StoreStep DEF StoreInv
<1> QED
  BY <1>1, <1>2, <1>3, <1>4, <1>5, Invariance, PTL DEF Spec, Implements, Store!Spec

===============================================================================
