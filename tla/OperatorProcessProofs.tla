------------------------ MODULE OperatorProcessProofs ------------------------
(***************************************************************************)
(* At most one process works, for any number of pods and exits: a process  *)
(* at work holds the lock, and the lock names one pod.                     *)
(***************************************************************************)
EXTENDS OperatorProcess, TLAPS

ProcessInv == ProcessTypeOK /\ LockHeld

\* The lock starts free and nothing is at work.
LEMMA ProcessInitially == ProcessInit => ProcessInv
  BY PodsAssumption DEF ProcessInit, ProcessInv, ProcessTypeOK, LockHeld, AtWork, Stages

\* No step lets a process work without the lock, or takes the lock from one that
\* works.
LEMMA ProcessStep ==
    ASSUME ProcessInv, [ProcessNext]_processVars
    PROVE  ProcessInv'
<1> USE DEF ProcessInv, ProcessTypeOK, LockHeld, AtWork, Stages, Goes
<1>1. ASSUME NEW p \in Replicas, Replace(p) \/ Surge(p)
      PROVE  ProcessInv'
  BY <1>1 DEF Replace, Surge, Schedule
<1>2. ASSUME NEW p \in Replicas, Become(p)
      PROVE  ProcessInv'
  <2>1. \A q \in Replicas : AtWork(q) => q = p
    BY <1>2, PodsAssumption DEF Become, Replicas
  <2> QED
    BY <1>2, <2>1 DEF Become
<1>3. ASSUME NEW p \in Replicas, Run(p)
      PROVE  ProcessInv'
  BY <1>3 DEF Run
<1>4. ASSUME NEW p \in Replicas, Exit(p)
      PROVE  ProcessInv'
  BY <1>4 DEF Exit
<1>5. ASSUME NEW p \in Replicas, Again(p) \/ Gone(p)
      PROVE  ProcessInv'
  BY <1>5 DEF Again, Gone
<1>6. CASE CollectLock
  <2>1. \A q \in Replicas : ~AtWork(q)
    BY <1>6 DEF CollectLock
  <2> QED
    BY <1>6, <2>1 DEF CollectLock
<1>7. CASE UNCHANGED processVars
  BY <1>7 DEF processVars
<1> QED
  BY <1>1, <1>2, <1>3, <1>4, <1>5, <1>6, <1>7 DEF ProcessNext

\* Holding the lock is what keeps others from working.
LEMMA LockExcludes == ProcessInv => OneAtWork
  BY DEF ProcessInv, LockHeld, OneAtWork

\* However pods overlap, exit and come back, the controllers of one pod at most
\* are at work (main.go:101-107).
THEOREM OneProcess == ProcessSpec => []OneAtWork
<1> QED
  BY ProcessInitially, ProcessStep, LockExcludes, PTL DEF ProcessSpec

===============================================================================
