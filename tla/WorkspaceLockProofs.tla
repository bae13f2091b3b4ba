------------------------ MODULE WorkspaceLockProofs ------------------------
(***************************************************************************)
(* Exclusion of WorkspaceLock for any set of processes and any number of    *)
(* crashes: as long as no living lock has been taken apart, there is one    *)
(* holder and the directory and its owner.json are the holder's.            *)
(***************************************************************************)
EXTENDS WorkspaceLock, TLAPS

\* What ExclusiveUnlessStolen needs to be inductive: exclusion from the mkdir
\* on, not only in the critical section, and that no owner.json outlives its
\* directory.
OneHolder == \A p, q \in Procs : Holding(p) /\ Holding(q) => p = q
HolderHasDir == \A p \in Procs : Holding(p) => dir
CriticalOwns == \A p \in Procs : pc[p] = "critical" => owner = p
OwnerInDir == owner # NoOwner => dir

Exclusion == OneHolder /\ HolderHasDir /\ CriticalOwns /\ OwnerInDir

\* Every step of every process stays within the types.
THEOREM LockTypeCorrect == Spec => []TypeOK
<1>1. Init => TypeOK
  <2> SUFFICES ASSUME Init PROVE TypeOK
    OBVIOUS
  <2>1. pc \in [Procs -> Steps]
    BY DEF Init, Steps
  <2>2. crashes \in 0 .. MaxCrashes
    BY LockAssumption DEF Init
  <2> QED
    BY <2>1, <2>2 DEF Init, TypeOK
<1>2. TypeOK /\ [Next]_vars => TypeOK'
  <2> SUFFICES ASSUME TypeOK, [Next]_vars PROVE TypeOK'
    OBVIOUS
  <2>1. CASE UNCHANGED vars
    BY <2>1 DEF TypeOK, vars
  <2>2. CASE Expire
    BY <2>2 DEF Expire, TypeOK
  <2>3. ASSUME NEW p \in Procs, Step(p) PROVE TypeOK'
    BY <2>3 DEF Step, TypeOK, Goto, Steps, HoldingSteps, Start, Mkdir, MkdirFails, Ensure,
       WriteTemp, Replace, LookForOwner, ReadOwner, ReclaimOwner, ReclaimDir, Retry, TimeOut,
       ReleaseOwner, ReleaseDir
  <2>4. ASSUME NEW p \in Procs, Crash(p) PROVE TypeOK'
    BY <2>4, LockAssumption DEF Crash, TypeOK, Steps
  <2> QED
    BY <2>1, <2>2, <2>3, <2>4 DEF Next
<1> QED
  BY <1>1, <1>2, PTL DEF Spec

\* A process that is not holding and steps on without taking the lock leaves
\* exclusion alone.
LEMMA StepOutside ==
    ASSUME TypeOK, Exclusion, NEW p \in Procs, NEW to \in Steps \ HoldingSteps,
           pc' = [pc EXCEPT ![p] = to], UNCHANGED <<dir, owner>>
    PROVE  Exclusion'
  BY DEF TypeOK, Exclusion, OneHolder, HolderHasDir, CriticalOwns, OwnerInDir, Holding,
     HoldingSteps, Steps

\* A holder that steps on, short of the critical section, keeps it too.
LEMMA StepInside ==
    ASSUME TypeOK, Exclusion, NEW p \in Procs, Holding(p),
           NEW to \in HoldingSteps \ {"critical"},
           pc' = [pc EXCEPT ![p] = to], UNCHANGED <<dir, owner>>
    PROVE  Exclusion'
  BY DEF TypeOK, Exclusion, OneHolder, HolderHasDir, CriticalOwns, OwnerInDir, Holding,
     HoldingSteps, Steps

\* Each step of a process that ends with no lock stolen preserves exclusion.
LEMMA StepKeepsExclusion ==
    ASSUME TypeOK, ~stolen => Exclusion, NEW p \in Procs, Step(p), ~stolen'
    PROVE  Exclusion'
<1>1. ~stolen /\ Exclusion
  BY DEF Step, TypeOK, Start, Mkdir, MkdirFails, Ensure, WriteTemp, Replace, LookForOwner,
     ReadOwner, ReclaimOwner, ReclaimDir, Retry, TimeOut, ReleaseOwner, ReleaseDir
<1>2. CASE Start(p) \/ MkdirFails(p) \/ LookForOwner(p) \/ ReadOwner(p) \/ Retry(p) \/ TimeOut(p)
  <2>1. PICK to \in Steps \ HoldingSteps : pc' = [pc EXCEPT ![p] = to]
    BY <1>2 DEF Start, MkdirFails, LookForOwner, ReadOwner, Retry, TimeOut, Goto, Steps,
       HoldingSteps
  <2>2. UNCHANGED <<dir, owner>>
    BY <1>2 DEF Start, MkdirFails, LookForOwner, ReadOwner, Retry, TimeOut
  <2> QED
    BY <1>1, <2>1, <2>2, StepOutside
<1>3. CASE Mkdir(p)
  <2>1. \A q \in Procs : ~Holding(q)
    BY <1>1, <1>3 DEF Mkdir, Exclusion, HolderHasDir
  <2>2. owner = NoOwner
    BY <1>1, <1>3 DEF Mkdir, Exclusion, OwnerInDir
  <2> QED
    BY <1>3, <2>1, <2>2 DEF Mkdir, Goto, TypeOK, Exclusion, OneHolder, HolderHasDir,
       CriticalOwns, OwnerInDir, Holding, HoldingSteps
<1>4. CASE Ensure(p) \/ WriteTemp(p)
  <2>1. Holding(p) /\ dir
    BY <1>1, <1>4 DEF Ensure, WriteTemp, Goto, Holding, HoldingSteps, Exclusion, HolderHasDir
  <2>2. PICK to \in HoldingSteps \ {"critical"} : pc' = [pc EXCEPT ![p] = to]
    BY <1>4, <2>1 DEF Ensure, WriteTemp, Goto, HoldingSteps
  <2>3. UNCHANGED <<dir, owner>>
    BY <1>4, <2>1 DEF Ensure, WriteTemp, TypeOK
  <2> QED
    BY <1>1, <2>1, <2>2, <2>3, StepInside
<1>5. CASE Replace(p)
  <2>1. Holding(p) /\ dir
    BY <1>1, <1>5 DEF Replace, Goto, Holding, HoldingSteps, Exclusion, HolderHasDir
  <2> QED
    BY <1>1, <1>5, <2>1 DEF Replace, Goto, TypeOK, Exclusion, OneHolder, HolderHasDir,
       CriticalOwns, OwnerInDir, Holding, HoldingSteps
<1>6. CASE ReclaimOwner(p)
  <2>1. owner = NoOwner \/ ~Held
    BY <1>1, <1>6 DEF ReclaimOwner
  <2>2. \A q \in Procs : pc[q] # "critical"
    BY <1>1, <2>1, LockAssumption DEF Exclusion, CriticalOwns, Held, Holding, HoldingSteps
  <2> QED
    BY <1>1, <1>6, <2>2 DEF ReclaimOwner, Goto, TypeOK, Exclusion, OneHolder, HolderHasDir,
       CriticalOwns, OwnerInDir, Holding, HoldingSteps
<1>7. CASE ReclaimDir(p)
  <2>1. CASE dir /\ Empty
    <3>1. \A q \in Procs : ~Holding(q)
      BY <1>1, <1>7, <2>1 DEF ReclaimDir, Held
    <3> QED
      BY <1>7, <2>1, <3>1 DEF ReclaimDir, Empty, Goto, TypeOK, Exclusion, OneHolder,
         HolderHasDir, CriticalOwns, OwnerInDir, Holding, HoldingSteps
  <2>2. CASE ~(dir /\ Empty)
    <3>1. UNCHANGED <<dir, owner>>
      BY <1>7, <2>2 DEF ReclaimDir, TypeOK
    <3>2. pc' = [pc EXCEPT ![p] = "waiting"] /\ "waiting" \in Steps \ HoldingSteps
      BY <1>7 DEF ReclaimDir, Goto, Steps, HoldingSteps
    <3> QED
      BY <1>1, <3>1, <3>2, StepOutside
  <2> QED
    BY <2>1, <2>2
<1>8. CASE ReleaseOwner(p)
  <2>1. Holding(p)
    BY <1>8 DEF ReleaseOwner, Goto, Holding, HoldingSteps
  <2> QED
    BY <1>1, <1>8, <2>1 DEF ReleaseOwner, Goto, TypeOK, Exclusion, OneHolder, HolderHasDir,
       CriticalOwns, OwnerInDir, Holding, HoldingSteps
<1>9. CASE ReleaseDir(p)
  <2>1. \A q \in Procs : Holding(q) => q = p
    BY <1>1, <1>9 DEF ReleaseDir, Goto, Exclusion, OneHolder, Holding, HoldingSteps
  <2>2. owner # NoOwner => dir'
    BY <1>1, <1>9 DEF ReleaseDir, Empty, Exclusion, OwnerInDir
  <2> QED
    BY <1>9, <2>1, <2>2 DEF ReleaseDir, Goto, TypeOK, Exclusion, OneHolder, HolderHasDir,
       CriticalOwns, OwnerInDir, Holding, HoldingSteps
<1> QED
  BY <1>2, <1>3, <1>4, <1>5, <1>6, <1>7, <1>8, <1>9 DEF Step

\* The lock excludes whoever may interleave or crash, as long as no contender
\* takes a living one apart; the holder finds its own owner.json in the
\* directory.
THEOREM LockExcludes == Spec => []ExclusiveUnlessStolen
<1>1. Init => (~stolen => Exclusion)
  BY DEF Init, Exclusion, OneHolder, HolderHasDir, CriticalOwns, OwnerInDir, Holding, HoldingSteps
<1>2. TypeOK /\ (~stolen => Exclusion) /\ [Next]_vars => (~stolen => Exclusion)'
  <2> SUFFICES ASSUME TypeOK, ~stolen => Exclusion, [Next]_vars, ~stolen' PROVE Exclusion'
    OBVIOUS
  <2>1. CASE UNCHANGED vars
    BY <2>1 DEF vars, Exclusion, OneHolder, HolderHasDir, CriticalOwns, OwnerInDir, Holding
  <2>2. CASE Expire
    BY <2>2 DEF Expire, Exclusion, OneHolder, HolderHasDir, CriticalOwns, OwnerInDir, Holding
  <2>3. ASSUME NEW p \in Procs, Step(p) PROVE Exclusion'
    BY <2>3, StepKeepsExclusion
  <2>4. ASSUME NEW p \in Procs, Crash(p) PROVE Exclusion'
    <3>1. "idle" \in Steps \ HoldingSteps
      BY DEF Steps, HoldingSteps
    <3> QED
      BY <2>4, <3>1, StepOutside DEF Crash
  <2> QED
    BY <2>1, <2>2, <2>3, <2>4 DEF Next
<1>3. (~stolen => Exclusion) => ExclusiveUnlessStolen
  BY DEF Exclusion, OneHolder, HolderHasDir, CriticalOwns, Holding, HoldingSteps,
     ExclusiveUnlessStolen, MutualExclusion
<1> QED
  BY <1>1, <1>2, <1>3, LockTypeCorrect, PTL DEF Spec
=============================================================================
