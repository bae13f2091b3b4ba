---------------------- MODULE WorkspaceReadyGateProofs ----------------------
(***************************************************************************)
(* What the ready gate commits, for any processes, any workspaces and any   *)
(* number of crashes: the order of the three writes keeps the pointer on a  *)
(* ready workspace, whatever becomes of the lock; and as long as no living  *)
(* lock is reclaimed, what a run reports as ok is its own.                  *)
(***************************************************************************)
EXTENDS WorkspaceReadyGate, TLAPS

\* A process names the files it has written with one of these.
AfterMarker == {"marked", "evidenced", "pointed"}
AfterEvidence == {"evidenced", "pointed"}

\* The strengthening of PointerIsReady: how far a process is tells what is there.
OrderKept ==
    /\ \A p \in Procs : pc[p] \in AfterMarker => marker[Home[p]] # None
    /\ \A p \in Procs : pc[p] \in AfterEvidence => evidence[Home[p]] # None
    /\ PointerIsReady

\* The strengthening of OkIsOneSession, of a workspace w: one process at a time
\* from the mkdir on, in a directory that is there, and the files are its own.
OneHolder(w) ==
    \A p, q \in Procs : Home[p] = w /\ Home[q] = w /\ Holding(p) /\ Holding(q) => p = q
HolderHasDir(w) == \A p \in Procs : Home[p] = w /\ Holding(p) => dir[w]
FilesOwn(w) ==
    \A p \in Procs : Home[p] = w => /\ pc[p] \in AfterMarker => marker[w] = p
                                    /\ pc[p] \in AfterEvidence => evidence[w] = p

Exclusion(w) == OneHolder(w) /\ HolderHasDir(w) /\ FilesOwn(w)
GateInv == \A w \in Spaces : ~stolen[w] => Exclusion(w)

-----------------------------------------------------------------------------

LEMMA StepType == ASSUME TypeOK, NEW p \in Procs, Step(p) PROVE TypeOK'
<1>1. Home[p] \in Spaces
  BY GateAssumption
<1>2. CASE Enter(p) \/ EnterFails(p) \/ LookForOwner(p) \/ ReadOwner(p)
  BY <1>1, <1>2 DEF Enter, EnterFails, LookForOwner, ReadOwner, Goto, TypeOK, Steps,
     HoldingSteps, lock, files
<1>3. CASE ReclaimOwner(p) \/ ReclaimDir(p) \/ Remake(p)
  BY <1>1, <1>3 DEF ReclaimOwner, ReclaimDir, Remake, Removable, Empty, Held, Holding, Goto,
     TypeOK, Steps, HoldingSteps, lock, files
<1>4. CASE Ensure(p) \/ WriteTemp(p) \/ Replace(p) \/ OwnerWriteFails(p)
  BY <1>1, <1>4 DEF Ensure, WriteTemp, Replace, OwnerWriteFails, Goto, TypeOK, Steps,
     HoldingSteps, lock, files
<1>5. CASE WriteMarker(p) \/ WriteEvidence(p) \/ WritePointer(p) \/ CommitFails(p)
  BY <1>1, <1>5 DEF WriteMarker, WriteEvidence, WritePointer, CommitFails, Goto, TypeOK, Steps,
     HoldingSteps, lock, files
<1>6. CASE ReleaseOwner(p) \/ ReleaseDir(p)
  BY <1>1, <1>6 DEF ReleaseOwner, ReleaseDir, Removable, Empty, Goto, TypeOK, Steps,
     HoldingSteps, lock, files
<1> QED
  BY <1>2, <1>3, <1>4, <1>5, <1>6 DEF Step

LEMMA EnvironmentType ==
    ASSUME TypeOK, (\E p \in Procs : Crash(p)) \/ (\E w \in Spaces : Expire(w))
    PROVE  TypeOK'
<1>1. ASSUME NEW p \in Procs, Crash(p) PROVE TypeOK'
  <2>1. crashes' \in 0 .. MaxCrashes
    BY <1>1, GateAssumption DEF Crash, TypeOK
  <2>2. pc' \in [Procs -> Steps]
    BY <1>1 DEF Crash, TypeOK, Steps
  <2>3. litter' \in [Spaces -> BOOLEAN]
    BY <1>1, GateAssumption DEF Crash, TypeOK
  <2> QED
    BY <1>1, <2>1, <2>2, <2>3 DEF Crash, TypeOK, files
<1>2. ASSUME NEW w \in Spaces, Expire(w) PROVE TypeOK'
  BY <1>2 DEF Expire, TypeOK, files
<1> QED
  BY <1>1, <1>2

\* Every step stays within the types.
THEOREM GateTypeCorrect == Spec => []TypeOK
<1>1. Init => TypeOK
  <2> SUFFICES ASSUME Init PROVE TypeOK
    OBVIOUS
  <2>1. crashes \in 0 .. MaxCrashes
    BY GateAssumption DEF Init
  <2> QED
    BY <2>1 DEF Init, TypeOK, Steps
<1>2. TypeOK /\ [Next]_vars => TypeOK'
  <2> SUFFICES ASSUME TypeOK, [Next]_vars PROVE TypeOK'
    OBVIOUS
  <2>1. CASE UNCHANGED vars
    BY <2>1 DEF TypeOK, vars, lock, files
  <2>2. CASE Next
    BY <2>2, StepType, EnvironmentType DEF Next
  <2> QED
    BY <2>1, <2>2
<1> QED
  BY <1>1, <1>2, PTL DEF Spec

-----------------------------------------------------------------------------
(* The pointer. *)

\* A process that writes none of the three files, and does not pass for one
\* that has, leaves the order alone.
LEMMA OrderFrame ==
    ASSUME TypeOK, OrderKept, NEW p \in Procs, NEW to, pc' = [pc EXCEPT ![p] = to],
           to \notin AfterMarker, UNCHANGED files
    PROVE  OrderKept'
  BY DEF TypeOK, OrderKept, PointerIsReady, AfterMarker, AfterEvidence, files

LEMMA StepKeepsOrder == ASSUME TypeOK, OrderKept, NEW p \in Procs, Step(p) PROVE OrderKept'
<1>1. Home[p] \in Spaces /\ p # None
  BY GateAssumption
<1>2. CASE WriteMarker(p)
  BY <1>1, <1>2 DEF WriteMarker, Goto, TypeOK, OrderKept, PointerIsReady, AfterMarker,
     AfterEvidence, lock
<1>3. CASE WriteEvidence(p)
  BY <1>1, <1>3 DEF WriteEvidence, Goto, TypeOK, OrderKept, PointerIsReady, AfterMarker,
     AfterEvidence, lock
<1>4. CASE WritePointer(p)
  BY <1>1, <1>4 DEF WritePointer, Goto, TypeOK, OrderKept, PointerIsReady, AfterMarker,
     AfterEvidence, lock
<1>5. CASE ~(WriteMarker(p) \/ WriteEvidence(p) \/ WritePointer(p))
  <2>1. PICK to \in Steps \ AfterMarker : pc' = [pc EXCEPT ![p] = to]
    BY <1>5 DEF Step, Enter, EnterFails, LookForOwner, ReadOwner, ReclaimOwner, ReclaimDir,
       Remake, Ensure, WriteTemp, Replace, OwnerWriteFails, CommitFails, ReleaseOwner,
       ReleaseDir, Goto, Steps, HoldingSteps, AfterMarker
  <2>2. UNCHANGED files
    BY <1>5 DEF Step, Enter, EnterFails, LookForOwner, ReadOwner, ReclaimOwner, ReclaimDir,
       Remake, Ensure, WriteTemp, Replace, OwnerWriteFails, CommitFails, ReleaseOwner,
       ReleaseDir
  <2> QED
    BY <2>1, <2>2, OrderFrame
<1> QED
  BY <1>2, <1>3, <1>4, <1>5

\* The pointer never names a workspace without marker and evidence.
THEOREM PointerAlwaysReady == Spec => []PointerIsReady
<1>1. Init => OrderKept
  BY DEF Init, OrderKept, PointerIsReady, AfterMarker, AfterEvidence
<1>2. TypeOK /\ OrderKept /\ [Next]_vars => OrderKept'
  <2> SUFFICES ASSUME TypeOK, OrderKept, [Next]_vars PROVE OrderKept'
    OBVIOUS
  <2>1. CASE UNCHANGED vars
    BY <2>1 DEF vars, files, OrderKept, PointerIsReady
  <2>2. ASSUME NEW w \in Spaces, Expire(w) PROVE OrderKept'
    BY <2>2 DEF Expire, files, OrderKept, PointerIsReady
  <2>3. ASSUME NEW p \in Procs, Crash(p) PROVE OrderKept'
    BY <2>3, OrderFrame DEF Crash, AfterMarker
  <2>4. ASSUME NEW p \in Procs, Step(p) PROVE OrderKept'
    BY <2>4, StepKeepsOrder
  <2> QED
    BY <2>1, <2>2, <2>3, <2>4 DEF Next
<1>3. OrderKept => PointerIsReady
  BY DEF OrderKept
<1> QED
  BY <1>1, <1>2, <1>3, GateTypeCorrect, PTL DEF Spec

-----------------------------------------------------------------------------
(* Marker and evidence. *)

\* Steps that touch neither lock directory nor files keep exclusion, if they do
\* not make a holder of another process or pass for a write.
LEMMA ExclusionFrame ==
    ASSUME TypeOK, NEW w \in Spaces, Exclusion(w), NEW p \in Procs, NEW to,
           pc' = [pc EXCEPT ![p] = to],
           Holding(p)' => Holding(p),
           to \in AfterMarker => pc[p] \in AfterMarker,
           to \in AfterEvidence => pc[p] \in AfterEvidence,
           dir'[w] = dir[w], UNCHANGED <<marker, evidence>>
    PROVE  Exclusion(w)'
<1>1. \A q \in Procs : q # p => pc'[q] = pc[q]
  BY DEF TypeOK
<1>2. pc'[p] = to
  BY DEF TypeOK
<1>3. OneHolder(w)'
  BY <1>1 DEF Exclusion, OneHolder, Holding
<1>4. HolderHasDir(w)'
  BY <1>1 DEF Exclusion, HolderHasDir, Holding
<1>5. FilesOwn(w)'
  BY <1>1, <1>2 DEF Exclusion, FilesOwn
<1> QED
  BY <1>3, <1>4, <1>5 DEF Exclusion

\* What a process does leaves the other workspaces alone.
LEMMA ElsewhereKept ==
    ASSUME TypeOK, NEW w \in Spaces, Exclusion(w), NEW p \in Procs, Home[p] # w,
           \A q \in Procs : q # p => pc'[q] = pc[q],
           dir'[w] = dir[w], marker'[w] = marker[w], evidence'[w] = evidence[w]
    PROVE  Exclusion(w)'
  BY DEF Exclusion, OneHolder, HolderHasDir, FilesOwn, Holding

LEMMA StepIsLocal ==
    ASSUME TypeOK, NEW p \in Procs, Step(p), NEW w \in Spaces
    PROVE  /\ \A q \in Procs : q # p => pc'[q] = pc[q]
           /\ stolen[w] => stolen'[w]
           /\ Home[p] # w => /\ dir'[w] = dir[w] /\ marker'[w] = marker[w]
                             /\ evidence'[w] = evidence[w]
<1>1. \A q \in Procs : q # p => pc'[q] = pc[q]
  BY DEF Step, Enter, EnterFails, LookForOwner, ReadOwner, ReclaimOwner, ReclaimDir, Remake,
     Ensure, WriteTemp, Replace, OwnerWriteFails, WriteMarker, WriteEvidence, WritePointer,
     CommitFails, ReleaseOwner, ReleaseDir, Goto, TypeOK
<1>2. stolen[w] => stolen'[w]
  BY DEF Step, Enter, EnterFails, LookForOwner, ReadOwner, ReclaimOwner, ReclaimDir, Remake,
     Ensure, WriteTemp, Replace, OwnerWriteFails, WriteMarker, WriteEvidence, WritePointer,
     CommitFails, ReleaseOwner, ReleaseDir, TypeOK, lock
<1>3. Home[p] # w => dir'[w] = dir[w] /\ marker'[w] = marker[w] /\ evidence'[w] = evidence[w]
  BY GateAssumption DEF Step, Enter, EnterFails, LookForOwner, ReadOwner, ReclaimOwner, ReclaimDir, Remake,
     Ensure, WriteTemp, Replace, OwnerWriteFails, WriteMarker, WriteEvidence, WritePointer,
     CommitFails, ReleaseOwner, ReleaseDir, TypeOK, lock, files
<1> QED
  BY <1>1, <1>2, <1>3

\* Whoever makes the directory finds no holder in it.
LEMMA MakerIsAlone ==
    ASSUME TypeOK, NEW w \in Spaces, Exclusion(w), ~dir[w], NEW p \in Procs, Home[p] = w,
           pc' = [pc EXCEPT ![p] = "made"], dir'[w], UNCHANGED <<marker, evidence>>
    PROVE  Exclusion(w)'
<1>1. \A q \in Procs : Home[q] = w => ~Holding(q)
  BY DEF Exclusion, HolderHasDir
<1>2. \A q \in Procs : Home[q] = w /\ Holding(q)' => q = p
  BY <1>1 DEF TypeOK, Holding
<1>3. \A q \in Procs : Home[q] = w => pc'[q] \notin AfterMarker /\ pc'[q] \notin AfterEvidence
  BY <1>1 DEF TypeOK, Holding, HoldingSteps, AfterMarker, AfterEvidence
<1> QED
  BY <1>2, <1>3 DEF Exclusion, OneHolder, HolderHasDir, FilesOwn

\* A directory is removed by its last holder or when there is none.
LEMMA RemoverIsLast ==
    ASSUME TypeOK, NEW w \in Spaces, Exclusion(w), NEW p \in Procs, Home[p] = w,
           NEW to \in Steps \ HoldingSteps, pc' = [pc EXCEPT ![p] = to],
           \A q \in Procs : Home[q] = w /\ Holding(q) => q = p,
           UNCHANGED <<marker, evidence>>
    PROVE  Exclusion(w)'
<1>1. \A q \in Procs : Home[q] = w => ~Holding(q)'
  BY DEF TypeOK, Holding
<1> QED
  BY <1>1 DEF Exclusion, OneHolder, HolderHasDir, FilesOwn, Holding, HoldingSteps, AfterMarker,
     AfterEvidence

\* Each step of a process that ends with no lock stolen in its workspace
\* preserves exclusion there.
LEMMA StepKeepsExclusion ==
    ASSUME TypeOK, NEW p \in Procs, NEW w \in Spaces, Home[p] = w, Exclusion(w), Step(p),
           ~stolen'[w]
    PROVE  Exclusion(w)'
<1>1. CASE Enter(p)
  BY <1>1, MakerIsAlone DEF Enter, Goto, TypeOK, files
<1>2. CASE EnterFails(p) \/ LookForOwner(p) \/ ReadOwner(p) \/ ReclaimOwner(p)
  <2>1. PICK to \in Steps \ HoldingSteps : pc' = [pc EXCEPT ![p] = to]
    BY <1>2 DEF EnterFails, LookForOwner, ReadOwner, ReclaimOwner, Goto, Steps, HoldingSteps
  <2>2. dir' = dir /\ UNCHANGED <<marker, evidence>>
    BY <1>2 DEF EnterFails, LookForOwner, ReadOwner, ReclaimOwner, lock, files
  <2>3. ~Holding(p)' /\ to \notin AfterMarker /\ to \notin AfterEvidence
    BY <2>1 DEF Holding, TypeOK, HoldingSteps, AfterMarker, AfterEvidence
  <2> QED
    BY <2>1, <2>2, <2>3, ExclusionFrame
<1>3. CASE ReclaimDir(p)
  <2>1. PICK to \in Steps \ HoldingSteps : pc' = [pc EXCEPT ![p] = to]
    BY <1>3 DEF ReclaimDir, Goto, Steps, HoldingSteps
  <2>2. UNCHANGED <<marker, evidence>>
    BY <1>3 DEF ReclaimDir, files
  <2>3. CASE Removable(w)
    <3>1. ~Held(w)
      BY <1>3, <2>3 DEF ReclaimDir, TypeOK
    <3> QED
      BY <2>1, <2>2, <3>1, RemoverIsLast DEF Held
  <2>4. CASE ~Removable(w)
    <3>1. dir'[w] = dir[w]
      BY <1>3, <2>4 DEF ReclaimDir, TypeOK
    <3>2. ~Holding(p)' /\ to \notin AfterMarker /\ to \notin AfterEvidence
      BY <2>1 DEF Holding, TypeOK, HoldingSteps, AfterMarker, AfterEvidence
    <3> QED
      BY <2>1, <2>2, <3>1, <3>2, ExclusionFrame
  <2> QED
    BY <2>3, <2>4
<1>4. CASE Remake(p)
  <2>1. CASE dir[w]
    <3>1. pc' = [pc EXCEPT ![p] = "idle"] /\ dir'[w] = dir[w] /\ UNCHANGED <<marker, evidence>>
      BY <1>4, <2>1 DEF Remake, Goto, TypeOK, files
    <3>2. ~Holding(p)' /\ "idle" \notin AfterMarker /\ "idle" \notin AfterEvidence
      BY <3>1 DEF Holding, TypeOK, HoldingSteps, AfterMarker, AfterEvidence
    <3> QED
      BY <3>1, <3>2, ExclusionFrame
  <2>2. CASE ~dir[w]
    BY <1>4, <2>2, MakerIsAlone DEF Remake, Goto, TypeOK, files
  <2> QED
    BY <2>1, <2>2
<1>5. CASE Ensure(p) \/ WriteTemp(p) \/ Replace(p) \/ OwnerWriteFails(p)
  <2>1. Holding(p)
    BY <1>5 DEF Ensure, WriteTemp, Replace, OwnerWriteFails, Goto, Holding, HoldingSteps
  <2>2. PICK to \in {"ensured", "written", "owned"} : pc' = [pc EXCEPT ![p] = to]
    BY <1>5 DEF Ensure, WriteTemp, Replace, OwnerWriteFails, Goto
  <2>3. dir[w]
    BY <2>1 DEF Exclusion, HolderHasDir
  <2>4. dir'[w] = dir[w] /\ UNCHANGED <<marker, evidence>>
    BY <1>5, <2>3 DEF Ensure, WriteTemp, Replace, OwnerWriteFails, TypeOK, lock, files
  <2>5. to \notin AfterMarker /\ to \notin AfterEvidence
    BY <2>2 DEF AfterMarker, AfterEvidence
  <2> QED
    BY <2>1, <2>2, <2>4, <2>5, ExclusionFrame
<1>6. CASE WriteMarker(p) \/ WriteEvidence(p)
  <2>1. Holding(p) /\ Holding(p)'
    BY <1>6 DEF WriteMarker, WriteEvidence, Goto, Holding, HoldingSteps, TypeOK
  <2>2. \A q \in Procs : Home[q] = w /\ Holding(q) => q = p
    BY <2>1 DEF Exclusion, OneHolder
  <2>3. \A q \in Procs : q # p => pc'[q] = pc[q]
    BY <1>6 DEF WriteMarker, WriteEvidence, Goto, TypeOK
  <2>4. \A q \in Procs : Home[q] = w /\ q # p
                            => pc'[q] \notin AfterMarker /\ pc'[q] \notin AfterEvidence
    BY <2>2, <2>3 DEF Holding, HoldingSteps, AfterMarker, AfterEvidence
  <2>5. /\ pc'[p] \in AfterMarker => marker'[w] = p
        /\ pc'[p] \in AfterEvidence => evidence'[w] = p
    BY <1>6 DEF WriteMarker, WriteEvidence, Goto, TypeOK, AfterMarker, AfterEvidence, Exclusion,
       FilesOwn
  <2>6. OneHolder(w)' /\ HolderHasDir(w)'
    BY <1>6, <2>1, <2>2, <2>3 DEF WriteMarker, WriteEvidence, lock, OneHolder, HolderHasDir,
       Exclusion, Holding
  <2> QED
    BY <2>4, <2>5, <2>6 DEF Exclusion, FilesOwn
<1>7. CASE WritePointer(p) \/ CommitFails(p) \/ ReleaseOwner(p)
  <2>1. Holding(p)
    BY <1>7 DEF WritePointer, CommitFails, ReleaseOwner, Goto, Holding, HoldingSteps
  <2>2. PICK to \in {"pointed", "leaving", "releasing"} :
            pc' = [pc EXCEPT ![p] = to] /\ (to = "pointed" => pc[p] = "evidenced")
    BY <1>7 DEF WritePointer, CommitFails, ReleaseOwner, Goto
  <2>3. dir' = dir /\ UNCHANGED <<marker, evidence>>
    BY <1>7 DEF WritePointer, CommitFails, ReleaseOwner, lock, files
  <2>4. /\ to \in AfterMarker => pc[p] \in AfterMarker
        /\ to \in AfterEvidence => pc[p] \in AfterEvidence
    BY <2>2 DEF AfterMarker, AfterEvidence
  <2> QED
    BY <2>1, <2>2, <2>3, <2>4, ExclusionFrame
<1>8. CASE ReleaseDir(p)
  <2>1. Holding(p) /\ pc' = [pc EXCEPT ![p] = "idle"] /\ UNCHANGED <<marker, evidence>>
    BY <1>8 DEF ReleaseDir, Goto, Holding, HoldingSteps, files
  <2>2. \A q \in Procs : Home[q] = w /\ Holding(q) => q = p
    BY <2>1 DEF Exclusion, OneHolder
  <2>3. "idle" \in Steps \ HoldingSteps
    BY DEF Steps, HoldingSteps
  <2> QED
    BY <2>1, <2>2, <2>3, RemoverIsLast
<1> QED
  BY <1>1, <1>2, <1>3, <1>4, <1>5, <1>6, <1>7, <1>8 DEF Step

\* A run that reports ok has written both files of its workspace itself, as
\* long as no living lock was reclaimed there.
THEOREM OkCommitsOneSession == Spec => []OkIsOneSession
<1>1. Init => GateInv
  BY DEF Init, GateInv, Exclusion, OneHolder, HolderHasDir, FilesOwn, Holding, HoldingSteps,
     AfterMarker, AfterEvidence
<1>2. TypeOK /\ GateInv /\ [Next]_vars => GateInv'
  <2> SUFFICES ASSUME TypeOK, GateInv, [Next]_vars, NEW w \in Spaces, ~stolen'[w]
               PROVE  Exclusion(w)'
    BY DEF GateInv
  <2>1. CASE UNCHANGED vars
    BY <2>1 DEF vars, lock, files, GateInv, Exclusion, OneHolder, HolderHasDir, FilesOwn, Holding
  <2>2. ASSUME NEW v \in Spaces, Expire(v) PROVE Exclusion(w)'
    BY <2>2 DEF Expire, files, GateInv, Exclusion, OneHolder, HolderHasDir, FilesOwn, Holding
  <2>3. ASSUME NEW p \in Procs, Crash(p) PROVE Exclusion(w)'
    <3>1. /\ Exclusion(w) /\ pc' = [pc EXCEPT ![p] = "idle"] /\ dir' = dir
          /\ UNCHANGED <<marker, evidence>>
      BY <2>3 DEF Crash, GateInv, files
    <3>2. ~Holding(p)' /\ "idle" \notin AfterMarker /\ "idle" \notin AfterEvidence
      BY <3>1 DEF Holding, TypeOK, HoldingSteps, AfterMarker, AfterEvidence
    <3> QED
      BY <3>1, <3>2, ExclusionFrame
  <2>4. ASSUME NEW p \in Procs, Step(p) PROVE Exclusion(w)'
    <3>1. Exclusion(w)
      BY <2>4, StepIsLocal DEF GateInv
    <3>2. CASE Home[p] = w
      BY <2>4, <3>1, <3>2, StepKeepsExclusion
    <3>3. CASE Home[p] # w
      BY <2>4, <3>1, <3>3, StepIsLocal, ElsewhereKept
    <3> QED
      BY <3>2, <3>3
  <2> QED
    BY <2>1, <2>2, <2>3, <2>4 DEF Next
<1>3. GateInv => OkIsOneSession
  BY GateAssumption DEF GateInv, Exclusion, FilesOwn, AfterMarker, AfterEvidence, OkIsOneSession
<1> QED
  BY <1>1, <1>2, <1>3, GateTypeCorrect, PTL DEF Spec
=============================================================================
