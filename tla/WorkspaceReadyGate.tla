------------------------- MODULE WorkspaceReadyGate -------------------------
(***************************************************************************)
(* ensure_workspace_ready (infrastructure/workspace_ready_gate.py): under a *)
(* lock directory of the workspace, locks/workspace.lock, a run commits the *)
(* marker, the evidence and the global pointer, in this order.  The lock is *)
(* another one than WorkspaceLock's: a run that finds it held gives up at   *)
(* once, a reclaim makes the directory again by itself, and a lock whose    *)
(* owner.json could not be written is kept all the same.                    *)
(*                                                                         *)
(* Workspaces share the pointer and nothing else.  One action per call on   *)
(* the file system, any of which may also fail or be the last of a process. *)
(***************************************************************************)
EXTENDS Naturals

CONSTANTS Procs,        \* runs of the gate, each with a session id of its own
          Spaces,       \* workspaces, by repository fingerprint
          Home,         \* the workspace of each process
          None,         \* no file, no process
          MaxCrashes    \* bound: crashes in one behaviour

ASSUME GateAssumption ==
    /\ None \notin Procs \cup Spaces
    /\ Home \in [Procs -> Spaces]
    /\ MaxCrashes \in Nat

VARIABLES pc,        \* where each process is
          dir,       \* the lock directory of a workspace exists
          owner,     \* who wrote the owner.json in it
          expired,   \* that owner.json is older than the TTL
          litter,    \* the directory holds the temporary file of a crashed process
          marker,    \* whose session marker.json names
          evidence,  \* whose session repo-context.resolved.json names
          pointer,   \* the workspace the global pointer names
          stolen,    \* history: a lock was taken apart under a living holder
          crashes

lock == <<dir, owner, expired, litter, stolen>>
files == <<marker, evidence, pointer>>
vars == <<pc, lock, files, crashes>>

HoldingSteps ==
    {"made", "ensured", "written", "owned", "marked", "evidenced", "pointed", "leaving", "releasing"}
Steps == {"idle", "found", "reading", "stale", "emptied", "removed"} \cup HoldingSteps

Holding(p) == pc[p] \in HoldingSteps
Held(w) == \E p \in Procs : Home[p] = w /\ Holding(p)

TypeOK ==
    /\ pc \in [Procs -> Steps]
    /\ dir \in [Spaces -> BOOLEAN]
    /\ owner \in [Spaces -> Procs \cup {None}]
    /\ expired \in [Spaces -> BOOLEAN]
    /\ litter \in [Spaces -> BOOLEAN]
    /\ marker \in [Spaces -> Procs \cup {None}]
    /\ evidence \in [Spaces -> Procs \cup {None}]
    /\ pointer \in Spaces \cup {None}
    /\ stolen \in [Spaces -> BOOLEAN]
    /\ crashes \in 0 .. MaxCrashes

Init ==
    /\ pc = [p \in Procs |-> "idle"]
    /\ dir = [w \in Spaces |-> FALSE]
    /\ owner = [w \in Spaces |-> None]
    /\ expired = [w \in Spaces |-> FALSE]
    /\ litter = [w \in Spaces |-> FALSE]
    /\ marker = [w \in Spaces |-> None]
    /\ evidence = [w \in Spaces |-> None]
    /\ pointer = None
    /\ stolen = [w \in Spaces |-> FALSE]
    /\ crashes = 0

Goto(p, from, to) == pc[p] = from /\ pc' = [pc EXCEPT ![p] = to]

\* What rmdir asks for.
Empty(w) ==
    /\ owner[w] = None
    /\ ~litter[w]
    /\ \A p \in Procs : Home[p] = w => pc[p] # "written"

Removable(w) == dir[w] /\ Empty(w)

-----------------------------------------------------------------------------
(* Taking the lock. *)

\* Mutant: mkdir(exist_ok=True).
EnterExistOk(p) ==
    /\ Goto(p, "idle", "made")
    /\ dir' = [dir EXCEPT ![Home[p]] = TRUE]
    /\ UNCHANGED <<owner, expired, litter, stolen, files, crashes>>

Enter(p) ==
    /\ ~dir[Home[p]]
    /\ Goto(p, "idle", "made")
    /\ dir' = [dir EXCEPT ![Home[p]] = TRUE]
    /\ UNCHANGED <<owner, expired, litter, stolen, files, crashes>>

EnterFails(p) ==
    /\ dir[Home[p]]
    /\ Goto(p, "idle", "found")
    /\ UNCHANGED <<lock, files, crashes>>

\* No owner.json counts as stale, as does one that is gone when it is read.
LookForOwner(p) ==
    /\ Goto(p, "found", IF owner[Home[p]] = None THEN "stale" ELSE "reading")
    /\ UNCHANGED <<lock, files, crashes>>

\* "workspace-lock-held" is a final answer.
ReadOwner(p) ==
    /\ Goto(p, "reading",
            IF owner[Home[p]] = None \/ expired[Home[p]] THEN "stale" ELSE "idle")
    /\ UNCHANGED <<lock, files, crashes>>

\* Mutant: the reclaim goes on without removing owner.json.
KeepOwner(p) ==
    /\ Goto(p, "stale", "emptied")
    /\ UNCHANGED <<lock, files, crashes>>

ReclaimOwner(p) ==
    LET w == Home[p] IN
    /\ Goto(p, "stale", "emptied")
    /\ owner' = [owner EXCEPT ![w] = None]
    /\ expired' = [expired EXCEPT ![w] = FALSE]
    /\ stolen' = [stolen EXCEPT ![w] = @ \/ (owner[w] # None /\ Held(w))]
    /\ UNCHANGED <<dir, litter, files, crashes>>

\* A directory that cannot be removed ends the attempt: "workspace-lock-held".
ReclaimDir(p) ==
    LET w == Home[p] IN
    /\ Goto(p, "emptied", IF Removable(w) THEN "removed" ELSE "idle")
    /\ dir' = [dir EXCEPT ![w] = @ /\ ~Removable(w)]
    /\ stolen' = [stolen EXCEPT ![w] = @ \/ (Removable(w) /\ Held(w))]
    /\ UNCHANGED <<owner, expired, litter, files, crashes>>

Remake(p) ==
    /\ Goto(p, "removed", IF dir[Home[p]] THEN "idle" ELSE "made")
    /\ dir' = [dir EXCEPT ![Home[p]] = TRUE]
    /\ UNCHANGED <<owner, expired, litter, stolen, files, crashes>>

\* atomic_write_text of owner.json: mkdir(exist_ok) of its directory, the
\* temporary file, the rename.  An OSError of any of them is passed over.
Ensure(p) ==
    /\ Goto(p, "made", "ensured")
    /\ dir' = [dir EXCEPT ![Home[p]] = TRUE]
    /\ UNCHANGED <<owner, expired, litter, stolen, files, crashes>>

WriteTemp(p) ==
    /\ Goto(p, "ensured", IF dir[Home[p]] THEN "written" ELSE "owned")
    /\ UNCHANGED <<lock, files, crashes>>

Replace(p) ==
    /\ Goto(p, "written", "owned")
    /\ owner' = [owner EXCEPT ![Home[p]] = p]
    /\ expired' = [expired EXCEPT ![Home[p]] = FALSE]
    /\ UNCHANGED <<dir, litter, stolen, files, crashes>>

OwnerWriteFails(p) ==
    /\ pc[p] \in {"made", "ensured", "written"}
    /\ pc' = [pc EXCEPT ![p] = "owned"]
    /\ UNCHANGED <<lock, files, crashes>>

-----------------------------------------------------------------------------
(* The three files, each replaced atomically. *)

WriteMarker(p) ==
    /\ Goto(p, "owned", "marked")
    /\ marker' = [marker EXCEPT ![Home[p]] = p]
    /\ UNCHANGED <<lock, evidence, pointer, crashes>>

\* Mutant: a failed write of the evidence is passed over like one of owner.json.
SkipEvidence(p) ==
    /\ Goto(p, "marked", "evidenced")
    /\ UNCHANGED <<lock, files, crashes>>

WriteEvidence(p) ==
    /\ Goto(p, "marked", "evidenced")
    /\ evidence' = [evidence EXCEPT ![Home[p]] = p]
    /\ UNCHANGED <<lock, marker, pointer, crashes>>

WritePointer(p) ==
    /\ Goto(p, "evidenced", "pointed")
    /\ pointer' = Home[p]
    /\ UNCHANGED <<lock, marker, evidence, crashes>>

\* A failed write raises; what was written before it stays.
CommitFails(p) ==
    /\ pc[p] \in {"owned", "marked", "evidenced"}
    /\ pc' = [pc EXCEPT ![p] = "leaving"]
    /\ UNCHANGED <<lock, files, crashes>>

-----------------------------------------------------------------------------
(* The finally block; it does not ask whose lock it is. *)

ReleaseOwner(p) ==
    /\ pc[p] \in {"pointed", "leaving"}
    /\ pc' = [pc EXCEPT ![p] = "releasing"]
    /\ owner' = [owner EXCEPT ![Home[p]] = None]
    /\ expired' = [expired EXCEPT ![Home[p]] = FALSE]
    /\ UNCHANGED <<dir, litter, stolen, files, crashes>>

ReleaseDir(p) ==
    /\ Goto(p, "releasing", "idle")
    /\ dir' = [dir EXCEPT ![Home[p]] = @ /\ ~Removable(Home[p])]
    /\ UNCHANGED <<owner, expired, litter, stolen, files, crashes>>

-----------------------------------------------------------------------------
(* The environment. *)

\* The TTL of an owner.json passes, its author alive or not.
Expire(w) ==
    /\ owner[w] # None
    /\ ~expired[w]
    /\ expired' = [expired EXCEPT ![w] = TRUE]
    /\ UNCHANGED <<pc, dir, owner, litter, stolen, files, crashes>>

\* A process is killed; the finally block does not run.
Crash(p) ==
    /\ crashes < MaxCrashes
    /\ pc[p] # "idle"
    /\ pc' = [pc EXCEPT ![p] = "idle"]
    /\ litter' = [litter EXCEPT ![Home[p]] = @ \/ pc[p] = "written"]
    /\ crashes' = crashes + 1
    /\ UNCHANGED <<dir, owner, expired, stolen, files>>

Step(p) ==
    \/ Enter(p) \/ EnterFails(p) \/ LookForOwner(p) \/ ReadOwner(p)
    \/ ReclaimOwner(p) \/ ReclaimDir(p) \/ Remake(p)
    \/ Ensure(p) \/ WriteTemp(p) \/ Replace(p) \/ OwnerWriteFails(p)
    \/ WriteMarker(p) \/ WriteEvidence(p) \/ WritePointer(p) \/ CommitFails(p)
    \/ ReleaseOwner(p) \/ ReleaseDir(p)

Next ==
    \/ \E p \in Procs : Step(p) \/ Crash(p)
    \/ \E w \in Spaces : Expire(w)

Spec == Init /\ [][Next]_vars

\* The gate is run again in every session, and time passes.
FairSpec ==
    /\ Spec
    /\ \A w \in Spaces : WF_vars(Expire(w))
    /\ \A p \in Procs : WF_vars(Step(p))

-----------------------------------------------------------------------------

\* "The global pointer always references a valid workspace": wherever a run of
\* the gate fails or dies, and whoever else runs it, the workspace the pointer
\* names has its marker and its evidence.
PointerIsReady ==
    pointer # None => marker[pointer] # None /\ evidence[pointer] # None

\* A run that reports "ok" has committed a workspace of its own: marker and
\* evidence are of one session, not of two clones of the repository that ran
\* the gate at once.  It needs that no living lock was reclaimed.
OkIsOneSession ==
    \A p \in Procs : pc[p] = "pointed" /\ ~stolen[Home[p]] =>
        marker[Home[p]] = p /\ evidence[Home[p]] = p

\* A lock whose holder is gone.
Abandoned(w) == dir[w] /\ ~Held(w)

\* A lock left behind does not stay, unless a temporary file was left in it.
AbandonedIsReclaimed ==
    \A w \in Spaces : Abandoned(w) /\ ~litter[w] ~> ~Abandoned(w) \/ litter[w]

\* runtime-state-contract.v1.md:147, "Stale lock detection (TTL 120s)
\* auto-reclaims" a stuck lock.  It does not reclaim one with a temporary file
\* of atomic_write_text in it: rmdir fails, and nothing else removes the file.
StuckLockIsReclaimed == \A w \in Spaces : Abandoned(w) ~> ~Abandoned(w)
=============================================================================
