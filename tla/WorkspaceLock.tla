--------------------------- MODULE WorkspaceLock ---------------------------
(***************************************************************************)
(* The lock that /new-work, bootstrap, artifact persistence and the session *)
(* restore take on a workspace (entrypoints/workspace_lock.py): a directory *)
(* made by one mkdir, with an owner.json inside that tells when it was      *)
(* taken.  One action per call on the file system, the grain at which the   *)
(* processes interleave and at which one of them may crash.                 *)
(***************************************************************************)
EXTENDS Naturals

CONSTANTS Procs, NoOwner,
          MaxCrashes    \* bound: crashes in one behaviour

ASSUME LockAssumption == NoOwner \notin Procs /\ MaxCrashes \in Nat

VARIABLES pc,       \* where each process is
          dir,      \* the lock directory exists
          owner,    \* who wrote the owner.json in it
          expired,  \* that owner.json is older than the TTL
          litter,   \* the directory holds the temporary file of a crashed process
          stolen,   \* history: a lock was taken apart under a living holder
          crashes

vars == <<pc, dir, owner, expired, litter, stolen, crashes>>

\* From the mkdir that succeeded to the rmdir that releases.
HoldingSteps == {"made", "ensured", "written", "critical", "releasing"}
Steps == {"idle", "trying", "found", "reading", "stale", "emptied", "waiting"} \cup HoldingSteps

Holding(p) == pc[p] \in HoldingSteps
Held == \E p \in Procs : Holding(p)

TypeOK ==
    /\ pc \in [Procs -> Steps]
    /\ dir \in BOOLEAN
    /\ owner \in Procs \cup {NoOwner}
    /\ expired \in BOOLEAN
    /\ litter \in BOOLEAN
    /\ stolen \in BOOLEAN
    /\ crashes \in 0 .. MaxCrashes

Init ==
    /\ pc = [p \in Procs |-> "idle"]
    /\ dir = FALSE
    /\ owner = NoOwner
    /\ expired = FALSE
    /\ litter = FALSE
    /\ stolen = FALSE
    /\ crashes = 0

Goto(p, from, to) == pc[p] = from /\ pc' = [pc EXCEPT ![p] = to]

\* rmdir succeeds on an empty directory only; a process in "written" has its
\* temporary file in it.
Empty == owner = NoOwner /\ ~litter /\ \A p \in Procs : pc[p] # "written"

-----------------------------------------------------------------------------
(* acquire_workspace_lock. *)

Start(p) ==
    /\ Goto(p, "idle", "trying")
    /\ UNCHANGED <<dir, owner, expired, litter, stolen, crashes>>

\* Mutant: mkdir(exist_ok=True).
MkdirExistOk(p) ==
    /\ Goto(p, "trying", "made")
    /\ dir' = TRUE
    /\ UNCHANGED <<owner, expired, litter, stolen, crashes>>

Mkdir(p) ==
    /\ ~dir
    /\ Goto(p, "trying", "made")
    /\ dir' = TRUE
    /\ UNCHANGED <<owner, expired, litter, stolen, crashes>>

MkdirFails(p) ==
    /\ dir
    /\ Goto(p, "trying", "found")
    /\ UNCHANGED <<dir, owner, expired, litter, stolen, crashes>>

\* atomic_write_text: mkdir(parents, exist_ok) of the lock directory, the
\* temporary file, its rename to owner.json.
Ensure(p) ==
    /\ Goto(p, "made", "ensured")
    /\ dir' = TRUE
    /\ UNCHANGED <<owner, expired, litter, stolen, crashes>>

\* Without the directory the call raises out of acquire_workspace_lock.
WriteTemp(p) ==
    /\ Goto(p, "ensured", IF dir THEN "written" ELSE "idle")
    /\ UNCHANGED <<dir, owner, expired, litter, stolen, crashes>>

Replace(p) ==
    /\ Goto(p, "written", "critical")
    /\ owner' = p
    /\ expired' = FALSE
    /\ UNCHANGED <<dir, litter, stolen, crashes>>

\* owner.exists(): no owner.json counts as stale.
LookForOwner(p) ==
    /\ Goto(p, "found", IF owner = NoOwner THEN "stale" ELSE "reading")
    /\ UNCHANGED <<dir, owner, expired, litter, stolen, crashes>>

\* Reading a file that is gone raises, and counts as stale.
ReadOwner(p) ==
    /\ Goto(p, "reading", IF owner = NoOwner \/ expired THEN "stale" ELSE "waiting")
    /\ UNCHANGED <<dir, owner, expired, litter, stolen, crashes>>

\* Mutant: the reclaim goes on without removing owner.json.
KeepOwner(p) ==
    /\ Goto(p, "stale", "emptied")
    /\ UNCHANGED <<dir, owner, expired, litter, stolen, crashes>>

ReclaimOwner(p) ==
    /\ Goto(p, "stale", "emptied")
    /\ owner' = NoOwner
    /\ stolen' = (stolen \/ (owner # NoOwner /\ Held))
    /\ UNCHANGED <<dir, expired, litter, crashes>>

ReclaimDir(p) ==
    /\ Goto(p, "emptied", "waiting")
    /\ dir' = (dir /\ ~Empty)
    /\ stolen' = (stolen \/ (dir /\ Empty /\ Held))
    /\ UNCHANGED <<owner, expired, litter, crashes>>

Retry(p) ==
    /\ Goto(p, "waiting", "trying")
    /\ UNCHANGED <<dir, owner, expired, litter, stolen, crashes>>

TimeOut(p) ==
    /\ Goto(p, "waiting", "idle")
    /\ UNCHANGED <<dir, owner, expired, litter, stolen, crashes>>

-----------------------------------------------------------------------------
(* WorkspaceLock.release: it looks at no lock_id. *)

ReleaseOwner(p) ==
    /\ Goto(p, "critical", "releasing")
    /\ owner' = NoOwner
    /\ UNCHANGED <<dir, expired, litter, stolen, crashes>>

ReleaseDir(p) ==
    /\ Goto(p, "releasing", "idle")
    /\ dir' = (dir /\ ~Empty)
    /\ UNCHANGED <<owner, expired, litter, stolen, crashes>>

-----------------------------------------------------------------------------
(* The environment. *)

\* The TTL of the owner.json passes, its author alive or not.
Expire ==
    /\ owner # NoOwner
    /\ ~expired
    /\ expired' = TRUE
    /\ UNCHANGED <<pc, dir, owner, litter, stolen, crashes>>

\* A process is killed: what it has in the directory stays.
Crash(p) ==
    /\ crashes < MaxCrashes
    /\ pc[p] # "idle"
    /\ pc' = [pc EXCEPT ![p] = "idle"]
    /\ litter' = (litter \/ pc[p] = "written")
    /\ crashes' = crashes + 1
    /\ UNCHANGED <<dir, owner, expired, stolen>>

\* What a running process does next.
Step(p) ==
    \/ Start(p) \/ Mkdir(p) \/ MkdirFails(p)
    \/ Ensure(p) \/ WriteTemp(p) \/ Replace(p)
    \/ LookForOwner(p) \/ ReadOwner(p) \/ ReclaimOwner(p) \/ ReclaimDir(p)
    \/ Retry(p) \/ TimeOut(p)
    \/ ReleaseOwner(p) \/ ReleaseDir(p)

Next == Expire \/ \E p \in Procs : Step(p) \/ Crash(p)

Spec == Init /\ [][Next]_vars

\* Processes run on, commands that failed are given again, and time passes.
FairSpec == Spec /\ WF_vars(Expire) /\ \A p \in Procs : WF_vars(Step(p))

-----------------------------------------------------------------------------

\* The orchestrators proceed on an "exclusive workspace lock acquired before
\* write" (persist_workspace_artifacts_orchestrator.py:1825).  It is not one.
MutualExclusion == \A p, q \in Procs : pc[p] = "critical" /\ pc[q] = "critical" => p = q

\* Nothing but the reclaim of a lock that is alive breaks exclusion: a crash, a
\* time-out, the reclaim of a dead lock and a release leave one holder, whose
\* owner.json is the one in the directory.
ExclusiveUnlessStolen ==
    ~stolen => /\ MutualExclusion
               /\ \A p \in Procs : pc[p] = "critical" => dir /\ owner = p

\* A lock whose holder is gone.
Abandoned == dir /\ ~Held

\* A lock left behind by a crash does not stay: some later command reclaims it,
\* unless the crash left a temporary file in the directory, which no rmdir
\* removes and no reclaim looks for.
AbandonedIsReclaimed == Abandoned /\ ~litter ~> ~Abandoned \/ litter
=============================================================================
