----------------------------- MODULE Bootstrap -----------------------------
(***************************************************************************)
(* The local launcher (entrypoints/bootstrap_preflight_readonly.py) and     *)
(* what it runs: the persistence hook, the bootstrap of a workspace under   *)
(* its lock (application/use_cases/bootstrap_persistence.py), the backfill  *)
(* of the Phase-2 artifacts (entrypoints/                                   *)
(* persist_workspace_artifacts_orchestrator.py), and the kernel             *)
(* continuation, which routes the session to Phase 4 without the lock.      *)
(*                                                                         *)
(* Launchers of several repositories share one configuration root: its      *)
(* activation intent and its pointer to the active workspace.  One action   *)
(* per read or write of a file another launcher may touch; a session that   *)
(* is read, changed and written is two actions.                             *)
(***************************************************************************)
EXTENDS StartPhases

CONSTANTS Launchers, Repos, Nothing,
          Rules,          \* the sets of business rules a repository may hold
          MaxEvents       \* bound: failing writes, interruptions, runs that outlive
                          \* the TTL of their lock, changes of a repository's rules

ASSUME BootstrapAssumption ==
    /\ Nothing \notin Launchers \cup Repos \cup Rules \cup SessionDocument
    /\ MaxEvents \in Nat

VARIABLES
    home,        \* the repository each launcher is run in
    unattended,  \* the launchers that do not run in user mode
    pc, kind,    \* where each launcher is, and which of the two commands it runs
    doc,         \* the session document it has read
    found,       \* the outcome of its discovery of business rules
    intent,      \* governance activation intent of the configuration root
    pointer,     \* the repository the global pointer names
    ws,          \* the files of each workspace
    source,      \* the business rules each repository holds
    events       \* how much of the bound has been used

run   == <<home, unattended>>
shared == <<intent, pointer>>
world == <<source, events>>
vars  == <<run, pc, kind, doc, found, shared, ws, world>>

BootstrapSteps == {"locking", "intent", "policy", "initial", "identity"}
BackfillSteps  == {"queueing", "rules", "artifacts", "update"}
CommitSteps    == {"verify", "pointer", "readback", "merge", "commit", "release"}
HookSteps      == {"hook-pointer", "hook-session", "resume", "route"}
Steps == {"idle"} \cup BootstrapSteps \cup BackfillSteps \cup CommitSteps \cup HookSteps

Workspace ==
    [session   : SessionDocument \cup {Nothing},
     identity  : BOOLEAN,
     policy    : BOOLEAN,     \* the policy file in the repository
     artifacts : SUBSET Artifacts,
     inventory : Rules \cup {Nothing},
     lock      : {"free", "held", "expired"}]

\* The state of the launchers and of the files they share.
TypeOK ==
    /\ home \in [Launchers -> Repos]
    /\ unattended \subseteq Launchers
    /\ pc \in [Launchers -> Steps]
    /\ kind \in [Launchers -> {"launch", "persist"}]
    /\ doc \in [Launchers -> SessionDocument \cup {Nothing}]
    /\ found \in [Launchers -> {"none", "extracted", "gap-detected"}]
    /\ intent \in {"absent", "valid", "invalid"}
    /\ pointer \in Repos \cup {Nothing}
    /\ ws \in [Repos -> Workspace]
    /\ source \in [Repos -> Rules \cup {Nothing}]
    /\ events \in 0 .. MaxEvents

NewWorkspace ==
    [session |-> Nothing, identity |-> FALSE, policy |-> FALSE, artifacts |-> {},
     inventory |-> Nothing, lock |-> "free"]

Init ==
    /\ home \in [Launchers -> Repos]
    /\ unattended \in SUBSET Launchers
    /\ pc = [p \in Launchers |-> "idle"]
    /\ kind = [p \in Launchers |-> "launch"]
    /\ doc = [p \in Launchers |-> Nothing]
    /\ found = [p \in Launchers |-> "none"]
    /\ intent \in {"absent", "valid", "invalid"}
    /\ pointer = Nothing
    /\ ws = [r \in Repos |-> NewWorkspace]
    /\ source \in [Repos -> Rules \cup {Nothing}]
    /\ events = 0

Event == events < MaxEvents /\ events' = events + 1

Files(p) == ws[home[p]]
Goto(p, from, to) == pc[p] = from /\ pc' = [pc EXCEPT ![p] = to]
Put(p, files) == ws' = [ws EXCEPT ![home[p]] = files]

\* The end of a run forgets what it had read.
Ended(p) ==
    /\ pc' = [pc EXCEPT ![p] = "idle"]
    /\ doc' = [doc EXCEPT ![p] = Nothing]
    /\ found' = [found EXCEPT ![p] = "none"]

\* An error the bootstrap reports: it lets the lock go and exits non-zero.
Refused(p) ==
    /\ Ended(p)
    /\ Put(p, [Files(p) EXCEPT !.lock = "free"])

-----------------------------------------------------------------------------
(* The two commands. *)

Start(p, command, at) ==
    /\ Goto(p, "idle", at)
    /\ kind' = [kind EXCEPT ![p] = command]
    /\ UNCHANGED <<run, doc, found, shared, ws, world>>

Launch(p) == Start(p, "launch", "locking")

\* Without a session the helper bootstraps one first, and does not commit it.
Persist(p) ==
    Start(p, "persist", IF Files(p).session = Nothing THEN "locking" ELSE "queueing")

-----------------------------------------------------------------------------
(* The workspace lock, as its callers see it: a lock left behind, or held    *)
(* beyond its TTL, is taken over, and a release removes whatever is there.   *)

\* Mutant: a lock is never taken over.
AcquireFree(p) ==
    /\ Goto(p, "locking", "intent") \/ Goto(p, "queueing", "rules")
    /\ Files(p).lock = "free"
    /\ Put(p, [Files(p) EXCEPT !.lock = "held"])
    /\ UNCHANGED <<run, kind, doc, found, shared, world>>

Acquire(p) ==
    /\ \/ Goto(p, "locking", "intent")
       \/ Goto(p, "queueing", "rules")
    /\ Files(p).lock # "held"
    /\ Put(p, [Files(p) EXCEPT !.lock = "held"])
    /\ UNCHANGED <<run, kind, doc, found, shared, world>>

TimeOut(p) ==
    /\ pc[p] \in {"locking", "queueing"}
    /\ Files(p).lock = "held"
    /\ Ended(p)
    /\ UNCHANGED <<run, kind, shared, ws, world>>

InLock(p) ==
    pc[p] \in (BootstrapSteps \cup BackfillSteps \cup CommitSteps) \ {"locking", "queueing"}

\* A run that outlives the TTL of its own lock is one of the bounded events.
Age(r) ==
    /\ ws[r].lock = "held"
    /\ ws' = [ws EXCEPT ![r] = [@ EXCEPT !.lock = "expired"]]
    /\ IF \E p \in Launchers : home[p] = r /\ InLock(p)
       THEN Event
       ELSE UNCHANGED events
    /\ UNCHANGED <<run, pc, kind, doc, found, shared, source>>

-----------------------------------------------------------------------------
(* BootstrapPersistenceService.run. *)

\* The activation intent is used when it is valid and created in user mode.
TakeIntent(p) ==
    /\ Goto(p, "intent", "policy")
    /\ intent = "valid" \/ (intent = "absent" /\ p \notin unattended)
    /\ intent' = "valid"
    /\ UNCHANGED <<run, kind, doc, found, pointer, ws, world>>

RefuseIntent(p) ==
    /\ pc[p] = "intent"
    /\ intent = "invalid" \/ (intent = "absent" /\ p \in unattended)
    /\ Refused(p)
    /\ UNCHANGED <<run, kind, shared, world>>

WritePolicy(p) ==
    /\ Goto(p, "policy", "initial")
    /\ Put(p, [Files(p) EXCEPT !.policy = TRUE])
    /\ UNCHANGED <<run, kind, doc, found, shared, world>>

\* Mutant: the flags are set before what they stand for is done.
CommittedAtOnce ==
    [phase |-> "1.1", committed |-> TRUE, intent |-> TRUE, evidence |-> FALSE,
     rulebooks |-> FALSE, discovery |-> "absent", rules |-> "none", p54 |-> "pending",
     api |-> "absent", asking |-> FALSE, ready |-> FALSE]

\* _session_state_payload with no flag set.
InitialSession ==
    [phase |-> "1.1", committed |-> FALSE, intent |-> TRUE, evidence |-> FALSE,
     rulebooks |-> FALSE, discovery |-> "absent", rules |-> "none", p54 |-> "pending",
     api |-> "absent", asking |-> FALSE, ready |-> FALSE]

\* Mutant: the pointer is moved with the first session.
InitialWithPointer(p) ==
    /\ Goto(p, "initial", "identity")
    /\ Put(p, [Files(p) EXCEPT !.session = InitialSession])
    /\ pointer' = home[p]
    /\ UNCHANGED <<run, kind, doc, found, intent, world>>

\* Written whatever session the workspace has.
WriteInitial(p) ==
    /\ Goto(p, "initial", "identity")
    /\ Put(p, [Files(p) EXCEPT !.session = InitialSession])
    /\ UNCHANGED <<run, kind, doc, found, shared, world>>

\* With the identity map the bootstrap makes the directories and the default
\* configuration; a bootstrap that does not commit ends here.
WriteIdentity(p) ==
    /\ \/ kind[p] = "launch" /\ Goto(p, "identity", "rules")
          /\ Put(p, [Files(p) EXCEPT !.identity = TRUE])
       \/ kind[p] = "persist" /\ Goto(p, "identity", "queueing")
          /\ Put(p, [Files(p) EXCEPT !.identity = TRUE, !.lock = "free"])
    /\ UNCHANGED <<run, kind, doc, found, shared, world>>

-----------------------------------------------------------------------------
(* The backfill. *)

\* The inventory of rules is created when there are rules and no file, and
\* read back; one that differs from what the repository holds is removed.
Inventory(rules, file) ==
    CASE rules = Nothing                     -> Nothing
      [] rules # Nothing /\ file = Nothing   -> rules
      [] rules # Nothing /\ file # Nothing   -> IF file = rules THEN file ELSE Nothing

Outcome(file) == IF file = Nothing THEN "gap-detected" ELSE "extracted"

UpsertRules(p) ==
    /\ Goto(p, "rules", "artifacts")
    /\ LET file == Inventory(source[home[p]], Files(p).inventory) IN
       \/ /\ Put(p, [Files(p) EXCEPT !.inventory = file])
          /\ found' = [found EXCEPT ![p] = Outcome(file)]
          /\ UNCHANGED events
       \/ \* the write fails, which is reported and leaves a gap
          /\ file # Files(p).inventory /\ file # Nothing
          /\ Event
          /\ found' = [found EXCEPT ![p] = Outcome(Nothing)]
          /\ UNCHANGED ws
    /\ UNCHANGED <<run, kind, doc, shared, source>>

\* The four artifacts are written in this order; those that exist are kept.
Before(a) ==
    CASE a = "repo-cache"       -> {}
      [] a = "repo-map-digest"  -> {"repo-cache"}
      [] a = "decision-pack"    -> {"repo-cache", "repo-map-digest"}
      [] a = "workspace-memory" -> Artifacts \ {"workspace-memory"}

WriteArtifact(p) ==
    /\ pc[p] = "artifacts"
    /\ \E a \in Artifacts \ Files(p).artifacts :
          /\ Before(a) \subseteq Files(p).artifacts
          /\ Put(p, [Files(p) EXCEPT !.artifacts = Files(p).artifacts \cup {a}])
    /\ UNCHANGED <<run, pc, kind, doc, found, shared, world>>

\* A write of the backfill fails, and the bootstrap that runs it reports that;
\* or a decision pack in the legacy format is met before Phase 4.
BackfillFails(p) ==
    /\ pc[p] \in {"rules", "artifacts"}
    /\ \/ kind[p] = "launch"
       \/ /\ pc[p] = "artifacts" /\ "decision-pack" \in Files(p).artifacts
          /\ StartRank[Files(p).session.phase] < StartRank["4"]
    /\ Event
    /\ Refused(p)
    /\ UNCHANGED <<run, kind, shared, source>>

ReadSession(p, from, to) ==
    /\ Goto(p, from, to)
    /\ doc' = [doc EXCEPT ![p] = Files(p).session]
    /\ UNCHANGED <<run, kind, found, shared, ws, world>>

ReadForUpdate(p) ==
    /\ Files(p).artifacts = Artifacts
    /\ ReadSession(p, "artifacts", "update")

\* _update_session_state.
UpdateSession(p) ==
    /\ Goto(p, "update", IF kind[p] = "launch" THEN "verify" ELSE "release")
    /\ Put(p, [Files(p) EXCEPT !.session = [doc[p] EXCEPT !.rules = found[p]]])
    /\ doc' = [doc EXCEPT ![p] = Nothing]
    /\ found' = [found EXCEPT ![p] = "none"]
    /\ UNCHANGED <<run, kind, shared, world>>

-----------------------------------------------------------------------------
(* The commit. *)

VerifyArtifacts(p) ==
    /\ Goto(p, "verify", "pointer")
    /\ Files(p).artifacts = Artifacts
    /\ UNCHANGED <<run, kind, doc, found, shared, ws, world>>

WritePointer(p) ==
    /\ Goto(p, "pointer", "readback")
    /\ pointer' = home[p]
    /\ UNCHANGED <<run, kind, doc, found, intent, ws, world>>

ReadPointerBack(p) ==
    /\ \/ /\ pointer = home[p]
          /\ Goto(p, "readback", "merge")
          /\ UNCHANGED <<doc, found, ws>>
       \/ /\ pointer # home[p] /\ pc[p] = "readback"
          /\ Refused(p)
    /\ UNCHANGED <<run, kind, shared, world>>

ReadForMerge(p) == ReadSession(p, "merge", "commit")

\* _merge_final_session_state: the flags, the intent and the phase are set,
\* everything else is what the file had.
Merged(s) == [s EXCEPT !.phase = "1.2", !.committed = TRUE, !.intent = TRUE]

Commit(p) ==
    /\ Goto(p, "commit", "release")
    /\ Put(p, [Files(p) EXCEPT !.session = Merged(doc[p])])
    /\ doc' = [doc EXCEPT ![p] = Nothing]
    /\ UNCHANGED <<run, kind, found, shared, world>>

Release(p) ==
    /\ pc[p] = "release"
    /\ Put(p, [Files(p) EXCEPT !.lock = "free"])
    /\ \/ /\ kind[p] = "launch"
          /\ Goto(p, "release", "hook-pointer")
          /\ UNCHANGED <<doc, found>>
       \/ /\ kind[p] = "persist"
          /\ Ended(p)
    /\ UNCHANGED <<run, kind, shared, world>>

-----------------------------------------------------------------------------
(* The persistence hook and the continuation, without the lock. *)

Checked(p, from, to, holds) ==
    /\ pc[p] = from
    /\ \/ holds /\ Goto(p, from, to) /\ UNCHANGED <<doc, found>>
       \/ ~holds /\ Ended(p)
    /\ UNCHANGED <<run, kind, shared, ws, world>>

\* _verify_pointer_exists and _verify_workspace_session_exists.
VerifyPointer(p) == Checked(p, "hook-pointer", "hook-session", pointer = home[p])
VerifySession(p) == Checked(p, "hook-session", "resume", Files(p).session.committed)

ReadForRoute(p) == ReadSession(p, "resume", "route")

\* The hops of the walk and the write of its result; ok is the exit status.
Route(p, ok) ==
    /\ pc[p] = "route"
    /\ \E w \in {Walked(doc[p], Files(p).artifacts)} :
          w.ok = ok /\ Put(p, [Files(p) EXCEPT !.session = Closed(w.s)])
    /\ Ended(p)
    /\ UNCHANGED <<run, kind, shared, world>>

-----------------------------------------------------------------------------
(* What happens to a launcher and around it. *)

\* A process is stopped, or a file-system call of the bootstrap raises: no
\* finally clause releases the lock.
Interrupt(p) ==
    /\ pc[p] # "idle"
    /\ Event
    /\ Ended(p)
    /\ UNCHANGED <<run, kind, shared, ws, source>>

ChangeRules(r) ==
    /\ Event
    /\ \E rules \in Rules \cup {Nothing} :
          rules # source[r] /\ source' = [source EXCEPT ![r] = rules]
    /\ UNCHANGED <<run, pc, kind, doc, found, shared, ws>>

\* The steps of a run that has been started.
Proceed(p) ==
    \/ Acquire(p) \/ TimeOut(p)
    \/ TakeIntent(p) \/ RefuseIntent(p) \/ WritePolicy(p) \/ WriteInitial(p) \/ WriteIdentity(p)
    \/ UpsertRules(p) \/ WriteArtifact(p) \/ ReadForUpdate(p) \/ UpdateSession(p)
    \/ VerifyArtifacts(p) \/ WritePointer(p) \/ ReadPointerBack(p)
    \/ ReadForMerge(p) \/ Commit(p) \/ Release(p)
    \/ VerifyPointer(p) \/ VerifySession(p) \/ ReadForRoute(p) \/ \E ok \in BOOLEAN : Route(p, ok)

Next ==
    \/ \E p \in Launchers : \/ Launch(p) \/ Persist(p) \/ Proceed(p)
                            \/ BackfillFails(p) \/ Interrupt(p)
    \/ \E r \in Repos : Age(r) \/ ChangeRules(r)

\* A process that runs takes its steps; a TTL runs out.
Fairness ==
    /\ \A p \in Launchers : WF_vars(Proceed(p))
    /\ \A r \in Repos : WF_vars(Age(r))

Spec == Init /\ [][Next]_vars /\ Fairness

-----------------------------------------------------------------------------
(* Properties. *)

Committed(r) == ws[r].session # Nothing /\ ws[r].session.committed

\* A committed session is backed by what its flags say: whatever is interrupted
\* or overwritten, and however launchers interleave, the intent, the policy,
\* the identity map and all four artifacts are there.
CommitIsBacked ==
    \A r \in Repos : Committed(r) =>
        /\ intent = "valid"
        /\ ws[r].policy /\ ws[r].identity
        /\ ws[r].artifacts = Artifacts

\* The global pointer only ever names a workspace that can be entered: one
\* with a session, an identity map and the artifacts, whichever of several
\* repositories was bootstrapped last and wherever it stopped.
PointerIsUsable ==
    pointer # Nothing =>
        /\ ws[pointer].session # Nothing
        /\ ws[pointer].identity
        /\ ws[pointer].artifacts = Artifacts

\* No session gets to Phase 4 but a committed one with its rulebooks loaded, a
\* complete discovery and an API inventory, although the continuation may read
\* a session another launcher has just created anew, and may write one back
\* after the lock has gone to somebody else.
IntakeIsEarned ==
    \A r \in Repos : LET s == ws[r].session IN
        s # Nothing =>
            /\ s.phase = "4" => /\ s.committed /\ s.rulebooks
                                /\ s.discovery = "complete" /\ s.api # "absent"
            /\ s.ready => s.committed

\* The launcher exits with success: the last hop was not a refusal.
Succeeds(p) == Route(p, TRUE)

\* A launcher that exits with success has left a session at the ticket gate:
\* the eight hops of the continuation are enough for every session it can read.
OkReachesIntake ==
    [][\A p \in Launchers :
          Succeeds(p) =>
              Files(p)'.session.phase = "4" /\ Files(p)'.session.ready]_vars

\* No launcher but p runs, and the activation intent lets p through.
Alone(p) ==
    /\ \A q \in Launchers \ {p} : pc[q] = "idle"
    /\ intent = "valid" \/ (intent = "absent" /\ p \notin unattended)

Relaunched(p) == []<>(pc[p] # "idle" /\ kind[p] = "launch")

\* Whatever was left behind (a lock, a torn workspace, a pointer to another
\* repository, a session overwritten by a late write), a launcher that is run
\* again and again by itself gets its repository to the ticket gate; and the
\* inventory of business rules, kept and never refreshed in place, comes to
\* agree with the rules the repository holds.
LoneLaunchSucceeds ==
    \A p \in Launchers :
        <>[]Alone(p) /\ Relaunched(p) =>
            /\ []<><<Succeeds(p) /\ pointer = home[p]>>_vars
            /\ <>[](Files(p).inventory = source[home[p]])
=============================================================================
