------------------------------ MODULE WorkRuns ------------------------------
(***************************************************************************)
(* The life of the work runs of one workspace on disk:                      *)
(*                                                                         *)
(*   entrypoints/new_work_session.py        archive, purge, start afresh     *)
(*   infrastructure/work_run_archive.py     the archive, file by file        *)
(*   entrypoints/work_session_restore.py    put an archived run back          *)
(*   entrypoints/human_approval_persist.py  the approval a regulated run needs *)
(*                                                                         *)
(* A step is one file written or removed, and the process may stop after     *)
(* each.  The rails that edit the session are a load and a store, since they  *)
(* take no lock.  The workspace lock itself is module WorkspaceLock: here it  *)
(* is held by at most one command, and given back by a stop (its TTL passes).  *)
(***************************************************************************)
EXTENDS RunArchive, AccessControl, Sequences

CONSTANTS
    MaxRuns,          \* bound on the runs that are begun
    MaxDay,           \* bound on the days that pass: an archive is filed by day
    MaxEvents,        \* bound on rails given, processes stopped, writes that raise, midnights
    Hosts,            \* what the host says of the runs: records of pr, regulated
    ApprovalRequests  \* what humans ask: records of decision, initiator, approver

ASSUME WorkRunsAssumption ==
    /\ {MaxRuns, MaxDay} \subseteq Nat \ {0} /\ MaxEvents \in Nat
    /\ Hosts \subseteq [pr : BOOLEAN, regulated : BOOLEAN]
    /\ ApprovalRequests \subseteq [decision : {"approve", "reject", "reset"},
                                   initiator : Roles, approver : Roles]

VARIABLES
    session,          \* SESSION_STATE.json
    planFile,         \* plan-record.json, as the run it was written for
    current,          \* current_run.json
    archives,         \* the directories below runs/, by run and day
    op,               \* the command that holds the workspace lock
    restoring,        \* the archive a restore has read, before it takes the lock
    rail,             \* the document a rail has loaded
    guard,            \* .new_work_guard.json, as the run it names
    day, begun, events,
    torn,             \* history: the files on disk may be of two runs
    dropped           \* history: the runs a restore or a bootstrap wrote over

vars == <<session, planFile, current, archives, op, restoring, rail, guard, day, begun,
          events, torn, dropped>>

Runs == 1..MaxRuns
Slots == Runs \X (1..MaxDay)

\* What the archive and the restore tell apart in a session.  edited is the
\* opposite of a fresh Phase-4 run.
Document == [run : Runs, edited : BOOLEAN, planSeen : BOOLEAN, pr : BOOLEAN,
             regulated : BOOLEAN, approval : Approval]

Idle == [kind |-> "idle"]

\* What the files of an archive hold, and a directory of them.
Statuses == {"in_progress", "materialized", "finalized", "failed"}
RecordStatuses == {"draft", "finalized", "invalidated"}
Integrities == {"pending", "passed", "failed"}

Manifests == [run : Runs, at : 1..MaxDay, type : {"pr", "plan", "analysis"}, moded : BOOLEAN,
              status : Statuses, record : RecordStatuses, integrity : Integrities,
              finalizedAt : BOOLEAN, errors : BOOLEAN,
              planRequired : BOOLEAN, prRequired : BOOLEAN]

Metas == [run : Runs, at : 1..MaxDay, status : Statuses,
          reason : {"none", "finalization", "failure"}, digest : Document \cup {Absent},
          listed : SUBSET ArchiveFiles]

SumsOf(contents) == UNION {[names -> contents] : names \in SUBSET ArchiveFiles}

Contents == Document \cup Runs \cup Manifests \cup Metas \cup ArchiveFiles \cup {Absent}

Finalizations == [status : Statuses, recordStatus : RecordStatuses, integrity : Integrities,
                  moded : BOOLEAN, reason : {"finalization"}, manifest : Manifests,
                  sums : SumsOf(Contents)]

Directory == [files : SUBSET ArchiveFiles, session : Document \cup {Absent},
              plan : Runs \cup {Absent}, manifest : Manifests \cup {Absent},
              meta : Metas \cup {Absent}, origin : [run : Runs, at : 1..MaxDay] \cup {Absent},
              record : Finalizations \cup {Absent},
              sums : SumsOf(Contents \cup Finalizations) \cup {Absent},
              approval : [required : BOOLEAN, status : ApprovalStatuses] \cup {Absent}]

\* A file that is not there is told from any that is.
ASSUME AbsentAssumption == Absent \notin Document \cup Manifests \cup Directory

\* The writes of an archive.  Files that no reader can tell apart by their
\* absence are one step: a directory without a manifest is only found to be
\* there, and one without checksums is refused.
ArchiveWrites == <<"mkdir", "records", "run-manifest", "checksums", "finalize",
                   "finalize-metadata", "finalization-record", "finalize-checksums">>

\* Mutant: the plan is left where it is.
PurgedButPlan == {"session", "current"}

\* RUNTIME_PURGE_SAFE_FILES.
Purged == {"session", "plan", "current"}

\* What a command that holds the lock is at.
Operations ==
    {Idle, [kind |-> "guard"]}
    \cup [kind : {"new-work"}, slot : Slots, doc : Document, at : 1 .. (Len(ArchiveWrites) + 1)]
    \cup [kind : {"purge"}, slot : Slots, doc : Document, left : SUBSET Purged]
    \cup [kind : {"restore"}, slot : Slots, doc : Document, plan : Runs \cup {Absent}, at : 1..3]

TypeOK ==
    /\ session \in Document \cup {Absent} /\ rail \in Document \cup {Absent}
    /\ {planFile, current, guard} \subseteq Runs \cup {Absent}
    /\ archives \in [Slots -> Directory \cup {Absent}]
    /\ op \in Operations
    /\ restoring \in [slot : Slots, doc : Document, plan : Runs \cup {Absent}] \cup {Absent}
    /\ day \in 1..MaxDay /\ begun \in Runs /\ events \in 0..MaxEvents
    /\ torn \in BOOLEAN /\ dropped \subseteq Runs

Init ==
    /\ \E h \in Hosts :
          session = [run |-> 1, edited |-> FALSE, planSeen |-> FALSE, pr |-> h.pr,
                     regulated |-> h.regulated, approval |-> NoApproval]
    /\ planFile = Absent /\ current = Absent
    /\ archives = [s \in Slots |-> Absent]
    /\ op = Idle /\ restoring = Absent /\ rail = Absent /\ guard = Absent
    /\ day = 1 /\ begun = 1 /\ events = 0
    /\ torn = FALSE /\ dropped = {}

-----------------------------------------------------------------------------
(* The rails: /ticket, /plan and the human approval, each a load, a change    *)
(* and a store.                                                              *)

\* Bound: one process at a time beside the one that holds the lock.
NobodyElse == rail = Absent /\ restoring = Absent

Counters == <<day, begun, events>>

RailLoad ==
    /\ NobodyElse /\ session # Absent /\ events < MaxEvents
    /\ rail' = session
    /\ events' = events + 1
    /\ UNCHANGED <<session, planFile, current, archives, op, restoring, guard, torn, dropped, day,
                   begun>>

\* A document put back where another run, or a command in between, was at work.
Overlaps == op # Idle \/ session = Absent \/ (session # Absent /\ session.run # rail.run)

RailStore(document, plan) ==
    /\ rail # Absent
    /\ session' = document
    /\ planFile' = plan
    /\ rail' = Absent
    /\ torn' = (torn \/ Overlaps)
    /\ UNCHANGED <<current, archives, op, restoring, guard, dropped, Counters>>

StoreTicket == rail # Absent /\ RailStore([rail EXCEPT !.edited = TRUE], planFile)

StorePlan ==
    /\ rail # Absent
    /\ RailStore([rail EXCEPT !.edited = TRUE, !.planSeen = TRUE], rail.run)

\* /plan stopped between its two files.
PlanInterrupted ==
    /\ rail # Absent /\ events < MaxEvents
    /\ planFile' = rail.run
    /\ rail' = Absent
    /\ torn' = (torn \/ Overlaps)
    /\ events' = events + 1
    /\ UNCHANGED <<session, current, archives, op, restoring, guard, dropped, day, begun>>

StoreApproval ==
    \E q \in ApprovalRequests :
        /\ rail # Absent
        /\ ApprovalAccepted(q.decision, q.initiator, q.approver)
        /\ RailStore([rail EXCEPT !.approval = ApprovalOf(q.decision, q.initiator, q.approver)],
                     planFile)

-----------------------------------------------------------------------------
(* /new-work. *)

\* Mutant: the plan is copied only where the session remembers one.
WithRecordsByMemory(d, slot, doc, plan) ==
    LET kept == IF doc.planSeen THEN plan ELSE Absent
    IN [d EXCEPT
        !.files = {"SESSION_STATE", "ticket-record", "review-decision-record",
                   "outcome-record", "metadata"}
                     \cup (IF kept # Absent THEN {"plan-record"} ELSE {})
                     \cup (IF doc.pr THEN {"pr-record"} ELSE {}),
        !.session = doc,
        !.plan = kept,
        !.approval = IF doc.pr THEN [required |-> doc.regulated \/ doc.approval.status # "none",
                                     status |-> doc.approval.status]
                     ELSE Absent,
        !.meta = Metadata(slot[1], slot[2], doc, kept # Absent, doc.pr)]

\* The records: session, plan if there is one, pull request if it is one, ticket,
\* review decision, outcome, metadata.
WithRecords(d, slot, doc, plan) ==
    [d EXCEPT
        !.files = {"SESSION_STATE", "ticket-record", "review-decision-record",
                   "outcome-record", "metadata"}
                     \cup (IF plan # Absent THEN {"plan-record"} ELSE {})
                     \cup (IF doc.pr THEN {"pr-record"} ELSE {}),
        !.session = doc,
        !.plan = plan,
        !.approval = IF doc.pr THEN [required |-> doc.regulated \/ doc.approval.status # "none",
                                     status |-> doc.approval.status]
                     ELSE Absent,
        !.meta = Metadata(slot[1], slot[2], doc, plan # Absent, doc.pr)]

\* Manifest to materialised, provenance, evidence index, and the checksums of all.
WithChecksums(d, slot) ==
    LET full == [d EXCEPT !.files = @ \cup {"provenance-record", "evidence-index", "checksums"},
                          !.manifest = Materialized(@),
                          !.origin = [run |-> slot[1], at |-> slot[2]]]
    IN [full EXCEPT !.sums = Checksums(full, ChecksumInputs(full))]

\* The archive as written is verified and the guard of regulated mode asked.
Finalize(d, slot, doc) ==
    LET sound == /\ VerifyRunArchive(d, slot[1])
                 /\ FinalizationGuard(doc.regulated, ClassifyRunType(doc), doc.approval)
    IN [d EXCEPT !.manifest =
          FinalizedManifest(@, "plan-record" \in d.files, "pr-record" \in d.files, sound)]

WithFile(d, name) == [d EXCEPT !.files = @ \cup {name}]

WriteOne(d, name, slot, doc, plan) ==
    CASE name = "mkdir" -> EmptyArchive
      [] name = "records" -> WithRecords(d, slot, doc, plan)
      [] name = "run-manifest" ->
            [WithFile(d, name) EXCEPT !.manifest = RunManifest(slot[1], slot[2], ClassifyRunType(doc))]
      [] name = "checksums" -> WithChecksums(d, slot)
      [] name = "finalize" -> Finalize(d, slot, doc)
      [] name = "finalize-metadata" -> [d EXCEPT !.meta = FinalizedMetadata(@)]
      [] name = "finalization-record" -> [WithFile(d, name) EXCEPT !.record = FinalizationRecord(d)]
      [] name = "finalize-checksums" -> [d EXCEPT !.sums = Checksums(d, d.files \ {"checksums"})]

Failed(d) == d.manifest # Absent /\ d.manifest.status = "failed"

\* Mutant: a slot is emptied whatever is in it.
BeginNewWorkOver ==
    /\ op = Idle /\ session # Absent
    /\ LET slot == <<session.run, day>>
       IN /\ archives' = [archives EXCEPT ![slot] = Absent]
          /\ op' = [kind |-> "new-work", slot |-> slot, doc |-> session, at |-> 1]
    /\ UNCHANGED <<session, planFile, current, restoring, rail, guard, torn, dropped, Counters>>

\* The lock, the load, and the slot.  One that is taken is emptied only when
\* its manifest says failed.
BeginNewWork ==
    /\ op = Idle /\ session # Absent
    /\ LET slot == <<session.run, day>>
           deduped == guard = session.run /\ ~session.edited
       IN /\ \E recent \in BOOLEAN : ~(recent /\ deduped)
          /\ archives[slot] # Absent => Failed(archives[slot])
          /\ archives' = [archives EXCEPT ![slot] = Absent]
          /\ op' = [kind |-> "new-work", slot |-> slot, doc |-> session, at |-> 1]
    /\ UNCHANGED <<session, planFile, current, restoring, rail, guard, torn, dropped, Counters>>

\* What raises by itself: a finalisation that is refused, and the verification
\* at the end.
Archiving == op.kind = "new-work"
Written == Archiving /\ op.at > Len(ArchiveWrites)
Raises ==
    /\ Archiving /\ archives[op.slot] # Absent
    /\ Failed(archives[op.slot]) \/ (Written /\ ~VerifyRunArchive(archives[op.slot], op.slot[1]))

WriteArchive ==
    /\ Archiving /\ ~Written /\ ~Raises
    /\ archives' = [archives EXCEPT ![op.slot] =
                        WriteOne(@, ArchiveWrites[op.at], op.slot, op.doc, planFile)]
    /\ op' = [op EXCEPT !.at = @ + 1]
    /\ UNCHANGED <<session, planFile, current, restoring, rail, guard, torn, dropped, Counters>>

\* The except block: metadata and then the manifest say failed, and the error
\* goes up.  It is reached from any write, once there is a directory.
FailedMetadataIn(d, slot) ==
    [WithFile(d, "metadata") EXCEPT !.meta = FailMetadata(slot[1], slot[2])]
FailureIn(d, slot) ==
    [WithFile(FailedMetadataIn(d, slot), "run-manifest") EXCEPT !.manifest = FailManifest(slot[1], slot[2])]

InExcept ==
    /\ Archiving /\ archives[op.slot] # Absent
    /\ \/ Raises /\ UNCHANGED events
       \/ ~Written /\ events < MaxEvents /\ events' = events + 1

ArchiveFails ==
    /\ InExcept
    /\ archives' = [archives EXCEPT ![op.slot] = FailureIn(@, op.slot)]
    /\ op' = Idle
    /\ UNCHANGED <<session, planFile, current, restoring, rail, guard, day, begun, torn, dropped>>

\* Mutant: an archive that failed does not stop the purge.
BeginPurgeAnyway ==
    /\ Written \/ Raises
    /\ op' = [kind |-> "purge", slot |-> op.slot, doc |-> op.doc, left |-> {"session", "plan", "current"}]
    /\ UNCHANGED <<session, planFile, current, archives, restoring, rail, guard, torn, dropped, Counters>>

\* The archive is verified once more, and then the files it holds are purged,
\* in the order the directory lists them.
BeginPurge ==
    /\ Written /\ ~Raises
    /\ op' = [kind |-> "purge", slot |-> op.slot, doc |-> op.doc, left |-> Purged]
    /\ UNCHANGED <<session, planFile, current, archives, restoring, rail, guard, torn, dropped, Counters>>

Purge ==
    /\ op.kind = "purge"
    /\ \E file \in op.left :
          /\ session' = IF file = "session" THEN Absent ELSE session
          /\ planFile' = IF file = "plan" THEN Absent ELSE planFile
          /\ current' = IF file = "current" THEN Absent ELSE current
          /\ op' = [op EXCEPT !.left = @ \ {file}]
    /\ UNCHANGED <<archives, restoring, rail, guard, torn, dropped, Counters>>

\* _reset_for_new_work on the document that was loaded: what it does not name
\* stays, the remembered plan and the approval included.
Fresh(doc, run) == [doc EXCEPT !.run = run, !.edited = FALSE]

BeginRun ==
    /\ op.kind = "purge" /\ op.left = {} /\ begun < MaxRuns
    /\ session' = Fresh(op.doc, begun + 1)
    /\ begun' = begun + 1
    /\ op' = [kind |-> "guard"]
    /\ UNCHANGED <<planFile, current, archives, restoring, rail, guard, day, events, torn, dropped>>

RecordGuard ==
    /\ op.kind = "guard"
    /\ guard' = begun
    /\ op' = Idle
    /\ UNCHANGED <<session, planFile, current, archives, restoring, rail, torn, dropped, Counters>>

-----------------------------------------------------------------------------
(* The restore of an archived run. *)

\* The archive is found by its run, verified and read, all before the lock.
ReadArchive ==
    /\ NobodyElse
    /\ \E slot \in Slots :
          /\ archives[slot] # Absent
          /\ VerifyRunArchive(archives[slot], slot[1])
          /\ restoring' = [slot |-> slot, doc |-> archives[slot].session, plan |-> archives[slot].plan]
    /\ UNCHANGED <<session, planFile, current, archives, op, rail, guard, torn, dropped, Counters>>

ActiveRun == IF current # Absent THEN current ELSE session.run

\* The lock, and the test for the run being active already.
BeginRestore ==
    /\ restoring # Absent /\ op = Idle
    /\ IF session = Absent \/ (session # Absent /\ ActiveRun = restoring.slot[1])
       THEN op' = op
       ELSE op' = [kind |-> "restore", slot |-> restoring.slot, doc |-> restoring.doc,
                   plan |-> restoring.plan, at |-> 1]
    /\ restoring' = Absent
    /\ UNCHANGED <<session, planFile, current, archives, rail, guard, torn, dropped, Counters>>

\* Session, plan and pointer are written one after the other.
Restore ==
    /\ op.kind = "restore"
    /\ CASE op.at = 1 -> session' = op.doc /\ UNCHANGED <<planFile, current>>
         [] op.at = 2 -> planFile' = op.plan /\ UNCHANGED <<session, current>>
         [] op.at = 3 -> current' = op.slot[1] /\ UNCHANGED <<session, planFile>>
    /\ op' = IF op.at = 3 THEN Idle ELSE [op EXCEPT !.at = @ + 1]
    /\ dropped' = IF op.at = 1 /\ session # Absent THEN dropped \cup {session.run} ELSE dropped
    /\ UNCHANGED <<archives, restoring, rail, guard, torn, Counters>>

\* bootstrap_session_state under the lock: an initial session over whatever is
\* there.  It has no run id, and is archived under one of its own.
Bootstrap ==
    /\ op = Idle /\ begun < MaxRuns
    /\ session' = [run |-> begun + 1, edited |-> TRUE, planSeen |-> FALSE, pr |-> FALSE,
                   regulated |-> FALSE, approval |-> NoApproval]
    /\ begun' = begun + 1
    /\ torn' = (torn \/ planFile # Absent)
    /\ dropped' = IF session # Absent THEN dropped \cup {session.run} ELSE dropped
    /\ UNCHANGED <<planFile, current, archives, op, restoring, rail, guard, day, events>>

-----------------------------------------------------------------------------

\* The process that holds the lock is stopped, at any point; in the except
\* block between the two files.
Crash ==
    /\ op # Idle /\ events < MaxEvents
    /\ events' = events + 1
    /\ op' = Idle
    /\ torn' = (torn \/ (op.kind = "restore" /\ op.at = 2))
    /\ \/ UNCHANGED archives
       \/ /\ Raises
          /\ archives' = [archives EXCEPT ![op.slot] = FailedMetadataIn(@, op.slot)]
    /\ UNCHANGED <<session, planFile, current, restoring, rail, guard, day, begun, dropped>>

Midnight ==
    /\ day < MaxDay /\ op = Idle /\ events < MaxEvents
    /\ day' = day + 1
    /\ events' = events + 1
    /\ UNCHANGED <<session, planFile, current, archives, op, restoring, rail, guard, begun, torn, dropped>>

Next ==
    \/ RailLoad \/ StoreTicket \/ StorePlan \/ PlanInterrupted \/ StoreApproval
    \/ BeginNewWork \/ WriteArchive \/ ArchiveFails \/ BeginPurge \/ Purge \/ BeginRun \/ RecordGuard
    \/ ReadArchive \/ BeginRestore \/ Restore \/ Bootstrap
    \/ Crash \/ Midnight

Spec == Init /\ [][Next]_vars

-----------------------------------------------------------------------------

SealedIn(slot) == archives[slot] # Absent /\ Sealed(archives[slot], slot[1])

\* Whatever stops or fails on the way: a run that was begun is the one in
\* progress, or sealed in the archive, or was written over by a restore or a
\* bootstrap (new_work_session.py:297-345: archive, purge, fresh session).
NoRunLost ==
    torn \/ \A r \in 1..begun :
        \/ session # Absent /\ session.run = r
        \/ \E d \in 1..MaxDay : SealedIn(<<r, d>>)
        \/ r \in dropped

\* What /new-work purges is in a sealed archive at that moment, the session and
\* the plan with the content they have on disk (run_audit_artifacts.py:628).
PurgedIsArchived ==
    [][op.kind = "purge" /\ ~torn =>
         /\ session # Absent /\ session' = Absent =>
               SealedIn(op.slot) /\ archives[op.slot].session = session
         /\ planFile # Absent /\ planFile' = Absent =>
               SealedIn(op.slot) /\ archives[op.slot].plan = planFile]_vars

\* The plan in a sealed archive was made in the run it archives: the copy, the
\* purge and the restore never mix two runs (work_run_archive.py:268-281).
ArchivesAreWhole ==
    torn \/ \A slot \in Slots : SealedIn(slot) =>
        /\ archives[slot].session.run = slot[1]
        /\ archives[slot].plan \in {Absent, slot[1]}

\* Three texts say what a finished archive is: verify_run_archive, the audit
\* contract and the test for an export.  What the first seals, the others take.
SealedMeetsContract ==
    \A slot \in Slots : SealedIn(slot) =>
        ContractHolds(archives[slot], slot[1]) /\ Exportable(archives[slot])

\* A pull request is sealed, in regulated mode, only with the approval of
\* somebody who may approve and is not the one who asked
\* (work_run_archive.py:77-120); the approval is read from the session, and may
\* have been given, changed or kept from before on the way.
SealedIsApproved ==
    \A slot \in Slots :
        LET d == archives[slot]
        IN SealedIn(slot) /\ d.session.pr /\ d.session.regulated =>
              /\ d.session.approval.status = "approved"
              /\ d.session.approval.approver \in {"approver"}
              /\ d.session.approval.initiator # d.session.approval.approver
              /\ "finalize_run" \in Permissions(d.session.approval.initiator)

Ledger == INSTANCE SealedLedger WITH
    ledger <- [slot \in Slots |-> IF SealedIn(slot) THEN archives[slot] ELSE Absent]

\* The archive as a ledger: an entry is made once, for a run it is of, and never
\* changed or taken out (fs_atomic, the write-once writer, "already exists").
LedgerImplemented == Ledger!Spec
=============================================================================
