--------------------------- MODULE WorkRunsProofs ---------------------------
(***************************************************************************)
(* Proofs about WorkRuns: the archive is sound whatever stops or fails on    *)
(* the way, and no run that was begun is lost.                               *)
(***************************************************************************)
EXTENDS WorkRuns, TLAPS

-----------------------------------------------------------------------------
(* The invariant. *)

\* An approval that was given says who asked for it.
Vouched(doc) == doc.approval.status = "approved" => doc.approval.initiator \in Roles

Vouching ==
    /\ session # Absent => Vouched(session)
    /\ rail # Absent => Vouched(rail)
    /\ op.kind \in {"new-work", "purge", "restore"} => Vouched(op.doc)
    /\ restoring # Absent => Vouched(restoring.doc)
    /\ \A slot \in Slots :
          archives[slot] # Absent /\ archives[slot].session # Absent =>
              Vouched(archives[slot].session)

\* A directory is of its run, and a finalised one passed the guard of regulated mode.
ArchiveSound(d, slot) ==
    /\ d.session # Absent => d.session.run = slot[1]
    /\ d.manifest # Absent /\ d.manifest.status = "finalized" =>
          /\ d.manifest.record = "finalized"
          /\ d.session # Absent
          /\ FinalizationGuard(d.session.regulated, ClassifyRunType(d.session),
                               d.session.approval)

\* What the directory holds before the at-th of the writes.
Progress(d, doc, at) ==
    /\ at = 1 <=> d = Absent
    /\ at = 2 => d = EmptyArchive
    /\ at >= 3 => d.session = doc /\ d.meta \in Metas
    /\ at = 3 => d.manifest = Absent
    /\ at >= 4 => d.manifest \in Manifests
    /\ at = 4 => d.manifest.status = "in_progress"
    /\ at = 5 => d.manifest.status = "materialized"
    /\ at >= 6 => d.manifest.status \in {"finalized", "failed"}
    /\ at >= 7 => d.manifest.status = "finalized"
    /\ at \in 2..7 => "finalization-record" \notin d.files
    /\ at \in 5..8 => "finalization-record" \notin DOMAIN d.sums
    /\ at = 8 => "finalization-record" \in d.files

OpSound ==
    /\ op.kind \in {"new-work", "purge", "restore"} => op.doc.run = op.slot[1]
    /\ op.kind = "new-work" => Progress(archives[op.slot], op.doc, op.at)
    /\ op.kind = "purge" => SealedIn(op.slot) /\ archives[op.slot].session = op.doc
    /\ restoring # Absent => restoring.doc.run = restoring.slot[1]

ArchivesSound ==
    \A slot \in Slots : archives[slot] # Absent => ArchiveSound(archives[slot], slot)

ArchiveInv == TypeOK /\ Vouching /\ OpSound /\ ArchivesSound

\* Where no two commands crossed, every plan is of the run it lies with.
PlanOf(doc) == planFile \in {Absent, doc.run}

PlansKept ==
    /\ \A slot \in Slots :
          archives[slot] # Absent => archives[slot].plan \in {Absent, slot[1]}
    /\ restoring # Absent => restoring.plan \in {Absent, restoring.slot[1]}
    /\ op.kind = "restore" => op.plan \in {Absent, op.slot[1]}

\* What is on disk while a command is at work.
Whole ==
    /\ op.kind \in {"idle", "guard"} /\ session # Absent => PlanOf(session)
    /\ op.kind = "new-work" =>
          /\ session = op.doc /\ PlanOf(session)
          /\ op.at >= 3 => archives[op.slot].plan = planFile
    /\ op.kind = "purge" =>
          /\ session \in {Absent, op.doc}
          /\ "session" \notin op.left => session = Absent
          /\ planFile \in {Absent, archives[op.slot].plan}
          /\ "plan" \notin op.left => planFile = Absent
    /\ op.kind = "restore" =>
          /\ session # Absent
          /\ op.at = 1 => PlanOf(session)
          /\ op.at >= 2 => session = op.doc
          /\ op.at = 3 => planFile = op.plan

Accounted ==
    \A r \in 1..begun :
        \/ session # Absent /\ session.run = r
        \/ \E d \in 1..MaxDay : SealedIn(<<r, d>>)
        \/ r \in dropped

Untorn == torn \/ (PlansKept /\ Whole /\ Accounted)

-----------------------------------------------------------------------------
(* What the writes of an archive make of the directory. *)

LEMMA Names ==
    /\ Len(ArchiveWrites) = 8
    /\ ArchiveWrites[1] = "mkdir" /\ ArchiveWrites[2] = "records"
    /\ ArchiveWrites[3] = "run-manifest" /\ ArchiveWrites[4] = "checksums"
    /\ ArchiveWrites[5] = "finalize" /\ ArchiveWrites[6] = "finalize-metadata"
    /\ ArchiveWrites[7] = "finalization-record" /\ ArchiveWrites[8] = "finalize-checksums"
BY DEF ArchiveWrites

LEMMA NotAbsent ==
    /\ \A doc \in Document : doc # Absent
    /\ \A m \in Manifests : m # Absent
    /\ \A d \in Directory : d # Absent
BY AbsentAssumption

\* The checksums of any files of a directory are checksums.
LEMMA ChecksumsTyped ==
    ASSUME NEW d \in Directory, NEW names \in SUBSET ArchiveFiles
    PROVE  /\ Checksums(d, names) \in SumsOf(Contents \cup Finalizations)
           /\ "finalization-record" \notin names => Checksums(d, names) \in SumsOf(Contents)
           /\ DOMAIN Checksums(d, names) = names
<1>1. \A n \in names : /\ Content(d, n) \in Contents \cup Finalizations
                       /\ n # "finalization-record" => Content(d, n) \in Contents
  BY DEF Content, Contents, Directory
<1> DEFINE sums == [n \in names |-> Content(d, n)]
<1>2. Checksums(d, names) = sums BY DEF Checksums
<1>3. sums \in [names -> Contents \cup Finalizations] BY <1>1
<1>4. ASSUME "finalization-record" \notin names PROVE sums \in [names -> Contents]
  <2>1. \A n \in names : Content(d, n) \in Contents BY <1>1, <1>4
  <2> QED BY <2>1
<1>5. [names -> Contents] \subseteq SumsOf(Contents) BY DEF SumsOf
<1>6. [names -> Contents \cup Finalizations] \subseteq SumsOf(Contents \cup Finalizations)
  BY DEF SumsOf
<1> QED BY <1>2, <1>3, <1>4, <1>5, <1>6

\* A directory before and after the at-th write.
Advances(d, e, slot, doc, plan, at) ==
    /\ e \in Directory
    /\ Progress(e, doc, at + 1)
    /\ ArchiveSound(e, slot)
    /\ at = 1 => e.plan = Absent
    /\ at = 2 => e.plan = plan
    /\ at > 2 => e.plan = d.plan

LEMMA EmptyArchiveTyped == EmptyArchive \in Directory
BY DEF EmptyArchive, Directory

LEMMA MkdirAdvances ==
    ASSUME NEW slot \in Slots, NEW doc \in Document, NEW plan \in Runs \cup {Absent}
    PROVE  Advances(Absent, EmptyArchive, slot, doc, plan, 1)
<1>1. EmptyArchive # Absent BY EmptyArchiveTyped, NotAbsent
<1>2. EmptyArchive.files = {} /\ EmptyArchive.session = Absent /\ EmptyArchive.manifest = Absent
      /\ EmptyArchive.plan = Absent
  BY DEF EmptyArchive
<1>3. Progress(EmptyArchive, doc, 2) BY <1>1, <1>2 DEF Progress
<1>4. ArchiveSound(EmptyArchive, slot) BY <1>2 DEF ArchiveSound
<1> QED BY <1>2, <1>3, <1>4, EmptyArchiveTyped DEF Advances

LEMMA MetadataTyped ==
    ASSUME NEW slot \in Slots, NEW doc \in Document, NEW p \in BOOLEAN, NEW q \in BOOLEAN
    PROVE  Metadata(slot[1], slot[2], doc, p, q) \in Metas
<1>1. slot[1] \in Runs /\ slot[2] \in 1..MaxDay BY DEF Slots
<1>2. (RequiredFiles \ {"metadata"}) \cup (IF p THEN {"plan-record"} ELSE {})
         \cup (IF q THEN {"pr-record"} ELSE {}) \in SUBSET ArchiveFiles
  BY DEF ArchiveFiles, OptionalFiles
<1> QED BY <1>1, <1>2 DEF Metadata, Metas, Statuses

LEMMA RecordsAdvance ==
    ASSUME NEW slot \in Slots, NEW doc \in Document, NEW plan \in Runs \cup {Absent},
           doc.run = slot[1]
    PROVE  Advances(EmptyArchive, WithRecords(EmptyArchive, slot, doc, plan), slot, doc, plan, 2)
<1> DEFINE files == {"SESSION_STATE", "ticket-record", "review-decision-record",
                     "outcome-record", "metadata"}
                       \cup (IF plan # Absent THEN {"plan-record"} ELSE {})
                       \cup (IF doc.pr THEN {"pr-record"} ELSE {})
           approval == IF doc.pr THEN [required |-> doc.regulated \/ doc.approval.status # "none",
                                       status |-> doc.approval.status]
                       ELSE Absent
           meta == Metadata(slot[1], slot[2], doc, plan # Absent, doc.pr)
           e == [files |-> files, session |-> doc, plan |-> plan, manifest |-> Absent,
                 meta |-> meta, origin |-> Absent, record |-> Absent, sums |-> Absent,
                 approval |-> approval]
<1>1. files \in SUBSET ArchiveFiles /\ "finalization-record" \notin files
  BY DEF ArchiveFiles, RequiredFiles, OptionalFiles
<1>2. approval \in [required : BOOLEAN, status : ApprovalStatuses] \cup {Absent}
  BY DEF Document, Approval
<1>3. meta \in Metas BY MetadataTyped DEF Document
<1>. DEFINE w == [EmptyArchive EXCEPT !.files = files, !.session = doc, !.plan = plan,
                                     !.approval = approval, !.meta = meta]
<1>0. WithRecords(EmptyArchive, slot, doc, plan) = w BY DEF WithRecords
<1> HIDE DEF files, approval, meta
<1>4. WithRecords(EmptyArchive, slot, doc, plan) = e BY <1>0 DEF EmptyArchive
<1> HIDE DEF w
<1>5. e \in Directory BY <1>1, <1>2, <1>3 DEF Directory
<1>6. /\ e.files = files /\ e.session = doc /\ e.meta = meta /\ e.manifest = Absent
      /\ e.plan = plan
  OBVIOUS
<1>7. e # Absent BY <1>5, NotAbsent
<1> HIDE DEF e
<1>8. Progress(e, doc, 3) BY <1>1, <1>3, <1>6, <1>7 DEF Progress
<1>9. ArchiveSound(e, slot) BY <1>6 DEF ArchiveSound
<1> QED BY <1>4, <1>5, <1>6, <1>8, <1>9 DEF Advances

LEMMA ManifestAdvances ==
    ASSUME NEW slot \in Slots, NEW doc \in Document, NEW plan, NEW d \in Directory,
           Progress(d, doc, 3), ArchiveSound(d, slot)
    PROVE  Advances(d, [WithFile(d, "run-manifest") EXCEPT
                           !.manifest = RunManifest(slot[1], slot[2], ClassifyRunType(doc))],
                    slot, doc, plan, 3)
<1> DEFINE m == RunManifest(slot[1], slot[2], ClassifyRunType(doc))
           files == d.files \cup {"run-manifest"}
           e == [[d EXCEPT !.files = files] EXCEPT !.manifest = m]
           w == [WithFile(d, "run-manifest") EXCEPT !.manifest = m]
<1>1. m \in Manifests /\ m.status = "in_progress"
  <2>1. slot[1] \in Runs /\ slot[2] \in 1..MaxDay BY DEF Slots
  <2>2. ClassifyRunType(doc) \in {"pr", "plan", "analysis"} BY DEF ClassifyRunType
  <2> QED BY <2>1, <2>2 DEF RunManifest, Manifests, Statuses, RecordStatuses, Integrities
<1>2. files \in SUBSET ArchiveFiles /\ "finalization-record" \notin files
  <2>1. "finalization-record" \notin d.files BY DEF Progress
  <2>2. d.files \subseteq ArchiveFiles BY DEF Directory
  <2> QED BY <2>1, <2>2 DEF ArchiveFiles, RequiredFiles
<1> HIDE DEF m, files
<1>3. e \in Directory BY <1>1, <1>2 DEF Directory
<1>4. /\ e.files = files /\ e.session = d.session /\ e.manifest = m /\ e.meta = d.meta
      /\ e.plan = d.plan
  BY DEF Directory
<1>5. w = e BY DEF WithFile, files
<1>6. e # Absent BY <1>3, NotAbsent
<1> HIDE DEF e, w
<1>7. Progress(e, doc, 4) BY <1>1, <1>2, <1>4, <1>6 DEF Progress
<1>8. ArchiveSound(e, slot) BY <1>1, <1>4 DEF ArchiveSound
<1>9. Advances(d, w, slot, doc, plan, 3) BY <1>3, <1>4, <1>5, <1>7, <1>8 DEF Advances
<1> QED BY <1>9 DEF w, m

LEMMA ChecksumsAdvance ==
    ASSUME NEW slot \in Slots, NEW doc \in Document, NEW plan, NEW d \in Directory,
           Progress(d, doc, 4), ArchiveSound(d, slot)
    PROVE  Advances(d, WithChecksums(d, slot), slot, doc, plan, 4)
<1> DEFINE files == d.files \cup {"provenance-record", "evidence-index", "checksums"}
           m == Materialized(d.manifest)
           origin == [run |-> slot[1], at |-> slot[2]]
           full == [d EXCEPT !.files = files, !.manifest = m, !.origin = origin]
           sums == Checksums(full, ChecksumInputs(full))
           e == [full EXCEPT !.sums = sums]
<1>1. m \in Manifests /\ m.status = "materialized"
  <2>1. d.manifest \in Manifests BY DEF Progress
  <2> QED BY <2>1 DEF Materialized, Manifests, Statuses, RecordStatuses, Integrities
<1>2. files \in SUBSET ArchiveFiles /\ "finalization-record" \notin files
  <2>1. "finalization-record" \notin d.files BY DEF Progress
  <2>2. d.files \subseteq ArchiveFiles BY DEF Directory
  <2> QED BY <2>1, <2>2 DEF ArchiveFiles, RequiredFiles
<1>3. origin \in [run : Runs, at : 1..MaxDay] BY DEF Slots
<1>4. WithChecksums(d, slot) = e BY DEF WithChecksums
<1> HIDE DEF m, files, origin
<1>5. full \in Directory BY <1>1, <1>2, <1>3 DEF Directory
<1>6. /\ full.files = files /\ full.session = d.session /\ full.manifest = m
      /\ full.meta = d.meta /\ full.plan = d.plan
  BY DEF Directory
<1> HIDE DEF full
<1>7. sums \in SumsOf(Contents \cup Finalizations) /\ DOMAIN sums = ChecksumInputs(full)
  BY <1>2, <1>5, <1>6, ChecksumsTyped DEF ChecksumInputs
<1>8. "finalization-record" \notin DOMAIN sums BY <1>7 DEF ChecksumInputs
<1> HIDE DEF sums
<1>9. e \in Directory BY <1>5, <1>7 DEF Directory
<1>10. /\ e.files = files /\ e.session = d.session /\ e.manifest = m /\ e.meta = d.meta
       /\ e.plan = d.plan /\ e.sums = sums
  BY <1>5, <1>6 DEF Directory
<1>11. e # Absent BY <1>9, NotAbsent
<1> HIDE DEF e
<1>12. Progress(e, doc, 5) BY <1>1, <1>2, <1>8, <1>10, <1>11 DEF Progress
<1>13. ArchiveSound(e, slot) BY <1>1, <1>10 DEF ArchiveSound
<1> QED BY <1>4, <1>9, <1>10, <1>12, <1>13 DEF Advances

LEMMA FinalizeAdvances ==
    ASSUME NEW slot \in Slots, NEW doc \in Document, NEW plan, NEW d \in Directory,
           Progress(d, doc, 5), ArchiveSound(d, slot)
    PROVE  Advances(d, Finalize(d, slot, doc), slot, doc, plan, 5)
<1> DEFINE guarded == FinalizationGuard(doc.regulated, ClassifyRunType(doc), doc.approval)
           sound == VerifyRunArchive(d, slot[1]) /\ guarded
           m == FinalizedManifest(d.manifest, "plan-record" \in d.files, "pr-record" \in d.files,
                                  sound)
           e == [d EXCEPT !.manifest = m]
<1>1. /\ m \in Manifests /\ m.status \in {"finalized", "failed"}
      /\ m.status = "finalized" => m.record = "finalized" /\ guarded
  <2>1. d.manifest \in Manifests BY DEF Progress
  <2> HIDE DEF guarded
  <2> QED BY <2>1 DEF FinalizedManifest, Manifests, Statuses, RecordStatuses, Integrities
<1>2. Finalize(d, slot, doc) = e BY DEF Finalize
<1> HIDE DEF m
<1>3. e \in Directory BY <1>1 DEF Directory
<1>4. /\ e.files = d.files /\ e.session = d.session /\ e.manifest = m /\ e.meta = d.meta
      /\ e.plan = d.plan /\ e.sums = d.sums
  BY DEF Directory
<1>5. e # Absent BY <1>3, NotAbsent
<1>6. d.session = doc BY DEF Progress
<1> HIDE DEF e
<1>7. Progress(e, doc, 6) BY <1>1, <1>4, <1>5 DEF Progress
<1>8. ArchiveSound(e, slot)
  BY <1>1, <1>4, <1>6, NotAbsent DEF ArchiveSound
<1> QED BY <1>2, <1>3, <1>4, <1>7, <1>8 DEF Advances

LEMMA MetadataAdvances ==
    ASSUME NEW slot \in Slots, NEW doc \in Document, NEW plan, NEW d \in Directory,
           Progress(d, doc, 6), ~Failed(d), ArchiveSound(d, slot)
    PROVE  Advances(d, [d EXCEPT !.meta = FinalizedMetadata(@)], slot, doc, plan, 6)
<1> DEFINE meta == FinalizedMetadata(d.meta)
           e == [d EXCEPT !.meta = meta]
<1>1. meta \in Metas
  <2>1. d.meta \in Metas BY DEF Progress
  <2> QED BY <2>1 DEF FinalizedMetadata, Metas, Statuses
<1>2. d.manifest.status = "finalized" BY NotAbsent DEF Progress, Failed
<1> HIDE DEF meta
<1>3. e \in Directory BY <1>1 DEF Directory
<1>4. /\ e.files = d.files /\ e.session = d.session /\ e.manifest = d.manifest /\ e.meta = meta
      /\ e.plan = d.plan /\ e.sums = d.sums
  BY DEF Directory
<1>5. e # Absent BY <1>3, NotAbsent
<1> HIDE DEF e
<1>7. Progress(e, doc, 7) BY <1>1, <1>2, <1>4, <1>5 DEF Progress
<1>8. ArchiveSound(e, slot) BY <1>4 DEF ArchiveSound
<1> QED BY <1>3, <1>4, <1>7, <1>8 DEF Advances, e, meta

LEMMA FinalizationAdvances ==
    ASSUME NEW slot \in Slots, NEW doc \in Document, NEW plan, NEW d \in Directory,
           Progress(d, doc, 7), ArchiveSound(d, slot)
    PROVE  Advances(d, [WithFile(d, "finalization-record") EXCEPT !.record = FinalizationRecord(d)],
                    slot, doc, plan, 7)
<1> DEFINE record == FinalizationRecord(d)
           files == d.files \cup {"finalization-record"}
           e == [[d EXCEPT !.files = files] EXCEPT !.record = record]
           w == [WithFile(d, "finalization-record") EXCEPT !.record = record]
<1>1. record \in Finalizations
  <2>1. d.manifest \in Manifests BY DEF Progress
  <2>2. ChecksumInputs(d) \in SUBSET ArchiveFiles /\ "finalization-record" \notin ChecksumInputs(d)
    BY DEF ChecksumInputs, Directory
  <2>3. Checksums(d, ChecksumInputs(d)) \in SumsOf(Contents) BY <2>2, ChecksumsTyped
  <2> QED BY <2>1, <2>3 DEF FinalizationRecord, Finalizations, Manifests
<1>2. files \in SUBSET ArchiveFiles
  BY DEF Directory, ArchiveFiles, OptionalFiles
<1> HIDE DEF record, files
<1>3. e \in Directory BY <1>1, <1>2 DEF Directory
<1>4. /\ e.files = files /\ e.session = d.session /\ e.manifest = d.manifest /\ e.meta = d.meta
      /\ e.plan = d.plan /\ e.sums = d.sums
  BY DEF Directory
<1>5. e # Absent BY <1>3, NotAbsent
<1>6. w = e BY DEF WithFile, files
<1> HIDE DEF e, w
<1>7. Progress(e, doc, 8) BY <1>4, <1>5 DEF Progress, files
<1>8. ArchiveSound(e, slot) BY <1>4 DEF ArchiveSound
<1>9. Advances(d, w, slot, doc, plan, 7) BY <1>3, <1>4, <1>6, <1>7, <1>8 DEF Advances
<1> QED BY <1>9 DEF w, record

LEMMA LastChecksumsAdvance ==
    ASSUME NEW slot \in Slots, NEW doc \in Document, NEW plan, NEW d \in Directory,
           Progress(d, doc, 8), ArchiveSound(d, slot)
    PROVE  Advances(d, [d EXCEPT !.sums = Checksums(d, d.files \ {"checksums"})],
                    slot, doc, plan, 8)
<1> DEFINE sums == Checksums(d, d.files \ {"checksums"})
           e == [d EXCEPT !.sums = sums]
<1>1. sums \in SumsOf(Contents \cup Finalizations)
  <2>1. d.files \ {"checksums"} \in SUBSET ArchiveFiles BY DEF Directory
  <2> QED BY <2>1, ChecksumsTyped
<1> HIDE DEF sums
<1>3. e \in Directory BY <1>1 DEF Directory
<1>4. /\ e.files = d.files /\ e.session = d.session /\ e.manifest = d.manifest /\ e.meta = d.meta
      /\ e.plan = d.plan
  BY DEF Directory
<1>5. e # Absent BY <1>3, NotAbsent
<1> HIDE DEF e
<1>7. Progress(e, doc, 9) BY <1>4, <1>5 DEF Progress
<1>8. ArchiveSound(e, slot) BY <1>4 DEF ArchiveSound
<1> QED BY <1>3, <1>4, <1>7, <1>8 DEF Advances, e, sums

\* Each write makes of a sound directory a sound one, one write further.
LEMMA WriteAdvances ==
    ASSUME NEW slot \in Slots, NEW doc \in Document, NEW plan \in Runs \cup {Absent},
           NEW at \in 1..8, NEW d \in Directory \cup {Absent},
           doc.run = slot[1], Progress(d, doc, at),
           d # Absent => ArchiveSound(d, slot) /\ ~Failed(d)
    PROVE  Advances(d, WriteOne(d, ArchiveWrites[at], slot, doc, plan), slot, doc, plan, at)
<1>1. CASE at = 1
  <2>1. d = Absent BY <1>1 DEF Progress
  <2>2. WriteOne(d, ArchiveWrites[at], slot, doc, plan) = EmptyArchive
    BY <1>1, Names DEF WriteOne
  <2> QED BY <1>1, <2>1, <2>2, MkdirAdvances
<1>2. CASE at = 2
  <2>1. d = EmptyArchive BY <1>2 DEF Progress
  <2>2. WriteOne(d, ArchiveWrites[at], slot, doc, plan) = WithRecords(d, slot, doc, plan)
    BY <1>2, Names DEF WriteOne
  <2> QED BY <1>2, <2>1, <2>2, RecordsAdvance
<1> SUFFICES ASSUME at \in 3..8
             PROVE  Advances(d, WriteOne(d, ArchiveWrites[at], slot, doc, plan), slot, doc, plan, at)
  BY <1>1, <1>2
<1>0. d \in Directory /\ ArchiveSound(d, slot) /\ ~Failed(d) BY DEF Progress
<1>3. CASE at = 3
  <2>1. WriteOne(d, "run-manifest", slot, doc, plan) =
           [WithFile(d, "run-manifest") EXCEPT
               !.manifest = RunManifest(slot[1], slot[2], ClassifyRunType(doc))]
    BY DEF WriteOne
  <2>2. Advances(d, WriteOne(d, "run-manifest", slot, doc, plan), slot, doc, plan, 3)
    BY <1>0, <1>3, <2>1, ManifestAdvances
  <2> QED BY <1>3, <2>2, Names
<1>4. CASE at = 4
  <2>1. WriteOne(d, "checksums", slot, doc, plan) = WithChecksums(d, slot) BY DEF WriteOne
  <2>2. Advances(d, WriteOne(d, "checksums", slot, doc, plan), slot, doc, plan, 4)
    BY <1>0, <1>4, <2>1, ChecksumsAdvance
  <2> QED BY <1>4, <2>2, Names
<1>5. CASE at = 5
  <2>1. WriteOne(d, "finalize", slot, doc, plan) = Finalize(d, slot, doc) BY DEF WriteOne
  <2>2. Advances(d, WriteOne(d, "finalize", slot, doc, plan), slot, doc, plan, 5)
    BY <1>0, <1>5, <2>1, FinalizeAdvances
  <2> QED BY <1>5, <2>2, Names
<1>6. CASE at = 6
  <2>1. WriteOne(d, "finalize-metadata", slot, doc, plan) = [d EXCEPT !.meta = FinalizedMetadata(@)]
    BY DEF WriteOne
  <2>2. Advances(d, WriteOne(d, "finalize-metadata", slot, doc, plan), slot, doc, plan, 6)
    BY <1>0, <1>6, <2>1, MetadataAdvances
  <2> QED BY <1>6, <2>2, Names
<1>7. CASE at = 7
  <2>1. WriteOne(d, "finalization-record", slot, doc, plan) =
           [WithFile(d, "finalization-record") EXCEPT !.record = FinalizationRecord(d)]
    BY DEF WriteOne
  <2>2. Advances(d, WriteOne(d, "finalization-record", slot, doc, plan), slot, doc, plan, 7)
    BY <1>0, <1>7, <2>1, FinalizationAdvances
  <2> QED BY <1>7, <2>2, Names
<1>8. CASE at = 8
  <2>1. WriteOne(d, "finalize-checksums", slot, doc, plan) =
           [d EXCEPT !.sums = Checksums(d, d.files \ {"checksums"})]
    BY DEF WriteOne
  <2>2. Advances(d, WriteOne(d, "finalize-checksums", slot, doc, plan), slot, doc, plan, 8)
    BY <1>0, <1>8, <2>1, LastChecksumsAdvance
  <2> QED BY <1>8, <2>2, Names
<1> QED BY <1>3, <1>4, <1>5, <1>6, <1>7, <1>8

\* verify_run_archive refuses a directory that is still being written.
LEMMA UnfinishedIsUnsealed ==
    ASSUME NEW doc, NEW at \in 1..8, NEW d \in Directory, NEW run, Progress(d, doc, at)
    PROVE  ~Sealed(d, run)
<1> SUFFICES ASSUME Sealed(d, run) PROVE FALSE OBVIOUS
<1>1. d # Absent /\ d.manifest # Absent /\ d.manifest.status = "finalized"
  BY NotAbsent DEF Sealed
<1>2. EmptyArchive.manifest = Absent BY DEF EmptyArchive
<1>3. at \in 6..8 BY <1>1, <1>2 DEF Progress
<1>4. "finalization-record" \in d.files
  BY <1>1 DEF Sealed, VerifyRunArchive, LifecycleHolds
<1>5. "finalization-record" \in DOMAIN d.sums
  BY <1>4 DEF Sealed, VerifyRunArchive, EverythingChecksummed, ArchiveFiles, OptionalFiles
<1> QED BY <1>3, <1>4, <1>5 DEF Progress

\* What the except block writes.
LEMMA FailMetadataKeeps ==
    ASSUME NEW slot \in Slots, NEW d \in Directory, ArchiveSound(d, slot)
    PROVE  /\ FailedMetadataIn(d, slot) \in Directory
           /\ ArchiveSound(FailedMetadataIn(d, slot), slot)
           /\ FailedMetadataIn(d, slot).session = d.session
           /\ FailedMetadataIn(d, slot).plan = d.plan
<1> DEFINE meta == FailMetadata(slot[1], slot[2])
           files == d.files \cup {"metadata"}
           e == [[d EXCEPT !.files = files] EXCEPT !.meta = meta]
<1>1. meta \in Metas
  BY DEF FailMetadata, Metas, Statuses, Slots
<1>2. files \in SUBSET ArchiveFiles BY DEF Directory, ArchiveFiles, RequiredFiles
<1>3. FailedMetadataIn(d, slot) = e BY DEF FailedMetadataIn, WithFile
<1> HIDE DEF meta, files
<1>4. e \in Directory BY <1>1, <1>2 DEF Directory
<1>5. e.session = d.session /\ e.manifest = d.manifest /\ e.plan = d.plan BY DEF Directory
<1> HIDE DEF e
<1>6. ArchiveSound(e, slot) BY <1>5 DEF ArchiveSound
<1> QED BY <1>3, <1>4, <1>5, <1>6

LEMMA FailureKeeps ==
    ASSUME NEW slot \in Slots, NEW d \in Directory, ArchiveSound(d, slot)
    PROVE  /\ FailureIn(d, slot) \in Directory
           /\ ArchiveSound(FailureIn(d, slot), slot)
           /\ FailureIn(d, slot).session = d.session
           /\ FailureIn(d, slot).plan = d.plan
<1> DEFINE c == FailedMetadataIn(d, slot)
           m == FailManifest(slot[1], slot[2])
           files == c.files \cup {"run-manifest"}
           e == [[c EXCEPT !.files = files] EXCEPT !.manifest = m]
<1>0. c \in Directory /\ ArchiveSound(c, slot) /\ c.session = d.session /\ c.plan = d.plan
  BY FailMetadataKeeps
<1>3. FailureIn(d, slot) = e BY DEF FailureIn, WithFile
<1> HIDE DEF c
<1>1. m \in Manifests /\ m.status = "failed"
  <2>1. slot[1] \in Runs /\ slot[2] \in 1..MaxDay BY DEF Slots
  <2> DEFINE r == RunManifest(slot[1], slot[2], "analysis")
  <2>2. r \in Manifests
    BY <2>1 DEF RunManifest, Manifests, Statuses, RecordStatuses, Integrities
  <2>3. m = [r EXCEPT !.moded = FALSE, !.status = "failed", !.record = "invalidated",
                      !.integrity = "failed", !.errors = TRUE]
    BY DEF FailManifest
  <2> HIDE DEF r, m
  <2> QED BY <2>2, <2>3 DEF Manifests, Statuses, RecordStatuses, Integrities
<1>2. files \in SUBSET ArchiveFiles BY <1>0 DEF Directory, ArchiveFiles, RequiredFiles
<1> HIDE DEF m, files
<1>4. e \in Directory BY <1>0, <1>1, <1>2 DEF Directory
<1>5. e.session = c.session /\ e.manifest = m /\ e.plan = c.plan BY <1>0 DEF Directory
<1> HIDE DEF e
<1>6. ArchiveSound(e, slot) BY <1>0, <1>1, <1>5 DEF ArchiveSound
<1> QED BY <1>0, <1>3, <1>4, <1>5, <1>6

-----------------------------------------------------------------------------
(* The archive over a step. *)

\* The operation that holds the lock, by its kind.
LEMMA OpTyped ==
    ASSUME TypeOK
    PROVE  /\ op.kind \in {"idle", "guard", "new-work", "purge", "restore"}
           /\ op.kind = "idle" <=> op = Idle
           /\ op.kind \in {"new-work", "purge", "restore"} =>
                 op.slot \in Slots /\ op.doc \in Document
           /\ op.kind = "new-work" =>
                 op \in [kind : {"new-work"}, slot : Slots, doc : Document, at : 1..9]
           /\ op.kind = "purge" =>
                 op \in [kind : {"purge"}, slot : Slots, doc : Document, left : SUBSET Purged]
           /\ op.kind = "restore" =>
                 op \in [kind : {"restore"}, slot : Slots, doc : Document,
                         plan : Runs \cup {Absent}, at : 1..3]
BY Names DEF TypeOK, Operations, Idle

LEMMA StateTyped ==
    ASSUME TypeOK
    PROVE  /\ planFile \in Runs \cup {Absent}
           /\ archives \in [Slots -> Directory \cup {Absent}]
           /\ \A slot \in Slots : archives[slot] # Absent => archives[slot] \in Directory
           /\ session # Absent => session \in Document
           /\ rail # Absent => rail \in Document
           /\ day \in 1..MaxDay /\ begun \in Runs
BY DEF TypeOK

\* A step leaves the archives alone, or changes one that is not sealed and
\* keeps it sound.
ChangesUnsealed ==
    \E slot \in Slots, e \in Directory \cup {Absent} :
        /\ ~SealedIn(slot)
        /\ archives' = [archives EXCEPT ![slot] = e]
        /\ e # Absent =>
              /\ ArchiveSound(e, slot)
              /\ e.session # Absent => Vouched(e.session)

LEMMA BeginChanges ==
    ASSUME TypeOK, BeginNewWork
    PROVE  ChangesUnsealed
<1> DEFINE slot == <<session.run, day>>
<1>1. slot \in Slots BY StateTyped DEF BeginNewWork, Slots, Document
<1>2. archives' = [archives EXCEPT ![slot] = Absent] BY DEF BeginNewWork
<1>3. ~SealedIn(slot)
  BY DEF BeginNewWork, SealedIn, Failed, Sealed
<1> QED BY <1>1, <1>2, <1>3 DEF ChangesUnsealed

LEMMA WriteStep ==
    ASSUME ArchiveInv, WriteArchive
    PROVE  /\ op.at \in 1..8 /\ op.kind = "new-work" /\ op.slot \in Slots
           /\ ~SealedIn(op.slot)
           /\ archives'[op.slot] \in Directory
           /\ archives' = [archives EXCEPT ![op.slot] = archives'[op.slot]]
           /\ Advances(archives[op.slot], archives'[op.slot], op.slot, op.doc, planFile, op.at)
<1> DEFINE d == archives[op.slot]
           e == WriteOne(d, ArchiveWrites[op.at], op.slot, op.doc, planFile)
<1>1. op.kind = "new-work" BY DEF WriteArchive, Archiving
<1>2. op.slot \in Slots /\ op.doc \in Document /\ op.at \in 1..9
  BY <1>1, OpTyped DEF ArchiveInv
<1>3. op.at \in 1..8 BY <1>2, Names DEF WriteArchive, Written
<1>4. Progress(d, op.doc, op.at) /\ op.doc.run = op.slot[1]
  BY <1>1 DEF ArchiveInv, OpSound
<1>5. d \in Directory \cup {Absent} /\ planFile \in Runs \cup {Absent}
  BY <1>2, StateTyped DEF ArchiveInv
<1>6. d # Absent => ArchiveSound(d, op.slot) /\ ~Failed(d)
  BY <1>2 DEF ArchiveInv, ArchivesSound, WriteArchive, Raises
<1>7. Advances(d, e, op.slot, op.doc, planFile, op.at)
  <2> HIDE DEF d
  <2> QED BY <1>2, <1>3, <1>4, <1>5, <1>6, WriteAdvances
<1>8. archives' = [archives EXCEPT ![op.slot] = e] BY DEF WriteArchive
<1>9. archives'[op.slot] = e BY <1>2, <1>8, StateTyped DEF ArchiveInv
<1>10. ~SealedIn(op.slot)
  BY <1>3, <1>4, <1>5, UnfinishedIsUnsealed DEF SealedIn
<1> HIDE DEF d, e
<1> QED BY <1>1, <1>2, <1>3, <1>7, <1>8, <1>9, <1>10 DEF Advances, d

LEMMA WriteChanges ==
    ASSUME ArchiveInv, WriteArchive
    PROVE  ChangesUnsealed
<1> DEFINE e == archives'[op.slot]
<1>1. /\ op.at \in 1..8 /\ op.kind = "new-work" /\ op.slot \in Slots
      /\ ~SealedIn(op.slot) /\ e \in Directory
      /\ archives' = [archives EXCEPT ![op.slot] = e]
      /\ ArchiveSound(e, op.slot) /\ Progress(e, op.doc, op.at + 1)
  BY WriteStep DEF Advances
<1>2. Vouched(op.doc) BY <1>1 DEF ArchiveInv, Vouching
<1>3. e.session # Absent => Vouched(e.session)
  <2>1. CASE op.at = 1
    <3>1. e = EmptyArchive BY <1>1, <2>1 DEF Progress
    <3> QED BY <3>1 DEF EmptyArchive
  <2>2. CASE op.at \in 2..8
    <3>1. e.session = op.doc BY <1>1, <2>2 DEF Progress
    <3> QED BY <3>1, <1>2
  <2> QED BY <1>1, <2>1, <2>2
<1> HIDE DEF e
<1> QED BY <1>1, <1>3 DEF ChangesUnsealed

\* The except block is not reached from an archive that is sealed.
LEMMA ExceptIsUnsealed ==
    ASSUME ArchiveInv, op.kind = "new-work", archives[op.slot] # Absent,
           Raises \/ ~Written
    PROVE  /\ op.slot \in Slots /\ archives[op.slot] \in Directory
           /\ ~SealedIn(op.slot)
           /\ ArchiveSound(archives[op.slot], op.slot)
           /\ archives[op.slot].session # Absent => Vouched(archives[op.slot].session)
<1>1. op.slot \in Slots /\ op.at \in 1..9 BY OpTyped DEF ArchiveInv
<1>2. archives[op.slot] \in Directory BY <1>1, StateTyped DEF ArchiveInv
<1>3. ASSUME Raises PROVE ~SealedIn(op.slot)
  BY <1>3 DEF Raises, SealedIn, Sealed, Failed
<1>4. ASSUME ~Written PROVE ~SealedIn(op.slot)
  <2>1. op.at \in 1..8 BY <1>1, <1>4, Names DEF Written, Archiving
  <2>2. Progress(archives[op.slot], op.doc, op.at) BY DEF ArchiveInv, OpSound
  <2> QED BY <1>2, <2>1, <2>2, UnfinishedIsUnsealed DEF SealedIn
<1>5. ArchiveSound(archives[op.slot], op.slot) BY <1>1 DEF ArchiveInv, ArchivesSound
<1>6. archives[op.slot].session # Absent => Vouched(archives[op.slot].session)
  BY <1>1 DEF ArchiveInv, Vouching
<1> QED BY <1>1, <1>2, <1>3, <1>4, <1>5, <1>6

LEMMA FailsChanges ==
    ASSUME ArchiveInv, ArchiveFails
    PROVE  ChangesUnsealed
<1> DEFINE d == archives[op.slot]
           e == FailureIn(d, op.slot)
<1>1. op.kind = "new-work" /\ d # Absent /\ (Raises \/ ~Written)
  BY DEF ArchiveFails, InExcept, Archiving
<1>2. archives' = [archives EXCEPT ![op.slot] = e] BY DEF ArchiveFails
<1>3. /\ op.slot \in Slots /\ d \in Directory /\ ~SealedIn(op.slot)
      /\ ArchiveSound(d, op.slot)
      /\ d.session # Absent => Vouched(d.session)
  BY <1>1, ExceptIsUnsealed
<1>4. e \in Directory /\ ArchiveSound(e, op.slot) /\ e.session = d.session
  BY <1>3, FailureKeeps
<1> HIDE DEF d, e
<1> QED BY <1>2, <1>3, <1>4 DEF ChangesUnsealed

LEMMA CrashChanges ==
    ASSUME ArchiveInv, Crash
    PROVE  UNCHANGED archives \/ ChangesUnsealed
<1> DEFINE d == archives[op.slot]
           e == FailedMetadataIn(d, op.slot)
<1> SUFFICES ASSUME Raises, archives' = [archives EXCEPT ![op.slot] = e]
             PROVE  ChangesUnsealed
  BY DEF Crash
<1>1. op.kind = "new-work" /\ d # Absent BY DEF Raises, Archiving
<1>3. /\ op.slot \in Slots /\ d \in Directory /\ ~SealedIn(op.slot)
      /\ ArchiveSound(d, op.slot)
      /\ d.session # Absent => Vouched(d.session)
  BY <1>1, ExceptIsUnsealed
<1>4. e \in Directory /\ ArchiveSound(e, op.slot) /\ e.session = d.session
  BY <1>3, FailMetadataKeeps
<1> HIDE DEF d, e
<1> QED BY <1>3, <1>4 DEF ChangesUnsealed

LEMMA ArchivesStep ==
    ASSUME ArchiveInv, [Next]_vars
    PROVE  UNCHANGED archives \/ ChangesUnsealed
<1>1. CASE BeginNewWork BY <1>1, BeginChanges DEF ArchiveInv
<1>2. CASE WriteArchive BY <1>2, WriteChanges
<1>3. CASE ArchiveFails BY <1>3, FailsChanges
<1>4. CASE Crash BY <1>4, CrashChanges
<1>5. CASE \/ RailLoad \/ StoreTicket \/ StorePlan \/ PlanInterrupted \/ StoreApproval
          \/ BeginPurge \/ Purge \/ BeginRun \/ RecordGuard
          \/ ReadArchive \/ BeginRestore \/ Restore \/ Bootstrap \/ Midnight \/ UNCHANGED vars
  BY <1>5 DEF RailLoad, StoreTicket, StorePlan, PlanInterrupted, StoreApproval, RailStore,
              BeginPurge, Purge, BeginRun, RecordGuard, ReadArchive, BeginRestore, Restore,
              Bootstrap, Midnight, vars
<1> QED BY <1>1, <1>2, <1>3, <1>4, <1>5 DEF Next

\* A sealed archive stays as it is.
LEMMA SealedStays ==
    ASSUME TypeOK, UNCHANGED archives \/ ChangesUnsealed
    PROVE  \A slot \in Slots :
              SealedIn(slot) => SealedIn(slot)' /\ archives'[slot] = archives[slot]
<1> SUFFICES ASSUME NEW slot \in Slots, SealedIn(slot)
             PROVE  SealedIn(slot)' /\ archives'[slot] = archives[slot]
  OBVIOUS
<1>1. archives'[slot] = archives[slot]
  BY StateTyped DEF ChangesUnsealed
<1> QED BY <1>1 DEF SealedIn

LEMMA ArchivesSoundStep ==
    ASSUME TypeOK, ArchivesSound, UNCHANGED archives \/ ChangesUnsealed
    PROVE  ArchivesSound'
<1> SUFFICES ASSUME NEW slot \in Slots, archives'[slot] # Absent
             PROVE  ArchiveSound(archives'[slot], slot)
  BY DEF ArchivesSound
<1>1. CASE UNCHANGED archives BY <1>1 DEF ArchivesSound
<1>2. CASE ChangesUnsealed
  <2>1. PICK s \in Slots, e \in Directory \cup {Absent} :
            /\ archives' = [archives EXCEPT ![s] = e]
            /\ e # Absent => ArchiveSound(e, s)
    BY <1>2 DEF ChangesUnsealed
  <2>2. archives'[slot] = IF slot = s THEN e ELSE archives[slot] BY <2>1, StateTyped
  <2> QED BY <2>1, <2>2 DEF ArchivesSound
<1> QED BY <1>1, <1>2

\* The archives that a step leaves are typed.
LEMMA ArchivesTyped ==
    ASSUME TypeOK, UNCHANGED archives \/ ChangesUnsealed
    PROVE  archives' \in [Slots -> Directory \cup {Absent}]
BY StateTyped DEF ChangesUnsealed

\* The session of an archive that is sealed was written.
LEMMA VerifiedHasSession ==
    ASSUME NEW d \in Directory, NEW run, VerifyRunArchive(d, run)
    PROVE  d.session \in Document /\ d.plan \in Runs \cup {Absent}
<1>1. d.session # Absent BY DEF VerifyRunArchive, SnapshotMatches
<1> QED BY <1>1 DEF Directory

\* What a human asked for, as the session keeps it.
LEMMA ApprovalTyped ==
    ASSUME NEW q \in ApprovalRequests
    PROVE  /\ ApprovalOf(q.decision, q.initiator, q.approver) \in Approval
           /\ ApprovalOf(q.decision, q.initiator, q.approver).initiator \in Roles
<1>1. q.initiator \in Roles /\ q.approver \in Roles BY WorkRunsAssumption
<1> QED BY <1>1 DEF ApprovalOf, Approval, ApprovalStatuses

\* The documents the rails store.
LEMMA RailTyped ==
    ASSUME rail \in Document
    PROVE  /\ [rail EXCEPT !.edited = TRUE] \in Document
           /\ [rail EXCEPT !.edited = TRUE, !.planSeen = TRUE] \in Document
           /\ \A a \in Approval : [rail EXCEPT !.approval = a] \in Document
           /\ \A a \in Approval : [rail EXCEPT !.approval = a].run = rail.run
           /\ \A a \in Approval : [rail EXCEPT !.approval = a].approval = a
           /\ [rail EXCEPT !.edited = TRUE].run = rail.run
           /\ [rail EXCEPT !.edited = TRUE].approval = rail.approval
           /\ [rail EXCEPT !.edited = TRUE, !.planSeen = TRUE].run = rail.run
           /\ [rail EXCEPT !.edited = TRUE, !.planSeen = TRUE].approval = rail.approval
           /\ rail.run \in Runs
BY DEF Document

LEMMA NextRun ==
    ASSUME TypeOK, begun < MaxRuns
    PROVE  begun + 1 \in Runs
BY WorkRunsAssumption DEF TypeOK, Runs

LEMMA FreshTyped ==
    ASSUME NEW doc \in Document, NEW run \in Runs
    PROVE  /\ Fresh(doc, run) \in Document
           /\ Fresh(doc, run).run = run /\ Fresh(doc, run).approval = doc.approval
BY DEF Fresh, Document

\* What bootstrap_session_state writes.
Initial(run) == [run |-> run, edited |-> TRUE, planSeen |-> FALSE, pr |-> FALSE,
                 regulated |-> FALSE, approval |-> NoApproval]

LEMMA InitialTyped ==
    ASSUME NEW run \in Runs
    PROVE  Initial(run) \in Document /\ Initial(run).run = run /\ Vouched(Initial(run))
BY DEF Initial, Document, NoApproval, Approval, ApprovalStatuses, Vouched

\* The three files a restore writes.
LEMMA RestoreWrites ==
    ASSUME TypeOK, Restore
    PROVE  /\ op.kind = "restore" /\ op.at \in 1..3
           /\ op.at = 1 => session' = op.doc /\ UNCHANGED <<planFile, current>>
           /\ op.at = 2 => planFile' = op.plan /\ UNCHANGED <<session, current>>
           /\ op.at = 3 => current' = op.slot[1] /\ UNCHANGED <<session, planFile>>
<1>1. op.kind = "restore" BY DEF Restore
<1>2. op.at \in 1..3 BY <1>1, OpTyped
<1>3. CASE op.at = 1 BY <1>1, <1>3 DEF Restore
<1>4. CASE op.at = 2 BY <1>1, <1>4 DEF Restore
<1>5. CASE op.at = 3 BY <1>1, <1>5 DEF Restore
<1> QED BY <1>2, <1>3, <1>4, <1>5

\* What the rails leave in the session, each store in one form.
Stores ==
    \E document \in Document, plan \in Runs \cup {Absent} :
        /\ document.run = rail.run
        /\ Vouched(rail) => Vouched(document)
        /\ plan \in {planFile, rail.run}
        /\ RailStore(document, plan)

LEMMA RailsStore ==
    ASSUME TypeOK, StoreTicket \/ StorePlan \/ StoreApproval
    PROVE  rail # Absent /\ rail \in Document /\ Stores
<1>1. rail # Absent BY DEF StoreTicket, StorePlan, StoreApproval
<1>2. rail \in Document BY <1>1, StateTyped
<1>3. CASE StoreTicket
  BY <1>2, <1>3, RailTyped, StateTyped DEF StoreTicket, Stores, Vouched
<1>4. CASE StorePlan
  BY <1>2, <1>4, RailTyped, StateTyped DEF StorePlan, Stores, Vouched
<1>5. CASE StoreApproval
  <2>1. PICK q \in ApprovalRequests :
            RailStore([rail EXCEPT !.approval = ApprovalOf(q.decision, q.initiator, q.approver)],
                      planFile)
    BY <1>5 DEF StoreApproval
  <2> DEFINE a == ApprovalOf(q.decision, q.initiator, q.approver)
  <2>2. a \in Approval /\ a.initiator \in Roles BY ApprovalTyped
  <2> HIDE DEF a
  <2>3. [rail EXCEPT !.approval = a] \in Document /\ [rail EXCEPT !.approval = a].run = rail.run
        /\ Vouched([rail EXCEPT !.approval = a])
    BY <1>2, <2>2, RailTyped DEF Vouched
  <2>4. RailStore([rail EXCEPT !.approval = a], planFile) BY <2>1 DEF a
  <2> QED BY <1>1, <1>2, <2>3, <2>4, StateTyped DEF Stores
<1> QED BY <1>1, <1>2, <1>3, <1>4, <1>5

-----------------------------------------------------------------------------
(* Types, and what the archives and the operations say of each other. *)

LEMMA TypeStep ==
    ASSUME ArchiveInv, [Next]_vars
    PROVE  TypeOK'
<1> USE DEF ArchiveInv
<1>0. archives' \in [Slots -> Directory \cup {Absent}] BY ArchivesStep, ArchivesTyped
<1> USE <1>0
<1>1. CASE RailLoad
  BY <1>1, WorkRunsAssumption DEF RailLoad, TypeOK
<1>2. CASE StoreTicket \/ StorePlan \/ StoreApproval
  BY <1>2, RailsStore DEF Stores, RailStore, TypeOK, Counters
<1>3. CASE PlanInterrupted
  BY <1>3, RailTyped, StateTyped, WorkRunsAssumption DEF PlanInterrupted, TypeOK, Overlaps
<1>4. CASE BeginNewWork
  <2>1. <<session.run, day>> \in Slots /\ session \in Document
    BY <1>4, StateTyped DEF BeginNewWork, Slots, Document
  <2>2. op' \in Operations BY <1>4, <2>1, Names DEF BeginNewWork, Operations
  <2> QED BY <1>4, <2>2 DEF BeginNewWork, TypeOK, Counters
<1>5. CASE WriteArchive
  <2>1. op.at \in 1..8
        /\ op \in [kind : {"new-work"}, slot : Slots, doc : Document, at : 1..9]
    BY <1>5, WriteStep, OpTyped
  <2>2. op' = [op EXCEPT !.at = @ + 1] BY <1>5 DEF WriteArchive
  <2>3. op' \in [kind : {"new-work"}, slot : Slots, doc : Document, at : 1..9] BY <2>1, <2>2
  <2>4. op' \in Operations BY <2>3, Names DEF Operations
  <2> QED BY <1>5, <2>4 DEF WriteArchive, TypeOK, Counters
<1>6. CASE ArchiveFails
  BY <1>6, WorkRunsAssumption DEF ArchiveFails, InExcept, TypeOK, Operations
<1>7. CASE BeginPurge
  <2>1. op.kind = "new-work"
    BY <1>7 DEF BeginPurge, Written, Archiving
  <2>2. op.slot \in Slots /\ op.doc \in Document BY <2>1, OpTyped
  <2>3. op' \in Operations BY <1>7, <2>2 DEF BeginPurge, Operations
  <2> QED BY <1>7, <2>3 DEF BeginPurge, TypeOK, Counters
<1>8. CASE Purge
  <2>1. op \in [kind : {"purge"}, slot : Slots, doc : Document, left : SUBSET Purged]
    BY <1>8, OpTyped DEF Purge
  <2>2. PICK file \in op.left :
            /\ session' = IF file = "session" THEN Absent ELSE session
            /\ planFile' = IF file = "plan" THEN Absent ELSE planFile
            /\ current' = IF file = "current" THEN Absent ELSE current
            /\ op' = [op EXCEPT !.left = @ \ {file}]
    BY <1>8 DEF Purge
  <2>3. op' \in [kind : {"purge"}, slot : Slots, doc : Document, left : SUBSET Purged]
    BY <2>1, <2>2
  <2>4. op' \in Operations BY <2>3 DEF Operations
  <2> QED BY <1>8, <2>2, <2>4 DEF Purge, TypeOK, Counters
<1>9. CASE BeginRun
  <2>1. op.doc \in Document BY <1>9, OpTyped DEF BeginRun
  <2>2. begun + 1 \in Runs BY <1>9, NextRun DEF BeginRun
  <2>3. session' \in Document BY <1>9, <2>1, <2>2, FreshTyped DEF BeginRun
  <2>4. op' \in Operations BY <1>9 DEF BeginRun, Operations
  <2> QED BY <1>9, <2>2, <2>3, <2>4 DEF BeginRun, TypeOK
<1>10. CASE RecordGuard
  BY <1>10 DEF RecordGuard, TypeOK, Operations, Counters
<1>11. CASE ReadArchive
  <2>1. PICK slot \in Slots :
            /\ archives[slot] # Absent
            /\ VerifyRunArchive(archives[slot], slot[1])
            /\ restoring' = [slot |-> slot, doc |-> archives[slot].session,
                             plan |-> archives[slot].plan]
    BY <1>11 DEF ReadArchive
  <2>2. archives[slot].session \in Document /\ archives[slot].plan \in Runs \cup {Absent}
    BY <2>1, StateTyped, VerifiedHasSession
  <2> QED BY <1>11, <2>1, <2>2 DEF ReadArchive, TypeOK, Counters
<1>12. CASE BeginRestore
  <2>1. restoring \in [slot : Slots, doc : Document, plan : Runs \cup {Absent}]
    BY <1>12 DEF BeginRestore, TypeOK
  <2>2. op' = op \/ op' = [kind |-> "restore", slot |-> restoring.slot, doc |-> restoring.doc,
                          plan |-> restoring.plan, at |-> 1]
    BY <1>12 DEF BeginRestore
  <2>3. op' \in Operations BY <2>1, <2>2 DEF Operations, TypeOK
  <2> QED BY <1>12, <2>3 DEF BeginRestore, TypeOK, Counters
<1>13. CASE Restore
  <2>1. op \in [kind : {"restore"}, slot : Slots, doc : Document, plan : Runs \cup {Absent},
                at : 1..3]
    BY <1>13, OpTyped DEF Restore
  <2>2. /\ session' \in Document \cup {Absent}
        /\ planFile' \in Runs \cup {Absent} /\ current' \in Runs \cup {Absent}
    <3>1. op.doc \in Document /\ op.plan \in Runs \cup {Absent} /\ op.slot[1] \in Runs
      BY <2>1 DEF Slots
    <3> QED BY <1>13, <3>1, RestoreWrites DEF TypeOK
  <2>3. op' \in Operations
    <3>1. CASE op.at = 3 BY <1>13, <3>1 DEF Restore, Operations
    <3>2. CASE op.at \in 1..2
      <4>1. op' = [op EXCEPT !.at = @ + 1] BY <1>13, <3>2 DEF Restore
      <4>2. op' \in [kind : {"restore"}, slot : Slots, doc : Document,
                     plan : Runs \cup {Absent}, at : 1..3]
        BY <2>1, <3>2, <4>1
      <4> QED BY <4>2 DEF Operations
    <3> QED BY <2>1, <3>1, <3>2
  <2>4. dropped' \subseteq Runs
    BY <1>13 DEF Restore, TypeOK, Document
  <2> QED BY <1>13, <2>2, <2>3, <2>4 DEF Restore, TypeOK, Counters
<1>14. CASE Bootstrap
  <2>1. begun + 1 \in Runs BY <1>14, NextRun DEF Bootstrap
  <2>2. session' = Initial(begun + 1) BY <1>14 DEF Bootstrap, Initial
  <2>3. dropped' \subseteq Runs BY <1>14 DEF Bootstrap, TypeOK, Document
  <2> QED BY <1>14, <2>1, <2>2, <2>3, InitialTyped DEF Bootstrap, TypeOK
<1>15. CASE Crash
  BY <1>15, WorkRunsAssumption DEF Crash, TypeOK, Operations
<1>16. CASE Midnight
  BY <1>16, WorkRunsAssumption DEF Midnight, TypeOK
<1>17. CASE UNCHANGED vars
  BY <1>17 DEF vars, TypeOK
<1> QED
  BY <1>1, <1>2, <1>3, <1>4, <1>5, <1>6, <1>7, <1>8, <1>9, <1>10, <1>11, <1>12, <1>13, <1>14,
     <1>15, <1>16, <1>17 DEF Next

LEMMA VouchingStep ==
    ASSUME ArchiveInv, [Next]_vars
    PROVE  Vouching'
<1> USE DEF ArchiveInv
<1>0. \A slot \in Slots :
         archives'[slot] # Absent /\ archives'[slot].session # Absent =>
             Vouched(archives'[slot].session)
  <2> SUFFICES ASSUME NEW slot \in Slots, archives'[slot] # Absent,
                      archives'[slot].session # Absent
               PROVE  Vouched(archives'[slot].session)
    OBVIOUS
  <2>1. CASE UNCHANGED archives BY <2>1 DEF Vouching
  <2>2. CASE ChangesUnsealed
    <3>1. PICK s \in Slots, e \in Directory \cup {Absent} :
              /\ archives' = [archives EXCEPT ![s] = e]
              /\ e # Absent => (e.session # Absent => Vouched(e.session))
      BY <2>2 DEF ChangesUnsealed
    <3>2. archives'[slot] = IF slot = s THEN e ELSE archives[slot] BY <3>1, StateTyped
    <3> QED BY <3>1, <3>2 DEF Vouching
  <2> QED BY <2>1, <2>2, ArchivesStep
<1> USE <1>0
<1>1. CASE RailLoad BY <1>1 DEF RailLoad, Vouching
<1>2. CASE StoreTicket \/ StorePlan \/ StoreApproval
  BY <1>2, RailsStore DEF Stores, RailStore, Vouching
<1>3. CASE PlanInterrupted BY <1>3 DEF PlanInterrupted, Vouching
<1>4. CASE BeginNewWork BY <1>4 DEF BeginNewWork, Vouching
<1>5. CASE WriteArchive
  <2>1. op.at \in 1..8
        /\ op \in [kind : {"new-work"}, slot : Slots, doc : Document, at : 1..9]
    BY <1>5, WriteStep, OpTyped
  <2>2. op'.kind = op.kind /\ op'.doc = op.doc BY <1>5, <2>1 DEF WriteArchive
  <2> QED BY <1>5, <2>1, <2>2 DEF WriteArchive, Vouching
<1>6. CASE ArchiveFails BY <1>6 DEF ArchiveFails, Vouching, Idle
<1>7. CASE BeginPurge BY <1>7 DEF BeginPurge, Written, Raises, Archiving, Vouching
<1>8. CASE Purge
  <2>1. op \in [kind : {"purge"}, slot : Slots, doc : Document, left : SUBSET Purged]
    BY <1>8, OpTyped DEF Purge
  <2>2. op'.kind = op.kind /\ op'.doc = op.doc BY <1>8, <2>1 DEF Purge
  <2> QED BY <1>8, <2>1, <2>2 DEF Purge, Vouching
<1>9. CASE BeginRun
  <2>1. op.doc \in Document /\ Vouched(op.doc) BY <1>9, OpTyped DEF BeginRun, Vouching
  <2>2. begun + 1 \in Runs BY <1>9, NextRun DEF BeginRun
  <2>3. session'.approval = op.doc.approval BY <1>9, <2>1, <2>2, FreshTyped DEF BeginRun
  <2> QED BY <1>9, <2>1, <2>3 DEF BeginRun, Vouching, Vouched
<1>10. CASE RecordGuard BY <1>10 DEF RecordGuard, Vouching, Idle
<1>11. CASE ReadArchive
  <2>1. PICK slot \in Slots :
            /\ archives[slot] # Absent
            /\ VerifyRunArchive(archives[slot], slot[1])
            /\ restoring'.doc = archives[slot].session
    BY <1>11 DEF ReadArchive
  <2>2. archives[slot].session # Absent
    BY <2>1, StateTyped, VerifiedHasSession, NotAbsent
  <2> QED BY <1>11, <2>1, <2>2 DEF ReadArchive, Vouching
<1>12. CASE BeginRestore BY <1>12 DEF BeginRestore, Vouching
<1>13. CASE Restore
  <2>1. op \in [kind : {"restore"}, slot : Slots, doc : Document, plan : Runs \cup {Absent},
                at : 1..3]
    BY <1>13, OpTyped DEF Restore
  <2>2. op' = Idle \/ (op'.kind = op.kind /\ op'.doc = op.doc) BY <1>13, <2>1 DEF Restore
  <2>3. session' = session \/ session' = op.doc BY <1>13, RestoreWrites
  <2> QED BY <1>13, <2>1, <2>2, <2>3 DEF Restore, Vouching, Idle
<1>14. CASE Bootstrap
  <2>1. begun + 1 \in Runs BY <1>14, NextRun DEF Bootstrap
  <2>2. session' = Initial(begun + 1) BY <1>14 DEF Bootstrap, Initial
  <2> QED BY <1>14, <2>1, <2>2, InitialTyped DEF Bootstrap, Vouching
<1>15. CASE Crash BY <1>15 DEF Crash, Vouching, Idle
<1>16. CASE Midnight BY <1>16 DEF Midnight, Vouching
<1>17. CASE UNCHANGED vars BY <1>17 DEF vars, Vouching
<1> QED
  BY <1>1, <1>2, <1>3, <1>4, <1>5, <1>6, <1>7, <1>8, <1>9, <1>10, <1>11, <1>12, <1>13, <1>14,
     <1>15, <1>16, <1>17 DEF Next

LEMMA OpSoundStep ==
    ASSUME ArchiveInv, [Next]_vars
    PROVE  OpSound'
<1> USE DEF ArchiveInv
<1>1. CASE \/ RailLoad \/ StoreTicket \/ StorePlan \/ PlanInterrupted \/ StoreApproval
          \/ Bootstrap \/ Midnight \/ UNCHANGED vars
  <2>1. UNCHANGED <<op, archives, restoring>>
    BY <1>1 DEF RailLoad, StoreTicket, StorePlan, PlanInterrupted, StoreApproval, RailStore,
                Bootstrap, Midnight, vars
  <2> QED BY <2>1 DEF OpSound, SealedIn
<1>4. CASE BeginNewWork
  <2> DEFINE slot == <<session.run, day>>
  <2>1. slot \in Slots BY <1>4, StateTyped DEF BeginNewWork, Slots, Document
  <2>2. op' = [kind |-> "new-work", slot |-> slot, doc |-> session, at |-> 1]
        /\ archives' = [archives EXCEPT ![slot] = Absent] /\ restoring' = restoring
    BY <1>4 DEF BeginNewWork
  <2>3. archives'[slot] = Absent BY <2>1, <2>2, StateTyped
  <2>4. Progress(Absent, session, 1) BY DEF Progress
  <2>5. Progress(archives'[op'.slot], op'.doc, op'.at) BY <2>2, <2>3, <2>4
  <2>6. op'.kind = "new-work" /\ op'.doc.run = op'.slot[1] BY <2>2
  <2> QED BY <2>2, <2>5, <2>6 DEF OpSound
<1>5. CASE WriteArchive
  <2>1. /\ op.at \in 1..8
        /\ op \in [kind : {"new-work"}, slot : Slots, doc : Document, at : 1..9]
        /\ Advances(archives[op.slot], archives'[op.slot], op.slot, op.doc, planFile, op.at)
    BY <1>5, WriteStep, OpTyped
  <2>2. op'.kind = op.kind /\ op'.doc = op.doc /\ op'.slot = op.slot /\ op'.at = op.at + 1
    BY <1>5, <2>1 DEF WriteArchive
  <2>3. Progress(archives'[op'.slot], op'.doc, op'.at) BY <2>1, <2>2 DEF Advances
  <2> QED BY <1>5, <2>1, <2>2, <2>3 DEF WriteArchive, OpSound
<1>6. CASE ArchiveFails BY <1>6 DEF ArchiveFails, OpSound, Idle
<1>7. CASE BeginPurge
  <2>1. op.kind = "new-work" /\ Written /\ ~Raises /\ UNCHANGED <<archives, restoring>>
    BY <1>7 DEF BeginPurge, Written, Archiving
  <2>2. /\ op \in [kind : {"new-work"}, slot : Slots, doc : Document, at : 1..9]
        /\ op.at = 9
    BY <2>1, OpTyped, Names DEF Written
  <2>3. Progress(archives[op.slot], op.doc, 9) BY <2>1, <2>2 DEF OpSound
  <2>4. archives[op.slot] # Absent /\ archives[op.slot].session = op.doc
        /\ archives[op.slot].manifest # Absent
        /\ archives[op.slot].manifest.status = "finalized"
    BY <2>3, NotAbsent DEF Progress
  <2>5. VerifyRunArchive(archives[op.slot], op.slot[1])
    BY <2>1, <2>4 DEF Raises, Written
  <2>6. SealedIn(op.slot) BY <2>4, <2>5 DEF SealedIn, Sealed
  <2>7. op'.kind = "purge" /\ op'.slot = op.slot /\ op'.doc = op.doc BY <1>7 DEF BeginPurge
  <2> QED BY <2>1, <2>4, <2>6, <2>7 DEF OpSound, SealedIn
<1>8. CASE Purge
  <2>1. op \in [kind : {"purge"}, slot : Slots, doc : Document, left : SUBSET Purged]
    BY <1>8, OpTyped DEF Purge
  <2>2. op'.kind = op.kind /\ op'.doc = op.doc /\ op'.slot = op.slot BY <1>8, <2>1 DEF Purge
  <2> QED BY <1>8, <2>1, <2>2 DEF Purge, OpSound, SealedIn
<1>9. CASE BeginRun BY <1>9 DEF BeginRun, OpSound
<1>10. CASE RecordGuard BY <1>10 DEF RecordGuard, OpSound, Idle
<1>11. CASE ReadArchive
  <2>1. PICK slot \in Slots :
            /\ archives[slot] # Absent
            /\ VerifyRunArchive(archives[slot], slot[1])
            /\ restoring' = [slot |-> slot, doc |-> archives[slot].session,
                             plan |-> archives[slot].plan]
    BY <1>11 DEF ReadArchive
  <2>2. archives[slot].session # Absent
    BY <2>1, StateTyped, VerifiedHasSession, NotAbsent
  <2>3. archives[slot].session.run = slot[1] BY <2>1, <2>2 DEF ArchivesSound, ArchiveSound
  <2> QED BY <1>11, <2>1, <2>3 DEF ReadArchive, OpSound, SealedIn
<1>12. CASE BeginRestore BY <1>12 DEF BeginRestore, OpSound, SealedIn, Idle
<1>13. CASE Restore
  <2>1. op \in [kind : {"restore"}, slot : Slots, doc : Document, plan : Runs \cup {Absent},
                at : 1..3]
    BY <1>13, OpTyped DEF Restore
  <2>2. \/ op' = Idle
        \/ op'.kind = op.kind /\ op'.doc = op.doc /\ op'.slot = op.slot
    BY <1>13, <2>1 DEF Restore
  <2> QED BY <1>13, <2>1, <2>2 DEF Restore, OpSound, Idle
<1>15. CASE Crash BY <1>15 DEF Crash, OpSound, Idle
<1> QED
  BY <1>1, <1>4, <1>5, <1>6, <1>7, <1>8, <1>9, <1>10, <1>11, <1>12, <1>13, <1>15 DEF Next

LEMMA FirstSession ==
    ASSUME Init
    PROVE  session \in Document /\ session.run = 1 /\ Vouched(session)
<1>1. PICK h \in Hosts :
         session = [run |-> 1, edited |-> FALSE, planSeen |-> FALSE, pr |-> h.pr,
                    regulated |-> h.regulated, approval |-> NoApproval]
  BY DEF Init
<1>2. h.pr \in BOOLEAN /\ h.regulated \in BOOLEAN BY WorkRunsAssumption
<1>3. 1 \in Runs BY WorkRunsAssumption DEF Runs
<1> QED
  BY <1>1, <1>2, <1>3 DEF Document, NoApproval, Approval, ApprovalStatuses, Vouched

LEMMA InitArchiveInv ==
    ASSUME Init
    PROVE  ArchiveInv
<1>3. 1 \in Runs /\ 1 \in 1..MaxDay BY WorkRunsAssumption DEF Runs
<1>4. session \in Document /\ Vouched(session) BY FirstSession
<1>5. TypeOK
  <2>1. archives \in [Slots -> Directory \cup {Absent}] BY DEF Init
  <2>2. op \in Operations BY DEF Init, Operations
  <2>3. events \in 0..MaxEvents BY WorkRunsAssumption DEF Init
  <2>4. restoring = Absent /\ rail = Absent /\ planFile = Absent /\ current = Absent
        /\ guard = Absent /\ day = 1 /\ begun = 1 /\ torn = FALSE /\ dropped = {}
    BY DEF Init
  <2> QED BY <1>3, <1>4, <2>1, <2>2, <2>3, <2>4 DEF TypeOK
<1>6. \A slot \in Slots : archives[slot] = Absent BY DEF Init
<1>7. op.kind = "idle" /\ restoring = Absent /\ rail = Absent BY DEF Init, Idle
<1> QED BY <1>4, <1>5, <1>6, <1>7 DEF ArchiveInv, Vouching, OpSound, ArchivesSound

\* Wherever a command stops or fails, and whatever the rails do beside it, types,
\* approvals, commands and archives are sound.
THEOREM ArchiveInvariant == Spec => []ArchiveInv
<1>1. Init => ArchiveInv BY InitArchiveInv
<1>2. ArchiveInv /\ [Next]_vars => ArchiveInv'
  BY TypeStep, VouchingStep, OpSoundStep, ArchivesSoundStep, ArchivesStep DEF ArchiveInv
<1> QED BY <1>1, <1>2, PTL DEF Spec

-----------------------------------------------------------------------------
(* What a sealed archive is. *)

\* Every variable has its type.
THEOREM TypeCorrect == Spec => []TypeOK
BY ArchiveInvariant, PTL DEF ArchiveInv

LEMMA SealedIs ==
    ASSUME ArchiveInv, NEW slot \in Slots, SealedIn(slot)
    PROVE  /\ archives[slot] \in Directory
           /\ archives[slot].session \in Document
           /\ VerifyRunArchive(archives[slot], slot[1])
           /\ archives[slot].manifest.status = "finalized"
           /\ archives[slot].manifest.record = "finalized"
           /\ archives[slot].session.run = slot[1]
           /\ FinalizationGuard(archives[slot].session.regulated,
                                ClassifyRunType(archives[slot].session),
                                archives[slot].session.approval)
           /\ Vouched(archives[slot].session)
<1>1. archives[slot] \in Directory BY StateTyped DEF ArchiveInv, SealedIn
<1>2. /\ VerifyRunArchive(archives[slot], slot[1])
      /\ archives[slot] # Absent /\ archives[slot].manifest # Absent
      /\ archives[slot].manifest.status = "finalized"
  BY DEF SealedIn, Sealed
<1>3. archives[slot].session \in Document BY <1>1, <1>2, VerifiedHasSession
<1>4. ArchiveSound(archives[slot], slot) BY <1>2 DEF ArchiveInv, ArchivesSound
<1>5. archives[slot].session # Absent BY <1>3, NotAbsent
<1>6. Vouched(archives[slot].session) BY <1>2, <1>5 DEF ArchiveInv, Vouching
<1> QED BY <1>1, <1>2, <1>3, <1>4, <1>5, <1>6 DEF ArchiveSound

LEMMA ContractFromVerification ==
    ASSUME NEW d \in Directory, NEW run, VerifyRunArchive(d, run),
           d.manifest.status = "finalized", d.manifest.record = "finalized"
    PROVE  ContractHolds(d, run) /\ Exportable(d)
<1>1. RequiredFiles \subseteq d.files BY DEF VerifyRunArchive, FilesPresent
<1>2. ContractLifecycle(d.manifest)
  BY DEF VerifyRunArchive, LifecycleHolds, ContractLifecycle
<1>3. IdentitiesAgree(d, run) BY DEF VerifyRunArchive
<1>4. ContractRunType(d)
  BY DEF VerifyRunArchive, RunTypeHolds, ListedFilesAgree, ContractRunType
<1>5. {"run-manifest", "metadata", "provenance-record"} \subseteq d.files
  BY <1>1 DEF RequiredFiles
<1> QED BY <1>1, <1>2, <1>3, <1>4, <1>5 DEF ContractHolds, Exportable, FilesPresent

\* What verify_run_archive seals, the audit contract and the export take, for
\* any number of runs, days, stops and failures.
THEOREM SealedHoldsContract == Spec => []SealedMeetsContract
<1>1. ArchiveInv => SealedMeetsContract
  BY SealedIs, ContractFromVerification DEF SealedMeetsContract
<1> QED BY <1>1, ArchiveInvariant, PTL

\* Only the approver may approve a human gate.
LEMMA ApproverAlone ==
    ASSUME NEW role \in Roles \cup {NoRole}, "approve_human_gate" \in Permissions(role)
    PROVE  role = "approver"
BY DEF Permissions, Reading, Roles, NoRole, Actions

LEMMA GuardAsks ==
    ASSUME NEW doc \in Document, doc.pr, doc.regulated, Vouched(doc),
           FinalizationGuard(doc.regulated, ClassifyRunType(doc), doc.approval)
    PROVE  /\ doc.approval.status = "approved"
           /\ doc.approval.approver = "approver"
           /\ doc.approval.initiator # doc.approval.approver
           /\ "finalize_run" \in Permissions(doc.approval.initiator)
<1>1. ClassifyRunType(doc) = "pr" BY DEF ClassifyRunType
<1>2. doc.approval \in Approval BY DEF Document
<1> DEFINE initiator == IF doc.approval.initiator = NoRole THEN "operator"
                        ELSE doc.approval.initiator
<1>3. /\ doc.approval.status = "approved"
      /\ Allowed(initiator, "finalize_run", TRUE, doc.approval.approver)
  BY <1>1 DEF FinalizationGuard
<1>4. initiator = doc.approval.initiator
  BY <1>3 DEF Vouched, Roles, NoRole
<1>5. /\ "finalize_run" \in Permissions(doc.approval.initiator)
      /\ doc.approval.approver # doc.approval.initiator
      /\ "approve_human_gate" \in Permissions(doc.approval.approver)
  BY <1>3, <1>4 DEF Allowed, Permitted, FourEyes, HumanApprovalRequired
<1>6. doc.approval.approver = "approver"
  BY <1>2, <1>5, ApproverAlone DEF Approval
<1> QED BY <1>3, <1>5, <1>6

\* A regulated pull request is sealed only with an approval by the approver, who
\* did not ask for it.
THEOREM SealedHasApproval == Spec => []SealedIsApproved
<1>1. ArchiveInv => SealedIsApproved
  BY SealedIs, GuardAsks DEF SealedIsApproved
<1> QED BY <1>1, ArchiveInvariant, PTL

-----------------------------------------------------------------------------
(* The archive is a ledger. *)

Entries == [slot \in Slots |-> IF SealedIn(slot) THEN archives[slot] ELSE Absent]

\* A step seals one slot that was not sealed, or leaves the ledger as it is.
LEMMA LedgerStep ==
    ASSUME ArchiveInv, [Next]_vars
    PROVE  Ledger!Next \/ UNCHANGED Entries
<1>1. CASE UNCHANGED archives BY <1>1 DEF Entries, SealedIn
<1>2. CASE ChangesUnsealed
  <2>1. PICK s \in Slots, e \in Directory \cup {Absent} :
            ~SealedIn(s) /\ archives' = [archives EXCEPT ![s] = e]
    BY <1>2 DEF ChangesUnsealed
  <2>2. \A slot \in Slots \ {s} : archives'[slot] = archives[slot]
    BY <2>1, StateTyped DEF ArchiveInv
  <2>3. \A slot \in Slots \ {s} : SealedIn(slot)' <=> SealedIn(slot)
    BY <2>2 DEF SealedIn
  <2>4. \A slot \in Slots \ {s} : Entries'[slot] = Entries[slot]
    BY <2>2, <2>3 DEF Entries
  <2>5. Entries[s] = Absent BY <2>1 DEF Entries
  <2>6. CASE SealedIn(s)'
    <3>1. Entries'[s] = archives'[s] /\ archives'[s] # Absent
      BY <2>6 DEF Entries, SealedIn
    <3>2. Entries' = [Entries EXCEPT ![s] = Entries'[s]]
      BY <2>4 DEF Entries
    <3> QED BY <2>5, <3>1, <3>2 DEF Ledger!Next, Ledger!Seal, Entries
  <2>7. CASE ~SealedIn(s)'
    <3>1. Entries'[s] = Entries[s] BY <2>5, <2>7 DEF Entries
    <3> QED BY <2>4, <3>1 DEF Entries
  <2> QED BY <2>6, <2>7
<1> QED BY <1>1, <1>2, ArchivesStep

\* The archives implement the ledger: an entry is made once and stays.
THEOREM ArchiveIsLedger == Spec => LedgerImplemented
<1>1. Init => Ledger!Init
  BY DEF Init, Ledger!Init, SealedIn
<1>2. ArchiveInv /\ [Next]_vars => [Ledger!Next]_Entries
  BY LedgerStep
<1> QED BY <1>1, <1>2, ArchiveInvariant, PTL
       DEF Spec, LedgerImplemented, Ledger!Spec, Entries

-----------------------------------------------------------------------------
(* No run is lost. *)

\* A store that leaves the files of one run is of the run in progress.
LEMMA StoreIsOfRun ==
    ASSUME TypeOK, StoreTicket \/ StorePlan \/ StoreApproval, ~torn'
    PROVE  /\ op = Idle /\ session # Absent /\ session' # Absent
           /\ session'.run = session.run
           /\ planFile' \in {planFile, session.run}
           /\ UNCHANGED <<archives, op, restoring, dropped, begun>>
<1>1. Stores BY RailsStore
<1>2. PICK document \in Document, plan \in Runs \cup {Absent} :
         document.run = rail.run /\ plan \in {planFile, rail.run} /\ RailStore(document, plan)
  BY <1>1 DEF Stores
<1>3. ~Overlaps BY <1>2 DEF RailStore
<1> QED BY <1>2, <1>3, NotAbsent DEF RailStore, Overlaps, Counters

LEMMA PlansStep ==
    ASSUME ArchiveInv, PlansKept, Whole, [Next]_vars, ~torn'
    PROVE  PlansKept'
<1> USE DEF ArchiveInv
<1>1. CASE UNCHANGED <<archives, restoring, op>> BY <1>1 DEF PlansKept
<1>2. CASE BeginNewWork
  <2> DEFINE slot == <<session.run, day>>
  <2>1. slot \in Slots BY <1>2, StateTyped DEF BeginNewWork, Slots, Document
  <2>2. op'.kind = "new-work" /\ archives' = [archives EXCEPT ![slot] = Absent]
        /\ restoring' = restoring
    BY <1>2 DEF BeginNewWork
  <2>3. \A s \in Slots : archives'[s] \in {Absent, archives[s]} BY <2>1, <2>2, StateTyped
  <2> QED BY <2>2, <2>3 DEF PlansKept
<1>3. CASE WriteArchive
  <2> DEFINE e == archives'[op.slot]
  <2>1. /\ op.at \in 1..8 /\ op.kind = "new-work" /\ op.slot \in Slots
        /\ e \in Directory /\ archives' = [archives EXCEPT ![op.slot] = e]
        /\ Advances(archives[op.slot], e, op.slot, op.doc, planFile, op.at)
    BY <1>3, WriteStep
  <2>2. op \in [kind : {"new-work"}, slot : Slots, doc : Document, at : 1..9]
    BY <2>1, OpTyped
  <2>3. op'.kind = "new-work" /\ restoring' = restoring BY <1>3, <2>2 DEF WriteArchive
  <2>4. planFile \in {Absent, op.slot[1]} BY <2>1 DEF Whole, PlanOf, OpSound
  <2>5. op.at > 2 => archives[op.slot] # Absent BY <2>1 DEF OpSound, Progress
  <2>6. e.plan \in {Absent, op.slot[1]}
    BY <2>1, <2>4, <2>5 DEF Advances, PlansKept
  <2>7. \A s \in Slots : archives'[s] = IF s = op.slot THEN e ELSE archives[s]
    BY <2>1, StateTyped
  <2> HIDE DEF e
  <2> QED BY <2>3, <2>6, <2>7 DEF PlansKept
<1>4. CASE ArchiveFails \/ Crash
  <2>1. op' = Idle /\ restoring' = restoring BY <1>4 DEF ArchiveFails, Crash
  <2>2. \A s \in Slots : archives'[s] # Absent =>
           archives[s] # Absent /\ archives'[s].plan = archives[s].plan
    <3>1. CASE UNCHANGED archives BY <3>1
    <3>2. CASE archives' # archives
      <4>1. /\ op.kind = "new-work" /\ archives[op.slot] # Absent /\ (Raises \/ ~Written)
            /\ \/ archives' = [archives EXCEPT ![op.slot] = FailureIn(archives[op.slot], op.slot)]
               \/ archives' = [archives EXCEPT ![op.slot] =
                                  FailedMetadataIn(archives[op.slot], op.slot)]
        BY <1>4, <3>2 DEF ArchiveFails, Crash, InExcept, Raises, Archiving
      <4>2. /\ op.slot \in Slots /\ archives[op.slot] \in Directory
            /\ ArchiveSound(archives[op.slot], op.slot)
        BY <4>1, ExceptIsUnsealed
      <4>3. /\ FailureIn(archives[op.slot], op.slot).plan = archives[op.slot].plan
            /\ FailedMetadataIn(archives[op.slot], op.slot).plan = archives[op.slot].plan
        BY <4>2, FailureKeeps, FailMetadataKeeps
      <4>4. archives'[op.slot].plan = archives[op.slot].plan BY <4>1, <4>2, <4>3, StateTyped
      <4>5. \A s \in Slots \ {op.slot} : archives'[s] = archives[s] BY <4>1, StateTyped
      <4> QED BY <4>1, <4>4, <4>5
    <3> QED BY <3>1, <3>2
  <2> QED BY <2>1, <2>2 DEF PlansKept, Idle
<1>5. CASE BeginPurge \/ BeginRun \/ RecordGuard
  BY <1>5 DEF BeginPurge, BeginRun, RecordGuard, PlansKept, Idle
<1>6. CASE Purge
  <2>1. op'.kind = "purge" /\ UNCHANGED <<archives, restoring>>
    BY <1>6, OpTyped DEF Purge
  <2> QED BY <2>1 DEF PlansKept
<1>7. CASE ReadArchive
  <2>1. PICK slot \in Slots :
            /\ archives[slot] # Absent
            /\ restoring' = [slot |-> slot, doc |-> archives[slot].session,
                             plan |-> archives[slot].plan]
    BY <1>7 DEF ReadArchive
  <2> QED BY <1>7, <2>1 DEF ReadArchive, PlansKept
<1>8. CASE BeginRestore
  BY <1>8 DEF BeginRestore, PlansKept
<1>9. CASE Restore
  <2>1. op \in [kind : {"restore"}, slot : Slots, doc : Document, plan : Runs \cup {Absent},
                at : 1..3]
    BY <1>9, OpTyped DEF Restore
  <2>2. op' = Idle \/ (op'.slot = op.slot /\ op'.plan = op.plan) BY <1>9, <2>1 DEF Restore
  <2> QED BY <1>9, <2>1, <2>2 DEF Restore, PlansKept, Idle
<1>10. CASE \/ RailLoad \/ StoreTicket \/ StorePlan \/ PlanInterrupted \/ StoreApproval
           \/ Bootstrap \/ Midnight \/ UNCHANGED vars
  BY <1>1, <1>10 DEF RailLoad, StoreTicket, StorePlan, PlanInterrupted, StoreApproval, RailStore,
                     Bootstrap, Midnight, vars
<1> QED
  BY <1>2, <1>3, <1>4, <1>5, <1>6, <1>7, <1>8, <1>9, <1>10 DEF Next

\* What a command that stops leaves on disk is of one run, but in the middle of
\* a restore.
LEMMA StopsWhole ==
    ASSUME ArchiveInv, PlansKept, Whole, session # Absent,
           ~(op.kind = "restore" /\ op.at = 2)
    PROVE  PlanOf(session)
<1> USE DEF ArchiveInv
<1>1. op.kind \in {"idle", "guard", "new-work", "purge", "restore"} BY OpTyped
<1>2. CASE op.kind \in {"idle", "guard", "new-work"} BY <1>2 DEF Whole
<1>3. CASE op.kind = "purge"
  <2>1. session = op.doc /\ planFile \in {Absent, archives[op.slot].plan} BY <1>3 DEF Whole
  <2>2. op.slot \in Slots /\ archives[op.slot] # Absent /\ op.doc.run = op.slot[1]
    BY <1>3, OpTyped DEF OpSound, SealedIn
  <2>3. archives[op.slot].plan \in {Absent, op.slot[1]} BY <2>2 DEF PlansKept
  <2> QED BY <2>1, <2>2, <2>3 DEF PlanOf
<1>4. CASE op.kind = "restore" /\ op.at = 1 BY <1>4 DEF Whole
<1>5. CASE op.kind = "restore" /\ op.at = 3
  BY <1>5 DEF Whole, PlansKept, OpSound, PlanOf
<1>6. op.kind = "restore" => op.at \in 1..3 BY OpTyped
<1> QED BY <1>1, <1>2, <1>3, <1>4, <1>5, <1>6

LEMMA WholeStep ==
    ASSUME ArchiveInv, PlansKept, Whole, [Next]_vars, ~torn'
    PROVE  Whole'
<1> USE DEF ArchiveInv
<1>1. CASE RailLoad \/ ReadArchive \/ Midnight \/ UNCHANGED vars
  BY <1>1 DEF RailLoad, ReadArchive, Midnight, vars, Whole, PlanOf
<1>2. CASE StoreTicket \/ StorePlan \/ StoreApproval
  BY <1>2, StoreIsOfRun DEF Whole, PlanOf, Idle
<1>3. CASE PlanInterrupted
  <2>1. ~Overlaps /\ planFile' = rail.run /\ UNCHANGED <<session, op>>
    BY <1>3 DEF PlanInterrupted
  <2> QED BY <2>1 DEF Overlaps, Whole, PlanOf, Idle
<1>4. CASE BeginNewWork
  <2>1. op = Idle /\ session # Absent /\ UNCHANGED <<session, planFile>>
        /\ op'.kind = "new-work" /\ op'.doc = session /\ op'.at = 1
    BY <1>4 DEF BeginNewWork
  <2> QED BY <2>1 DEF Whole, PlanOf, Idle
<1>5. CASE WriteArchive
  <2>1. /\ op.at \in 1..8
        /\ op \in [kind : {"new-work"}, slot : Slots, doc : Document, at : 1..9]
        /\ Advances(archives[op.slot], archives'[op.slot], op.slot, op.doc, planFile, op.at)
    BY <1>5, WriteStep, OpTyped
  <2>2. op'.kind = op.kind /\ op'.doc = op.doc /\ op'.slot = op.slot /\ op'.at = op.at + 1
        /\ UNCHANGED <<session, planFile>>
    BY <1>5, <2>1 DEF WriteArchive
  <2>3. session = op.doc /\ PlanOf(session)
        /\ (op.at >= 3 => archives[op.slot].plan = planFile)
    BY <2>1 DEF Whole
  <2>4. op.at >= 2 => archives'[op.slot].plan = planFile BY <2>1, <2>3 DEF Advances
  <2> QED BY <2>1, <2>2, <2>3, <2>4 DEF Whole, PlanOf
<1>6. CASE ArchiveFails
  BY <1>6, StopsWhole DEF ArchiveFails, InExcept, Archiving, Whole, PlanOf, Idle
<1>7. CASE BeginPurge
  <2>1. op.kind = "new-work" /\ op.at >= 3
    BY <1>7, OpTyped, Names DEF BeginPurge, Written, Archiving
  <2>2. op'.kind = "purge" /\ op'.doc = op.doc /\ op'.slot = op.slot /\ op'.left = Purged
        /\ UNCHANGED <<session, planFile, archives>>
    BY <1>7 DEF BeginPurge
  <2> QED BY <2>1, <2>2 DEF Whole, Purged
<1>8. CASE Purge
  <2>1. op \in [kind : {"purge"}, slot : Slots, doc : Document, left : SUBSET Purged]
    BY <1>8, OpTyped DEF Purge
  <2>2. PICK file \in op.left :
            /\ session' = IF file = "session" THEN Absent ELSE session
            /\ planFile' = IF file = "plan" THEN Absent ELSE planFile
            /\ op' = [op EXCEPT !.left = @ \ {file}]
    BY <1>8 DEF Purge
  <2>3. op'.kind = "purge" /\ op'.doc = op.doc /\ op'.slot = op.slot
        /\ op'.left = op.left \ {file} /\ archives' = archives
    BY <1>8, <2>1, <2>2 DEF Purge
  <2>4. /\ session \in {Absent, op.doc}
        /\ "session" \notin op.left => session = Absent
        /\ planFile \in {Absent, archives[op.slot].plan}
        /\ "plan" \notin op.left => planFile = Absent
    BY <1>8 DEF Purge, Whole
  <2> QED BY <2>2, <2>3, <2>4 DEF Whole
<1>9. CASE BeginRun
  <2>1. planFile = Absent BY <1>9 DEF BeginRun, Whole
  <2> QED BY <1>9, <2>1 DEF BeginRun, Whole, PlanOf
<1>10. CASE RecordGuard
  BY <1>10 DEF RecordGuard, Whole, PlanOf, Idle
<1>11. CASE BeginRestore
  <2>1. op = Idle /\ UNCHANGED <<session, planFile, archives>> BY <1>11 DEF BeginRestore
  <2>2. op' = op \/ (session # Absent /\ op'.kind = "restore" /\ op'.at = 1)
    BY <1>11 DEF BeginRestore
  <2> QED BY <2>1, <2>2 DEF Whole, PlanOf, Idle
<1>12. CASE Restore
  <2>1. op \in [kind : {"restore"}, slot : Slots, doc : Document, plan : Runs \cup {Absent},
                at : 1..3]
    BY <1>12, OpTyped DEF Restore
  <2>2. CASE op.at = 1
    <3>1. session' = op.doc /\ op'.kind = "restore" /\ op'.at = 2 /\ op'.doc = op.doc
      BY <1>12, <2>1, <2>2, RestoreWrites DEF Restore
    <3> QED BY <2>1, <3>1, NotAbsent DEF Whole
  <2>3. CASE op.at = 2
    <3>1. session' = session /\ planFile' = op.plan /\ op'.kind = "restore" /\ op'.at = 3
          /\ op'.doc = op.doc /\ op'.plan = op.plan
      BY <1>12, <2>1, <2>3, RestoreWrites DEF Restore
    <3> QED BY <2>1, <2>3, <3>1 DEF Whole
  <2>4. CASE op.at = 3
    <3>1. UNCHANGED <<session, planFile>> /\ op' = Idle
      BY <1>12, <2>1, <2>4, RestoreWrites DEF Restore
    <3> QED BY <2>1, <2>4, <3>1, StopsWhole DEF Whole, PlanOf, Idle
  <2> QED BY <2>1, <2>2, <2>3, <2>4
<1>13. CASE Bootstrap
  <2>1. op = Idle /\ planFile = Absent /\ UNCHANGED <<planFile, op>>
    BY <1>13 DEF Bootstrap
  <2> QED BY <2>1 DEF Whole, PlanOf, Idle
<1>14. CASE Crash
  <2>1. op' = Idle /\ UNCHANGED <<session, planFile>> /\ ~(op.kind = "restore" /\ op.at = 2)
    BY <1>14 DEF Crash
  <2> QED BY <2>1, StopsWhole DEF Whole, PlanOf, Idle
<1> QED
  BY <1>1, <1>2, <1>3, <1>4, <1>5, <1>6, <1>7, <1>8, <1>9, <1>10, <1>11, <1>12, <1>13, <1>14
     DEF Next

\* A run is known when it is in progress, sealed, or was written over.
Known(r) == \/ session # Absent /\ session.run = r
            \/ \E d \in 1..MaxDay : SealedIn(<<r, d>>)
            \/ r \in dropped

LEMMA SealedStaysKnown ==
    ASSUME ArchiveInv, [Next]_vars, NEW r \in Runs,
           \E d \in 1..MaxDay : SealedIn(<<r, d>>)
    PROVE  \E d \in 1..MaxDay : SealedIn(<<r, d>>)'
<1>1. PICK d \in 1..MaxDay : SealedIn(<<r, d>>) OBVIOUS
<1>2. <<r, d>> \in Slots BY DEF Slots
<1>3. SealedIn(<<r, d>>)' BY <1>1, <1>2, ArchivesStep, SealedStays DEF ArchiveInv
<1> QED BY <1>3

\* The purge takes the session of a run that is sealed.
LEMMA PurgedRunIsSealed ==
    ASSUME ArchiveInv, Whole, op.kind = "purge", session # Absent
    PROVE  \E d \in 1..MaxDay : SealedIn(<<session.run, d>>)
<1>1. session = op.doc BY DEF Whole
<1>2. op.slot \in Slots /\ op.doc.run = op.slot[1] /\ SealedIn(op.slot)
  BY OpTyped DEF ArchiveInv, OpSound
<1>3. op.slot = <<op.slot[1], op.slot[2]>> /\ op.slot[2] \in 1..MaxDay BY <1>2 DEF Slots
<1> QED BY <1>1, <1>2, <1>3

\* A run begins with a session of its own, and the run in progress stays so, or
\* is sealed or written over.
Handover ==
    /\ \/ begun' = begun
       \/ begun' = begun + 1 /\ session' # Absent /\ session'.run = begun + 1
    /\ session # Absent =>
          \/ session' # Absent /\ session'.run = session.run
          \/ \E d \in 1..MaxDay : SealedIn(<<session.run, d>>)
          \/ session.run \in dropped'

LEMMA HandoverStep ==
    ASSUME ArchiveInv, Whole, [Next]_vars, ~torn'
    PROVE  Handover
<1> USE DEF ArchiveInv
<1>1. CASE UNCHANGED <<session, begun>> BY <1>1 DEF Handover
<1>2. CASE StoreTicket \/ StorePlan \/ StoreApproval BY <1>2, StoreIsOfRun DEF Handover
<1>3. CASE Purge
  <2>1. begun' = begun BY <1>3 DEF Purge, Counters
  <2>2. session # Absent => \E d \in 1..MaxDay : SealedIn(<<session.run, d>>)
    BY <1>3, PurgedRunIsSealed DEF Purge
  <2> QED BY <2>1, <2>2 DEF Handover
<1>4. CASE BeginRun
  <2>1. session = Absent BY <1>4 DEF BeginRun, Whole
  <2>2. op.doc \in Document BY <1>4, OpTyped DEF BeginRun
  <2>3. begun + 1 \in Runs BY <1>4, NextRun DEF BeginRun
  <2>4. session' \in Document /\ session'.run = begun + 1
    BY <1>4, <2>2, <2>3, FreshTyped DEF BeginRun
  <2>5. begun' = begun + 1 BY <1>4 DEF BeginRun
  <2> QED BY <2>1, <2>4, <2>5, NotAbsent DEF Handover
<1>5. CASE Restore
  <2>1. begun' = begun BY <1>5 DEF Restore, Counters
  <2>2. op.at = 1 /\ session # Absent => session.run \in dropped' BY <1>5 DEF Restore
  <2>3. op.at # 1 => session' = session BY <1>5, RestoreWrites
  <2> QED BY <2>1, <2>2, <2>3 DEF Handover
<1>6. CASE Bootstrap
  <2>1. begun + 1 \in Runs BY <1>6, NextRun DEF Bootstrap
  <2>2. session' = Initial(begun + 1) BY <1>6 DEF Bootstrap, Initial
  <2>3. begun' = begun + 1 /\ (session # Absent => session.run \in dropped')
    BY <1>6 DEF Bootstrap
  <2> QED BY <2>1, <2>2, <2>3, InitialTyped, NotAbsent DEF Handover
<1>7. CASE \/ RailLoad \/ PlanInterrupted \/ BeginNewWork \/ WriteArchive \/ ArchiveFails
          \/ BeginPurge \/ RecordGuard \/ ReadArchive \/ BeginRestore \/ Crash \/ Midnight
          \/ UNCHANGED vars
  BY <1>1, <1>7 DEF RailLoad, PlanInterrupted, BeginNewWork, WriteArchive, ArchiveFails,
                    BeginPurge, RecordGuard, ReadArchive, BeginRestore, Crash, Midnight, vars,
                    Counters
<1> QED BY <1>2, <1>3, <1>4, <1>5, <1>6, <1>7 DEF Next

LEMMA DroppedStays ==
    ASSUME [Next]_vars
    PROVE  dropped \subseteq dropped'
<1>1. CASE Restore BY <1>1 DEF Restore
<1>2. CASE Bootstrap BY <1>2 DEF Bootstrap
<1>3. CASE ~Restore /\ ~Bootstrap
  BY <1>3 DEF Next, RailLoad, StoreTicket, StorePlan, PlanInterrupted, StoreApproval, RailStore,
              BeginNewWork, WriteArchive, ArchiveFails, BeginPurge, Purge, BeginRun, RecordGuard,
              ReadArchive, BeginRestore, Crash, Midnight, vars
<1> QED BY <1>1, <1>2, <1>3

LEMMA AccountedStep ==
    ASSUME ArchiveInv, Whole, Accounted, [Next]_vars, ~torn'
    PROVE  Accounted'
<1>1. begun \in Nat /\ 1..begun \subseteq Runs
  <2>1. begun \in 1..MaxRuns /\ MaxRuns \in Nat
    BY StateTyped, WorkRunsAssumption DEF ArchiveInv, Runs
  <2> QED BY <2>1 DEF Runs
<1>2. Handover /\ dropped \subseteq dropped' BY HandoverStep, DroppedStays
<1> SUFFICES ASSUME NEW r \in 1..begun'
             PROVE  Known(r)'
  BY DEF Accounted, Known
<1>3. CASE r \in 1..begun
  <2>1. r \in Runs /\ Known(r) BY <1>1, <1>3 DEF Accounted, Known
  <2>2. CASE \E d \in 1..MaxDay : SealedIn(<<r, d>>)
    BY <2>1, <2>2, SealedStaysKnown DEF Known
  <2>3. CASE r \in dropped BY <1>2, <2>3 DEF Known
  <2>4. CASE session # Absent /\ session.run = r
    <3>1. \/ session' # Absent /\ session'.run = r
          \/ \E d \in 1..MaxDay : SealedIn(<<r, d>>)
          \/ r \in dropped'
      BY <1>2, <2>4 DEF Handover
    <3> QED BY <2>1, <3>1, SealedStaysKnown DEF Known
  <2> QED BY <2>1, <2>2, <2>3, <2>4 DEF Known
<1>4. CASE r \notin 1..begun
  <2>1. r = begun + 1 /\ session' # Absent /\ session'.run = begun + 1
    BY <1>1, <1>2, <1>4 DEF Handover
  <2> QED BY <2>1 DEF Known
<1> QED BY <1>3, <1>4

\* What a torn workspace is, it stays.
LEMMA TornStays ==
    ASSUME TypeOK, [Next]_vars, torn
    PROVE  torn'
BY DEF Next, RailLoad, StoreTicket, StorePlan, PlanInterrupted, StoreApproval, RailStore,
       BeginNewWork, WriteArchive, ArchiveFails, BeginPurge, Purge, BeginRun, RecordGuard,
       ReadArchive, BeginRestore, Restore, Bootstrap, Crash, Midnight, vars

LEMMA InitUntorn ==
    ASSUME Init
    PROVE  Untorn
<1>1. \A slot \in Slots : archives[slot] = Absent BY DEF Init
<1>2. op.kind = "idle" /\ restoring = Absent /\ planFile = Absent /\ begun = 1
  BY DEF Init, Idle
<1>4. session # Absent /\ session.run = 1 BY FirstSession, NotAbsent
<1>5. PlansKept BY <1>1, <1>2 DEF PlansKept
<1>6. Whole BY <1>2 DEF Whole, PlanOf
<1>7. Accounted BY <1>2, <1>4 DEF Accounted
<1> QED BY <1>5, <1>6, <1>7 DEF Untorn

\* Where no two commands crossed, what is on disk is of one run, and every run is
\* accounted for.
THEOREM UntornInvariant == Spec => [](ArchiveInv /\ Untorn)
<1>1. Init => ArchiveInv /\ Untorn BY InitArchiveInv, InitUntorn
<1>2. ArchiveInv /\ Untorn /\ ArchiveInv' /\ [Next]_vars => Untorn'
  <2> SUFFICES ASSUME ArchiveInv, Untorn, [Next]_vars, ~torn'
               PROVE  PlansKept' /\ Whole' /\ Accounted'
    BY DEF Untorn
  <2>1. ~torn BY TornStays DEF ArchiveInv
  <2>2. PlansKept /\ Whole /\ Accounted BY <2>1 DEF Untorn
  <2> QED BY <2>2, PlansStep, WholeStep, AccountedStep
<1> QED BY <1>1, <1>2, ArchiveInvariant, PTL DEF Spec

\* Whatever stops or fails on the way, a run that was begun is in progress, sealed
\* or was written over by a restore or a bootstrap.
THEOREM NothingIsLost == Spec => []NoRunLost
<1>1. Untorn => NoRunLost BY DEF Untorn, Accounted, NoRunLost
<1> QED BY <1>1, UntornInvariant, PTL

\* A sealed archive holds one run.
THEOREM SealedIsWhole == Spec => []ArchivesAreWhole
<1>1. ArchiveInv /\ Untorn => ArchivesAreWhole
  <2> SUFFICES ASSUME ArchiveInv, Untorn, ~torn, NEW slot \in Slots, SealedIn(slot)
               PROVE  /\ archives[slot].session.run = slot[1]
                      /\ archives[slot].plan \in {Absent, slot[1]}
    BY DEF ArchivesAreWhole
  <2> QED BY SealedIs DEF Untorn, PlansKept, SealedIn
<1> QED BY <1>1, UntornInvariant, PTL

\* What the purge takes from disk is in the archive that was sealed before.
THEOREM OnlyArchivedIsPurged == Spec => PurgedIsArchived
<1> DEFINE Kept ==
      op.kind = "purge" /\ ~torn =>
         /\ session # Absent /\ session' = Absent =>
               SealedIn(op.slot) /\ archives[op.slot].session = session
         /\ planFile # Absent /\ planFile' = Absent =>
               SealedIn(op.slot) /\ archives[op.slot].plan = planFile
<1>1. ArchiveInv /\ Untorn /\ [Next]_vars => [Kept]_vars
  <2> SUFFICES ASSUME ArchiveInv, Untorn, op.kind = "purge", ~torn
               PROVE  Kept
    OBVIOUS
  <2>1. SealedIn(op.slot) /\ archives[op.slot].session = op.doc
    BY DEF ArchiveInv, OpSound
  <2>2. session \in {Absent, op.doc} /\ planFile \in {Absent, archives[op.slot].plan}
    BY DEF Untorn, Whole
  <2> QED BY <2>1, <2>2
<1> QED BY <1>1, UntornInvariant, PTL DEF Spec, PurgedIsArchived
=============================================================================
