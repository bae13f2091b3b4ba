------------------------------ MODULE Delivery ------------------------------
(***************************************************************************)
(* What /plan and /implement do between their first look at the session and *)
(* their write of it.  GovernanceSession takes each as one step; here /plan *)
(* is a process that may stop between any two of its writes, and /implement *)
(* works on files a user goes on changing.                                  *)
(*                                                                         *)
(*   /plan        entrypoints/phase5_plan_record_persist.py reviews the     *)
(*                draft, compiles the result into requirement contracts,    *)
(*                appends draft and result to plan-record.json, and writes  *)
(*                the session                                              *)
(*   /implement   entrypoints/implement_start.py hands the plan to the      *)
(*                executor, sees which files have changed, holds them       *)
(*                against the contracts and writes the session              *)
(*                                                                         *)
(* One command runs at a time, as in GovernanceSession.                     *)
(***************************************************************************)
EXTENDS GovernanceSession, FiniteSets

CONSTANTS Files,          \* files of the repository
          Governed,       \* those under .governance/
          Whole,          \* drafts with every section the review asks for
          Requirements,   \* the files named by each requirement of a plan
          Reader,         \* the file every requirement names
          MaxIterations   \* phase5_max_review_iterations

\* Every line of a plan becomes a requirement that names Reader, whatever it says.
ASSUME DeliveryAssumption ==
    /\ Governed \subseteq Files /\ Reader \in Files \ Governed
    /\ Whole \subseteq Plans
    /\ Requirements \in [Plans -> SUBSET SUBSET Files]
    /\ \A p \in Plans : Requirements[p] # {} /\ \A r \in Requirements[p] : Reader \in r
    /\ MaxIterations \in Nat \ {0}

VARIABLES rev,        \* the revision of the plan plan-record.json ends with
          contracts,  \* the text compiled_requirements.json was made of
          job,        \* the /plan that runs
          delivered,  \* history: the /implement whose result the session shows accepted
          halted      \* history: was the last /plan to write stopped between its files?

dvars == <<rev, contracts, job, delivered, halted>>

\* A text: a plan and how often the review has revised it.
Texts == [plan : Plans \cup {NoPlan}, rev : 0 .. MaxIterations]
Text(p, n) == [plan |-> p, rev |-> n]
NoText == Text(NoPlan, 0)

Idle == [at |-> "none"]

PlanJobs ==
    [at : {"review", "contracts", "draft", "revised", "session"},
     plan : Plans, was : Plans \cup {NoPlan}, rev : 0 .. MaxIterations, whole : BOOLEAN,
     iter : 0 .. MaxIterations, calls : BOOLEAN]

Deliveries == [text : Texts, contracts : Texts, touched : SUBSET Files]
Nothing == [text |-> NoText, contracts |-> NoText, touched |-> {}]

DeliveryTypeOK ==
    /\ rev \in 0 .. MaxIterations
    /\ contracts \in Texts
    /\ job \in {Idle} \cup PlanJobs
    /\ delivered \in Deliveries
    /\ halted \in BOOLEAN

DInit ==
    /\ Init
    /\ rev = 0 /\ contracts = NoText
    /\ job = Idle
    /\ delivered = Nothing
    /\ halted = FALSE

-----------------------------------------------------------------------------
(* /plan. *)

\* _collect_findings: sections are missing.
HasFindings(p) == p \notin Whole

StartPlan(p) ==
    /\ job = Idle
    /\ PlanAllowed
    /\ drafted[p] = NoTicket
    /\ \E calls \in BOOLEAN :
          job' = [at |-> "review", plan |-> p, was |-> planRecord, rev |-> 0,
                  whole |-> ~HasFindings(p), iter |-> 0, calls |-> calls]
    /\ UNCHANGED <<vars, rev, contracts, delivered, halted>>

\* What a review of the text comes to.  With the binding of the pipeline a
\* reviewer is called, whose answer is dropped for a finding when it does not
\* keep to the schema (an approval beside a defect, a request for changes
\* without one) or when the call fails.  Without it nobody is called, and
\* changes are requested without saying which.
Answers(calls) ==
    IF calls
    THEN {[approve |-> TRUE, findings |-> FALSE], [approve |-> TRUE, findings |-> TRUE],
          [approve |-> FALSE, findings |-> TRUE]}
    ELSE {[approve |-> FALSE, findings |-> FALSE]}

\* One iteration of _run_internal_phase5_self_review.  Missing sections are
\* appended, all at once, before the findings of the reviewer are, who will
\* have his own turn; a text that was revised is not the one he approved.
Review(answer) ==
    /\ job.at = "review"
    /\ answer \in Answers(job.calls)
    /\ LET revised == ~job.whole \/ answer.findings
           iter == job.iter + 1
           met == iter >= MaxIterations \/ (answer.approve /\ ~revised)
       IN job' = [job EXCEPT !.rev = IF revised THEN @ + 1 ELSE @, !.whole = TRUE, !.iter = iter,
                             !.at = IF met THEN "contracts" ELSE "review"]
    /\ UNCHANGED <<vars, rev, contracts, delivered, halted>>

\* Mutant: the contracts are those of the draft.
CompiledFromDraft == Text(job.plan, 0)

\* compile_plan_to_requirements is given the text the review ended with.
Compiled == Text(job.plan, job.rev)

PersistContracts ==
    /\ job.at = "contracts"
    /\ contracts' = Compiled
    /\ job' = [job EXCEPT !.at = "draft"]
    /\ UNCHANGED <<vars, rev, delivered, halted>>

\* The draft is appended first and superseded by the result when they differ.
AppendDraft ==
    /\ job.at = "draft"
    /\ RecordPlan(job.plan)
    /\ rev' = 0
    /\ job' = [job EXCEPT !.at = IF job.rev > 0 THEN "revised" ELSE "session"]
    /\ UNCHANGED <<st, contracts, delivered, halted>>

AppendRevised ==
    /\ job.at = "revised"
    /\ rev' = job.rev
    /\ job' = [job EXCEPT !.at = "session"]
    /\ UNCHANGED <<vars, contracts, delivered, halted>>

\* Mutant: the session is written when the contracts are, before the record.
FinishPlanFirst ==
    /\ job.at = "draft"
    /\ PlanWritten
    /\ job' = Idle
    /\ UNCHANGED <<planRecord, facts, drafted, reviewed, approved,
                   rev, contracts, delivered, halted>>

\* The session is written last.
FinishPlan ==
    /\ job.at = "session"
    /\ PlanWritten
    /\ job' = Idle
    /\ halted' = FALSE
    /\ UNCHANGED <<planRecord, facts, drafted, reviewed, approved,
                   rev, contracts, delivered>>

-----------------------------------------------------------------------------
(* /implement. *)

\* _load_compiled_requirements: none without a file.
RequirementsOf(text) == IF text.plan = NoPlan THEN {} ELSE Requirements[text.plan]

\* Mutant: what git status names afterwards is credited to the run.
ChangedIsDirty(before, touched, after) == after

\* What is credited to a run: the files that git status names after it and did
\* not before, and those a requirement names whose content is another one.
Changed(before, touched, after) ==
    (after \ before) \cup (touched \cap UNION RequirementsOf(contracts))

Domain(files) == files \ Governed

\* validate_implementation, with build_plan_coverage, after an executor and
\* acceptance tests that both ended well, or did not.
Compliant(changed, well) ==
    LET domain == Domain(changed)
        required == RequirementsOf(contracts)
    IN /\ well
       /\ domain # {}
       /\ required # {} /\ \A r \in required : r \cap domain # {}

\* No binding, mandate or policy, so the executor is not run; or it is, and
\* its answer does not keep to the schema.
ImplementRefused ==
    /\ job = Idle
    /\ Implement("refused")
    /\ delivered' = Nothing
    /\ UNCHANGED <<rev, contracts, job, halted>>

\* Files the user or an earlier run changed are in "before"; what is touched
\* while the executor runs, by it or by the user, may be committed or undone
\* by the time git status is asked again.
ImplementExecuted(before, touched, after, well) ==
    /\ job = Idle
    /\ LET good == Compliant(Changed(before, touched, after), well) IN
       /\ Implement(IF good THEN "review_complete" ELSE "blocked")
       /\ delivered' = IF good
                       THEN [text |-> Text(planRecord, rev), contracts |-> contracts,
                             touched |-> touched]
                       ELSE Nothing
    /\ UNCHANGED <<rev, contracts, job, halted>>

ImplementRun ==
    \E before \in SUBSET (Files \ Governed), touched \in SUBSET Files, well \in BOOLEAN :
        \E after \in SUBSET (before \cup touched) :
            ImplementExecuted(before, touched, after, well)

-----------------------------------------------------------------------------
(* Around them. *)

Accepted == st.gate = "Implementation-Review-Complete"

\* /plan ends early, or refuses to go on: a review without its policy,
\* contracts that do not validate, a write that fails.
Stop ==
    /\ job # Idle
    /\ job' = Idle
    /\ halted' = (halted \/ job.at \in {"draft", "revised"})
    /\ UNCHANGED <<vars, rev, contracts, delivered>>

\* The other commands, as GovernanceSession has them.
OtherRails ==
    \/ Continue
    \/ ContinueInterrupted
    \/ \E t \in Tickets : Ticket(t)
    \/ Approve
    \/ RequestChanges
    \/ Reject

LeavesDelivery ==
    /\ delivered' = IF Accepted' THEN delivered ELSE Nothing
    /\ UNCHANGED <<contracts, job, halted>>

Beside ==
    /\ job = Idle
    /\ \/ OtherRails /\ UNCHANGED rev
       \/ NewWork /\ rev' = 0
    /\ LeavesDelivery

Asked == job = Idle /\ ContinueUnblocked /\ UNCHANGED rev /\ LeavesDelivery

PlanStep ==
    \/ \E answer \in UNION {Answers(c) : c \in BOOLEAN} : Review(answer)
    \/ PersistContracts
    \/ AppendDraft
    \/ AppendRevised
    \/ FinishPlan

DNext ==
    \/ \E p \in Plans : StartPlan(p)
    \/ PlanStep
    \/ ImplementRefused
    \/ ImplementRun
    \/ Stop
    \/ Beside

DSpec == DInit /\ [][DNext]_<<vars, dvars>>

\* A /plan that was started comes to its end, and the operator, who may give
\* others in between, keeps asking for the next step.
FairDelivery ==
    /\ DSpec
    /\ WF_<<vars, dvars>>(PlanStep)
    /\ SF_<<vars, dvars>>(Asked)

-----------------------------------------------------------------------------
\* The Implementation Review Complete gate is shown for a run whose executor
\* and checks ended well and that met every requirement by a file which was
\* changed while it ran: edits from before, or of a run that was stopped, do
\* not count, committed or not, and neither do those under .governance/.
AcceptedIsEarned ==
    Accepted =>
        /\ RequirementsOf(delivered.contracts) # {}
        /\ \A r \in RequirementsOf(delivered.contracts) : r \cap Domain(delivered.touched) # {}

\* The contracts an implementation was held to are those of the text its
\* executor was given, however the review revised it.  A /plan stopped between
\* the contracts and the last version is the exception: nothing compares
\* requirement_contracts_digest with the file.
JudgedByItsContracts ==
    Accepted /\ delivered.text # NoText =>
        \/ delivered.contracts = delivered.text
        \/ halted

(* Refinement. *)

\* Until a /plan has written the session its version of the record counts as
\* not there: the step that writes is the one GovernanceSession knows, and a
\* stop is its interrupted /plan.
Pending == job.at \in {"revised", "session"}
SettledRecord == IF Pending THEN job.was ELSE planRecord
SettledDrafts == IF Pending THEN [drafted EXCEPT ![job.plan] = NoTicket] ELSE drafted

Session == INSTANCE GovernanceSession WITH planRecord <- SettledRecord, drafted <- SettledDrafts

\* To the session, /plan and /implement are the single steps GovernanceSession
\* makes of them: no order of their writes, and no stop, shows it another.
SessionImplemented == Session!Spec
=============================================================================
