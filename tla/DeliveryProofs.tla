--------------------------- MODULE DeliveryProofs ---------------------------
(***************************************************************************)
(* AcceptedIsEarned, JudgedByItsContracts and the refinement, for any files,  *)
(* plans, drafts and number of review iterations.                            *)
(*                                                                         *)
(* That the result is earned holds step by step, once it is known that only  *)
(* /implement shows it.  That it is judged by its contracts takes the order   *)
(* in which /plan writes: until the last version is appended the contracts    *)
(* are those of the plan that is under way, afterwards those of the plan on   *)
(* record, unless a stop has come in between.                               *)
(*                                                                         *)
(* The refinement goes in two layers: with a record as the session sees it,   *)
(* the operators of Session are those of GovernanceSession (ExecuteSame to    *)
(* RailsSame); then each write of /plan, and /implement, is a step of Session *)
(* or none (PlanStepsRefine, OthersRefine).                                   *)
(***************************************************************************)
EXTENDS Delivery, GovernanceSessionProofs

\* What the contracts are of, wherever /plan stands.
ContractsFollow ==
    /\ job.at = "review" => job.rev <= job.iter /\ job.iter < MaxIterations
    /\ job.at \in {"draft", "revised", "session"} => contracts = Text(job.plan, job.rev)
    /\ job.at = "revised" => planRecord = job.plan
    /\ job.at = "session" => planRecord = job.plan /\ rev = job.rev
    /\ job.at \notin {"draft", "revised"} /\ ~halted /\ planRecord # NoPlan =>
          contracts = Text(planRecord, rev)
    /\ planRecord = NoPlan => rev = 0

Inv ==
    /\ TypeOK /\ DeliveryTypeOK
    /\ ContractsFollow
    /\ AcceptedIsEarned /\ JudgedByItsContracts

-----------------------------------------------------------------------------
(* Only /implement shows the gate. *)

LEMMA KernelNeverAccepts == "Implementation-Review-Complete" \notin KernelGates
<1>1. ASSUME NEW t \in Tokens, NEW i \in DOMAIN Transitions[t]
      PROVE  Transitions[t][i].gate # "Implementation-Review-Complete"
  BY DEF Tokens, Transitions, FromTicket, FromArchitecture, FromTestQuality, FromBusinessRules,
     FromTechnicalDebt, FromRollbackSafety, FromReview, Edge
<1>2. ASSUME NEW t \in Tokens PROVE DefaultGate(t) # "Implementation-Review-Complete"
  BY DEF Tokens, DefaultGate
<1> QED
  BY <1>1, <1>2 DEF KernelGates, EdgeGates, DefaultGates

LEMMA CorrectionNeverAccepts ==
    \A g \in P5Gates : CorrectedGate(g) # "Implementation-Review-Complete"
  BY DEF P5Gates, CorrectedGate

LEMMA OutcomeNeverAccepts ==
    ASSUME TypeOK, NEW o \in ContinueOutcomes
    PROVE  /\ o.st.gate # "Implementation-Review-Complete"
           /\ AutoApprove(o.st).gate # "Implementation-Review-Complete"
<1>1. PICK s1 \in ReviewLoop(st) :
         \E r \in Execute(Requested(st), SyncGates(s1), PlanReady(s1), facts) :
           \E s2 \in Normalize(SyncGates(Materialize(SyncGates(s1), r))) : o.st = Present(s2)
  BY OutcomeSteps
<1>2. PICK r \in Execute(Requested(st), SyncGates(s1), PlanReady(s1), facts) :
         \E s2 \in Normalize(SyncGates(Materialize(SyncGates(s1), r))) : o.st = Present(s2)
  BY <1>1
<1>3. PICK s2 \in Normalize(SyncGates(Materialize(SyncGates(s1), r))) : o.st = Present(s2)
  BY <1>2
<1>4. SyncGates(s1) \in SessionState
  BY ReviewLoopType, SyncGatesType DEF TypeOK
<1>5. Requested(st) \in Tokens /\ SyncGates(s1).phase \in Tokens
  BY <1>4 DEF Requested, TypeOK, SessionState
<1>6. WellFormed(r)
  BY <1>5, ExecuteReturns
<1> DEFINE m == Materialize(SyncGates(s1), r)
<1>7. m \in SessionState /\ m.gate = r.gate
  <2>1. m \in SessionState
    BY <1>4, <1>6, MaterializeType DEF TypeOK
  <2>2. WithKernelResult(SyncGates(s1), r) \in SessionState
    BY <1>4, <1>6, WithKernelResultType
  <2>3. WithKernelResult(SyncGates(s1), r).gate = r.gate
    BY <1>4 DEF WithKernelResult, SessionState
  <2> QED
    BY <2>1, <2>2, <2>3 DEF Materialize, SessionState
<1> HIDE DEF m
<1>8. SyncGates(m) \in SessionState /\ SyncGates(m).gate = r.gate
  BY <1>7, SyncGatesType DEF SyncGates, SessionState, TypeOK
<1>9. r.gate # "Implementation-Review-Complete"
  BY <1>6, KernelNeverAccepts DEF WellFormed
<1>10. s2 \in SessionState /\ s2.gate # "Implementation-Review-Complete"
  <2>1. s2 \in Normalize(SyncGates(m))
    BY <1>3 DEF m
  <2>2. s2 \in SessionState
    BY <1>8, <2>1, NormalizeType
  <2>3. CompleteStaleReview(SyncGates(m)).gate = r.gate
    BY <1>8 DEF CompleteStaleReview, SessionState
  <2>4. \A g \in P5Gates : ResetToGate(SyncGates(m), g).gate = CorrectedGate(g)
    BY <1>8 DEF ResetToGate, SessionState
  <2>5. NormalizerOpenGates(SyncGates(m)) \subseteq P5Gates
    BY DEF NormalizerOpenGates, OpenGates, P5Gates
  <2> QED
    BY <1>8, <1>9, <2>1, <2>2, <2>3, <2>4, <2>5, CorrectionNeverAccepts DEF Normalize
<1>11. o.st \in SessionState /\ o.st.gate = s2.gate
  BY <1>3, <1>10, OutcomeType DEF Present, SessionState
<1> QED
  BY <1>10, <1>11 DEF AutoApprove, SessionState

\* None of the commands beside /plan and /implement does.
LEMMA BesideNeverAccepts == ASSUME TypeOK, OtherRails \/ NewWork PROVE ~Accepted'
<1>1. CASE Continue
  BY <1>1, OutcomeNeverAccepts DEF Continue, ContinueWith, Accepted
<1>2. CASE ContinueInterrupted
  BY <1>2, OutcomeNeverAccepts DEF ContinueInterrupted, Accepted
<1>3. ASSUME NEW t \in Tickets, Ticket(t) PROVE ~Accepted'
  <2> DEFINE s == [ConsumeRework(st, "4", "Ticket-Input-Gate") EXCEPT !.ticket = t]
  <2>1. ConsumeRework(st, "4", "Ticket-Input-Gate") \in SessionState
    BY ConsumeReworkType, RailGates DEF TypeOK, Tokens
  <2>2. s \in SessionState
    BY <2>1 DEF SessionState
  <2>3. PICK r \in Execute(s.phase, s, PlanReady(s), facts) : st' = WithKernelResult(s, r)
    BY <1>3 DEF Ticket
  <2>4. s.phase \in Tokens
    BY <2>2 DEF SessionState
  <2> HIDE DEF s
  <2>5. WellFormed(r)
    BY <2>4, ExecuteReturns
  <2>6. st'.gate = r.gate
    BY <2>2, <2>3 DEF WithKernelResult, SessionState
  <2> QED
    BY <2>5, <2>6, KernelNeverAccepts DEF WellFormed, Accepted
<1>4. CASE Approve \/ RequestChanges \/ Reject
  BY <1>4 DEF Approve, RequestChanges, Reject, Accepted, TypeOK, SessionState
<1>5. CASE NewWork
  BY <1>5 DEF NewWork, Accepted, TypeOK, SessionState
<1> QED
  BY <1>1, <1>2, <1>3, <1>4, <1>5 DEF OtherRails

\* They touch the record only to clear it.
LEMMA BesideRecord ==
    /\ OtherRails => planRecord' = planRecord
    /\ NewWork => planRecord' = NoPlan
<1>1. Continue \/ ContinueInterrupted => planRecord' = planRecord
  <2>1. ASSUME NEW o \in ContinueOutcomes, ContinueWith(o) PROVE planRecord' = planRecord
    BY <2>1 DEF ContinueWith
  <2>2. ContinueInterrupted => planRecord' = planRecord
    BY DEF ContinueInterrupted
  <2> QED
    BY <2>1, <2>2 DEF Continue
<1>2. ASSUME NEW t \in Tickets, Ticket(t) PROVE planRecord' = planRecord
  BY <1>2 DEF Ticket
<1>3. Approve \/ RequestChanges \/ Reject => planRecord' = planRecord
  BY DEF Approve, RequestChanges, Reject
<1> QED
  BY <1>1, <1>2, <1>3 DEF OtherRails, NewWork

LEMMA BesideType == ASSUME TypeOK, OtherRails \/ NewWork PROVE TypeOK'
  BY ContinueType, TicketType, DecisionType, NewWorkType DEF OtherRails

-----------------------------------------------------------------------------
(* /plan. *)

LEMMA TextType == ASSUME NEW p \in Plans \cup {NoPlan}, NEW n \in 0 .. MaxIterations
                  PROVE  Text(p, n) \in Texts
  BY DEF Text, Texts

\* A job that stands anywhere is one of /plan.
LEMMA JobIsPlan == ASSUME DeliveryTypeOK, job.at # "none" PROVE job \in PlanJobs
  BY DEF DeliveryTypeOK, Idle

LEMMA StartPlanInv == ASSUME Inv, NEW p \in Plans, StartPlan(p) PROVE Inv'
<1>1. PICK calls \in BOOLEAN :
         job' = [at |-> "review", plan |-> p, was |-> planRecord, rev |-> 0,
                 whole |-> p \in Whole, iter |-> 0, calls |-> calls]
  BY DEF StartPlan, HasFindings
<1>2. UNCHANGED <<vars, rev, contracts, delivered, halted>> /\ job = Idle
  BY DEF StartPlan
<1>3. job' \in PlanJobs
  BY <1>1, DeliveryAssumption DEF PlanJobs, Inv, TypeOK
<1>4. TypeOK' /\ AcceptedIsEarned' /\ JudgedByItsContracts'
  BY <1>2 DEF Inv, vars, TypeOK, AcceptedIsEarned, JudgedByItsContracts, Accepted
<1>5. DeliveryTypeOK'
  BY <1>2, <1>3 DEF Inv, DeliveryTypeOK
<1>6. ContractsFollow'
  BY <1>1, <1>2, DeliveryAssumption DEF Inv, vars, ContractsFollow, Idle
<1> QED
  BY <1>4, <1>5, <1>6 DEF Inv

LEMMA ReviewInv ==
    ASSUME Inv, NEW answer \in UNION {Answers(c) : c \in BOOLEAN}, Review(answer) PROVE Inv'
<1> DEFINE revised == ~job.whole \/ answer.findings
           met == job.iter + 1 >= MaxIterations \/ (answer.approve /\ ~revised)
           n == IF revised THEN job.rev + 1 ELSE job.rev
           at == IF met THEN "contracts" ELSE "review"
<1>1. /\ job.at = "review"
      /\ job' = [job EXCEPT !.rev = n, !.whole = TRUE, !.iter = job.iter + 1, !.at = at]
      /\ UNCHANGED <<vars, rev, contracts, delivered, halted>>
  BY DEF Review
<1>2. job \in PlanJobs
  BY <1>1, JobIsPlan DEF Inv
<1>3. /\ job.rev <= job.iter /\ job.iter < MaxIterations
      /\ job.rev \in Nat /\ job.iter \in Nat /\ MaxIterations \in Nat
  BY <1>1, <1>2, DeliveryAssumption DEF Inv, ContractsFollow, PlanJobs
<1>4. n \in 0 .. MaxIterations /\ n <= job.iter + 1 /\ job.iter + 1 \in 0 .. MaxIterations
  BY <1>3
<1>5. at \in {"review", "contracts"} /\ (at = "review" => job.iter + 1 < MaxIterations)
  BY <1>3
<1> HIDE DEF n, at
<1>6. /\ job' \in PlanJobs
      /\ job'.at = at /\ job'.rev = n /\ job'.iter = job.iter + 1
  BY <1>1, <1>2, <1>4, <1>5 DEF PlanJobs
<1>7. TypeOK' /\ AcceptedIsEarned' /\ JudgedByItsContracts'
  BY <1>1 DEF Inv, vars, TypeOK, AcceptedIsEarned, JudgedByItsContracts, Accepted
<1>8. DeliveryTypeOK'
  BY <1>1, <1>6 DEF Inv, DeliveryTypeOK
<1>9. ContractsFollow'
  BY <1>1, <1>4, <1>5, <1>6 DEF Inv, vars, ContractsFollow
<1> QED
  BY <1>7, <1>8, <1>9 DEF Inv

LEMMA PersistContractsInv == ASSUME Inv, PersistContracts PROVE Inv'
<1>1. /\ job.at = "contracts"
      /\ contracts' = Text(job.plan, job.rev)
      /\ job' = [job EXCEPT !.at = "draft"]
      /\ UNCHANGED <<vars, rev, delivered, halted>>
  BY DEF PersistContracts, Compiled
<1>2. job \in PlanJobs
  BY <1>1, JobIsPlan DEF Inv
<1>3. /\ job' \in PlanJobs
      /\ job'.at = "draft" /\ job'.plan = job.plan /\ job'.rev = job.rev
  BY <1>1, <1>2 DEF PlanJobs
<1>4. contracts' \in Texts
  BY <1>1, <1>2, TextType DEF PlanJobs
<1>5. TypeOK' /\ AcceptedIsEarned' /\ JudgedByItsContracts'
  BY <1>1 DEF Inv, vars, TypeOK, AcceptedIsEarned, JudgedByItsContracts, Accepted
<1>6. DeliveryTypeOK'
  BY <1>1, <1>3, <1>4 DEF Inv, DeliveryTypeOK
<1>7. ContractsFollow'
  BY <1>1, <1>3 DEF Inv, vars, ContractsFollow
<1> QED
  BY <1>5, <1>6, <1>7 DEF Inv

LEMMA AppendDraftInv == ASSUME Inv, AppendDraft PROVE Inv'
<1> DEFINE at == IF job.rev > 0 THEN "revised" ELSE "session"
<1>1. /\ job.at = "draft" /\ RecordPlan(job.plan) /\ rev' = 0
      /\ job' = [job EXCEPT !.at = at]
      /\ UNCHANGED <<st, contracts, delivered, halted>>
  BY DEF AppendDraft
<1>2. job \in PlanJobs
  BY <1>1, JobIsPlan DEF Inv
<1>3. at \in {"revised", "session"} /\ (at = "session" => job.rev = 0)
  BY <1>2 DEF PlanJobs
<1> HIDE DEF at
<1>4. /\ job' \in PlanJobs
      /\ job'.at = at /\ job'.plan = job.plan /\ job'.rev = job.rev
  BY <1>1, <1>2, <1>3 DEF PlanJobs
<1>5. planRecord' = job.plan /\ job.plan \in Plans
  BY <1>1, <1>2 DEF RecordPlan, PlanJobs
<1>6. TypeOK'
  <2>1. st.ticket \in Tickets \cup {NoTicket}
    BY DEF Inv, TypeOK, SessionState
  <2>2. drafted' \in [Plans -> Tickets \cup {NoTicket}]
    BY <1>1, <2>1 DEF RecordPlan, Inv, TypeOK
  <2> QED
    BY <1>1, <1>5, <2>2 DEF RecordPlan, Inv, TypeOK
<1>7. AcceptedIsEarned' /\ JudgedByItsContracts'
  BY <1>1 DEF Inv, AcceptedIsEarned, JudgedByItsContracts, Accepted
<1>8. DeliveryTypeOK'
  BY <1>1, <1>4, DeliveryAssumption DEF Inv, DeliveryTypeOK
<1>9. ContractsFollow'
  <2>1. contracts' = Text(job.plan, job.rev)
    BY <1>1 DEF Inv, ContractsFollow
  <2> QED
    BY <1>1, <1>3, <1>4, <1>5, <2>1, SessionAssumption DEF ContractsFollow
<1> QED
  BY <1>6, <1>7, <1>8, <1>9 DEF Inv

LEMMA AppendRevisedInv == ASSUME Inv, AppendRevised PROVE Inv'
<1>1. /\ job.at = "revised" /\ rev' = job.rev
      /\ job' = [job EXCEPT !.at = "session"]
      /\ UNCHANGED <<vars, contracts, delivered, halted>>
  BY DEF AppendRevised
<1>2. job \in PlanJobs
  BY <1>1, JobIsPlan DEF Inv
<1>3. /\ job' \in PlanJobs /\ job.rev \in 0 .. MaxIterations /\ job.plan \in Plans
      /\ job'.at = "session" /\ job'.plan = job.plan /\ job'.rev = job.rev
  BY <1>1, <1>2 DEF PlanJobs
<1>4. TypeOK' /\ AcceptedIsEarned' /\ JudgedByItsContracts'
  BY <1>1 DEF Inv, vars, TypeOK, AcceptedIsEarned, JudgedByItsContracts, Accepted
<1>5. DeliveryTypeOK'
  BY <1>1, <1>3 DEF Inv, DeliveryTypeOK
<1>6. ContractsFollow'
  BY <1>1, <1>3, SessionAssumption DEF Inv, vars, ContractsFollow
<1> QED
  BY <1>4, <1>5, <1>6 DEF Inv

LEMMA FinishPlanInv == ASSUME Inv, FinishPlan PROVE Inv'
<1>1. /\ job.at = "session" /\ PlanWritten /\ job' = Idle /\ halted' = FALSE
      /\ UNCHANGED <<planRecord, facts, drafted, reviewed, approved, rev, contracts, delivered>>
  BY DEF FinishPlan
<1>2. st' \in SessionState /\ ~Accepted'
  BY <1>1, PlanWrittenType, KernelNeverAccepts DEF Inv, Accepted
<1>3. TypeOK' /\ DeliveryTypeOK'
  BY <1>1, <1>2 DEF Inv, TypeOK, DeliveryTypeOK
<1>4. AcceptedIsEarned' /\ JudgedByItsContracts'
  BY <1>2 DEF AcceptedIsEarned, JudgedByItsContracts
<1>5. ContractsFollow'
  BY <1>1 DEF Inv, ContractsFollow, Idle
<1> QED
  BY <1>3, <1>4, <1>5 DEF Inv

LEMMA StopInv == ASSUME Inv, Stop PROVE Inv'
<1>1. /\ job # Idle /\ job' = Idle
      /\ halted' = (halted \/ job.at \in {"draft", "revised"})
      /\ UNCHANGED <<vars, rev, contracts, delivered>>
  BY DEF Stop
<1>2. TypeOK' /\ DeliveryTypeOK'
  BY <1>1 DEF Inv, vars, TypeOK, DeliveryTypeOK
<1>3. AcceptedIsEarned' /\ JudgedByItsContracts'
  BY <1>1 DEF Inv, vars, AcceptedIsEarned, JudgedByItsContracts, Accepted
<1>4. ContractsFollow'
  BY <1>1 DEF Inv, vars, ContractsFollow, Idle
<1> QED
  BY <1>2, <1>3, <1>4 DEF Inv

-----------------------------------------------------------------------------
(* /implement. *)

\* What is credited to a run was touched while it ran.
LEMMA CreditedIsTouched ==
    ASSUME NEW before, NEW touched, NEW after \in SUBSET (before \cup touched)
    PROVE  Changed(before, touched, after) \subseteq touched
  BY DEF Changed

LEMMA ImplementRefusedInv == ASSUME Inv, ImplementRefused PROVE Inv'
<1>1. /\ job = Idle /\ Implement("refused") /\ delivered' = Nothing
      /\ UNCHANGED <<rev, contracts, job, halted>>
  BY DEF ImplementRefused
<1>2. TypeOK'
  BY <1>1, ImplementType DEF Inv, ImplementOutcomes
<1>3. ~Accepted' /\ planRecord' = planRecord
  BY <1>1 DEF Implement, Accepted, Inv, TypeOK, SessionState
<1>4. Nothing \in Deliveries
  BY TextType, DeliveryAssumption DEF Nothing, Deliveries, NoText
<1>5. DeliveryTypeOK' /\ ContractsFollow'
  BY <1>1, <1>3, <1>4 DEF Inv, DeliveryTypeOK, ContractsFollow
<1> QED
  BY <1>2, <1>3, <1>5 DEF Inv, AcceptedIsEarned, JudgedByItsContracts

LEMMA ImplementExecutedInv ==
    ASSUME Inv, NEW before \in SUBSET (Files \ Governed), NEW touched \in SUBSET Files,
           NEW after \in SUBSET (before \cup touched), NEW well \in BOOLEAN,
           ImplementExecuted(before, touched, after, well)
    PROVE  Inv'
<1> DEFINE changed == Changed(before, touched, after)
           good == Compliant(changed, well)
           run == [text |-> Text(planRecord, rev), contracts |-> contracts, touched |-> touched]
<1>1. /\ job = Idle
      /\ Implement(IF good THEN "review_complete" ELSE "blocked")
      /\ delivered' = IF good THEN run ELSE Nothing
      /\ UNCHANGED <<rev, contracts, job, halted>>
  BY DEF ImplementExecuted
<1>2. changed \subseteq touched
  BY CreditedIsTouched
<1>3. good => /\ RequirementsOf(contracts) # {}
              /\ \A r \in RequirementsOf(contracts) : r \cap Domain(touched) # {}
  BY <1>2 DEF Compliant, Domain
<1> HIDE DEF changed
<1>4. TypeOK'
  BY <1>1, ImplementType DEF Inv, ImplementOutcomes
<1>5. planRecord' = planRecord /\ (Accepted' => good)
  BY <1>1 DEF Implement, Accepted, Inv, TypeOK, SessionState
<1> HIDE DEF good
<1>6. Nothing \in Deliveries /\ run \in Deliveries
  BY TextType, DeliveryAssumption DEF Nothing, Deliveries, NoText, Inv, TypeOK, DeliveryTypeOK
<1>7. DeliveryTypeOK' /\ ContractsFollow'
  BY <1>1, <1>5, <1>6 DEF Inv, DeliveryTypeOK, ContractsFollow
<1>8. AcceptedIsEarned'
  BY <1>1, <1>3, <1>5 DEF AcceptedIsEarned
<1>9. JudgedByItsContracts'
  <2>1. planRecord = NoPlan => Text(planRecord, rev) = NoText
    BY DEF Inv, ContractsFollow, NoText
  <2>2. planRecord # NoPlan /\ ~halted => contracts = Text(planRecord, rev)
    BY <1>1 DEF Inv, ContractsFollow, Idle
  <2> QED
    BY <1>1, <1>5, <2>1, <2>2 DEF JudgedByItsContracts
<1> QED
  BY <1>4, <1>7, <1>8, <1>9 DEF Inv

LEMMA BesideInv == ASSUME Inv, Beside PROVE Inv'
<1>1. /\ job = Idle
      /\ (OtherRails /\ UNCHANGED rev) \/ (NewWork /\ rev' = 0)
      /\ delivered' = IF Accepted' THEN delivered ELSE Nothing
      /\ UNCHANGED <<contracts, job, halted>>
  BY DEF Beside, LeavesDelivery
<1>2. TypeOK' /\ ~Accepted'
  BY <1>1, BesideType, BesideNeverAccepts DEF Inv
<1>3. Nothing \in Deliveries
  BY TextType, DeliveryAssumption DEF Nothing, Deliveries, NoText
<1>4. DeliveryTypeOK'
  BY <1>1, <1>2, <1>3, DeliveryAssumption DEF Inv, DeliveryTypeOK
<1>5. ContractsFollow'
  BY <1>1, BesideRecord DEF Inv, ContractsFollow, Idle
<1> QED
  BY <1>2, <1>4, <1>5 DEF Inv, AcceptedIsEarned, JudgedByItsContracts

-----------------------------------------------------------------------------

LEMMA InitInv == DInit => Inv
<1> SUFFICES ASSUME DInit PROVE Inv
  OBVIOUS
<1>1. TypeOK
  BY InitType DEF DInit
<1>2. NoText \in Texts /\ Nothing \in Deliveries
  BY TextType, DeliveryAssumption DEF Nothing, Deliveries, NoText
<1>3. DeliveryTypeOK
  <2>1. 0 \in 0 .. MaxIterations
    BY DeliveryAssumption
  <2> QED
    BY <1>2, <2>1 DEF DInit, DeliveryTypeOK
<1>4. ~Accepted
  BY DEF DInit, Init, FreshState, Accepted
<1>5. ContractsFollow
  BY DEF DInit, Init, ContractsFollow, Idle
<1> QED
  BY <1>1, <1>3, <1>4, <1>5 DEF Inv, AcceptedIsEarned, JudgedByItsContracts

LEMMA StepInv == Inv /\ [DNext]_<<vars, dvars>> => Inv'
<1> SUFFICES ASSUME Inv, [DNext]_<<vars, dvars>> PROVE Inv'
  OBVIOUS
<1>1. CASE UNCHANGED <<vars, dvars>>
  BY <1>1 DEF Inv, vars, dvars, TypeOK, DeliveryTypeOK, ContractsFollow, AcceptedIsEarned,
     JudgedByItsContracts, Accepted
<1>2. CASE PlanStep
  BY <1>2, ReviewInv, PersistContractsInv, AppendDraftInv, AppendRevisedInv, FinishPlanInv
     DEF PlanStep
<1>3. CASE ImplementRun
  BY <1>3, ImplementExecutedInv DEF ImplementRun
<1> QED
  BY <1>1, <1>2, <1>3, StartPlanInv, ImplementRefusedInv, StopInv, BesideInv DEF DNext

\* /plan in its steps leaves a well-formed session as well.
THEOREM DeliveryTypeCorrect == DSpec => [](TypeOK /\ DeliveryTypeOK)
  BY InitInv, StepInv, PTL DEF DSpec, Inv

\* The session never shows an implementation accepted that does not meet every
\* requirement by a file changed while it ran.
THEOREM AcceptanceIsEarned == DSpec => []AcceptedIsEarned
  BY InitInv, StepInv, PTL DEF DSpec, Inv

\* Nor one that was held to the contracts of another text than the one its
\* executor was given, unless a /plan was stopped.
THEOREM ContractsAreThePlans == DSpec => []JudgedByItsContracts
  BY InitInv, StepInv, PTL DEF DSpec, Inv

-----------------------------------------------------------------------------
(* To the session, /plan and /implement are single steps: the refinement of  *)
(* GovernanceSession.  Its operators are first shown to be those of the      *)
(* session that the record and the drafts are mapped into.                   *)

\* execute() knows neither the record nor the drafts.
LEMMA ExecuteSame ==
    \A requested, s, ready, f :
        Session!Execute(requested, s, ready, f) = Execute(requested, s, ready, f)
BY DEF Execute, ExecuteAt, Requestable, Blocked, KernelResult, StaticNext, DefaultGate, Stays,
   Selected, Passes, PipelineAutoApproveEligible, AutoEdge, AtEvidenceGate,
   InternalReviewComplete, ReworkPending, BusinessRulesExecuted, RollbackSafetyApplies,
   CanPromote, TerminalValues, P54Status, MaxReviewIterations, PhaseRank, Tokens,
   Transitions, Edge, FromTicket, FromArchitecture, FromTestQuality, FromBusinessRules,
   FromTechnicalDebt, FromRollbackSafety, FromReview,
   Session!Execute, Session!ExecuteAt, Session!Requestable, Session!Blocked,
   Session!KernelResult, Session!StaticNext, Session!DefaultGate, Session!Stays,
   Session!Selected, Session!Passes, Session!PipelineAutoApproveEligible, Session!AutoEdge,
   Session!AtEvidenceGate, Session!InternalReviewComplete, Session!ReworkPending,
   Session!BusinessRulesExecuted, Session!RollbackSafetyApplies, Session!CanPromote,
   Session!TerminalValues, Session!P54Status, Session!MaxReviewIterations, Session!PhaseRank,
   Session!Tokens, Session!Transitions, Session!Edge, Session!FromTicket,
   Session!FromArchitecture, Session!FromTestQuality, Session!FromBusinessRules,
   Session!FromTechnicalDebt, Session!FromRollbackSafety, Session!FromReview

\* Nor do the steps that look at the session alone.
LEMMA StepsSame ==
    \A s :
        /\ \A phase, gate : Session!ConsumeRework(s, phase, gate) = ConsumeRework(s, phase, gate)
        /\ Session!Requested(s) = Requested(s)
        /\ Session!ReviewLoop(s) = ReviewLoop(s)
        /\ Session!SyncGates(s) = SyncGates(s)
        /\ Session!Normalize(s) = Normalize(s)
        /\ Session!AutoApprove(s) = AutoApprove(s)
<1> SUFFICES ASSUME NEW s
             PROVE  /\ \A phase, gate :
                          Session!ConsumeRework(s, phase, gate) = ConsumeRework(s, phase, gate)
                    /\ Session!Requested(s) = Requested(s)
                    /\ Session!ReviewLoop(s) = ReviewLoop(s)
                    /\ Session!SyncGates(s) = SyncGates(s)
                    /\ Session!Normalize(s) = Normalize(s)
                    /\ Session!AutoApprove(s) = AutoApprove(s)
  OBVIOUS
<1>1. \A phase, gate : Session!ConsumeRework(s, phase, gate) = ConsumeRework(s, phase, gate)
  BY DEF ConsumeRework, ReworkActive, Session!ConsumeRework, Session!ReworkActive
<1>2. Session!Requested(s) = Requested(s) /\ Session!AutoApprove(s) = AutoApprove(s)
  BY DEF Requested, AutoApprove, Session!Requested, Session!AutoApprove
<1>3. Session!ReviewLoop(s) = ReviewLoop(s)
  BY DEF ReviewLoop, AfterLoop, LoopVerdicts, MaxReviewIterations,
     Session!ReviewLoop, Session!AfterLoop, Session!LoopVerdicts, Session!MaxReviewIterations
<1>4. Session!SyncGates(s) = SyncGates(s)
  BY DEF SyncGates, P5Gates, P54Status, P55Status, P56Status, BusinessRulesExecuted,
     Session!SyncGates, Session!P5Gates, Session!P54Status, Session!P55Status,
     Session!P56Status, Session!BusinessRulesExecuted
<1>5. Session!Normalize(s) = Normalize(s)
  BY DEF Normalize, NormalizerOpenGates, OpenGates, P5Gates, TerminalValues, P54Status,
     BusinessRulesExecuted, ResetToGate, PhaseOfGate, CorrectedGate, CompleteStaleReview,
     MaxReviewIterations, GatePriority,
     Session!Normalize, Session!NormalizerOpenGates, Session!OpenGates, Session!P5Gates,
     Session!TerminalValues, Session!P54Status, Session!BusinessRulesExecuted,
     Session!ResetToGate, Session!PhaseOfGate, Session!CorrectedGate,
     Session!CompleteStaleReview, Session!MaxReviewIterations, Session!GatePriority
<1> QED
  BY <1>1, <1>2, <1>3, <1>4, <1>5

\* Those that look at the record do the same when the record counts as it is.
LEMMA RecordStepsSame ==
    ASSUME SettledRecord = planRecord
    PROVE  \A s :
              /\ Session!PlanReady(s) = PlanReady(s)
              /\ Session!Present(s) = Present(s)
              /\ \A r : /\ Session!WithKernelResult(s, r) = WithKernelResult(s, r)
                        /\ Session!Materialize(s, r) = Materialize(s, r)
<1> SUFFICES ASSUME NEW s
             PROVE  /\ Session!PlanReady(s) = PlanReady(s)
                    /\ Session!Present(s) = Present(s)
                    /\ \A r : /\ Session!WithKernelResult(s, r) = WithKernelResult(s, r)
                              /\ Session!Materialize(s, r) = Materialize(s, r)
  OBVIOUS
<1>1. Session!PlanReady(s) = PlanReady(s)
  BY DEF PlanReady, Session!PlanReady
<1>2. Session!Present(s) = Present(s)
  BY DEF Present, AtEvidenceGate, Session!Present, Session!AtEvidenceGate
<1>3. \A r : Session!Propagate(s.gates, r) = Propagate(s.gates, r)
  BY DEF Propagate, P5Gates, PhaseRank, Tokens,
     Session!Propagate, Session!P5Gates, Session!PhaseRank, Session!Tokens
<1>4. \A r : Session!WithKernelResult(s, r) = WithKernelResult(s, r)
  BY <1>1, <1>3 DEF WithKernelResult, Session!WithKernelResult
<1>5. ASSUME NEW r PROVE Session!Materialize(s, r) = Materialize(s, r)
  <2>1. Session!WithKernelResult(s, r) = WithKernelResult(s, r)
    BY <1>4
  <2> QED
    BY <2>1 DEF Materialize, MinReviewIterations,
       Session!Materialize, Session!MinReviewIterations
<1> QED
  BY <1>1, <1>2, <1>4, <1>5

\* So /continue comes to an outcome it could come to there.
LEMMA OutcomeSame ==
    ASSUME SettledRecord = planRecord, NEW o \in ContinueOutcomes
    PROVE  o \in Session!ContinueOutcomes
<1> DEFINE Kernel(s1) == Execute(Requested(st), SyncGates(s1), PlanReady(s1), facts)
           After(s1, r) == Normalize(SyncGates(Materialize(SyncGates(s1), r)))
           Outcome(s1, r, s2) == [by |-> r.by, ran |-> s1 # st, st |-> Present(s2)]
<1>1. PICK s1 \in ReviewLoop(st) :
         \E r \in Kernel(s1) : \E s2 \in After(s1, r) : o = Outcome(s1, r, s2)
  BY DEF ContinueOutcomes
<1>6. PICK r \in Kernel(s1) : \E s2 \in After(s1, r) : o = Outcome(s1, r, s2)
  BY <1>1
<1>7. PICK s2 \in After(s1, r) : o = Outcome(s1, r, s2)
  BY <1>6
<1>2. s1 \in Session!ReviewLoop(st)
  BY StepsSame
<1>3. r \in Session!Execute(Session!Requested(st), Session!SyncGates(s1), Session!PlanReady(s1), facts)
  <2>1. Session!PlanReady(s1) = PlanReady(s1)
    BY RecordStepsSame
  <2> QED
    BY <2>1, StepsSame, ExecuteSame
<1>4. s2 \in Session!Normalize(Session!SyncGates(Session!Materialize(Session!SyncGates(s1), r)))
  <2>1. Session!Materialize(SyncGates(s1), r) = Materialize(SyncGates(s1), r)
    BY RecordStepsSame
  <2> QED
    BY <2>1, StepsSame
<1>5. o = [by |-> r.by, ran |-> s1 # st, st |-> Session!Present(s2)]
  BY <1>7, RecordStepsSame
<1> QED
  BY <1>2, <1>3, <1>4, <1>5 DEF Session!ContinueOutcomes

Settled == SettledRecord = planRecord /\ SettledDrafts = drafted

\* With no /plan between its writes the other rails are those of the session.
LEMMA RailsSame ==
    ASSUME Settled, Settled'
    PROVE  /\ OtherRails => Session!Rails
           /\ NewWork => Session!NewWork
           /\ \A outcome \in ImplementOutcomes : Implement(outcome) => Session!Rails
<1> USE DEF Settled
<1>1. ASSUME NEW o \in ContinueOutcomes, ContinueWith(o) PROVE Session!Continue
  <2>1. Session!ContinueWith(o)
    BY <1>1, StepsSame
    DEF ContinueWith, Session!ContinueWith, MaxReviewIterations, Session!MaxReviewIterations
  <2> QED
    BY <2>1, OutcomeSame DEF Session!Continue
<1>2. ContinueInterrupted => Session!ContinueInterrupted
  BY OutcomeSame DEF ContinueInterrupted, Session!ContinueInterrupted
<1>3. ASSUME NEW t \in Tickets, Ticket(t) PROVE Session!Ticket(t)
  <2> DEFINE s == [ConsumeRework(st, "4", "Ticket-Input-Gate") EXCEPT !.ticket = t]
  <2>1. PICK r \in Execute(s.phase, s, PlanReady(s), facts) : st' = WithKernelResult(s, r)
    BY <1>3 DEF Ticket
  <2>2. s = [Session!ConsumeRework(st, "4", "Ticket-Input-Gate") EXCEPT !.ticket = t]
    BY StepsSame
  <2> HIDE DEF s
  <2>3. /\ r \in Session!Execute(s.phase, s, Session!PlanReady(s), facts)
        /\ st' = Session!WithKernelResult(s, r)
    BY <2>1, ExecuteSame, RecordStepsSame
  <2> QED
    BY <1>3, <2>2, <2>3 DEF Ticket, Session!Ticket
<1>4. Decidable <=> Session!Decidable
  BY DEF Decidable, AtEvidenceGate, PackageReady,
     Session!Decidable, Session!AtEvidenceGate, Session!PackageReady
<1>5. /\ Approve => Session!Approve
      /\ RequestChanges => Session!RequestChanges
      /\ Reject => Session!Reject
  BY <1>4 DEF Approve, RequestChanges, Reject,
     Session!Approve, Session!RequestChanges, Session!Reject
<1>6. ASSUME NEW outcome \in ImplementOutcomes, Implement(outcome)
      PROVE  Session!Implement(outcome) /\ outcome \in Session!ImplementOutcomes
  <2>1. Session!ImplementAllowed
    BY <1>6, RecordStepsSame DEF Implement, ImplementAllowed, Session!ImplementAllowed
  <2> QED
    BY <1>6, <2>1 DEF Implement, Session!Implement, ImplementOutcomes, Session!ImplementOutcomes
<1>7. NewWork => Session!NewWork
  BY DEF NewWork, P5Gates, Session!NewWork, Session!P5Gates
<1> QED
  BY <1>1, <1>2, <1>3, <1>5, <1>6, <1>7 DEF OtherRails, Continue, Session!Rails

\* What a /plan under way still relies on: the record it has found, until it
\* appends its own, and then the session as it has found it.
UnderWay ==
    /\ job.at \in {"review", "contracts", "draft"} => job.was = planRecord
    /\ Pending => PlanAllowed /\ drafted[job.plan] = st.ticket

LEMMA PlanStepsRefine ==
    ASSUME Inv, UnderWay, PlanStep \/ Stop \/ \E p \in Plans : StartPlan(p)
    PROVE  UnderWay' /\ [Session!Next]_(Session!vars)
<1>1. CASE \E p \in Plans : StartPlan(p)
  <2>1. PICK p \in Plans, calls \in BOOLEAN :
          /\ job = Idle
          /\ job' = [at |-> "review", plan |-> p, was |-> planRecord, rev |-> 0,
                     whole |-> ~HasFindings(p), iter |-> 0, calls |-> calls]
          /\ UNCHANGED vars
    BY <1>1 DEF StartPlan
  <2>2. ~Pending /\ ~Pending'
    BY <2>1 DEF Pending, Idle
  <2> QED
    BY <2>1, <2>2 DEF UnderWay, Session!vars, SettledRecord, SettledDrafts, vars
<1>2. ASSUME NEW answer, Review(answer) PROVE UnderWay' /\ UNCHANGED Session!vars
  <2>1. job.at = "review" /\ job'.at \in {"review", "contracts"} /\ job'.was = job.was /\ UNCHANGED vars
    <3>1. job.at = "review" /\ UNCHANGED vars
      BY <1>2 DEF Review
    <3>2. job \in PlanJobs
      BY <3>1, JobIsPlan DEF Inv
    <3> QED
      BY <1>2, <3>1, <3>2 DEF Review, PlanJobs
  <2>2. ~Pending /\ ~Pending'
    BY <2>1 DEF Pending
  <2> QED
    BY <2>1, <2>2 DEF UnderWay, Session!vars, SettledRecord, SettledDrafts, vars
<1>3. ASSUME PersistContracts PROVE UnderWay' /\ UNCHANGED Session!vars
  <2>1. job.at = "contracts" /\ job'.at = "draft" /\ job'.was = job.was /\ UNCHANGED vars
    <3>1. job.at = "contracts"
      BY <1>3 DEF PersistContracts
    <3>2. job \in PlanJobs
      BY <3>1, JobIsPlan DEF Inv
    <3> QED
      BY <1>3, <3>1, <3>2 DEF PersistContracts, PlanJobs
  <2>2. ~Pending /\ ~Pending'
    BY <2>1 DEF Pending
  <2> QED
    BY <2>1, <2>2 DEF UnderWay, Session!vars, SettledRecord, SettledDrafts, vars
<1>4. ASSUME AppendDraft PROVE UnderWay' /\ UNCHANGED Session!vars
  <2>1. job.at = "draft" /\ RecordPlan(job.plan) /\ UNCHANGED st
    BY <1>4 DEF AppendDraft
  <2>2. job \in PlanJobs
    BY <2>1, JobIsPlan DEF Inv
  <2>3. job'.at \in {"revised", "session"} /\ job'.was = job.was /\ job'.plan = job.plan
    BY <1>4, <2>2 DEF AppendDraft, PlanJobs
  <2>4. job.plan \in Plans /\ drafted \in [Plans -> Tickets \cup {NoTicket}]
    BY <2>2 DEF PlanJobs, Inv, TypeOK
  <2>5. ~Pending /\ Pending' /\ job.was = planRecord
    BY <2>1, <2>3 DEF Pending, UnderWay
  <2>6. /\ drafted[job.plan] = NoTicket /\ drafted' = [drafted EXCEPT ![job.plan] = st.ticket]
        /\ PlanAllowed /\ UNCHANGED <<facts, reviewed, approved>>
    BY <2>1 DEF RecordPlan
  <2>7. [drafted' EXCEPT ![job.plan] = NoTicket] = drafted
    BY <2>4, <2>6
  <2>8. PlanAllowed'
    BY <2>1, <2>6 DEF PlanAllowed, ConsumeRework, ReworkActive
  <2>9. UnderWay'
    BY <2>1, <2>3, <2>4, <2>6, <2>8 DEF UnderWay
  <2> QED
    BY <2>1, <2>3, <2>5, <2>6, <2>7, <2>9 DEF Session!vars, SettledRecord, SettledDrafts
<1>5. ASSUME AppendRevised PROVE UnderWay' /\ UNCHANGED Session!vars
  <2>1. job.at = "revised" /\ UNCHANGED vars
    BY <1>5 DEF AppendRevised
  <2>2. job \in PlanJobs
    BY <2>1, JobIsPlan DEF Inv
  <2>3. job'.at = "session" /\ job'.was = job.was /\ job'.plan = job.plan
    BY <1>5, <2>2 DEF AppendRevised, PlanJobs
  <2>4. Pending /\ Pending'
    BY <2>1, <2>3 DEF Pending
  <2>5. PlanAllowed'
    BY <2>1, <2>4 DEF UnderWay, vars, PlanAllowed, ConsumeRework, ReworkActive
  <2> QED
    BY <2>1, <2>3, <2>4, <2>5 DEF UnderWay, Session!vars, SettledRecord, SettledDrafts, vars
<1>6. ASSUME Pending, job' = Idle, UNCHANGED <<planRecord, facts, drafted, reviewed, approved>>
      PROVE  /\ job.plan \in Plans /\ UnderWay' /\ Session!RecordPlan(job.plan)
             /\ SettledRecord' = planRecord /\ SettledDrafts' = drafted
  <2>1. job.at # "none"
    BY <1>6 DEF Pending
  <2>2. job \in PlanJobs
    BY <2>1, JobIsPlan DEF Inv
  <2>3. job.plan \in Plans /\ drafted \in [Plans -> Tickets \cup {NoTicket}]
    BY <2>2 DEF PlanJobs, Inv, TypeOK
  <2>4. ~Pending' /\ job'.at = "none"
    BY <1>6 DEF Pending, Idle
  <2>5. planRecord = job.plan /\ PlanAllowed /\ drafted[job.plan] = st.ticket
    BY <1>6 DEF Pending, UnderWay, Inv, ContractsFollow
  <2>6. Session!PlanAllowed
    BY <2>5, StepsSame DEF PlanAllowed, Session!PlanAllowed
  <2>7. SettledDrafts[job.plan] = NoTicket
    BY <1>6, <2>3 DEF SettledDrafts
  <2>8. SettledRecord' = planRecord /\ SettledDrafts' = drafted
    BY <1>6, <2>4 DEF SettledRecord, SettledDrafts
  <2>9. drafted = [SettledDrafts EXCEPT ![job.plan] = st.ticket]
    BY <1>6, <2>3, <2>5 DEF SettledDrafts
  <2>10. UnderWay'
    BY <2>4 DEF UnderWay
  <2> QED
    BY <1>6, <2>3, <2>5, <2>6, <2>7, <2>8, <2>9, <2>10 DEF Session!RecordPlan
<1>7. ASSUME FinishPlan PROVE UnderWay' /\ Session!Rails
  <2>1. /\ job.at = "session" /\ PlanWritten /\ job' = Idle /\ Pending
        /\ UNCHANGED <<planRecord, facts, drafted, reviewed, approved>>
    BY <1>7 DEF FinishPlan, Pending
  <2>2. job.plan \in Plans /\ UnderWay' /\ Session!RecordPlan(job.plan)
    BY <1>6, <2>1
  <2>3. Session!PlanWritten
    <3> DEFINE s == [ConsumeRework(st, "5", "Plan-Record-Preparation-Gate")
                        EXCEPT !.p5met = TRUE, !.contracts = TRUE]
    <3>1. PICK r \in Execute("5", s, TRUE, facts) :
            st' = [WithKernelResult(s, r) EXCEPT !.planSeen = TRUE]
      BY <2>1 DEF PlanWritten
    <3>2. s = [Session!ConsumeRework(st, "5", "Plan-Record-Preparation-Gate")
                   EXCEPT !.p5met = TRUE, !.contracts = TRUE]
      BY StepsSame
    <3>3. r \in Session!Execute("5", s, TRUE, facts)
      BY <3>1, ExecuteSame
    <3>4. Session!Propagate(s.gates, r) = Propagate(s.gates, r)
      BY DEF Propagate, P5Gates, PhaseRank, Tokens,
         Session!Propagate, Session!P5Gates, Session!PhaseRank, Session!Tokens
    <3>5. [WithKernelResult(s, r) EXCEPT !.planSeen = TRUE]
            = [Session!WithKernelResult(s, r) EXCEPT !.planSeen = TRUE]
      <4> HIDE DEF s
      <4> QED
        BY <3>4 DEF WithKernelResult, Session!WithKernelResult
    <3> HIDE DEF s
    <3> QED
      BY <3>1, <3>2, <3>3, <3>5 DEF Session!PlanWritten
  <2> QED
    BY <2>2, <2>3 DEF Session!Rails, Session!Plan
<1>8. ASSUME Stop PROVE UnderWay' /\ (Session!Rails \/ UNCHANGED Session!vars)
  <2>1. job' = Idle /\ UNCHANGED vars
    BY <1>8 DEF Stop
  <2>2. CASE Pending
    <3>1. job.plan \in Plans /\ UnderWay' /\ Session!RecordPlan(job.plan)
      BY <1>6, <2>1, <2>2 DEF vars
    <3> QED
      BY <2>1, <3>1 DEF Session!Rails, Session!PlanInterrupted, vars
  <2>3. CASE ~Pending
    <3>1. ~Pending' /\ job'.at = "none"
      BY <2>1 DEF Pending, Idle
    <3> QED
      BY <2>1, <2>3, <3>1 DEF UnderWay, Session!vars, SettledRecord, SettledDrafts, vars
  <2> QED
    BY <2>2, <2>3
<1> QED
  BY <1>1, <1>2, <1>3, <1>4, <1>5, <1>7, <1>8 DEF PlanStep, Session!Next

\* The other commands run while no /plan does.
LEMMA OthersRefine ==
    ASSUME UnderWay, ImplementRefused \/ ImplementRun \/ Beside
    PROVE  UnderWay' /\ Session!Next
<1>1. job = Idle /\ job' = job
  BY DEF ImplementRefused, ImplementRun, ImplementExecuted, Beside, LeavesDelivery
<1>2. Settled /\ Settled' /\ UnderWay'
  BY <1>1 DEF Settled, SettledRecord, SettledDrafts, Pending, UnderWay, Idle
<1>3. CASE Beside
  BY <1>2, <1>3, RailsSame DEF Beside, Session!Next
<1>4. CASE ImplementRefused
  BY <1>2, <1>4, RailsSame DEF ImplementRefused, ImplementOutcomes, Session!Next
<1>5. CASE ImplementRun
  <2>1. PICK good \in BOOLEAN : Implement(IF good THEN "review_complete" ELSE "blocked")
    <3>1. PICK before, touched, well, after : ImplementExecuted(before, touched, after, well)
      BY <1>5 DEF ImplementRun
    <3> DEFINE good == Compliant(Changed(before, touched, after), well)
    <3>2. Implement(IF good THEN "review_complete" ELSE "blocked")
      BY <3>1 DEF ImplementExecuted
    <3> HIDE DEF good
    <3> QED
      BY <3>2
  <2>2. \E outcome \in ImplementOutcomes : Implement(outcome)
    BY <2>1 DEF ImplementOutcomes
  <2> QED
    BY <1>2, <2>2, RailsSame DEF Session!Next
<1> QED
  BY <1>2, <1>3, <1>4, <1>5

LEMMA InitRefines == DInit => UnderWay /\ Session!Init
<1> SUFFICES ASSUME DInit PROVE UnderWay /\ Session!Init
  OBVIOUS
<1>1. ~Pending /\ job.at = "none"
  BY DEF DInit, Pending, Idle
<1>2. Session!FreshState = FreshState
  BY DEF FreshState, P5Gates, Session!FreshState, Session!P5Gates
<1> QED
  BY <1>1, <1>2 DEF DInit, Init, Session!Init, UnderWay, SettledRecord, SettledDrafts

\* /plan in its steps, stopped between any two of them, and /implement on files
\* that go on changing, are to the session the single steps GovernanceSession
\* makes of them: what is proved of Spec holds of the delivery as well.
THEOREM DeliveryImplementsSession == DSpec => SessionImplemented
<1>1. Inv /\ UnderWay /\ [DNext]_<<vars, dvars>> => UnderWay' /\ [Session!Next]_(Session!vars)
  <2> SUFFICES ASSUME Inv, UnderWay, [DNext]_<<vars, dvars>>
               PROVE  UnderWay' /\ [Session!Next]_(Session!vars)
    OBVIOUS
  <2>1. CASE UNCHANGED <<vars, dvars>>
    <3>1. PlanAllowed' = PlanAllowed
      BY <2>1 DEF vars, PlanAllowed, ConsumeRework, ReworkActive
    <3> QED
      BY <2>1, <3>1 DEF UnderWay, Pending, Session!vars, SettledRecord, SettledDrafts, vars, dvars
  <2> QED
    BY <2>1, PlanStepsRefine, OthersRefine DEF DNext
<1> QED
  BY InitInv, StepInv, InitRefines, <1>1, PTL DEF DSpec, SessionImplemented, Session!Spec
=============================================================================
