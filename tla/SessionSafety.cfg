SPECIFICATION WorkRun
CONSTANTS
  NoTicket = NoTicket
  NoPlan = NoPlan
  Tickets = {t1, t2}
  Plans = {p1, p2}
  RepoFacts <- EveryGate
SYMMETRY Symmetry
INVARIANT DecisionGateClosed DecisionOnCurrentPlan AuthorityBacked
PROPERTY ContinueLeavesNoMixedState ContinueRegressesToOpenGate ReworkNotContinuedAway ImplementsApprovedPlan
