SPECIFICATION WorkRun
CONSTANTS
  NoTicket = NoTicket
  NoPlan = NoPlan
  Tickets = {t1}
  Plans = {p1, p2}
  RepoFacts <- JustCalm
INVARIANT ReviewedBeforeDecision
