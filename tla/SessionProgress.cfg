SPECIFICATION FairDelivery
CONSTANTS
  NoTicket = NoTicket
  NoPlan = NoPlan
  p1 = p1
  p2 = p2
  reader = reader
  governed = governed
  Tickets = {t1}
  Plans = {p1, p2}
  RepoFacts <- JustCalm
  Files = {reader, governed}
  Governed = {governed}
  Reader = reader
  Whole = {p1}
  Requirements <- MCRequirements
  MaxIterations = 2
INVARIANTS AcceptedIsEarned JudgedByItsContracts
PROPERTY PlanGetsDecided
PROPERTY SessionImplemented
