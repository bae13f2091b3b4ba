SPECIFICATION WorkRun
CONSTANTS
  NoTicket = NoTicket
  NoPlan = NoPlan
  Tickets = {t1}
  Plans = {p1}
  RepoFacts <- JustCalm
PROPERTY BlockingVerdictStands
