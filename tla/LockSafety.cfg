SPECIFICATION FairSpec
CONSTANTS
  Procs = {p1, p2, p3}
  NoOwner = NoOwner
  MaxCrashes = 2
INVARIANT ExclusiveUnlessStolen
PROPERTY AbandonedIsReclaimed
