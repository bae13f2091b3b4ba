SPECIFICATION FairSpec
CONSTANTS
  Procs = {p1, p2}
  Spaces = {w1}
  Home <- Together
  None = None
  MaxCrashes = 1
PROPERTY StuckLockIsReclaimed
