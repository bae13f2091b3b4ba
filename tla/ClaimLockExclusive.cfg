SPECIFICATION Spec
CONSTANTS
  Procs = {p1, p2}
  NoOwner = NoOwner
  MaxCrashes = 2
INVARIANT MutualExclusion
