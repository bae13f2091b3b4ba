SPECIFICATION MCSpec
CONSTANTS
    p1 = p1
    p2 = p2
    r1 = r1
    r2 = r2
    Launchers = {p1, p2}
    Repos = {r1, r2}
    Nothing = Nothing
    b1 = b1
    Rules = {b1, b2}
    MaxEvents = 1
INVARIANTS
    CommitIsBacked
    PointerIsUsable
    IntakeIsEarned
PROPERTIES
    OkReachesIntake
    LoneLaunchSucceeds
CHECK_DEADLOCK FALSE
