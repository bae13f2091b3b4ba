\* Two changes of a request after the baseline, or one and three of the evidence.
SPECIFICATION Spec
CONSTANTS
    Absent = Absent
    Unset = Unset
    Archives <- MCArchives
    Configs <- MCConfigs
    Exports <- MCExports
    Ages <- MCAges
    HoldIds = {h1}
    Alternatives <- MCAlternatives
    Baselines <- MCBaselines
    NewItems <- MCItems
    PackEdits <- MCPackEdits
    AskCost = 2
    MaxChanges = 5
    MaxTime = 4
    old = old
    new = new
    py1 = py1
    py2 = py2
    Missing = Missing
    Torn = Torn
    Rails = {"plan.md"}
    Payload = {"governance_runtime/VERSION", "VERSION"}
    Plugins = {"audit-new-session.mjs", "retired.mjs"}
    Extras = {"notes.txt"}
    Lockable <- MCLockable
    Order <- MCOrder
    NameOf <- MCNameOf
    Shipped <- MCShipped
    Interpreters = {py1, py2}
    Jobs <- MCJobs
    MaxJobs = 2
    MaxEdits = 1
    MaxStops = 1
    NoFile = NoFile
    KindOf <- MCKindOf
    Clashes <- MCClashes
    Inputs <- MCInputs
    MaxDiscoveries = 2
INVARIANTS
    BundlesAreWhole
    BundlesAreGoverned
    NothingPurgedEarly
    BlocksAreKept
    StrictExitIsBacked
    PackOrderIsSound
    CompletedIsWhole
    UninstallTakesAll
    ViolationsDominate
PROPERTIES
    LossOpensNothing
    UserFilesAreKept
    RefutedRulesStayOut
    FilesSpeakForSession
CHECK_DEADLOCK FALSE
