SPECIFICATION Spec
CONSTANTS
    Absent = Absent
    MaxRuns = 2
    MaxDay = 2
    Hosts <- Kinds
    MaxEvents = 3
    ApprovalRequests <- Asked
INVARIANTS NoRunLost ArchivesAreWhole SealedMeetsContract SealedIsApproved
PROPERTIES PurgedIsArchived LedgerImplemented
CHECK_DEADLOCK FALSE
