SPECIFICATION FairSpec
CONSTANTS
    Targets = {t1}
    Origins = {panelHost, otherHost}
    Workers = {panelA, panelB}
    FailureThreshold = 2
    MaxRecords = 3
    MaxErrors = 2
    MaxCrashes = 1
INVARIANTS TypeOK IncidentsFollowResults OneAnalysisEach ReportMatchesStatus
PROPERTIES EvidenceDecides FinishedStays EventuallyFinished
\* both diagnosis threads may have ended: nothing is left to be done then
CHECK_DEADLOCK FALSE
