SPECIFICATION Spec
CONSTANTS
    Ports = {p1, p2}
    Sold = {p1}
    Remote = TRUE
    External = FALSE
    Backup = TRUE
    MaxFaults = 1
    MaxCrashes = 1
    MaxLapses = 1
    MaxFlips = 1
INVARIANTS TypeOK FilesFollowDatabase CommittedPortsServed BackupRunsItsFile
