SPECIFICATION FairSpec
CONSTANTS
    p1 = p1
    p2 = p2
    Ports = {p1, p2}
    Sold = {p1}
    Remote = TRUE
    External = FALSE
    Backup = FALSE
    MaxFaults = 2
    MaxCrashes = 0
    MaxLapses = 1
    MaxFlips = 0
PROPERTY LapsedStopServing
