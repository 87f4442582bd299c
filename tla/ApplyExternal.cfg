SPECIFICATION Spec
CONSTANTS
    p1 = p1
    p2 = p2
    Ports = {p1, p2}
    Sold = {p1}
    Remote = FALSE
    External = TRUE
    Backup = FALSE
    MaxFaults = 1
    MaxCrashes = 1
    MaxLapses = 1
    MaxFlips = 0
PROPERTY MarkerClearedOnceLoaded
