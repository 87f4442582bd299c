SPECIFICATION FairSpec
CONSTANTS
    worker = worker
    admin = admin
    Worker = worker
    Admins = {admin}
    FailureThreshold = 2
    RecoveryThreshold = 1
    MaxFlips = 2
    MaxPeaks = 0
    MaxErrors = 0
    MaxLost = 0
    MaxBlind = 0
    MaxManual = 1
    MaxCrashes = 0
PROPERTY FailsOver
