SPECIFICATION FairSpec
CONSTANTS
    Worker = worker
    Admins = {admin}
    FailureThreshold = 3
    RecoveryThreshold = 2
    MaxFlips = 3
    MaxPeaks = 1
    MaxErrors = 1
    MaxLost = 1
    MaxBlind = 1
    MaxManual = 1
    MaxCrashes = 1
INVARIANT TypeOK
PROPERTIES FailsOverWhenTrusted Recovers SwitchesFollowTheNode
