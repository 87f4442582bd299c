SPECIFICATION Spec
CONSTANTS
    Periods = {1, 7}
    FirstPeriod = 7
    Records = {i1, i2}
    Everything = Everything
    Closed = Closed
    Nothing = Nothing
    Unread = Unread
    MaxVersion = 2
    MaxInFlight = 3
    MaxLost = 2
    Calls = {c1, c2}
    Installers = {w1, w2}
    Orders = {o1, o2}
    Services = {s1}
    Files = {f1}
    Absent = Absent
    RenewalOf <- MCRenewalOf
    MaxOrderRev = 2
    MaxWire = 3
    Entries = {0, 1}
    MaxCandidates = 2
    Nodes = {n1, n2}
INVARIANTS PartsTypeOK BlankExplained ReportedOnce SnapshotHonest OneFrameLoop ScrollRestored
PROPERTIES PanesFresh PanesCatchUp PortalPages
CHECK_DEADLOCK FALSE
