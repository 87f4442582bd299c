CONSTANTS
    Customers = {c1}
    Plans = {basic}
    Terms <- MCTerms
    OrderIds = {o1, o2}
    ServiceIds = {s1}
    PortIds = {p1}
    ListenPorts = {1}
    AutoPorts = {1}
    Expiries = {0, 2}
    Limits = {0}
    OrderExpiry = 1
    Nobody = Nobody
    MaxTime = 3
    MaxUsage = 1
    MaxSubmissions = 2
SYMMETRY RowSymmetry
SPECIFICATION Spec
INVARIANTS TypeOK ReviewsFollowTheOrder
PROPERTIES OrderLifecycle SoldAsOrdered
