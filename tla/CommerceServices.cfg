CONSTANTS
    Customers = {c1}
    Plans = {basic}
    Terms <- MCOneTerm
    OrderIds = {o1, o2, o3}
    ServiceIds = {s1}
    PortIds = {p1, p2}
    ListenPorts = {1, 2}
    AutoPorts = {1, 2}
    Expiries = {0, 2}
    Limits = {0}
    OrderExpiry = 1
    Nobody = Nobody
    MaxTime = 2
    MaxUsage = 1
    MaxSubmissions = 1
SYMMETRY RowSymmetry
SPECIFICATION Spec
INVARIANTS DeliveredOnce RenewalsOfOwnService ServicePortsPaired
PROPERTIES RenewalRestoresService
