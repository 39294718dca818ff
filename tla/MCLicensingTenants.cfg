CONSTANTS
    o1 = o1
    p1 = p1
    None = None
    Requests = {r1, r2}
    Orgs = {o1, o2}
    Products = {p1}
    ProductOrg <- OneOwner
    Licenses = {l1, l2}
    ActivationIds = {a1}
    Fingerprints = {f1}
    SeatCounts = {1}
    Expiries = {None}
    MaxTime = 0
SPECIFICATION Spec
SYMMETRY Symmetry
INVARIANTS AuditTruthful
PROPERTIES OwnerChangesOnly ValidMachineSeated
