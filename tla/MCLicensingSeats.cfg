CONSTANTS
    o1 = o1
    p1 = p1
    None = None
    Requests = {r1, r2}
    Orgs = {o1}
    Products = {p1}
    ProductOrg <- OneOwner
    Licenses = {l1}
    ActivationIds = {a1, a2, a3}
    Fingerprints = {f1, f2}
    SeatCounts = {0, 1, 2}
    Expiries = {0, 1, None}
    MaxTime = 1
SPECIFICATION Spec
SYMMETRY Symmetry
INVARIANTS SeatOverrunBounded MachineOverrunBounded IInv
PROPERTIES DeadLicenseRefused ImplementsLedger
