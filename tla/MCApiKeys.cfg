CONSTANTS
    None = None
    Requests = {r1, r2}
    Orgs = {o1, o2}
    Keys = {k1, k2}
    TagOf <- Live
    Secret <- MCSecret
    PrefixLen = 2
    NoPrefix = NoPrefix
    PageLimit = 1
    Granted = {"license_manager", "validate_only"}
SPECIFICATION Spec
SYMMETRY Symmetry
INVARIANTS AuditTruthful IInv
PROPERTIES RevokedKeyRefused IrrevocableForever OwnerRevokesOnly
