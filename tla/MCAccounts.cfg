CONSTANTS
    None = None
    Requests = {r1, r2}
    Orgs = {o1, o2}
    UserIds = {u1, u2}
    Emails = {e1, e2}
SPECIFICATION Spec
SYMMETRY Symmetry
INVARIANTS UniqueUsers SessionsTruthful AuditTruthful IInv
PROPERTIES PrivilegeGranted HeadlessForever
