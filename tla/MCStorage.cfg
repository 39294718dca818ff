CONSTANTS
    None = None
    Clients = {c1, c2}
    Ids = {i1, i2}
    Owners = {o1, o2}
    Prefixes = {x}
    Emails = {m}
    MaxConnections = 1
    Workloads <- MCWorkloads
SPECIFICATION Spec
INVARIANTS IInv
PROPERTIES ImplementsContract EveryCallEnds
