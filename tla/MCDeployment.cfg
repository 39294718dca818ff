CONSTANTS
    None = None
    Instances = {i1, i2}
    Stacks <- MCStacks
    Shared = "shared"
    Statements = 2
    Secrets = {s1, s2}
    Configured = {s1}
    Asked = {"hmac", "ed25519"}
    Products = {p1}
    Licenses = {l1, l2}
    Expiries = {2, None}
    MaxTime = 3
    Second = 3
SPECIFICATION Spec
INVARIANTS ServesMigrated ServesAsConfigured SurvivesRotation OfflineAgrees IInv
PROPERTY StartRaceWon
