CONSTANTS
    None = None
    Callers = {c1, c2, c3}
    Keys = {k1}
    Limit = 2
    Window = 3
SPECIFICATION Spec
INVARIANTS IInv BurstBounded
PROPERTIES NeverProlonged LostByFailure WindowEndsUnlessLost
