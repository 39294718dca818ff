CONSTANTS
    None = None
    Callers = {c1}
    Keys = {k1}
    Limit = 1
    Window = 2
SPECIFICATION Spec
PROPERTIES WindowEnds
