CONSTANTS
    None = None
    Rows = {r1, r2, r3}
    MaxTime = 2
    MaxLimit = 2
    Limits = {1, 2, 3}
    Calls = {c1}
    HistoryDays = 2
    CounterTTL = 2
    CountCap = 2
    MaxCount = 2
SPECIFICATION Spec
SYMMETRY Symmetry
INVARIANTS IInv WalkComplete HistoryOrdered HistoryExact
