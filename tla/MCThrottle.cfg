\* Two connections, two limits.
CONSTANTS
    c1 = c1
    c2 = c2
    Sockets = {c1, c2}
    Limits = {2, 3}
    Buffer = 2
    Word = 8
    MaxFailures = 2
SYMMETRY Symmetry
SPECIFICATION LimiterSpec
INVARIANTS BudgetKept CutOnlyAtSwitch
