SPECIFICATION Spec
SYMMETRY Sym
CONSTANTS
    o1 = o1
    o2 = o2
    o3 = o3
    e1 = e1
    e2 = e2
    Objects <- MCObjects
    Events <- MCEvents
    MaxCallbacks = 1
    MaxDepth = 1
INVARIANTS
    NeverDangling
CHECK_DEADLOCK FALSE
