CONSTANTS
    w1 = w1
    w2 = w2
    p1 = p1
    p2 = p2
    p3 = p3
    NoProduct = NoProduct
    Workers = {w1, w2}
    Products = {p1, p2, p3}
    MAX_RECENT_VIEWS = 1
    MaxTime = 3
SYMMETRY Symmetry
SPECIFICATION MCSpec
INVARIANTS
    AtMostMax
CHECK_DEADLOCK FALSE
