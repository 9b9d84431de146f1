CONSTANTS
    w1 = w1
    w2 = w2
    u1 = u1
    v1 = v1
    x1 = x1
    t1 = t1
    t2 = t2
    t3 = t3
    t4 = t4
    Null = Null
    Handlers = {w1, w2}
    Accounts = {u1, v1, x1}
    Sellers = {v1}
    Suspended = {x1}
    Ids = {t1, t2, t3}
    MaxVersion = 1
SYMMETRY Symmetry
SPECIFICATION MCSpec
INVARIANTS
    RotationLinks
PROPERTIES
    WithdrawnStaysOut
    OldPasswordStaysOut
CHECK_DEADLOCK FALSE
