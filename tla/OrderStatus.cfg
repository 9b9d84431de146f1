CONSTANTS
    w1 = w1
    w2 = w2
    w3 = w3
    o1 = o1
    o2 = o2
    s1 = s1
    s2 = s2
    a1 = a1
    a2 = a2
    a3 = a3
    t1 = t1
    t2 = t2
    NoStore = NoStore
    NoTime = NoTime
    Workers = {w1, w2}
    Orders = {o1}
    Stores = {s1, s2}
    Actors = {a1, a3}
    Times = {t1, t2}
    MaxChanges = 4
    StoreOf <- MCStoreOf
    ItemStores <- MCItemStores
SYMMETRY WorkerSymmetry
SPECIFICATION MCSpec
INVARIANTS
    TrailAgrees
    CustomerToldOfEveryStage
PROPERTIES
    PolicyHoldsFromSomePast
    SettledForGood
CHECK_DEADLOCK FALSE
