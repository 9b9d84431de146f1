CONSTANTS
    w1 = w1
    w2 = w2
    p1 = p1
    i1 = i1
    i2 = i2
    i3 = i3
    g1 = g1
    g2 = g2
    o1 = o1
    o2 = o2
    t1 = t1
    t2 = t2
    k1 = k1
    Store = Store
    Keep = Keep
    None = None
    Workers = {w1}
    Ids <- Id
    MAX_PRODUCT_IMAGES = 2
    MIN_PRODUCT_IMAGES = 1
    Prices <- TwoPrices
    Mins <- TwoMins
    Maxes <- TwoMaxes
    Keys = {k1}
    Ranks <- OneRank
SPECIFICATION MCSpec
PROPERTY RepliesShowLiveRows
CHECK_DEADLOCK FALSE
