CONSTANTS
    w1 = w1
    w2 = w2
    s1 = s1
    s2 = s2
    p1 = p1
    p2 = p2
    c1 = c1
    c2 = c2
    t1 = t1
    Blank = Blank
    Keep = Keep
    Null = Null
    Handlers = {w1, w2}
    Stores = {s1, s2}
    Products = {p1, p2}
    StoreOf <- Home
    Banners = {b1}
    Topics = {f1}
    Urls = {u1}
    Labels <- Label
    Texts = {Blank, hello}
SYMMETRY Symmetry
SPECIFICATION MCSpec
INVARIANTS
    ContentTypeOK
    ContentStaysHome
    AloneLinkFollowsType
    LabelsOfOneRequest
PROPERTIES
    LostForGood
    OnlyGivenTextsChange
CHECK_DEADLOCK FALSE
