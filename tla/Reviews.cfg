CONSTANTS
    w1 = w1
    w2 = w2
    w3 = w3
    alice = alice
    bob = bob
    o1 = o1
    o2 = o2
    i1 = i1
    i2 = i2
    None = None
    Workers = {w1, w2, w3}
    Users = {alice, bob}
    Items = {i1, i2}
    Orders = {o1, o2}
    OrderOf <- EachItsOrder
    Buyer <- AliceOrderedAll
    PickedUp = {o1}
    MediaChoices <- SomeMedia
    MAX_IMAGE_COUNT = 10
    MAX_VIDEO_COUNT = 1
    MaxWrites = 3
    MaxComments = 2
SYMMETRY Symmetry
SPECIFICATION MCSpec
INVARIANTS
    NothingOldComesBack
    ToldOncePerLiker
    OffersAgree
PROPERTIES
    OverwrittenOnlyByOverlap
CHECK_DEADLOCK FALSE
