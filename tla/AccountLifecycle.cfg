CONSTANTS
    w1 = w1
    w2 = w2
    s1 = s1
    s2 = s2
    kim = kim
    lee = lee
    None = None
    Workers = {w1, w2}
    Subjects = {s1, s2}
    RealNames = {kim, lee}
    Wanted <- OneNickname
    MaxAccounts = 2
SYMMETRY Symmetry
SPECIFICATION MCSpec
INVARIANTS
    OneHomePerSubject
PROPERTIES
    WithdrawnStaysGone
CHECK_DEADLOCK FALSE
