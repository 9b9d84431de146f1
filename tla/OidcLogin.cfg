CONSTANTS
    w1 = w1
    w2 = w2
    b1 = b1
    b2 = b2
    kakao = kakao
    ann = ann
    shop = shop
    elsewhere = elsewhere
    front = front
    None = None
    Workers = {w1, w2}
    Browsers = {b1, b2}
    Providers = {kakao}
    Logins = {1, 2}
    Subjects = {ann}
    Targets = {shop, elsewhere, front}
    Allowed = {shop, front}
    Frontend = front
SPECIFICATION FairSpec
INVARIANTS
    OwnLoginOnly
PROPERTIES
    CodeLeadsToSession
CHECK_DEADLOCK FALSE
