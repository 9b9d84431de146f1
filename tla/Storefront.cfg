CONSTANTS
    w1 = w1
    w2 = w2
    ann = ann
    bob = bob
    None = None
    Workers = {w1, w2}
    Products = {1, 2, 3}
    Stores = {11, 12}
    Categories = {21, 22}
    StoreOf <- Home
    EventCategories = {21}
    Banners = {41, 42}
    Links <- MCLinks
    Customers = {ann}
    Reviews = {31, 32, 33}
    ProductOf <- Reviewed
    Stars <- Rating
    Cropped = {31, 33}
    Asked = {1, 3}
    MaxCakes = 2
    MaxLikes = 1
    MaxSold = 2
    MaxWrites = 2
    Unit = 5040
    Log <- Log1p
SPECIFICATION MCSpec
INVARIANTS
    TypeOK
    ListedOpens
    CountsMatchLists
    ShownAreThere
    RankingFair
CHECK_DEADLOCK FALSE
