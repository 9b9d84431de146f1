------------------------------ MODULE Storefront ------------------------------
(***************************************************************************)
(* What a customer sees: home, storefront, product and store pages, wish   *)
(* list, viewed products and rankings.                                     *)
(*                                                                         *)
(* Each surface asks the database its own way what may be shown, and most  *)
(* ask it twice: first which rows, then what to tell of them.  Between the *)
(* two, sellers switch products off and customers like, order and wish.    *)
(***************************************************************************)
EXTENDS Integers, Sequences, FiniteSets, Functions

CONSTANTS
  Workers,      \* request handlers of the server
  Products, Stores, Categories,   \* primary keys, all different
  StoreOf,      \* product -> its store
  EventCategories,                \* those with a chip on the home page
  Banners,      \* primary keys; of equal sort order
  Links,        \* bound: where banners lead and where they are shown
  Customers,
  Reviews,      \* primary keys
  ProductOf,    \* review -> its product
  Stars,        \* review -> its rating
  Cropped,      \* reviews whose order item keeps the picture it was made after
  Asked,        \* bound: numbers of items asked for
  MaxCakes,     \* MAX_POPULAR_CAKES_LIMIT
  MaxLikes, MaxSold, MaxWrites,   \* bounds: likes and orders of a row, writes of others
  Unit,         \* of scores: one point of rating has this many
  Log,          \* number -> ln(1 + number), in units
  None          \* null

Smaller(m, n) == IF m < n THEN m ELSE n

\* More orders or wishes than this no row has.
TopCount == Cardinality(Products) * MaxSold + Cardinality(Customers)

LinkTypes == {"NONE", "PRODUCT", "STORE", "CATEGORY"}

ASSUME StorefrontConstants ==
  /\ IsFiniteSet(Products \cup Stores) /\ IsFiniteSet(Reviews) /\ IsFiniteSet(Customers)
  /\ Products \cup Stores \cup Categories \cup Reviews \cup Banners \subseteq Nat
  /\ Products \cap Stores = {} /\ Categories \cap (Products \cup Stores) = {}
  /\ StoreOf \in [Products -> Stores] /\ EventCategories \subseteq Categories
  /\ ProductOf \in [Reviews -> Products] /\ Stars \in [Reviews -> 1 .. 5]
  /\ Asked \subseteq Nat \ {0} /\ MaxCakes \in Nat \ {0}
  /\ MaxLikes \in Nat /\ MaxSold \in Nat /\ MaxWrites \in Nat
  /\ None \notin Nat \cup Links

\* A link of a type leads to a row of that type.
ASSUME LinkConstants ==
  \A l \in Links :
    /\ l.type \in LinkTypes
    /\ l.type = "PRODUCT" => l.target \in Products
    /\ l.type = "STORE" => l.target \in Stores
    /\ l.type = "CATEGORY" => l.target \in Categories

\* More is more, by at least a unit, and a star shows in the mean of all reviews.
ASSUME ScoreConstants ==
  /\ Log \in [0 .. TopCount -> Nat]
  /\ \A m, n \in 0 .. TopCount : m < n => Log[m] < Log[n]
  /\ Unit \in Nat /\ Unit >= Cardinality(Reviews) + 5

VARIABLES
  on,           \* products, stores and categories with is_active
  gone,         \* deleted products
  pictured,     \* products with an image
  filed,        \* product and category pairs
  wish,         \* customer and product or store pairs: the wish lists
  viewed,       \* customer and product pairs: the viewed products
  banner,       \* banner -> its link, while it is active and in its period
  posted,       \* reviews that are live
  photo,        \* those of them with an image
  likes,        \* review -> its likes
  sold,         \* product -> confirmed orders of the last 30 days
  job,          \* worker -> its request
  writes        \* how many writes there were

shop == <<on, gone, pictured, filed, banner>>
people == <<wish, viewed, posted, photo, likes, sold>>
vars == <<shop, people, job, writes>>

----------------------------------------------------------------------------
(* What the queries let through.                                            *)

\* As it is asked by the pages of a product or store.
FindStoreDetailById(s) == s \in on
FindProductDetailById(p) == p \notin gone /\ p \in on /\ StoreOf[p] \in on

\* As it is asked before a row is put on a wish list.
ExistsActiveStore(s) == s \in on
ExistsActiveProduct(p) == p \notin gone /\ p \in on /\ StoreOf[p] \in on

\* Of a viewed product the store is only asked whether it is deleted.
FindActiveProduct(p) == p \notin gone /\ p \in on

FiledUnder(p, c) == <<p, c>> \in filed /\ c \in on

\* On the home page: any product, or those of a chip.
UnderChip(p, c) == c = None \/ (FiledUnder(p, c) /\ c \in EventCategories)

FindActiveCakesForRanking(c) == {p \in Products : FindProductDetailById(p) /\ UnderChip(p, c)}

FindActiveStoresForRanking == Stores \cap on

ListRandomCakeCandidateIds(c) == FindActiveCakesForRanking(c) \cap pictured

ListActiveProductsByStore(s, c) ==
  {p \in Products : StoreOf[p] = s /\ FindProductDetailById(p) /\ (c = None \/ FiledUnder(p, c))}

FindRecentByAccount(a) == {p \in Products : <<a, p>> \in viewed /\ FindActiveProduct(p)}

\* The reviews of a product, and those of a store; a review's own page is the former's.
PublicProductReviews(p) == {r \in posted : ProductOf[r] = p /\ FindProductDetailById(p)}
PublicStoreReviews(s) == {r \in posted : StoreOf[ProductOf[r]] = s /\ s \in on}
FindReviewDetailById(r) == r \in PublicProductReviews(ProductOf[r])

\* mutated form
BannerTargetAnyStore(l) ==
  CASE l.type = "NONE" -> TRUE
    [] l.type = "PRODUCT" -> FindActiveProduct(l.target)
    [] l.type = "STORE" -> FindStoreDetailById(l.target)
    [] l.type = "CATEGORY" -> l.target \in on

BannerTargetActive(l) ==
  CASE l.type = "NONE" -> TRUE
    [] l.type = "PRODUCT" -> FindProductDetailById(l.target)
    [] l.type = "STORE" -> FindStoreDetailById(l.target)
    [] l.type = "CATEGORY" -> l.target \in on

\* The banners of a chip lead to it, those of the whole home page anywhere.
HomeBanners(c) ==
  {b \in Banners : /\ banner[b] # None /\ BannerTargetActive(banner[b])
                   /\ IF c = None THEN banner[b].placement = "HOME_MAIN"
                      ELSE /\ banner[b].placement = "CATEGORY" /\ banner[b].category = c
                           /\ c \in on \cap EventCategories}

FindHomeBanner(c) ==
  IF HomeBanners(c) = {} THEN None
  ELSE banner[CHOOSE b \in HomeBanners(c) : \A d \in HomeBanners(c) : b <= d]

----------------------------------------------------------------------------
(* Ranking: orders, wishes and stars of a product or of a store.            *)

ProductsOf(x) == {p \in Products : p = x \/ StoreOf[p] = x}
ReviewsOf(x) == {r \in posted : ProductOf[r] \in ProductsOf(x)}

\* Sums, one star and one order at a time.
StarsOf(R) == Cardinality({t \in R \X (1 .. 5) : t[2] <= Stars[t[1]]})
RecentOrders(x) == Cardinality({t \in ProductsOf(x) \X (1 .. MaxSold) : t[2] <= sold[t[1]]})
Wishes(x) == Cardinality({a \in Customers : <<a, x>> \in wish})
ReviewStats(x) == [stars |-> StarsOf(ReviewsOf(x)), count |-> Cardinality(ReviewsOf(x))]

Aggregates == {"orders", "wishes", "stats", "prior"}

Aggregate(g, X) ==
  CASE g = "orders" -> [x \in X |-> RecentOrders(x)]
    [] g = "wishes" -> [x \in X |-> Wishes(x)]
    [] g = "stats" -> [x \in X |-> ReviewStats(x)]
    [] g = "prior" -> [stars |-> StarsOf(posted), count |-> Cardinality(posted)]

\* RANKING_BAYESIAN_M is 5; without any review the prior is 4 stars.  All terms
\* of a sum over reviews are read in units.
Prior(p) == IF p.count = 0 THEN 4 * Unit ELSE (p.stars * Unit) \div p.count

\* The code divides in doubles, so that equal ratings of different reviews may differ in
\* the last bit; here they are equal.
BayesianRating(s, prior) == (s.stars * Unit + 5 * prior) \div (s.count + 5)

\* Ten times the score: the weights are 1.0, 0.5 and 0.4.
PopularityScore(m, x) ==
  10 * Log[m.orders[x]] + 5 * Log[m.wishes[x]] + 4 * BayesianRating(m.stats[x], Prior(m.prior))

\* mutated form
RanksAboveOlder(m, x, y) ==
  LET d == PopularityScore(m, x) - PopularityScore(m, y) IN
  \/ d > 0
  \/ d = 0 /\ m.stats[x].count > m.stats[y].count
  \/ d = 0 /\ m.stats[x].count = m.stats[y].count /\ x < y

RanksAbove(m, x, y) ==
  LET d == PopularityScore(m, x) - PopularityScore(m, y) IN
  \/ d > 0
  \/ d = 0 /\ m.stats[x].count > m.stats[y].count
  \/ d = 0 /\ m.stats[x].count = m.stats[y].count /\ x > y

\* All of S, each above those that follow.
Sortings(S, above) ==
  {q \in [1 .. Cardinality(S) -> S] :
     \A i, k \in DOMAIN q : i < k => <<q[i], q[k]>> \in above}

Rankings(m, X) == Sortings(X, {t \in X \X X : RanksAbove(m, t[1], t[2])})

FirstOf(s, n) == SubSeq(s, 1, Smaller(n, Len(s)))

----------------------------------------------------------------------------
(* Requests.  pc: the next statement; rows: what the first one found; page:  *)
(* what of it is shown, in order; seen: what has been read of the rows.      *)

Unread == [g \in Aggregates |-> None]

Idle == [pc |-> "idle", kind |-> "none", who |-> None, chip |-> None, limit |-> 0,
         rows |-> {}, page |-> <<>>, seen |-> Unread, since |-> 0, better |-> {}]

\* history: x is as good as y in everything, and better in one respect.
Respects == {"orders", "wishes", "stars", "id"}

Better(x, y, why) ==
  LET a == ReviewStats(x)
      b == ReviewStats(y) IN
  /\ RecentOrders(x) >= RecentOrders(y) /\ Wishes(x) >= Wishes(y)
  /\ a.count = b.count /\ a.stars >= b.stars
  /\ CASE why = "orders" -> RecentOrders(x) > RecentOrders(y)
       [] why = "wishes" -> Wishes(x) > Wishes(y)
       [] why = "stars" -> a.stars > b.stars
       [] why = "id" -> x > y

Ask(w, j) ==
  /\ job[w].pc = "idle"
  /\ job' = [job EXCEPT ![w] = [j EXCEPT !.since = writes]]
  /\ UNCHANGED <<shop, people, writes>>

Go(w, j) == job' = [job EXCEPT ![w] = j] /\ UNCHANGED <<shop, people, writes>>

Reply(w) == Go(w, Idle)

\* A write is seen by all requests that go on; js: the requests after it.
Written(js) ==
  /\ writes < MaxWrites /\ writes' = writes + 1
  /\ job' = [w \in Workers |->
       [js[w] EXCEPT !.better = {t \in @ : Better(t[1], t[2], t[3])'}]]

\* Rank X: the aggregates are asked for at once, and come in any order.
AskRanking(w, kind, X, n) ==
  IF X = {} THEN Ask(w, [Idle EXCEPT !.kind = kind, !.pc = "ranked"])
  ELSE Ask(w, [Idle EXCEPT !.kind = kind, !.pc = "rank", !.rows = X, !.limit = n,
         !.better = {t \in X \X X \X Respects : t[1] # t[2] /\ Better(t[1], t[2], t[3])}])

\* The banner is read with the candidates.
PopularCakes(w) ==
  \E c \in Categories \cup {None}, n \in Asked :
    AskRanking(w, "cakes", FindActiveCakesForRanking(c), Smaller(n, MaxCakes))

PopularStores(w) ==
  \E n \in Asked : AskRanking(w, "stores", FindActiveStoresForRanking, n)

ReadAggregate(w, g) ==
  LET j == job[w] IN
  /\ j.pc = "rank" /\ j.seen[g] = None
  /\ Go(w, [j EXCEPT !.seen[g] = Aggregate(g, j.rows)])

RankActive(w) ==
  LET j == job[w] IN
  /\ j.pc = "rank" /\ \A g \in Aggregates : j.seen[g] # None
  /\ \E q \in Rankings(j.seen, j.rows) :
       Go(w, [j EXCEPT !.pc = "ranked", !.page = FirstOf(q, j.limit), !.seen = Unread])

\* mutated form
SampleAll(S, n) == {s \in [1 .. Cardinality(S) -> S] : IsInjective(s)}

\* Some n of S, in any order.
Sample(S, n) == {s \in [1 .. Smaller(n, Cardinality(S)) -> S] : IsInjective(s)}

RandomCakes(w) ==
  \E c \in Categories \cup {None}, n \in Asked :
    \E s \in Sample(ListRandomCakeCandidateIds(c), n) :
      Ask(w, [Idle EXCEPT !.kind = "random", !.pc = "fill", !.chip = c, !.limit = n, !.page = s])

\* mutated form
FindAnyCakeRows(j) == Range(j.page) \cap pictured

\* They are shown in the order of the page, one that is not found is left out.
FindRandomCakeRows(j) ==
  {p \in Range(j.page) : FindProductDetailById(p) /\ UnderChip(p, j.chip) /\ p \in pictured}

ShowcaseReviews ==
  {r \in posted \cap photo \cap Cropped : FindProductDetailById(ProductOf[r])}

MoreLiked ==
  {t \in Reviews \X Reviews :
     likes[t[1]] > likes[t[2]] \/ (likes[t[1]] = likes[t[2]] /\ t[1] > t[2])}

CustomCakeShowcase(w) ==
  \E n \in Asked, q \in Sortings(ShowcaseReviews, MoreLiked) :
    Ask(w, [Idle EXCEPT !.kind = "showcase", !.pc = "fill", !.limit = n, !.page = FirstOf(q, n)])

\* Neither the product nor its store is asked for again.
FindShowcaseReviewRows(j) == Range(j.page) \cap posted \cap photo \cap Cropped

\* The viewed products; their hearts are read next.
ListRecentViews(w, a) ==
  \E n \in Asked : \E s \in Sample(FindRecentByAccount(a), n) :
    Ask(w, [Idle EXCEPT !.kind = "recent", !.pc = "fill", !.who = a, !.limit = n, !.page = s])

\* mutated form
GroupByAnyStore(s) ==
  [c \in Categories |-> Cardinality({p \in Products : /\ StoreOf[p] = s /\ FindActiveProduct(p)
                                                      /\ <<p, c>> \in filed})]

\* Products by category, whether the category is active or not: that is read next.
GroupByCategory(s) ==
  [c \in Categories |-> Cardinality({p \in Products : /\ StoreOf[p] = s /\ FindProductDetailById(p)
                                                      /\ <<p, c>> \in filed})]

StoreProductCategories(w) ==
  \E s \in Stores :
    Ask(w, [Idle EXCEPT !.kind = "sidebar", !.pc = "fill", !.who = s, !.seen = GroupByCategory(s)])

ListStoreProductCategories(j) ==
  [c \in {d \in Categories \cap on : j.seen[d] > 0} |-> j.seen[c]]

\* The header first, then the reviews and the heart.
ProductDetail(w, a) ==
  \E p \in Products :
    /\ FindProductDetailById(p)
    /\ Ask(w, [Idle EXCEPT !.kind = "detail", !.pc = "fill", !.who = a, !.page = <<p>>])

CountProductReviews(p) == Cardinality({r \in posted : ProductOf[r] = p})

StoreDetail(w, a) ==
  \E s \in Stores :
    /\ FindStoreDetailById(s)
    /\ Ask(w, [Idle EXCEPT !.kind = "detail", !.pc = "fill", !.who = a, !.page = <<s>>])

\* Asked for once the row was found to be active.
AddToWishlist(w, a) ==
  \E p \in Products :
    /\ ExistsActiveProduct(p)
    /\ Ask(w, [Idle EXCEPT !.kind = "wish", !.pc = "write", !.who = a, !.page = <<p>>])

AddStoreToWishlist(w, a) ==
  \E s \in Stores :
    /\ ExistsActiveStore(s)
    /\ Ask(w, [Idle EXCEPT !.kind = "wish", !.pc = "write", !.who = a, !.page = <<s>>])

RecordView(w, a) ==
  \E p \in Products :
    /\ FindActiveProduct(p)
    /\ Ask(w, [Idle EXCEPT !.kind = "view", !.pc = "write", !.who = a, !.page = <<p>>])

Start(w) ==
  \/ PopularCakes(w) \/ PopularStores(w) \/ RandomCakes(w) \/ CustomCakeShowcase(w)
  \/ StoreProductCategories(w)
  \/ \E a \in Customers : \/ ListRecentViews(w, a) \/ ProductDetail(w, a) \/ StoreDetail(w, a)
                          \/ AddToWishlist(w, a) \/ AddStoreToWishlist(w, a)
                          \/ RecordView(w, a)

\* The last statement of adding to a list; a row there already stays.
Upsert(w) ==
  LET j == job[w] IN
  /\ j.pc = "write"
  /\ wish' = wish \cup (IF j.kind = "wish" THEN {<<j.who, j.page[1]>>} ELSE {})
  /\ viewed' = viewed \cup (IF j.kind = "view" THEN {<<j.who, j.page[1]>>} ELSE {})
  /\ UNCHANGED <<shop, posted, photo, likes, sold>>
  /\ Written([job EXCEPT ![w] = Idle])

Proceed(w) ==
  \/ \E g \in Aggregates : ReadAggregate(w, g)
  \/ RankActive(w)
  \/ job[w].pc \in {"fill", "ranked"} /\ Reply(w)
  \/ Upsert(w)

----------------------------------------------------------------------------
(* Writes of others, each by its last statement.                            *)

\* A product by its seller, a store or a category by the operator.
SetActive(x) ==
  /\ on' = IF x \in on THEN on \ {x} ELSE on \cup {x}
  /\ UNCHANGED <<gone, pictured, filed, banner, people>>
  /\ Written(job)

SoftDeleteProduct(p) ==
  /\ p \notin gone /\ gone' = gone \cup {p}
  /\ UNCHANGED <<on, pictured, filed, banner, people>>
  /\ Written(job)

\* The last image goes, or a first one comes.
SetPictured(p) ==
  /\ pictured' = IF p \in pictured THEN pictured \ {p} ELSE pictured \cup {p}
  /\ UNCHANGED <<on, gone, filed, banner, people>>
  /\ Written(job)

ReplaceProductCategories(p) ==
  /\ \E C \in SUBSET Categories : filed' = (filed \ ({p} \X Categories)) \cup ({p} \X C)
  /\ UNCHANGED <<on, gone, pictured, banner, people>>
  /\ Written(job)

\* A banner is written or deleted, or its period begins or ends.
SetBanner(b) ==
  /\ \E l \in Links \cup {None} : banner' = [banner EXCEPT ![b] = l]
  /\ UNCHANGED <<on, gone, pictured, filed, people>>
  /\ Written(job)

WriteReview(r) ==
  /\ r \notin posted /\ posted' = posted \cup {r}
  /\ \E R \in {{}, {r}} : photo' = photo \cup R
  /\ UNCHANGED <<shop, wish, viewed, likes, sold>>
  /\ Written(job)

\* Its images go with it, its likes do not.
DeleteReview(r) ==
  /\ r \in posted /\ posted' = posted \ {r} /\ photo' = photo \ {r}
  /\ UNCHANGED <<shop, wish, viewed, likes, sold>>
  /\ Written(job)

SetLikes(r, n) ==
  /\ n \in 0 .. MaxLikes /\ likes' = [likes EXCEPT ![r] = n]
  /\ UNCHANGED <<shop, wish, viewed, posted, photo, sold>>
  /\ Written(job)

LikeReview(r) == r \in posted /\ SetLikes(r, likes[r] + 1)
UnlikeReview(r) == SetLikes(r, likes[r] - 1)

\* An order is confirmed, or canceled or older than 30 days.
SetSold(p, n) ==
  /\ n \in 0 .. MaxSold /\ sold' = [sold EXCEPT ![p] = n]
  /\ UNCHANGED <<shop, wish, viewed, posted, photo, likes>>
  /\ Written(job)

RemoveFromWishlist(a, x) ==
  /\ <<a, x>> \in wish /\ wish' = wish \ {<<a, x>>}
  /\ UNCHANGED <<shop, viewed, posted, photo, likes, sold>>
  /\ Written(job)

DeleteViews(a, P) ==
  /\ viewed' = viewed \ ({a} \X P) /\ viewed' # viewed
  /\ UNCHANGED <<shop, wish, posted, photo, likes, sold>>
  /\ Written(job)

WriteShop ==
  \/ \E x \in Products \cup Stores \cup Categories : SetActive(x)
  \/ \E p \in Products : SoftDeleteProduct(p) \/ SetPictured(p) \/ ReplaceProductCategories(p)
  \/ \E b \in Banners : SetBanner(b)

WriteReviews ==
  \E r \in Reviews : WriteReview(r) \/ DeleteReview(r) \/ LikeReview(r) \/ UnlikeReview(r)

WritePeople ==
  \/ \E p \in Products, n \in {-1, 1} : SetSold(p, sold[p] + n)
  \/ \E a \in Customers : \/ \E x \in Products \cup Stores : RemoveFromWishlist(a, x)
                          \/ \E P \in {Products} \cup {{p} : p \in Products} : DeleteViews(a, P)

----------------------------------------------------------------------------

\* Any shop.
Init ==
  /\ on \in SUBSET (Products \cup Stores \cup Categories)
  /\ gone \in SUBSET Products /\ pictured \in SUBSET Products
  /\ filed \in SUBSET (Products \X Categories)
  /\ wish \in SUBSET (Customers \X (Products \cup Stores))
  /\ viewed \in SUBSET (Customers \X Products)
  /\ banner \in [Banners -> Links \cup {None}]
  /\ posted \in SUBSET Reviews /\ photo \in SUBSET posted
  /\ likes \in [Reviews -> 0 .. MaxLikes] /\ sold \in [Products -> 0 .. MaxSold]
  /\ job = [w \in Workers |-> Idle]
  /\ writes = 0

Next ==
  \/ \E w \in Workers : Start(w) \/ Proceed(w)
  \/ WriteShop \/ WriteReviews \/ WritePeople

Spec == Init /\ [][Next]_vars

----------------------------------------------------------------------------
(* Properties.  An answer is what its last statement reads, so they are      *)
(* about the requests that are about to read it.                             *)

At(w, kind, pc) == job[w].kind = kind /\ job[w].pc = pc

\* Nothing was written since the first statement.
Still(w) == job[w].since = writes

TypeOK ==
  /\ on \subseteq Products \cup Stores \cup Categories
  /\ gone \cup pictured \subseteq Products
  /\ photo \subseteq posted /\ posted \subseteq Reviews
  /\ likes \in [Reviews -> 0 .. MaxLikes] /\ sold \in [Products -> 0 .. MaxSold]
  /\ \A w \in Workers :
       /\ IsInjective(job[w].page)
       /\ job[w].pc = "fill" /\ job[w].limit > 0 => Len(job[w].page) <= job[w].limit
       /\ job[w].pc = "ranked" => Len(job[w].page) = Smaller(job[w].limit, Cardinality(job[w].rows))

Opens(x) == IF x \in Products THEN FindProductDetailById(x) ELSE x \in on

\* What is listed can be opened: the target of the banner shown, what was ranked or
\* drawn or showcased if nothing was written meanwhile, viewed products unless their
\* store is inactive, and reviews of a store unless their product is.
ListedOpens ==
  /\ \A c \in Categories \cup {None} :
       LET l == FindHomeBanner(c) IN l # None /\ l.type # "NONE" => Opens(l.target)
  /\ \A w \in Workers : Still(w) =>
       /\ job[w].pc = "ranked" => \A x \in Range(job[w].page) : Opens(x)
       /\ At(w, "showcase", "fill") =>
            \A r \in FindShowcaseReviewRows(job[w]) : FindReviewDetailById(r)
  /\ \A a \in Customers : \A p \in FindRecentByAccount(a) : Opens(p) \/ StoreOf[p] \notin on
  /\ \A s \in Stores : \A r \in PublicStoreReviews(s) :
       FindReviewDetailById(r) \/ ~FindActiveProduct(ProductOf[r])

\* The numbers shown beside lists are those of the lists: of each category in the
\* sidebar of a store, and of the reviews on the page of a product or store.
CountsMatchLists ==
  \A w \in Workers :
    LET j == job[w] IN
    /\ At(w, "sidebar", "fill") /\ Still(w) =>
         \A c \in Categories :
           LET n == Cardinality(ListActiveProductsByStore(j.who, c))
               shown == ListStoreProductCategories(j) IN
           IF n = 0 THEN c \notin DOMAIN shown ELSE c \in DOMAIN shown /\ shown[c] = n
    /\ At(w, "detail", "fill") /\ Opens(j.page[1]) =>
         LET x == j.page[1] IN
         IF x \in Products THEN CountProductReviews(x) = Cardinality(PublicProductReviews(x))
         ELSE ReviewStats(x).count = Cardinality(PublicStoreReviews(x))

\* What was drawn or showcased and is gone when its picture is read is left out, and
\* nothing else is: cakes shown can be opened and belong to the chip.
ShownAreThere ==
  \A w \in Workers :
    /\ At(w, "random", "fill") =>
         LET shown == FindRandomCakeRows(job[w]) IN
         /\ shown \subseteq ListRandomCakeCandidateIds(job[w].chip)
         /\ Still(w) => shown = Range(job[w].page)
    /\ At(w, "showcase", "fill") /\ Still(w) => FindShowcaseReviewRows(job[w]) = Range(job[w].page)

Before(s, x, y) == \E i, k \in DOMAIN s : i < k /\ s[i] = x /\ s[k] = y

\* Whatever is ordered, wished and reviewed while a ranking is put together, a row that
\* is as good as another in everything all the time, and better in one respect all the
\* time, is never ranked below it.  One without reviews counts as an average one: any
\* better than the average is above it.
RankingFair ==
  \A w \in Workers :
    LET j == job[w] IN
    j.pc = "ranked" =>
      /\ \A t \in j.better : t[2] \in Range(j.page) => Before(j.page, t[1], t[2])
      /\ Still(w) =>
           \A x, y \in j.rows :
             /\ RecentOrders(x) = RecentOrders(y) /\ Wishes(x) = Wishes(y)
             /\ ReviewStats(y).count = 0 /\ ReviewStats(x).count > 0
             /\ y \in Range(j.page)
             /\ StarsOf(ReviewsOf(x)) * Cardinality(posted) > StarsOf(posted) * ReviewStats(x).count
             => Before(j.page, x, y)
=============================================================================
