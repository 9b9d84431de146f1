--------------------------- MODULE StorefrontProofs ---------------------------
(***************************************************************************)
(* Proofs about Storefront, for every shop, every number of handlers and   *)
(* every bound.                                                            *)
(*                                                                         *)
(* The invariant says of each request what the statements it has executed  *)
(* leave true.  Most of it is only claimed while nothing was written since *)
(* the request began (Now): a write makes those parts void, so that each   *)
(* write only has to keep its own table typed.  What must survive writes   *)
(* is what a ranking knows of two rows: the aggregates that were read say  *)
(* one is at least as good as the other in everything and better in one    *)
(* respect (Told), as do the tables all along (Better).  When the last     *)
(* aggregate is there this decides the sort, by the arithmetic of scores.  *)
(***************************************************************************)
EXTENDS Storefront, FiniteSetTheorems, FunctionTheorems, SequenceTheorems,
        WellFoundedInduction, TLAPS

(* What is proved of a request. *)

Rows == Products \cup Stores

Kinds == {<<"none", "idle">>} \cup ({"cakes", "stores"} \X {"rank", "ranked"})
           \cup ({"random", "showcase", "recent", "sidebar", "detail"} \X {"fill"})
           \cup ({"wish", "view"} \X {"write"})

(* A request has all its fields. *)
Whole(j) ==
  /\ j = [pc |-> j.pc, kind |-> j.kind, who |-> j.who, chip |-> j.chip, limit |-> j.limit,
          rows |-> j.rows, page |-> j.page, seen |-> j.seen, since |-> j.since,
          better |-> j.better]
  /\ <<j.kind, j.pc>> \in Kinds
  /\ j.limit \in Nat
  /\ j.rows \subseteq Rows
  /\ j.page \in Seq(Nat) /\ IsInjective(j.page)
  /\ j.since \in 0 .. writes
  /\ j.better \subseteq j.rows \X j.rows \X Respects

(* Nothing was written since the request j began. *)
Now(j) == j.since = writes

Read(g, m, X) ==
  /\ g \in {"orders", "wishes"} => m \in [X -> 0 .. TopCount]
  /\ g = "stats" => m \in [X -> [stars : Nat, count : 0 .. Cardinality(Reviews)]]
  /\ g = "prior" => m \in [stars : Nat, count : Nat]

(* What an aggregate says of x and y, when x is better in respect why. *)
Told(g, m, x, y, why) ==
  /\ g = "orders" => m[x] >= m[y] /\ (why = "orders" => m[x] > m[y])
  /\ g = "wishes" => m[x] >= m[y] /\ (why = "wishes" => m[x] > m[y])
  /\ g = "stats" => /\ m[x].count = m[y].count /\ m[x].stars >= m[y].stars
                    /\ why = "stars" => m[x].stars > m[y].stars

Ranks(j) ==
  j.pc = "rank" =>
    /\ DOMAIN j.seen = Aggregates /\ j.seen = [g \in Aggregates |-> j.seen[g]]
    /\ \A g \in Aggregates : j.seen[g] # None => Read(g, j.seen[g], j.rows)
    /\ \A x, y \in j.rows, why \in Respects : <<x, y, why>> \in j.better =>
         /\ x # y /\ Better(x, y, why)
         /\ \A g \in Aggregates : j.seen[g] # None => Told(g, j.seen[g], x, y, why)
    /\ Now(j) =>
         /\ \A x \in j.rows : Opens(x)
         /\ \A g \in Aggregates : j.seen[g] # None => j.seen[g] = Aggregate(g, j.rows)

(* RankingFair of one request. *)
Fair(j) ==
  /\ \A t \in j.better : t[2] \in Range(j.page) => Before(j.page, t[1], t[2])
  /\ Now(j) =>
       \A x, y \in j.rows :
         /\ RecentOrders(x) = RecentOrders(y) /\ Wishes(x) = Wishes(y)
         /\ ReviewStats(y).count = 0 /\ ReviewStats(x).count > 0
         /\ y \in Range(j.page)
         /\ StarsOf(ReviewsOf(x)) * Cardinality(posted) > StarsOf(posted) * ReviewStats(x).count
         => Before(j.page, x, y)

Ranked(j) ==
  j.pc = "ranked" =>
    /\ Range(j.page) \subseteq j.rows
    /\ Len(j.page) = Smaller(j.limit, Cardinality(j.rows))
    /\ Fair(j)
    /\ Now(j) => \A x \in j.rows : Opens(x)

Fills(j) ==
  j.pc = "fill" =>
    /\ j.limit > 0 => Len(j.page) <= j.limit
    /\ j.kind = "random" =>
         /\ Range(j.page) \subseteq Products
         /\ Now(j) => Range(j.page) \subseteq ListRandomCakeCandidateIds(j.chip)
    /\ j.kind = "showcase" => (Now(j) => Range(j.page) \subseteq ShowcaseReviews)
    /\ j.kind = "sidebar" => j.who \in Stores /\ (Now(j) => j.seen = GroupByCategory(j.who))
    /\ j.kind = "detail" => \E x \in Rows : j.page = <<x>>

Job(j) == Whole(j) /\ Ranks(j) /\ Ranked(j) /\ Fills(j)

JobsInv == \A w \in Workers : Job(job[w])

Tables ==
  /\ on \subseteq Products \cup Stores \cup Categories
  /\ gone \cup pictured \subseteq Products
  /\ photo \subseteq posted /\ posted \subseteq Reviews
  /\ likes \in [Reviews -> 0 .. MaxLikes] /\ sold \in [Products -> 0 .. MaxSold]
  /\ banner \in [Banners -> Links \cup {None}]
  /\ writes \in Nat /\ DOMAIN job = Workers /\ job = [w \in Workers |-> job[w]]

StorefrontInv == Tables /\ JobsInv

-----------------------------------------------------------------------------
(* Arithmetic of scores, and what the queries return. *)

(* A quotient of naturals, and how it grows. *)
LEMMA Quotient ==
  ASSUME NEW a \in Nat, NEW d \in Nat, d > 0
  PROVE  a \div d \in Nat /\ d * (a \div d) <= a /\ a < d * (a \div d) + d
OBVIOUS

LEMMA QuotientGrows ==
  ASSUME NEW a \in Nat, NEW b \in Nat, NEW d \in Nat, d > 0, a <= b
  PROVE  a \div d <= b \div d
<1>1. PICK m \in Nat, n \in Nat : m = a \div d /\ n = b \div d
      BY Quotient
<1>2. d * m <= a /\ b < d * n + d
      BY <1>1, Quotient
<1>3. d * m < d * (n + 1)
      BY <1>2
<1>4. m < n + 1
      BY <1>3
<1> QED
    BY <1>1, <1>4

LEMMA QuotientGrowsMore ==
  ASSUME NEW a \in Nat, NEW b \in Nat, NEW d \in Nat, d > 0, a + d <= b
  PROVE  a \div d < b \div d
<1>1. PICK m \in Nat, n \in Nat : m = a \div d /\ n = b \div d
      BY Quotient
<1>2. d * m <= a /\ b < d * n + d
      BY <1>1, Quotient
<1>3. d * m < d * n
      BY <1>2
<1> QED
    BY <1>1, <1>3

(* Products of naturals. *)
LEMMA ProductIsNat ==
  ASSUME NEW a \in Nat, NEW b \in Nat
  PROVE  a * b \in Nat
OBVIOUS

LEMMA ProductGrows ==
  ASSUME NEW a \in Nat, NEW b \in Nat, NEW c \in Nat, b >= c
  PROVE  b * a >= c * a
OBVIOUS

LEMMA ProductGrowsMore ==
  ASSUME NEW a \in Nat, NEW b \in Nat, NEW c \in Nat, b > c
  PROVE  b * a >= c * a + a
OBVIOUS

(* If c ratings of sum s average no less than n of sum t, they average no less than their mean. *)
LEMMA AverageAtMost ==
  ASSUME NEW p \in Nat, NEW c \in Nat, NEW n \in Nat, NEW s \in Nat, NEW t \in Nat, NEW U \in Nat,
         n > 0, n * p <= t * U, s * n >= t * c
  PROVE  p * c <= s * U
<1>1. (n * p) * c <= (t * U) * c
      BY ProductGrows
<1>2. (t * c) * U <= (s * n) * U
      BY ProductGrows
<1>3. n * (p * c) <= n * (s * U)
  BY <1>1, <1>2
<1> QED
    BY <1>3

(* Orders and wishes are numbers that have a logarithm. *)
LEMMA CountsBounded ==
  ASSUME Tables, NEW x
  PROVE  RecentOrders(x) \in 0 .. TopCount /\ Wishes(x) \in 0 .. TopCount
<1> DEFINE P == Cardinality(Products)
           C == Cardinality(Customers)
           N == Cardinality(Products \X (1 .. MaxSold))
<1>1. P \in Nat /\ C \in Nat /\ IsFiniteSet(Products)
      BY StorefrontConstants, FS_Subset, FS_CardinalityType
<1>2. IsFiniteSet(1 .. MaxSold) /\ Cardinality(1 .. MaxSold) = MaxSold
      BY StorefrontConstants, FS_Interval
<1>3. IsFiniteSet(Products \X (1 .. MaxSold)) /\ N = P * MaxSold
      BY <1>1, <1>2, FS_Product
<1>4. RecentOrders(x) \in Nat /\ RecentOrders(x) <= N
  <2>1. {t \in ProductsOf(x) \X (1 .. MaxSold) : t[2] <= sold[t[1]]} \in SUBSET (Products \X (1 .. MaxSold))
        BY DEF ProductsOf
  <2> QED
      BY <1>3, <2>1, FS_Subset, FS_CardinalityType DEF RecentOrders
<1>5. Wishes(x) \in Nat /\ Wishes(x) <= C
  <2>1. {a \in Customers : <<a, x>> \in wish} \in SUBSET Customers
        OBVIOUS
  <2> QED
      BY <2>1, StorefrontConstants, FS_Subset, FS_CardinalityType DEF Wishes
<1>6. P * MaxSold \in Nat
      BY <1>1, StorefrontConstants
<1>7. TopCount = P * MaxSold + C
      BY DEF TopCount
<1> QED
    BY <1>1, <1>3, <1>4, <1>5, <1>6, <1>7

(* The sum of the stars of some reviews is a number. *)
LEMMA StarsCounted ==
  ASSUME NEW R \in SUBSET Reviews
  PROVE  /\ StarsOf(R) \in Nat /\ Cardinality(R) \in 0 .. Cardinality(Reviews)
         /\ R = {} => StarsOf(R) = 0
         /\ Cardinality(R) = 0 <=> R = {}
<1>1. IsFiniteSet(R) /\ Cardinality(R) \in Nat /\ Cardinality(R) <= Cardinality(Reviews)
      BY StorefrontConstants, FS_Subset, FS_CardinalityType
<1>2. IsFiniteSet(R \X (1 .. 5))
  <2>1. PICK five \in Int : five = 5
        OBVIOUS
  <2>2. IsFiniteSet(1 .. five)
        BY FS_Interval
  <2> QED
      BY <1>1, <2>1, <2>2, FS_Product
<1>3. {t \in R \X (1 .. 5) : t[2] <= Stars[t[1]]} \in SUBSET (R \X (1 .. 5))
      OBVIOUS
<1>4. StarsOf(R) \in Nat
      BY <1>2, <1>3, FS_Subset, FS_CardinalityType DEF StarsOf
<1>5. R = {} => StarsOf(R) = 0
  <2>1. R = {} => {t \in R \X (1 .. 5) : t[2] <= Stars[t[1]]} = {}
        OBVIOUS
  <2> QED
      BY <2>1, FS_EmptySet DEF StarsOf
<1>6. Cardinality(R) = 0 <=> R = {}
      BY <1>1, FS_EmptySet
<1>7. Cardinality(Reviews) \in Nat
      BY StorefrontConstants, FS_CardinalityType
<1> QED
    BY <1>1, <1>4, <1>5, <1>6, <1>7

Stats == [stars : Nat, count : 0 .. Cardinality(Reviews)]

(* What is read of the reviews of a row. *)
LEMMA StatsTyped ==
  ASSUME Tables, NEW x
  PROVE  /\ ReviewStats(x) \in Stats
         /\ ReviewStats(x).stars = StarsOf(ReviewsOf(x))
         /\ ReviewStats(x).count = 0 => ReviewStats(x).stars = 0
         /\ ReviewStats(x).count > 0 => Cardinality(posted) > 0
         /\ StarsOf(posted) \in Nat /\ Cardinality(posted) \in Nat
<1>1. ReviewsOf(x) \in SUBSET posted /\ ReviewsOf(x) \in SUBSET Reviews /\ posted \in SUBSET Reviews
      BY DEF ReviewsOf, Tables
<1>2. PICK R \in SUBSET Reviews, L \in SUBSET Reviews : R = ReviewsOf(x) /\ L = posted
      BY <1>1
<1>3. /\ StarsOf(R) \in Nat /\ Cardinality(R) \in 0 .. Cardinality(Reviews)
      /\ R = {} => StarsOf(R) = 0
      /\ Cardinality(R) = 0 <=> R = {}
      BY StarsCounted
<1>4. /\ StarsOf(L) \in Nat /\ Cardinality(L) \in 0 .. Cardinality(Reviews)
      /\ Cardinality(L) = 0 <=> L = {}
      BY StarsCounted
<1>5. Cardinality(Reviews) \in Nat
      BY StorefrontConstants, FS_CardinalityType
<1>6. ReviewStats(x) = [stars |-> StarsOf(R), count |-> Cardinality(R)]
      BY <1>2 DEF ReviewStats
<1> QED
    BY <1>1, <1>2, <1>3, <1>4, <1>5, <1>6 DEF Stats

LEMMA AggregateTyped ==
  ASSUME Tables, NEW X, NEW g \in Aggregates
  PROVE  Read(g, Aggregate(g, X), X)
<1>1. CASE g = "orders"
      BY <1>1, CountsBounded DEF Read, Aggregate
<1>2. CASE g = "wishes"
      BY <1>2, CountsBounded DEF Read, Aggregate
<1>3. CASE g = "stats"
      BY <1>3, StatsTyped DEF Read, Aggregate, Stats
<1>4. CASE g = "prior"
      BY <1>4, StatsTyped DEF Read, Aggregate, Stats
<1> QED
    BY <1>1, <1>2, <1>3, <1>4 DEF Aggregates

(* An aggregate tells that a row is better than another, if it is when it is read. *)
LEMMA AggregateTells ==
  ASSUME Tables, NEW X, NEW x \in X, NEW y \in X, NEW why \in Respects, Better(x, y, why),
         NEW g \in Aggregates
  PROVE  Told(g, Aggregate(g, X), x, y, why)
<1>1. CASE g = "orders"
      BY <1>1 DEF Told, Aggregate, Better, Respects
<1>2. CASE g = "wishes"
      BY <1>2 DEF Told, Aggregate, Better, Respects
<1>3. CASE g = "stats"
      BY <1>3 DEF Told, Aggregate, Better, Respects
<1>4. CASE g = "prior"
      BY <1>4 DEF Told
<1> QED
    BY <1>1, <1>2, <1>3, <1>4 DEF Aggregates

(* What all four aggregates look like once they are read. *)
AllRead(m, X) == \A g \in Aggregates : Read(g, m[g], X)

(* The rating and the prior are numbers. *)
LEMMA MeansTyped ==
  ASSUME NEW s \in Stats, NEW prior \in Nat
  PROVE  BayesianRating(s, prior) \in Nat
<1>1. s.stars * Unit \in Nat
      BY ScoreConstants DEF Stats
<1>2. s.stars * Unit + 5 * prior \in Nat /\ s.count + 5 \in Nat /\ s.count + 5 > 0
      BY <1>1 DEF Stats
<1> QED
    BY <1>2, Quotient DEF BayesianRating

LEMMA PriorTyped ==
  ASSUME NEW p \in [stars : Nat, count : Nat]
  PROVE  /\ Prior(p) \in Nat
         /\ p.count > 0 => p.count * Prior(p) <= p.stars * Unit
<1>1. p.stars * Unit \in Nat /\ 4 * Unit \in Nat
      BY ScoreConstants
<1>2. CASE p.count = 0
      BY <1>1, <1>2 DEF Prior
<1>3. CASE p.count > 0
  <2>1. (p.stars * Unit) \div p.count \in Nat /\ p.count * ((p.stars * Unit) \div p.count) <= p.stars * Unit
        BY <1>1, <1>3, Quotient
  <2> QED
      BY <1>3, <2>1 DEF Prior
<1> QED
    BY <1>2, <1>3

(* All of a score is numbers once everything is read. *)
LEMMA ScoresTyped ==
  ASSUME NEW X, NEW m, AllRead(m, X), NEW x \in X
  PROVE  /\ m.orders[x] \in 0 .. TopCount /\ m.wishes[x] \in 0 .. TopCount
         /\ Log[m.orders[x]] \in Nat /\ Log[m.wishes[x]] \in Nat
         /\ m.stats[x] \in Stats /\ m.stats[x].count \in Nat
         /\ m.prior \in [stars : Nat, count : Nat]
         /\ Prior(m.prior) \in Nat
         /\ BayesianRating(m.stats[x], Prior(m.prior)) \in Nat
         /\ PopularityScore(m, x) \in Nat
<1>1. Read("orders", m.orders, X) /\ Read("wishes", m.wishes, X) /\ Read("stats", m.stats, X)
      /\ Read("prior", m.prior, X)
      BY DEF AllRead, Aggregates
<1>2. m.orders[x] \in 0 .. TopCount /\ m.wishes[x] \in 0 .. TopCount
      BY <1>1 DEF Read
<1>3. Log[m.orders[x]] \in Nat /\ Log[m.wishes[x]] \in Nat
      BY <1>2, ScoreConstants
<1>4. m.stats[x] \in Stats /\ m.stats[x].count \in Nat
      BY <1>1 DEF Read, Stats
<1>5. m.prior \in [stars : Nat, count : Nat] /\ Prior(m.prior) \in Nat
      BY <1>1, PriorTyped DEF Read
<1>6. BayesianRating(m.stats[x], Prior(m.prior)) \in Nat
      BY <1>4, <1>5, MeansTyped
<1>7. PopularityScore(m, x) \in Nat
  <2>1. PICK a \in Nat, b \in Nat, c \in Nat :
          a = Log[m.orders[x]] /\ b = Log[m.wishes[x]] /\ c = BayesianRating(m.stats[x], Prior(m.prior))
        BY <1>3, <1>6
  <2> QED
      BY <2>1 DEF PopularityScore
<1> QED
    BY <1>2, <1>3, <1>4, <1>5, <1>6, <1>7

(* Of two rows at most one ranks above the other. *)
LEMMA RanksAboveOnce ==
  ASSUME NEW X \in SUBSET Nat, NEW m, AllRead(m, X), NEW x \in X, NEW y \in X, RanksAbove(m, x, y)
  PROVE  ~RanksAbove(m, y, x)
<1>1. PICK a \in Nat, b \in Nat : a = PopularityScore(m, x) /\ b = PopularityScore(m, y)
      BY ScoresTyped
<1>2. m.stats[x].count \in Nat /\ m.stats[y].count \in Nat
      BY ScoresTyped
<1> QED
    BY <1>1, <1>2 DEF RanksAbove

(* The logarithm does not lose an order or a wish, the rating no star. *)
LEMMA MoreIsMore ==
  ASSUME NEW a \in 0 .. TopCount, NEW b \in 0 .. TopCount, a >= b
  PROVE  Log[a] >= Log[b] /\ (a > b => Log[a] > Log[b])
BY ScoreConstants

LEMMA StarsShow ==
  ASSUME NEW s \in Stats, NEW t \in Stats, NEW prior \in Nat, s.count = t.count, s.stars >= t.stars
  PROVE  /\ BayesianRating(s, prior) >= BayesianRating(t, prior)
         /\ s.stars > t.stars => BayesianRating(s, prior) > BayesianRating(t, prior)
<1>1. PICK a \in Nat, b \in Nat, n \in Nat :
        a = s.stars /\ b = t.stars /\ n = s.count /\ n = t.count /\ n <= Cardinality(Reviews)
      BY DEF Stats
<1>2. Unit \in Nat /\ Cardinality(Reviews) \in Nat /\ Unit >= n + 5
      BY <1>1, ScoreConstants, StorefrontConstants, FS_CardinalityType
<1>3. PICK A \in Nat, B \in Nat : A = a * Unit /\ B = b * Unit
      BY <1>2, ProductIsNat
<1>4. A >= B /\ (a > b => A >= B + Unit)
      BY <1>1, <1>2, <1>3, ProductGrows, ProductGrowsMore
<1>5. PICK d \in Nat : d = n + 5
      OBVIOUS
<1>6. PICK f \in Nat, h \in Nat : f = A + 5 * prior /\ h = B + 5 * prior
      OBVIOUS
<1>7. BayesianRating(s, prior) = f \div d /\ BayesianRating(t, prior) = h \div d
      BY <1>1, <1>3, <1>5, <1>6 DEF BayesianRating
<1>8. h <= f /\ (a > b => h + d <= f) /\ d > 0
      BY <1>2, <1>4, <1>5, <1>6
<1>9. f \div d \in Nat /\ h \div d \in Nat
      BY <1>8, Quotient
<1>10. h \div d <= f \div d
      BY <1>8, QuotientGrows
<1>11. a > b => h \div d < f \div d
      BY <1>8, QuotientGrowsMore
<1> QED
    BY <1>1, <1>7, <1>9, <1>10, <1>11

(* A row better in everything that was read of it ranks above. *)
LEMMA BetterRanksAbove ==
  ASSUME NEW X \in SUBSET Nat, NEW m, AllRead(m, X), NEW x \in X, NEW y \in X, NEW why \in Respects,
         \A g \in Aggregates : Told(g, m[g], x, y, why), why = "id" => x > y
  PROVE  RanksAbove(m, x, y)
<1>1. PICK p \in Nat : p = Prior(m.prior)
      BY ScoresTyped
<1>2. /\ Log[m.orders[x]] >= Log[m.orders[y]]
      /\ why = "orders" => Log[m.orders[x]] > Log[m.orders[y]]
      BY ScoresTyped, MoreIsMore DEF Told, Aggregates
<1>3. /\ Log[m.wishes[x]] >= Log[m.wishes[y]]
      /\ why = "wishes" => Log[m.wishes[x]] > Log[m.wishes[y]]
      BY ScoresTyped, MoreIsMore DEF Told, Aggregates
<1>4. /\ m.stats[x].count = m.stats[y].count
      /\ BayesianRating(m.stats[x], p) >= BayesianRating(m.stats[y], p)
      /\ why = "stars" => BayesianRating(m.stats[x], p) > BayesianRating(m.stats[y], p)
  <2>1. PICK s \in Stats, t \in Stats : s = m.stats[x] /\ t = m.stats[y]
        BY ScoresTyped
  <2>2. s.count = t.count /\ s.stars >= t.stars /\ (why = "stars" => s.stars > t.stars)
        BY <2>1 DEF Told, Aggregates
  <2> QED
      BY <2>1, <2>2, StarsShow
<1>5. PICK ox \in Nat, oy \in Nat, wx \in Nat, wy \in Nat, bx \in Nat, by \in Nat :
        /\ ox = Log[m.orders[x]] /\ oy = Log[m.orders[y]]
        /\ wx = Log[m.wishes[x]] /\ wy = Log[m.wishes[y]]
        /\ bx = BayesianRating(m.stats[x], p) /\ by = BayesianRating(m.stats[y], p)
      BY <1>1, ScoresTyped
<1>6. /\ PopularityScore(m, x) = 10 * ox + 5 * wx + 4 * bx
      /\ PopularityScore(m, y) = 10 * oy + 5 * wy + 4 * by
      BY <1>1, <1>5 DEF PopularityScore
<1>7. PICK d \in Int : d = PopularityScore(m, x) - PopularityScore(m, y)
      BY <1>6
<1>8. d > 0 \/ (d = 0 /\ x > y)
  <2>1. ox >= oy /\ wx >= wy /\ bx >= by
        BY <1>2, <1>3, <1>4, <1>5
  <2>2. why \in {"orders", "wishes", "stars"} => ox > oy \/ wx > wy \/ bx > by
        BY <1>2, <1>3, <1>4, <1>5
  <2>3. d = 10 * (ox - oy) + 5 * (wx - wy) + 4 * (bx - by)
        BY <1>6, <1>7
  <2>4. d >= 0 /\ (ox > oy \/ wx > wy \/ bx > by => d > 0)
        BY <2>1, <2>3
  <2> QED
      BY <2>2, <2>4 DEF Respects
<1> QED
    BY <1>4, <1>7, <1>8 DEF RanksAbove

(* A row with an average rating, or a better one, ranks above one without reviews. *)
LEMMA AverageRanksAboveBlank ==
  ASSUME Tables, NEW X \in SUBSET Nat, NEW m, AllRead(m, X), NEW x \in X, NEW y \in X,
         \A g \in Aggregates : m[g] = Aggregate(g, X),
         RecentOrders(x) = RecentOrders(y), Wishes(x) = Wishes(y),
         ReviewStats(y).count = 0, ReviewStats(x).count > 0,
         StarsOf(ReviewsOf(x)) * Cardinality(posted) >= StarsOf(posted) * ReviewStats(x).count
  PROVE  RanksAbove(m, x, y)
<1>1. m.orders[x] = m.orders[y] /\ m.wishes[x] = m.wishes[y]
      BY DEF Aggregates, Aggregate
<1>2. m.stats[x] = ReviewStats(x) /\ m.stats[y] = ReviewStats(y)
      BY DEF Aggregates, Aggregate
<1>3. m.prior = [stars |-> StarsOf(posted), count |-> Cardinality(posted)]
      BY DEF Aggregates, Aggregate
<1>4. PICK a \in Nat, c \in Nat, t \in Nat, n \in Nat, p \in Nat, U \in Nat :
        /\ a = ReviewStats(x).stars /\ c = ReviewStats(x).count
        /\ t = StarsOf(posted) /\ n = Cardinality(posted) /\ p = Prior(m.prior) /\ U = Unit
  <2>1. ReviewStats(x) \in Stats /\ StarsOf(posted) \in Nat /\ Cardinality(posted) \in Nat
        BY StatsTyped
  <2>2. ReviewStats(x).stars \in Nat /\ ReviewStats(x).count \in Nat
        BY <2>1 DEF Stats
  <2>3. Prior(m.prior) \in Nat
        BY ScoresTyped
  <2> QED
      BY <2>1, <2>2, <2>3, ScoreConstants
<1>5. a = StarsOf(ReviewsOf(x)) /\ c > 0 /\ n > 0 /\ ReviewStats(y).stars = 0
      BY <1>4, StatsTyped
<1>6. n * p <= t * U
  <2>1. PICK r \in [stars : Nat, count : Nat] : r = m.prior
        BY ScoresTyped
  <2>2. r.count = n /\ r.stars = t
        BY <1>3, <1>4, <2>1
  <2> QED
      BY <1>4, <1>5, <2>1, <2>2, PriorTyped
<1>7. a * n >= t * c
      BY <1>4, <1>5
<1>8. p * c <= a * U
      BY <1>5, <1>6, <1>7, AverageAtMost
<1>9. BayesianRating(m.stats[y], p) = p
  <2>1. 0 * U = 0 /\ (5 * p) \div 5 = p
        OBVIOUS
  <2>2. BayesianRating(m.stats[y], p) = (0 * U + 5 * p) \div (0 + 5)
        BY <1>2, <1>4, <1>5 DEF BayesianRating
  <2>3. 0 * U + 5 * p = 5 * p /\ 0 + 5 = 5
        BY <2>1
  <2> QED
      BY <2>1, <2>2, <2>3
<1>10. BayesianRating(m.stats[x], p) \in Nat /\ BayesianRating(m.stats[x], p) >= p
  <2>1. PICK A \in Nat, d \in Nat : A = a * U /\ d = c + 5
        BY <1>4, ProductIsNat
  <2>2. PICK f \in Nat, h \in Nat : f = A + 5 * p /\ h = p * d
        BY ProductIsNat
  <2>3. BayesianRating(m.stats[x], p) = f \div d
        BY <1>2, <1>4, <2>1, <2>2 DEF BayesianRating
  <2>4. h = p * c + 5 * p
        BY <2>1, <2>2
  <2>5. h <= f
        BY <1>8, <2>1, <2>2, <2>4
  <2>6. PICK b \in Nat : b = f \div d
        BY <2>1, Quotient
  <2>7. f < d * b + d
        BY <2>1, <2>6, Quotient
  <2>8. d * p < d * (b + 1)
        BY <2>2, <2>5, <2>7
  <2>9. p < b + 1
        BY <2>1, <2>8
  <2> QED
      BY <2>3, <2>6, <2>9
<1>11. PICK ox \in Nat, wx \in Nat, bx \in Nat :
        /\ ox = Log[m.orders[x]] /\ ox = Log[m.orders[y]]
        /\ wx = Log[m.wishes[x]] /\ wx = Log[m.wishes[y]]
        /\ bx = BayesianRating(m.stats[x], p) /\ bx >= p
       BY <1>1, <1>10, ScoresTyped
<1>12. /\ PopularityScore(m, x) = 10 * ox + 5 * wx + 4 * bx
       /\ PopularityScore(m, y) = 10 * ox + 5 * wx + 4 * p
       BY <1>4, <1>9, <1>11 DEF PopularityScore
<1>13. PICK d \in Int : d = PopularityScore(m, x) - PopularityScore(m, y)
       BY ScoresTyped
<1>14. d >= 0
       BY <1>11, <1>12, <1>13
<1>15. m.stats[x].count > m.stats[y].count
       BY <1>2
<1> QED
    BY <1>13, <1>14, <1>15 DEF RanksAbove

(* The first n of a sequence. *)
LEMMA FirstOfTakes ==
  ASSUME NEW S, NEW q \in Seq(S), NEW n \in Nat
  PROVE  /\ FirstOf(q, n) \in Seq(S) /\ Len(FirstOf(q, n)) = Smaller(n, Len(q))
         /\ DOMAIN FirstOf(q, n) = 1 .. Smaller(n, Len(q))
         /\ \A k \in 1 .. Smaller(n, Len(q)) : k \in 1 .. Len(q) /\ FirstOf(q, n)[k] = q[k]
<1>1. PICK l \in Nat : l = Len(q)
      BY LenProperties
<1>2. PICK m \in Nat : m = Smaller(n, l) /\ m <= l
      BY <1>1 DEF Smaller
<1>3. FirstOf(q, n) = SubSeq(q, 1, m)
      BY <1>1, <1>2 DEF FirstOf
<1>4. \A k \in 1 .. m : q[k] \in S
      BY <1>1, <1>2, ElementOfSeq
<1>5. /\ SubSeq(q, 1, m) \in Seq(S)
      /\ Len(SubSeq(q, 1, m)) = IF 1 <= m THEN m - 1 + 1 ELSE 0
      /\ \A k \in 1 .. m - 1 + 1 : SubSeq(q, 1, m)[k] = q[1 + k - 1]
      BY <1>1, <1>2, <1>4, SubSeqProperties
<1>6. Len(SubSeq(q, 1, m)) = m
      BY <1>5, <1>2
<1>7. DOMAIN SubSeq(q, 1, m) = 1 .. m
      BY <1>5, <1>6, LenProperties
<1> QED
    BY <1>1, <1>2, <1>3, <1>5, <1>6, <1>7

(* What is shown of a sorting: no row twice, and none without those above it. *)
LEMMA SortingShown ==
  ASSUME NEW S, IsFiniteSet(S), NEW above, NEW q \in Sortings(S, above), NEW n \in Nat,
         \A x, y \in S : <<x, y>> \in above => <<y, x>> \notin above
  PROVE  /\ FirstOf(q, n) \in Seq(S) /\ Len(FirstOf(q, n)) = Smaller(n, Cardinality(S))
         /\ IsInjective(FirstOf(q, n)) /\ Range(FirstOf(q, n)) \subseteq S
         /\ \A x, y \in S : <<x, y>> \in above /\ y \in Range(FirstOf(q, n))
              => Before(FirstOf(q, n), x, y)
<1>1. PICK l \in Nat : l = Cardinality(S)
      BY FS_CardinalityType
<1>2. q \in [1 .. l -> S] /\ \A i, k \in 1 .. l : i < k => <<q[i], q[k]>> \in above
      BY <1>1 DEF Sortings
<1>3. \A i, k \in 1 .. l : q[i] = q[k] => i = k
  <2> SUFFICES ASSUME NEW i \in 1 .. l, NEW k \in 1 .. l, q[i] = q[k], i < k PROVE FALSE
      BY <1>1
  <2>1. q[i] \in S /\ <<q[i], q[i]>> \in above
        BY <1>2
  <2> QED
      BY <2>1
<1>4. \A x \in S : \E k \in 1 .. l : q[k] = x
  <2>1. q \in Injection(1 .. l, S)
        BY <1>2, <1>3 DEF Injection, IsInjective
  <2>2. Cardinality(1 .. l) = l
        BY FS_Interval
  <2>3. q \in Surjection(1 .. l, S)
        BY <1>1, <2>1, <2>2, FS_Injection
  <2> QED
      BY <2>3 DEF Surjection
<1>5. PICK p : p = FirstOf(q, n)
      OBVIOUS
<1>6. PICK m \in Nat : m = Smaller(n, l) /\ m <= l
      BY DEF Smaller
<1>7. p \in Seq(S) /\ Len(p) = m /\ DOMAIN p = 1 .. m /\ \A k \in 1 .. m : k \in 1 .. l /\ p[k] = q[k]
  <2>1. q \in Seq(S) /\ Len(q) = l
        BY <1>1, <1>2, SeqDef
  <2>2. /\ FirstOf(q, n) \in Seq(S) /\ Len(FirstOf(q, n)) = Smaller(n, Len(q))
        /\ DOMAIN FirstOf(q, n) = 1 .. Smaller(n, Len(q))
        /\ \A k \in 1 .. Smaller(n, Len(q)) : k \in 1 .. Len(q) /\ FirstOf(q, n)[k] = q[k]
        BY <2>1, FirstOfTakes
  <2> QED
      BY <1>5, <1>6, <2>1, <2>2
<1>8. IsInjective(p)
      BY <1>3, <1>7 DEF IsInjective
<1>9. Range(p) \subseteq S
      BY <1>2, <1>7 DEF Range
<1>10. ASSUME NEW x \in S, NEW y \in S, <<x, y>> \in above, y \in Range(p)
       PROVE  Before(p, x, y)
  <2>1. PICK k \in 1 .. m : p[k] = y
        BY <1>7, <1>10 DEF Range
  <2>2. PICK i \in 1 .. l : q[i] = x
        BY <1>4
  <2>3. q[k] = y /\ k \in 1 .. l
        BY <1>7, <2>1
  <2>4. ~(k < i) /\ k # i
        BY <1>2, <1>10, <2>2, <2>3
  <2>5. i < k /\ i \in 1 .. m /\ p[i] = x
        BY <1>6, <1>7, <2>1, <2>2, <2>3, <2>4
  <2> QED
      BY <1>7, <2>1, <2>5 DEF Before
<1> QED
    BY <1>1, <1>5, <1>6, <1>7, <1>8, <1>9, <1>10

-----------------------------------------------------------------------------
(* A step that writes nothing. *)

LEMMA Unchanged ==
  ASSUME UNCHANGED <<shop, people>>
  PROVE  /\ \A x : Opens(x)' = Opens(x)
         /\ \A g, X : Aggregate(g, X)' = Aggregate(g, X)
         /\ \A x, y, why : Better(x, y, why)' = Better(x, y, why)
BY DEF Opens, FindProductDetailById, Aggregate, Better, RecentOrders, Wishes, ProductsOf,
       ReviewStats, ReviewsOf, shop, people

LEMMA ReadsKeepJob ==
  ASSUME NEW j, Job(j), UNCHANGED <<shop, people, writes>>
  PROVE  Job(j)'
<1>1. Whole(j) /\ writes' = writes
      BY DEF Job, shop, people
<1>2. Whole(j)'
      BY <1>1 DEF Whole
<1>3. Ranks(j)'
      BY Unchanged DEF Job, Ranks, Now, Read, Told
<1>4. Ranked(j)'
      BY DEF Job, Ranked, Fair, Now, Opens, FindProductDetailById, RecentOrders, Wishes,
             ProductsOf, ReviewStats, ReviewsOf, shop, people
<1>5. Fills(j)'
      BY DEF Job, Fills, Now, ListRandomCakeCandidateIds, FindActiveCakesForRanking,
             FindProductDetailById, UnderChip, FiledUnder, GroupByCategory, ShowcaseReviews,
             shop, people
<1> QED
    BY <1>2, <1>3, <1>4, <1>5 DEF Job

(* One request goes on to j, and nothing is written. *)
LEMMA ReadKeepsInv ==
  ASSUME StorefrontInv, NEW w \in Workers, NEW j, Job(j), job' = [job EXCEPT ![w] = j],
         UNCHANGED <<shop, people, writes>>
  PROVE  StorefrontInv'
<1>1. Tables'
      BY DEF StorefrontInv, Tables, shop, people
<1>2. JobsInv'
  <2> SUFFICES ASSUME NEW v \in Workers PROVE Job(job[v])'
      BY DEF JobsInv
  <2>1. PICK i : i = job'[v]
        OBVIOUS
  <2>2. i = j \/ i = job[v]
        BY <2>1 DEF StorefrontInv, Tables
  <2>3. Job(i)
        BY <2>2 DEF StorefrontInv, JobsInv
  <2>4. Job(i)'
        BY <2>3, ReadsKeepJob
  <2> QED
      BY <2>1, <2>4 DEF Job
<1> QED
    BY <1>1, <1>2 DEF StorefrontInv

LEMMA IdleIsWhole ==
  ASSUME writes \in Nat
  PROVE  Job(Idle)
<1>1. <<>> \in Seq(Nat) /\ IsInjective(<<>>)
      BY EmptySeq DEF IsInjective
<1>2. PICK j : j = Idle
      OBVIOUS
<1>3. j = [pc |-> "idle", kind |-> "none", who |-> None, chip |-> None, limit |-> 0,
           rows |-> {}, page |-> <<>>, seen |-> Unread, since |-> 0, better |-> {}]
      BY <1>2 DEF Idle
<1>4. Whole(j)
      BY <1>1, <1>3 DEF Whole, Kinds
<1>5. Ranks(j) /\ Ranked(j) /\ Fills(j)
      BY <1>3 DEF Ranks, Ranked, Fills
<1> QED
    BY <1>2, <1>4, <1>5 DEF Job

-----------------------------------------------------------------------------
(* A step that writes. *)

LEMMA WrittenKeepsJobs ==
  ASSUME StorefrontInv, NEW js, DOMAIN js = Workers, \A v \in Workers : js[v] = job[v] \/ js[v] = Idle,
         Written(js)
  PROVE  JobsInv' /\ writes' \in Nat /\ DOMAIN job' = Workers /\ job' = [v \in Workers |-> job'[v]]
<1>1. writes \in Nat /\ writes' = writes + 1
      BY DEF Written, StorefrontInv, Tables
<1>2. JobsInv'
  <2> SUFFICES ASSUME NEW v \in Workers PROVE Job(job[v])'
      BY DEF JobsInv
  <2>1. PICK j : j = js[v]
        OBVIOUS
  <2>2. Job(j)
        BY <1>1, <2>1, IdleIsWhole DEF StorefrontInv, JobsInv
  <2>3. PICK i : i = job'[v]
        OBVIOUS
  <2>4. i = [j EXCEPT !.better = {t \in @ : Better(t[1], t[2], t[3])'}]
        BY <2>1, <2>3 DEF Written
  <2>5. i = [pc |-> j.pc, kind |-> j.kind, who |-> j.who, chip |-> j.chip, limit |-> j.limit,
             rows |-> j.rows, page |-> j.page, seen |-> j.seen, since |-> j.since,
             better |-> i.better]
        BY <2>2, <2>4 DEF Job, Whole
  <2>6. /\ i.pc = j.pc /\ i.kind = j.kind /\ i.who = j.who /\ i.chip = j.chip
        /\ i.limit = j.limit /\ i.rows = j.rows /\ i.page = j.page /\ i.seen = j.seen
        /\ i.since = j.since
        BY <2>5
  <2>7. i.better = {t \in j.better : Better(t[1], t[2], t[3])'}
        BY <2>2, <2>4 DEF Job, Whole
  <2>8. i.since \in Nat /\ i.since < writes'
        BY <1>1, <2>2, <2>6 DEF Job, Whole
  <2>9. Whole(i)'
        BY <1>1, <2>2, <2>5, <2>6, <2>7, <2>8 DEF Job, Whole
  <2>10. Ranks(i)'
         BY <2>2, <2>6, <2>7, <2>8 DEF Job, Ranks, Now, Read, Told
  <2>11. Ranked(i)'
         BY <2>2, <2>6, <2>7, <2>8 DEF Job, Ranked, Fair, Now
  <2>12. Fills(i)'
         BY <2>2, <2>6, <2>8 DEF Job, Fills, Now
  <2> QED
      BY <2>3, <2>9, <2>10, <2>11, <2>12 DEF Job
<1>3. DOMAIN job' = Workers /\ job' = [v \in Workers |-> job'[v]]
      BY DEF Written
<1> QED
    BY <1>1, <1>2, <1>3

-----------------------------------------------------------------------------
(* The requests. *)

LEMMA AskKeepsInv ==
  ASSUME StorefrontInv, NEW w \in Workers, NEW j, Job(j), NEW i, Ask(w, i),
         j = [i EXCEPT !.since = writes]
  PROVE  StorefrontInv'
<1>1. job' = [job EXCEPT ![w] = j] /\ UNCHANGED <<shop, people, writes>>
      BY DEF Ask
<1> QED
    BY <1>1, ReadKeepsInv

LEMMA SampleTaken ==
  ASSUME NEW S \in SUBSET Nat, IsFiniteSet(S), NEW n \in Nat, NEW s \in Sample(S, n)
  PROVE  s \in Seq(Nat) /\ IsInjective(s) /\ Len(s) <= n /\ Range(s) \subseteq S
<1>1. PICK m \in Nat : m = Smaller(n, Cardinality(S)) /\ m <= n
      BY FS_CardinalityType DEF Smaller
<1>2. s \in [1 .. m -> S] /\ IsInjective(s)
      BY <1>1 DEF Sample
<1>3. s \in [1 .. m -> Nat]
      BY <1>2
<1>4. s \in Seq(Nat) /\ Len(s) = m
      BY <1>1, <1>3, SeqDef
<1>5. Range(s) \subseteq S
      BY <1>2 DEF Range
<1> QED
    BY <1>1, <1>2, <1>4, <1>5

LEMMA ProductsFinite ==
  \A S \in SUBSET Rows : S \in SUBSET Nat /\ IsFiniteSet(S) /\ Cardinality(S) \in Nat
BY StorefrontConstants, FS_Subset, FS_CardinalityType DEF Rows

(* Nothing was read of such a request's rows. *)
Filling(kind, who, chip, n, page, seen) ==
  [pc |-> "fill", kind |-> kind, who |-> who, chip |-> chip, limit |-> n, rows |-> {},
   page |-> page, seen |-> seen, since |-> writes, better |-> {}]

LEMMA FillingWhole ==
  ASSUME StorefrontInv, NEW kind, NEW who, NEW chip, NEW n, NEW page, NEW seen,
         NEW j, j = Filling(kind, who, chip, n, page, seen),
         kind \in {"random", "showcase", "recent", "sidebar", "detail"}, n \in Nat,
         page \in Seq(Nat), IsInjective(page)
  PROVE  /\ Whole(j) /\ Ranks(j) /\ Ranked(j) /\ Now(j)
         /\ j.pc = "fill" /\ j.kind = kind /\ j.who = who /\ j.page = page /\ j.limit = n
         /\ j.chip = chip /\ j.seen = seen
<1>1. writes \in Nat
      BY DEF StorefrontInv, Tables
<1> QED
    BY <1>1 DEF Filling, Whole, Ranks, Ranked, Now, Kinds

LEMMA RandomCakesKeepInv ==
  ASSUME StorefrontInv, NEW w \in Workers, RandomCakes(w)
  PROVE  StorefrontInv'
<1>1. PICK c \in Categories \cup {None}, n \in Asked :
        \E s \in Sample(ListRandomCakeCandidateIds(c), n) :
          Ask(w, [Idle EXCEPT !.kind = "random", !.pc = "fill", !.chip = c, !.limit = n, !.page = s])
      BY DEF RandomCakes
<1>2. PICK S : S = ListRandomCakeCandidateIds(c)
      OBVIOUS
<1>3. PICK s \in Sample(S, n) :
        Ask(w, [Idle EXCEPT !.kind = "random", !.pc = "fill", !.chip = c, !.limit = n, !.page = s])
      BY <1>1, <1>2
<1>4. S \in SUBSET Products /\ n \in Nat
      BY <1>2, StorefrontConstants DEF ListRandomCakeCandidateIds, FindActiveCakesForRanking
<1>5. s \in Seq(Nat) /\ IsInjective(s) /\ Len(s) <= n /\ Range(s) \subseteq S
      BY <1>3, <1>4, ProductsFinite, SampleTaken DEF Rows
<1>6. PICK i : i = [Idle EXCEPT !.kind = "random", !.pc = "fill", !.chip = c, !.limit = n, !.page = s]
      OBVIOUS
<1>7. PICK j : j = [i EXCEPT !.since = writes]
      OBVIOUS
<1>8. j = Filling("random", None, c, n, s, Unread)
      BY <1>6, <1>7 DEF Filling, Idle
<1>9. Whole(j) /\ Ranks(j) /\ Ranked(j) /\ j.kind = "random" /\ j.page = s /\ j.limit = n /\ j.chip = c
      BY <1>4, <1>5, <1>8, FillingWhole
<1>10. Fills(j)
      BY <1>2, <1>4, <1>5, <1>9 DEF Fills
<1> QED
    BY <1>3, <1>9, <1>10, <1>6, <1>7, AskKeepsInv DEF Job

LEMMA ShowcaseKeepsInv ==
  ASSUME StorefrontInv, NEW w \in Workers, CustomCakeShowcase(w)
  PROVE  StorefrontInv'
<1>1. PICK S, above : S = ShowcaseReviews /\ above = MoreLiked
      OBVIOUS
<1>2. PICK n \in Asked, q \in Sortings(S, above) :
        Ask(w, [Idle EXCEPT !.kind = "showcase", !.pc = "fill", !.limit = n, !.page = FirstOf(q, n)])
      BY <1>1 DEF CustomCakeShowcase
<1>3. S \in SUBSET Reviews /\ IsFiniteSet(S) /\ n \in Nat
  <2>1. S \in SUBSET Reviews /\ n \in Nat
        BY <1>1, <1>2, StorefrontConstants DEF ShowcaseReviews, StorefrontInv, Tables
  <2> QED
      BY <2>1, StorefrontConstants, FS_Subset
<1>4. \A x, y \in S : <<x, y>> \in above => <<y, x>> \notin above
  <2> SUFFICES ASSUME NEW x \in S, NEW y \in S, <<x, y>> \in above PROVE <<y, x>> \notin above
      OBVIOUS
  <2>1. likes[x] \in Nat /\ likes[y] \in Nat /\ x \in Nat /\ y \in Nat
        BY <1>3, StorefrontConstants DEF StorefrontInv, Tables
  <2> QED
      BY <1>1, <2>1 DEF MoreLiked
<1>5. PICK s : s = FirstOf(q, n)
      OBVIOUS
<1>6. s \in Seq(S) /\ Len(s) = Smaller(n, Cardinality(S)) /\ IsInjective(s) /\ Range(s) \subseteq S
      BY <1>2, <1>3, <1>4, <1>5, SortingShown
<1>7. s \in Seq(Nat) /\ Len(s) <= n
  <2>1. S \subseteq Nat /\ Cardinality(S) \in Nat
        BY <1>3, StorefrontConstants, FS_CardinalityType
  <2>2. Len(s) <= n
        BY <1>3, <1>6, <2>1 DEF Smaller
  <2>3. s \in Seq(Nat)
    <3>1. PICK l \in Nat : l = Len(s)
          BY <1>6, LenProperties
    <3>2. s \in [1 .. l -> Nat]
          BY <1>6, <2>1, <3>1, LenProperties, ElementOfSeq
    <3> QED
        BY <3>1, <3>2, SeqDef
  <2> QED
      BY <2>2, <2>3
<1>8. PICK i : i = [Idle EXCEPT !.kind = "showcase", !.pc = "fill", !.limit = n, !.page = s]
      OBVIOUS
<1>9. PICK j : j = [i EXCEPT !.since = writes]
      OBVIOUS
<1>10. j = Filling("showcase", None, None, n, s, Unread)
      BY <1>8, <1>9 DEF Filling, Idle
<1>11. Whole(j) /\ Ranks(j) /\ Ranked(j) /\ j.kind = "showcase" /\ j.page = s /\ j.limit = n
      BY <1>3, <1>6, <1>7, <1>10, FillingWhole
<1>12. Fills(j)
       BY <1>1, <1>6, <1>7, <1>11 DEF Fills
<1> QED
    BY <1>2, <1>5, <1>11, <1>12, <1>8, <1>9, AskKeepsInv DEF Job

LEMMA RecentViewsKeepInv ==
  ASSUME StorefrontInv, NEW w \in Workers, NEW a \in Customers, ListRecentViews(w, a)
  PROVE  StorefrontInv'
<1>1. PICK S : S = FindRecentByAccount(a)
      OBVIOUS
<1>2. PICK n \in Asked : \E s \in Sample(S, n) :
        Ask(w, [Idle EXCEPT !.kind = "recent", !.pc = "fill", !.who = a, !.limit = n, !.page = s])
      BY <1>1 DEF ListRecentViews
<1>3. PICK s \in Sample(S, n) :
        Ask(w, [Idle EXCEPT !.kind = "recent", !.pc = "fill", !.who = a, !.limit = n, !.page = s])
      BY <1>2
<1>4. S \in SUBSET Products /\ n \in Nat
      BY <1>1, StorefrontConstants DEF FindRecentByAccount
<1>5. s \in Seq(Nat) /\ IsInjective(s) /\ Len(s) <= n
      BY <1>3, <1>4, ProductsFinite, SampleTaken DEF Rows
<1>6. PICK i : i = [Idle EXCEPT !.kind = "recent", !.pc = "fill", !.who = a, !.limit = n, !.page = s]
      OBVIOUS
<1>7. PICK j : j = [i EXCEPT !.since = writes]
      OBVIOUS
<1>8. j = Filling("recent", a, None, n, s, Unread)
      BY <1>6, <1>7 DEF Filling, Idle
<1>9. Whole(j) /\ Ranks(j) /\ Ranked(j) /\ j.kind = "recent" /\ j.page = s /\ j.limit = n
      BY <1>4, <1>5, <1>8, FillingWhole
<1>10. Fills(j)
      BY <1>5, <1>9 DEF Fills
<1> QED
    BY <1>3, <1>9, <1>10, <1>6, <1>7, AskKeepsInv DEF Job

LEMMA SidebarKeepsInv ==
  ASSUME StorefrontInv, NEW w \in Workers, StoreProductCategories(w)
  PROVE  StorefrontInv'
<1>1. PICK s \in Stores :
        Ask(w, [Idle EXCEPT !.kind = "sidebar", !.pc = "fill", !.who = s, !.seen = GroupByCategory(s)])
      BY DEF StoreProductCategories
<1>2. PICK m : m = GroupByCategory(s)
      OBVIOUS
<1>3. <<>> \in Seq(Nat) /\ IsInjective(<<>>)
      BY EmptySeq DEF IsInjective
<1>4. PICK e : e = <<>>
      OBVIOUS
<1>5. e \in Seq(Nat) /\ IsInjective(e)
      BY <1>3, <1>4
<1>6. PICK i : i = [Idle EXCEPT !.kind = "sidebar", !.pc = "fill", !.who = s, !.seen = m]
      OBVIOUS
<1>7. PICK j : j = [i EXCEPT !.since = writes]
      OBVIOUS
<1>8. j = Filling("sidebar", s, None, 0, e, m)
      BY <1>4, <1>6, <1>7 DEF Filling, Idle
<1>9. Whole(j) /\ Ranks(j) /\ Ranked(j) /\ j.kind = "sidebar" /\ j.who = s /\ j.limit = 0 /\ j.seen = m
      BY <1>5, <1>8, FillingWhole
<1>10. Fills(j)
      BY <1>2, <1>9 DEF Fills
<1> QED
    BY <1>1, <1>2, <1>9, <1>10, <1>6, <1>7, AskKeepsInv DEF Job

LEMMA DetailKeepsInv ==
  ASSUME StorefrontInv, NEW w \in Workers, NEW a \in Customers, ProductDetail(w, a) \/ StoreDetail(w, a)
  PROVE  StorefrontInv'
<1>1. PICK x \in Rows :
        Ask(w, [Idle EXCEPT !.kind = "detail", !.pc = "fill", !.who = a, !.page = <<x>>])
      BY DEF ProductDetail, StoreDetail, Rows
<1>2. <<x>> \in Seq(Nat) /\ IsInjective(<<x>>)
      BY StorefrontConstants DEF Rows, IsInjective
<1>3. PICK e : e = <<x>>
      OBVIOUS
<1>4. e \in Seq(Nat) /\ IsInjective(e)
      BY <1>2, <1>3
<1>5. PICK i : i = [Idle EXCEPT !.kind = "detail", !.pc = "fill", !.who = a, !.page = <<x>>]
      OBVIOUS
<1>6. PICK j : j = [i EXCEPT !.since = writes]
      OBVIOUS
<1>7. j = Filling("detail", a, None, 0, e, Unread)
      BY <1>3, <1>5, <1>6 DEF Filling, Idle
<1>8. Whole(j) /\ Ranks(j) /\ Ranked(j) /\ j.kind = "detail" /\ j.limit = 0 /\ j.page = e
      BY <1>4, <1>7, FillingWhole
<1>9. Fills(j)
      BY <1>1, <1>3, <1>8 DEF Fills
<1> QED
    BY <1>1, <1>8, <1>9, <1>5, <1>6, AskKeepsInv DEF Job

LEMMA AddingKeepsInv ==
  ASSUME StorefrontInv, NEW w \in Workers, NEW a \in Customers,
         AddToWishlist(w, a) \/ AddStoreToWishlist(w, a) \/ RecordView(w, a)
  PROVE  StorefrontInv'
<1>1. PICK x \in Rows, k \in {"wish", "view"} :
        Ask(w, [Idle EXCEPT !.kind = k, !.pc = "write", !.who = a, !.page = <<x>>])
  <2>1. CASE AddToWishlist(w, a) \/ AddStoreToWishlist(w, a)
        BY <2>1 DEF AddToWishlist, AddStoreToWishlist, Rows
  <2>2. CASE RecordView(w, a)
        BY <2>2 DEF RecordView, Rows
  <2> QED
      BY <2>1, <2>2
<1>2. <<x>> \in Seq(Nat) /\ IsInjective(<<x>>)
      BY StorefrontConstants DEF Rows, IsInjective
<1>3. PICK i : i = [Idle EXCEPT !.kind = k, !.pc = "write", !.who = a, !.page = <<x>>]
      OBVIOUS
<1>4. PICK j : j = [i EXCEPT !.since = writes]
      OBVIOUS
<1>5. j = [pc |-> "write", kind |-> k, who |-> a, chip |-> None, limit |-> 0, rows |-> {},
                    page |-> <<x>>, seen |-> Unread, since |-> writes, better |-> {}]
      BY <1>3, <1>4 DEF Idle
<1>6. Whole(j)
      BY <1>1, <1>2, <1>5 DEF Whole, Kinds, StorefrontInv, Tables
<1>7. Ranks(j) /\ Ranked(j) /\ Fills(j)
      BY <1>5 DEF Ranks, Ranked, Fills
<1> QED
    BY <1>1, <1>6, <1>7, <1>3, <1>4, AskKeepsInv DEF Job

-----------------------------------------------------------------------------
(* Rankings. *)

LEMMA AskRankingKeepsInv ==
  ASSUME StorefrontInv, NEW w \in Workers, NEW kind, kind \in {"cakes", "stores"},
         NEW X \in SUBSET Rows, NEW n, n \in Nat, \A x \in X : Opens(x), AskRanking(w, kind, X, n)
  PROVE  StorefrontInv'
<1>1. writes \in Nat
      BY DEF StorefrontInv, Tables
<1>2. <<>> \in Seq(Nat) /\ IsInjective(<<>>) /\ Range(<<>>) = {} /\ Len(<<>>) = 0
      BY EmptySeq DEF IsInjective, Range
<1>3. PICK e : e = <<>>
      OBVIOUS
<1>4. CASE X = {}
  <2>1. PICK i : i = [Idle EXCEPT !.kind = kind, !.pc = "ranked"]
        OBVIOUS
  <2>2. PICK j : j = [i EXCEPT !.since = writes]
        OBVIOUS
  <2>3. j = [pc |-> "ranked", kind |-> kind, who |-> None, chip |-> None, limit |-> 0, rows |-> {},
             page |-> e, seen |-> Unread, since |-> writes, better |-> {}]
        BY <1>3, <2>1, <2>2 DEF Idle
  <2>4. Whole(j)
        BY <1>1, <1>2, <1>3, <2>3 DEF Whole, Kinds
  <2>5. Len(j.page) = Smaller(j.limit, Cardinality(j.rows))
        BY <1>2, <1>3, <2>3, FS_EmptySet DEF Smaller
  <2>6. Ranks(j) /\ Ranked(j) /\ Fills(j)
        BY <1>2, <1>3, <2>3, <2>5 DEF Ranks, Ranked, Fills, Fair
  <2>7. Ask(w, i)
        BY <1>4, <2>1 DEF AskRanking
  <2> QED
      BY <2>2, <2>4, <2>6, <2>7, AskKeepsInv DEF Job
<1>5. CASE X # {}
  <2>1. PICK b : b = {t \in X \X X \X Respects : t[1] # t[2] /\ Better(t[1], t[2], t[3])}
        OBVIOUS
  <2>2. PICK i : i = [Idle EXCEPT !.kind = kind, !.pc = "rank", !.rows = X, !.limit = n, !.better = b]
        OBVIOUS
  <2>3. PICK j : j = [i EXCEPT !.since = writes]
        OBVIOUS
  <2>4. PICK u : u = Unread
        OBVIOUS
  <2>5. j = [pc |-> "rank", kind |-> kind, who |-> None, chip |-> None, limit |-> n, rows |-> X,
             page |-> e, seen |-> u, since |-> writes, better |-> b]
        BY <1>3, <2>2, <2>3, <2>4 DEF Idle
  <2>6. Whole(j)
        BY <1>1, <1>2, <1>3, <2>1, <2>5 DEF Whole, Kinds
  <2>7. DOMAIN u = Aggregates /\ u = [g \in Aggregates |-> u[g]] /\ \A g \in Aggregates : u[g] = None
        BY <2>4 DEF Unread
  <2>8. \A x, y \in X, why \in Respects : <<x, y, why>> \in b => x # y /\ Better(x, y, why)
        BY <2>1
  <2>9. Ranks(j)
        BY <2>5, <2>7, <2>8 DEF Ranks
  <2>10. Ranked(j) /\ Fills(j)
        BY <2>5 DEF Ranked, Fills
  <2>11. Ask(w, i)
        BY <1>5, <2>1, <2>2 DEF AskRanking
  <2> QED
      BY <2>3, <2>6, <2>9, <2>10, <2>11, AskKeepsInv DEF Job
<1> QED
    BY <1>4, <1>5

LEMMA PopularKeepsInv ==
  ASSUME StorefrontInv, NEW w \in Workers, PopularCakes(w) \/ PopularStores(w)
  PROVE  StorefrontInv'
<1>1. CASE PopularCakes(w)
  <2>1. PICK c \in Categories \cup {None}, n \in Asked :
          AskRanking(w, "cakes", FindActiveCakesForRanking(c), Smaller(n, MaxCakes))
        BY <1>1 DEF PopularCakes
  <2>2. PICK X : X = FindActiveCakesForRanking(c)
        OBVIOUS
  <2>3. X \in SUBSET Rows /\ \A x \in X : Opens(x)
        BY <2>2 DEF FindActiveCakesForRanking, Opens, Rows
  <2>4. PICK m : m = Smaller(n, MaxCakes)
        OBVIOUS
  <2>5. m \in Nat
        BY <2>1, <2>4, StorefrontConstants DEF Smaller
  <2>6. AskRanking(w, "cakes", X, m)
        BY <2>1, <2>2, <2>4
  <2> QED
      BY <2>3, <2>5, <2>6, AskRankingKeepsInv
<1>2. CASE PopularStores(w)
  <2>1. PICK n \in Asked : AskRanking(w, "stores", Stores \cap on, n)
        BY <1>2 DEF PopularStores, FindActiveStoresForRanking
  <2>2. PICK X : X = Stores \cap on
        OBVIOUS
  <2>3. X \in SUBSET Rows /\ \A x \in X : Opens(x)
        BY <2>2, StorefrontConstants DEF Opens, Rows
  <2>4. n \in Nat /\ AskRanking(w, "stores", X, n)
        BY <2>1, <2>2, StorefrontConstants
  <2> QED
      BY <2>3, <2>4, AskRankingKeepsInv
<1> QED
    BY <1>1, <1>2

LEMMA ReadAggregateKeepsInv ==
  ASSUME StorefrontInv, NEW w \in Workers, NEW g \in Aggregates, ReadAggregate(w, g)
  PROVE  StorefrontInv'
<1>1. PICK j : j = job[w]
      OBVIOUS
<1>2. Job(j) /\ j.pc = "rank" /\ Tables
      BY <1>1 DEF StorefrontInv, JobsInv, ReadAggregate
<1>3. PICK m : m = Aggregate(g, j.rows)
      OBVIOUS
<1>4. PICK i : i = [j EXCEPT !.seen[g] = m]
      OBVIOUS
<1>5. job' = [job EXCEPT ![w] = i] /\ UNCHANGED <<shop, people, writes>>
      BY <1>1, <1>3, <1>4 DEF ReadAggregate, Go
<1>6. PICK u : u = [j.seen EXCEPT ![g] = m]
      OBVIOUS
<1>7. i = [pc |-> j.pc, kind |-> j.kind, who |-> j.who, chip |-> j.chip, limit |-> j.limit,
           rows |-> j.rows, page |-> j.page, seen |-> u, since |-> j.since, better |-> j.better]
      BY <1>2, <1>4, <1>6 DEF Job, Whole
<1>8. Whole(i)
      BY <1>2, <1>7 DEF Job, Whole
<1>9. DOMAIN u = Aggregates /\ u = [h \in Aggregates |-> u[h]]
      BY <1>2, <1>6 DEF Job, Ranks
<1>10. u[g] = m /\ \A h \in Aggregates : h # g => u[h] = j.seen[h]
       BY <1>2, <1>6 DEF Job, Ranks
<1>11. Read(g, m, j.rows)
       BY <1>2, <1>3, AggregateTyped
<1>12. \A x, y \in j.rows, why \in Respects : <<x, y, why>> \in j.better => Told(g, m, x, y, why)
       BY <1>2, <1>3, AggregateTells DEF Job, Ranks
<1>13. Ranks(i)
  <2>1. \A h \in Aggregates : u[h] # None => Read(h, u[h], j.rows)
        BY <1>2, <1>10, <1>11 DEF Job, Ranks
  <2>2. \A x, y \in j.rows, why \in Respects : <<x, y, why>> \in j.better =>
           x # y /\ Better(x, y, why) /\ \A h \in Aggregates : u[h] # None => Told(h, u[h], x, y, why)
        BY <1>2, <1>10, <1>12 DEF Job, Ranks
  <2>3. Now(j) => (\A x \in j.rows : Opens(x))
                  /\ \A h \in Aggregates : u[h] # None => u[h] = Aggregate(h, j.rows)
        BY <1>2, <1>3, <1>10 DEF Job, Ranks
  <2> QED
      BY <1>7, <1>9, <2>1, <2>2, <2>3 DEF Ranks, Now
<1>14. Ranked(i) /\ Fills(i)
       BY <1>2, <1>7 DEF Ranked, Fills
<1> QED
    BY <1>5, <1>8, <1>13, <1>14, ReadKeepsInv DEF Job

LEMMA RankActiveKeepsInv ==
  ASSUME StorefrontInv, NEW w \in Workers, RankActive(w)
  PROVE  StorefrontInv'
<1>1. PICK j : j = job[w]
      OBVIOUS
<1>2. Job(j) /\ j.pc = "rank" /\ Tables /\ \A g \in Aggregates : j.seen[g] # None
      BY <1>1 DEF StorefrontInv, JobsInv, RankActive
<1>3. PICK X, m, n : X = j.rows /\ m = j.seen /\ n = j.limit
      OBVIOUS
<1>4. X \in SUBSET Rows /\ X \in SUBSET Nat /\ IsFiniteSet(X) /\ n \in Nat
      BY <1>2, <1>3, ProductsFinite DEF Job, Whole
<1>5. AllRead(m, X)
      BY <1>2, <1>3 DEF AllRead, Job, Ranks
<1>6. PICK above : above = {t \in X \X X : RanksAbove(m, t[1], t[2])}
      OBVIOUS
<1>7. PICK q \in Sortings(X, above) :
        Go(w, [j EXCEPT !.pc = "ranked", !.page = FirstOf(q, n), !.seen = Unread])
      BY <1>1, <1>3, <1>6 DEF RankActive, Rankings
<1>8. \A x, y \in X : <<x, y>> \in above <=> RanksAbove(m, x, y)
      BY <1>6
<1>9. \A x, y \in X : <<x, y>> \in above => <<y, x>> \notin above
      BY <1>4, <1>5, <1>8, RanksAboveOnce
<1>10. PICK p : p = FirstOf(q, n)
       OBVIOUS
<1>11. /\ p \in Seq(X) /\ Len(p) = Smaller(n, Cardinality(X))
       /\ IsInjective(p) /\ Range(p) \subseteq X
       /\ \A x, y \in X : <<x, y>> \in above /\ y \in Range(p) => Before(p, x, y)
       BY <1>4, <1>7, <1>9, <1>10, SortingShown
<1>12. p \in Seq(Nat)
  <2>1. PICK l \in Nat : l = Len(p)
        BY <1>11, LenProperties
  <2>2. p \in [1 .. l -> Nat]
        BY <1>4, <1>11, <2>1, LenProperties, ElementOfSeq
  <2> QED
      BY <2>1, <2>2, SeqDef
<1>13. PICK i : i = [j EXCEPT !.pc = "ranked", !.page = p, !.seen = Unread]
       OBVIOUS
<1>14. job' = [job EXCEPT ![w] = i] /\ UNCHANGED <<shop, people, writes>>
       BY <1>7, <1>10, <1>13 DEF Go
<1>15. i = [pc |-> "ranked", kind |-> j.kind, who |-> j.who, chip |-> j.chip, limit |-> n,
            rows |-> X, page |-> p, seen |-> Unread, since |-> j.since, better |-> j.better]
       BY <1>2, <1>3, <1>13 DEF Job, Whole
<1>16. Whole(i)
       BY <1>2, <1>3, <1>11, <1>12, <1>15 DEF Job, Whole, Kinds
<1>17. \A t \in j.better : t[2] \in Range(p) => Before(p, t[1], t[2])
  <2> SUFFICES ASSUME NEW t \in j.better, t[2] \in Range(p) PROVE Before(p, t[1], t[2])
      OBVIOUS
  <2>1. PICK x \in X, y \in X, why \in Respects : t = <<x, y, why>>
        BY <1>2, <1>3 DEF Job, Whole
  <2>2. /\ \A g \in Aggregates : Told(g, m[g], x, y, why)
        /\ Better(x, y, why)
        BY <1>2, <1>3, <2>1 DEF Job, Ranks
  <2>3. why = "id" => x > y
        BY <2>2 DEF Better
  <2>4. RanksAbove(m, x, y)
        BY <1>4, <1>5, <2>1, <2>2, <2>3, BetterRanksAbove
  <2> QED
      BY <1>8, <1>11, <2>1, <2>4
<1>18. ASSUME Now(j), NEW x \in X, NEW y \in X,
              RecentOrders(x) = RecentOrders(y), Wishes(x) = Wishes(y),
              ReviewStats(y).count = 0, ReviewStats(x).count > 0, y \in Range(p),
              StarsOf(ReviewsOf(x)) * Cardinality(posted) > StarsOf(posted) * ReviewStats(x).count
       PROVE  Before(p, x, y)
  <2>1. \A g \in Aggregates : m[g] = Aggregate(g, X)
        BY <1>2, <1>3, <1>18 DEF Job, Ranks
  <2>2. StarsOf(ReviewsOf(x)) * Cardinality(posted) >= StarsOf(posted) * ReviewStats(x).count
    <3>1. PICK stars \in Nat, all \in Nat, total \in Nat, count \in Nat :
            /\ stars = StarsOf(ReviewsOf(x)) /\ all = Cardinality(posted)
            /\ total = StarsOf(posted) /\ count = ReviewStats(x).count
      <4>1. ReviewStats(x) \in Stats /\ StarsOf(posted) \in Nat /\ Cardinality(posted) \in Nat
            BY <1>2, StatsTyped DEF StorefrontInv
      <4> QED
          BY <4>1 DEF Stats, ReviewStats
    <3>2. stars * all > total * count
          BY <1>18, <3>1
    <3> QED
        BY <3>1, <3>2
  <2>3. RanksAbove(m, x, y)
        BY <1>2, <1>4, <1>5, <1>18, <2>1, <2>2, AverageRanksAboveBlank
  <2> QED
      BY <1>8, <1>11, <1>18, <2>3
<1>19. Fair(i)
       BY <1>15, <1>17, <1>18 DEF Fair, Now
<1>20. Now(i) => \A x \in X : Opens(x)
       BY <1>2, <1>3, <1>15 DEF Job, Ranks, Now
<1>21. Ranks(i) /\ Ranked(i) /\ Fills(i)
       BY <1>11, <1>15, <1>19, <1>20 DEF Ranks, Ranked, Fills
<1> QED
    BY <1>14, <1>16, <1>21, ReadKeepsInv DEF Job

-----------------------------------------------------------------------------
(* Writes. *)

(* Any of the writes of others: no request is lost. *)
LEMMA WriteKeepsInv ==
  ASSUME StorefrontInv, Written(job),
         on' \subseteq Products \cup Stores \cup Categories, gone' \cup pictured' \subseteq Products,
         photo' \subseteq posted', posted' \subseteq Reviews,
         likes' \in [Reviews -> 0 .. MaxLikes], sold' \in [Products -> 0 .. MaxSold],
         banner' \in [Banners -> Links \cup {None}]
  PROVE  StorefrontInv'
<1>1. DOMAIN job = Workers
      BY DEF StorefrontInv, Tables
<1>2. JobsInv' /\ writes' \in Nat /\ DOMAIN job' = Workers /\ job' = [v \in Workers |-> job'[v]]
      BY <1>1, WrittenKeepsJobs
<1> QED
    BY <1>2 DEF StorefrontInv, Tables

LEMMA UpsertKeepsInv ==
  ASSUME StorefrontInv, NEW w \in Workers, Upsert(w)
  PROVE  StorefrontInv'
<1>1. PICK js : js = [job EXCEPT ![w] = Idle]
      OBVIOUS
<1>2. DOMAIN js = Workers /\ \A v \in Workers : js[v] = job[v] \/ js[v] = Idle
      BY <1>1 DEF StorefrontInv, Tables
<1>3. Written(js)
      BY <1>1 DEF Upsert
<1>4. JobsInv' /\ writes' \in Nat /\ DOMAIN job' = Workers /\ job' = [v \in Workers |-> job'[v]]
      BY <1>2, <1>3, WrittenKeepsJobs
<1>5. UNCHANGED <<shop, posted, photo, likes, sold>>
      BY DEF Upsert
<1> QED
    BY <1>4, <1>5 DEF StorefrontInv, Tables, shop

LEMMA WriteShopKeepsInv ==
  ASSUME StorefrontInv, WriteShop
  PROVE  StorefrontInv'
<1>1. ASSUME NEW x \in Products \cup Stores \cup Categories, SetActive(x)
      PROVE  StorefrontInv'
      BY <1>1, WriteKeepsInv DEF SetActive, StorefrontInv, Tables, people
<1>2. ASSUME NEW p \in Products, SoftDeleteProduct(p)
      PROVE  StorefrontInv'
      BY <1>2, WriteKeepsInv DEF SoftDeleteProduct, StorefrontInv, Tables, people
<1>3. ASSUME NEW p \in Products, SetPictured(p)
      PROVE  StorefrontInv'
      BY <1>3, WriteKeepsInv DEF SetPictured, StorefrontInv, Tables, people
<1>4. ASSUME NEW p \in Products, ReplaceProductCategories(p)
      PROVE  StorefrontInv'
      BY <1>4, WriteKeepsInv DEF ReplaceProductCategories, StorefrontInv, Tables, people
<1>5. ASSUME NEW b \in Banners, SetBanner(b)
      PROVE  StorefrontInv'
      BY <1>5, WriteKeepsInv DEF SetBanner, StorefrontInv, Tables, people
<1> QED
    BY <1>1, <1>2, <1>3, <1>4, <1>5 DEF WriteShop

LEMMA WriteReviewsKeepInv ==
  ASSUME StorefrontInv, WriteReviews
  PROVE  StorefrontInv'
<1>1. ASSUME NEW r \in Reviews, WriteReview(r)
      PROVE  StorefrontInv'
      BY <1>1, WriteKeepsInv DEF WriteReview, StorefrontInv, Tables, shop
<1>2. ASSUME NEW r \in Reviews, DeleteReview(r)
      PROVE  StorefrontInv'
      BY <1>2, WriteKeepsInv DEF DeleteReview, StorefrontInv, Tables, shop
<1>3. ASSUME NEW r \in Reviews, NEW n, SetLikes(r, n)
      PROVE  StorefrontInv'
      BY <1>3, WriteKeepsInv DEF SetLikes, StorefrontInv, Tables, shop
<1> QED
    BY <1>1, <1>2, <1>3 DEF WriteReviews, LikeReview, UnlikeReview

LEMMA WritePeopleKeepsInv ==
  ASSUME StorefrontInv, WritePeople
  PROVE  StorefrontInv'
<1>1. ASSUME NEW p \in Products, NEW n, SetSold(p, n)
      PROVE  StorefrontInv'
      BY <1>1, WriteKeepsInv DEF SetSold, StorefrontInv, Tables, shop
<1>2. ASSUME NEW a \in Customers, NEW x, RemoveFromWishlist(a, x)
      PROVE  StorefrontInv'
      BY <1>2, WriteKeepsInv DEF RemoveFromWishlist, StorefrontInv, Tables, shop
<1>3. ASSUME NEW a \in Customers, NEW P, DeleteViews(a, P)
      PROVE  StorefrontInv'
      BY <1>3, WriteKeepsInv DEF DeleteViews, StorefrontInv, Tables, shop
<1> QED
    BY <1>1, <1>2, <1>3 DEF WritePeople

-----------------------------------------------------------------------------
(* The invariant. *)

LEMMA InitStorefrontInv == Init => StorefrontInv
<1> SUFFICES ASSUME Init PROVE StorefrontInv
    OBVIOUS
<1>1. Tables
      BY DEF Init, Tables
<1>2. Job(Idle)
      BY <1>1, IdleIsWhole DEF Tables
<1>3. \A w \in Workers : job[w] = Idle
      BY DEF Init
<1> QED
    BY <1>1, <1>2, <1>3 DEF StorefrontInv, JobsInv

LEMMA StartKeepsInv ==
  ASSUME StorefrontInv, NEW w \in Workers, Start(w)
  PROVE  StorefrontInv'
BY PopularKeepsInv, RandomCakesKeepInv, ShowcaseKeepsInv, SidebarKeepsInv, RecentViewsKeepInv,
   DetailKeepsInv, AddingKeepsInv DEF Start

LEMMA ProceedKeepsInv ==
  ASSUME StorefrontInv, NEW w \in Workers, Proceed(w)
  PROVE  StorefrontInv'
<1>1. ASSUME Reply(w)
      PROVE  StorefrontInv'
  <2>1. PICK j : j = Idle
        OBVIOUS
  <2>2. job' = [job EXCEPT ![w] = j] /\ UNCHANGED <<shop, people, writes>>
        BY <1>1, <2>1 DEF Reply, Go
  <2>3. Job(j)
        BY <2>1, IdleIsWhole DEF StorefrontInv, Tables
  <2> QED
      BY <2>2, <2>3, ReadKeepsInv
<1> QED
    BY <1>1, ReadAggregateKeepsInv, RankActiveKeepsInv, UpsertKeepsInv DEF Proceed

LEMMA NextStorefrontInv == StorefrontInv /\ [Next]_vars => StorefrontInv'
<1> SUFFICES ASSUME StorefrontInv, [Next]_vars PROVE StorefrontInv'
    OBVIOUS
<1>1. ASSUME NEW w \in Workers, Start(w) \/ Proceed(w)
      PROVE  StorefrontInv'
      BY <1>1, StartKeepsInv, ProceedKeepsInv
<1>2. CASE WriteShop \/ WriteReviews \/ WritePeople
      BY <1>2, WriteShopKeepsInv, WriteReviewsKeepInv, WritePeopleKeepsInv
<1>3. CASE UNCHANGED vars
  <2>1. UNCHANGED <<shop, people, writes>> /\ UNCHANGED job
        BY <1>3 DEF vars
  <2>2. \A w \in Workers : Job(job[w])'
    <3> SUFFICES ASSUME NEW w \in Workers PROVE Job(job[w])'
        OBVIOUS
    <3>1. PICK j : j = job[w]
          OBVIOUS
    <3>2. Job(j)
          BY <3>1 DEF StorefrontInv, JobsInv
    <3>3. Job(j)'
          BY <2>1, <3>2, ReadsKeepJob
    <3>4. j = job'[w]
          BY <2>1, <3>1
    <3> QED
        BY <3>3, <3>4 DEF Job
  <2>3. Tables'
        BY <2>1 DEF StorefrontInv, Tables, shop, people
  <2> QED
      BY <2>2, <2>3 DEF StorefrontInv, JobsInv
<1> QED
    BY <1>1, <1>2, <1>3 DEF Next

(* In every reachable state each request is as the part of the code it is in leaves it. *)
THEOREM StorefrontInvHolds == Spec => []StorefrontInv
<1>1. Init => StorefrontInv
      BY InitStorefrontInv
<1>2. StorefrontInv /\ [Next]_vars => StorefrontInv'
      BY NextStorefrontInv
<1> QED
    BY <1>1, <1>2, PTL DEF Spec

(* Every column keeps its values, and no page is longer than asked for or shows a row twice. *)
THEOREM StorefrontTypeCorrect == Spec => []TypeOK
<1>1. StorefrontInv => TypeOK
      BY DEF StorefrontInv, Tables, JobsInv, Job, Whole, Fills, Ranked, TypeOK
<1> QED
    BY <1>1, StorefrontInvHolds, PTL

-----------------------------------------------------------------------------
(* What the properties say follows. *)

LEMMA HomeBannerIsOne ==
  ASSUME StorefrontInv, NEW c, FindHomeBanner(c) # None
  PROVE  \E b \in HomeBanners(c) : FindHomeBanner(c) = banner[b]
<1> DEFINE H == HomeBanners(c)
<1>1. H # {} /\ H \subseteq Nat
      BY StorefrontConstants DEF FindHomeBanner, HomeBanners
<1>2. PICK less : IsWellFoundedOn(less, Nat) /\ \A d, e \in Nat : d < e => <<d, e>> \in less
  <2>1. IsWellFoundedOn(OpToRel(<, Nat), Nat)
        BY NatLessThanWellFounded
  <2>2. \A d, e \in Nat : d < e => <<d, e>> \in OpToRel(<, Nat)
        BY DEF OpToRel
  <2> QED
      BY <2>1, <2>2
<1>3. PICK b \in H : \A d \in H : <<d, b>> \notin less
      BY <1>1, <1>2, WFMin
<1>4. ASSUME NEW d \in H PROVE b <= d
  <2>1. b \in Nat /\ d \in Nat
        BY <1>1, <1>3
  <2>2. ~(d < b)
        BY <1>2, <1>3, <2>1
  <2> QED
      BY <2>1, <2>2
<1>5. (CHOOSE e \in H : \A d \in H : e <= d) \in H
      BY <1>4
<1> QED
    BY <1>1, <1>5 DEF FindHomeBanner

LEMMA ActiveTargetOpens ==
  ASSUME NEW l \in Links, BannerTargetActive(l), l.type # "NONE"
  PROVE  Opens(l.target)
<1>1. l.type \in {"PRODUCT", "STORE", "CATEGORY"}
      BY LinkConstants DEF LinkTypes
<1>2. CASE l.type = "PRODUCT"
      BY <1>2, LinkConstants DEF BannerTargetActive, Opens
<1>3. CASE l.type = "STORE"
      BY <1>3, LinkConstants, StorefrontConstants DEF BannerTargetActive, Opens, FindStoreDetailById
<1>4. CASE l.type = "CATEGORY"
      BY <1>4, LinkConstants, StorefrontConstants DEF BannerTargetActive, Opens
<1> QED
    BY <1>1, <1>2, <1>3, <1>4

(* What home page, rankings, showcase, viewed products and store reviews list can be opened. *)
THEOREM ListedCanBeOpened == Spec => []ListedOpens
<1>1. ASSUME StorefrontInv PROVE ListedOpens
  <2>1. ASSUME NEW c \in Categories \cup {None}, NEW l, l = FindHomeBanner(c), l # None, l.type # "NONE"
        PROVE  Opens(l.target)
    <3>1. PICK b \in HomeBanners(c) : l = banner[b]
          BY <1>1, <2>1, HomeBannerIsOne
    <3>2. l \in Links /\ BannerTargetActive(l)
          BY <1>1, <2>1, <3>1 DEF HomeBanners, StorefrontInv, Tables
    <3> QED
        BY <2>1, <3>2, ActiveTargetOpens
  <2>2. ASSUME NEW w \in Workers, Still(w)
        PROVE  /\ job[w].pc = "ranked" => \A x \in Range(job[w].page) : Opens(x)
               /\ At(w, "showcase", "fill") =>
                    \A r \in FindShowcaseReviewRows(job[w]) : FindReviewDetailById(r)
    <3>1. PICK j : j = job[w]
          OBVIOUS
    <3>2. Job(j) /\ Now(j)
          BY <1>1, <2>2, <3>1 DEF StorefrontInv, JobsInv, Still, Now
    <3>3. j.pc = "ranked" => \A x \in Range(j.page) : Opens(x)
          BY <3>2 DEF Job, Ranked
    <3>4. ASSUME j.kind = "showcase", j.pc = "fill", NEW r \in FindShowcaseReviewRows(j)
          PROVE  FindReviewDetailById(r)
          BY <3>2, <3>4 DEF Job, Fills, FindShowcaseReviewRows, ShowcaseReviews,
               FindReviewDetailById, PublicProductReviews
    <3> QED
        BY <3>1, <3>3, <3>4 DEF At
  <2>3. \A a \in Customers : \A p \in FindRecentByAccount(a) : Opens(p) \/ StoreOf[p] \notin on
        BY DEF FindRecentByAccount, FindActiveProduct, Opens, FindProductDetailById
  <2>4. \A s \in Stores : \A r \in PublicStoreReviews(s) :
          FindReviewDetailById(r) \/ ~FindActiveProduct(ProductOf[r])
        BY DEF PublicStoreReviews, FindReviewDetailById, PublicProductReviews, FindActiveProduct,
             FindProductDetailById
  <2> QED
      BY <2>1, <2>2, <2>3, <2>4 DEF ListedOpens
<1> QED
    BY <1>1, StorefrontInvHolds, PTL

LEMMA SidebarCounts ==
  ASSUME NEW s \in Stores, NEW c \in Categories
  PROVE  /\ c \in on => Cardinality(ListActiveProductsByStore(s, c)) = GroupByCategory(s)[c]
         /\ c \notin on => Cardinality(ListActiveProductsByStore(s, c)) = 0
         /\ Cardinality(ListActiveProductsByStore(s, c)) \in Nat
<1>1. c # None
      BY StorefrontConstants
<1>2. ListActiveProductsByStore(s, c) \in SUBSET Products
      BY DEF ListActiveProductsByStore
<1>3. Cardinality(ListActiveProductsByStore(s, c)) \in Nat
      BY <1>2, ProductsFinite DEF Rows
<1>4. CASE c \in on
  <2>1. ListActiveProductsByStore(s, c)
          = {p \in Products : StoreOf[p] = s /\ FindProductDetailById(p) /\ <<p, c>> \in filed}
        BY <1>1, <1>4 DEF ListActiveProductsByStore, FiledUnder
  <2> QED
      BY <1>3, <1>4, <2>1 DEF GroupByCategory
<1>5. CASE c \notin on
  <2>1. ListActiveProductsByStore(s, c) = {}
        BY <1>1, <1>5 DEF ListActiveProductsByStore, FiledUnder
  <2> QED
      BY <1>3, <1>5, <2>1, FS_EmptySet
<1> QED
    BY <1>3, <1>4, <1>5

LEMMA PageCounts ==
  ASSUME NEW x \in Rows, Opens(x), posted \subseteq Reviews
  PROVE  IF x \in Products THEN CountProductReviews(x) = Cardinality(PublicProductReviews(x))
         ELSE ReviewStats(x).count = Cardinality(PublicStoreReviews(x))
<1>1. CASE x \in Products
  <2>1. PublicProductReviews(x) = {r \in posted : ProductOf[r] = x}
        BY <1>1 DEF PublicProductReviews, Opens
  <2> QED
      BY <1>1, <2>1 DEF CountProductReviews
<1>2. CASE x \notin Products
  <2>1. ReviewsOf(x) = PublicStoreReviews(x)
        BY <1>2, StorefrontConstants DEF Rows, ReviewsOf, ProductsOf, PublicStoreReviews, Opens
  <2> QED
      BY <1>2, <2>1 DEF ReviewStats
<1> QED
    BY <1>1, <1>2

(* The counts in the sidebar of a store, and of the reviews of a page, are those of the lists. *)
THEOREM CountsAreOfTheLists == Spec => []CountsMatchLists
<1>1. ASSUME StorefrontInv PROVE CountsMatchLists
  <2> SUFFICES ASSUME NEW w \in Workers, NEW j, j = job[w]
               PROVE  /\ At(w, "sidebar", "fill") /\ Still(w) =>
                           \A c \in Categories :
                             LET n == Cardinality(ListActiveProductsByStore(j.who, c))
                                 shown == ListStoreProductCategories(j) IN
                             IF n = 0 THEN c \notin DOMAIN shown ELSE c \in DOMAIN shown /\ shown[c] = n
                      /\ At(w, "detail", "fill") /\ Opens(j.page[1]) =>
                           LET x == j.page[1] IN
                           IF x \in Products THEN CountProductReviews(x) = Cardinality(PublicProductReviews(x))
                           ELSE ReviewStats(x).count = Cardinality(PublicStoreReviews(x))
      BY DEF CountsMatchLists
  <2>1. Job(j) /\ posted \subseteq Reviews
        BY <1>1 DEF StorefrontInv, JobsInv, Tables
  <2>2. ASSUME At(w, "sidebar", "fill"), Still(w), NEW c \in Categories, NEW n,
               n = Cardinality(ListActiveProductsByStore(j.who, c)),
               NEW shown, shown = ListStoreProductCategories(j)
        PROVE  IF n = 0 THEN c \notin DOMAIN shown ELSE c \in DOMAIN shown /\ shown[c] = n
    <3>1. j.who \in Stores /\ j.seen = GroupByCategory(j.who)
          BY <2>1, <2>2 DEF Job, Fills, At, Still, Now
    <3>2. DOMAIN shown = {d \in Categories \cap on : j.seen[d] > 0} /\ \A d \in DOMAIN shown : shown[d] = j.seen[d]
          BY <2>2 DEF ListStoreProductCategories
    <3>3. n \in Nat /\ (c \in on => j.seen[c] = n) /\ (c \notin on => n = 0)
          BY <2>2, <3>1, SidebarCounts
    <3> QED
        BY <3>2, <3>3
  <2>3. ASSUME At(w, "detail", "fill"), Opens(j.page[1]), NEW x, x = j.page[1]
        PROVE  IF x \in Products THEN CountProductReviews(x) = Cardinality(PublicProductReviews(x))
               ELSE ReviewStats(x).count = Cardinality(PublicStoreReviews(x))
    <3>1. x \in Rows
          BY <2>1, <2>3 DEF Job, Fills, At
    <3> QED
        BY <2>1, <2>3, <3>1, PageCounts
  <2> QED
      BY <2>2, <2>3
<1> QED
    BY <1>1, StorefrontInvHolds, PTL

(* Cakes drawn by lot and reviews of the showcase that are gone by the second statement are
   left out, and nothing else is. *)
THEOREM OnlyTheGoneAreLeftOut == Spec => []ShownAreThere
<1>1. ASSUME StorefrontInv PROVE ShownAreThere
  <2> SUFFICES ASSUME NEW w \in Workers, NEW j, j = job[w]
               PROVE  /\ At(w, "random", "fill") =>
                           LET shown == FindRandomCakeRows(j) IN
                           /\ shown \subseteq ListRandomCakeCandidateIds(j.chip)
                           /\ Still(w) => shown = Range(j.page)
                      /\ At(w, "showcase", "fill") /\ Still(w) => FindShowcaseReviewRows(j) = Range(j.page)
      BY DEF ShownAreThere
  <2>1. Job(j)
        BY <1>1 DEF StorefrontInv, JobsInv
  <2>2. Still(w) => Now(j)
        BY DEF Still, Now
  <2>3. At(w, "random", "fill") =>
          /\ FindRandomCakeRows(j) \subseteq ListRandomCakeCandidateIds(j.chip)
          /\ Still(w) => FindRandomCakeRows(j) = Range(j.page)
        BY <2>1, <2>2 DEF Job, Fills, At, FindRandomCakeRows, ListRandomCakeCandidateIds,
             FindActiveCakesForRanking
  <2>4. At(w, "showcase", "fill") /\ Still(w) => FindShowcaseReviewRows(j) = Range(j.page)
        BY <2>1, <2>2 DEF Job, Fills, At, FindShowcaseReviewRows, ShowcaseReviews
  <2> QED
      BY <2>3, <2>4
<1> QED
    BY <1>1, StorefrontInvHolds, PTL

(* A row as good as another in everything, and better in one respect, is never ranked below it,
   whatever is written while the ranking is put together. *)
THEOREM RankingsAreFair == Spec => []RankingFair
<1>1. StorefrontInv => RankingFair
      BY DEF StorefrontInv, JobsInv, Job, Ranked, Fair, Now, Still, RankingFair
<1> QED
    BY <1>1, StorefrontInvHolds, PTL

=============================================================================
