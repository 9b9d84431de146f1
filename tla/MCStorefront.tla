----------------------------- MODULE MCStorefront -----------------------------
(* Instances of Storefront for TLC. *)
EXTENDS Storefront, TLC

CONSTANTS w1, w2, ann, bob

Home == (1 :> 11) @@ (2 :> 11) @@ (3 :> 12)
Reviewed == (31 :> 1) @@ (32 :> 2) @@ (33 :> 3)
Rating == (31 :> 5) @@ (32 :> 3) @@ (33 :> 5)

\* ln(1 + n), of 5040 units.
LogUnits == <<0, 3493, 5537, 6987, 8112, 9030, 9807, 10480>>
Log1p == [n \in 0 .. 7 |-> LogUnits[n + 1]]

MCLinks ==
  {[placement |-> "HOME_MAIN", category |-> None, type |-> "PRODUCT", target |-> 1],
   [placement |-> "HOME_MAIN", category |-> None, type |-> "STORE", target |-> 12],
   [placement |-> "CATEGORY", category |-> 21, type |-> "CATEGORY", target |-> 21],
   [placement |-> "HOME_MAIN", category |-> 22, type |-> "CATEGORY", target |-> 22]}

VARIABLE focus   \* what the requests are about

All == Products \cup Stores \cup Categories

\* Where nothing depends on it, there is one shop.
MCInit ==
  /\ focus \in {"home", "banner", "shelf", "wishes", "reviews", "rank"}
  /\ on \in IF focus = "rank" THEN {All} ELSE {All, All \ {11}, All \ {21}}
  /\ gone = {} /\ pictured = Products
  /\ filed = {<<1, 21>>, <<2, 22>>, <<3, 21>>}
  /\ wish \in IF focus = "wishes" THEN {{}, {<<ann, 1>>}} ELSE {{<<ann, 1>>}}
  /\ viewed = IF focus = "wishes" THEN {<<ann, 1>>, <<ann, 2>>} ELSE {}
  /\ banner \in IF focus = "banner" THEN [Banners -> MCLinks \cup {None}] ELSE {[b \in Banners |-> None]}
  /\ posted \in IF focus = "rank" THEN {{}, {31, 32}} ELSE {{31, 33}}
  /\ photo = IF focus = "reviews" THEN posted ELSE {}
  /\ likes = [r \in Reviews |-> 0]
  /\ sold = [p \in Products |-> 0]
  /\ Init

\* The pictures of reviews, their likes and what was viewed are no matter to a ranking.
Writes ==
  \/ focus # "rank" /\ \E x \in All : SetActive(x)
  \/ focus # "rank" /\ \E p \in Products : SoftDeleteProduct(p)
  \/ focus = "home" /\ \E p \in Products : SetPictured(p)
  \/ focus \in {"home", "shelf"} /\ \E p \in Products : ReplaceProductCategories(p)
  \/ focus = "banner" /\ \E b \in Banners : SetBanner(b)
  \/ focus = "reviews" /\ WriteReviews
  \/ focus = "rank" /\ WriteReviews /\ UNCHANGED <<likes, photo>>
  \/ focus = "rank" /\ WritePeople
  \/ focus = "wishes" /\ WritePeople /\ UNCHANGED sold

Reads(w) ==
  \/ focus = "home" /\ RandomCakes(w)
  \/ focus = "shelf" /\ StoreProductCategories(w)
  \/ focus = "reviews" /\ CustomCakeShowcase(w)
  \/ focus = "rank" /\ (PopularCakes(w) \/ PopularStores(w)) /\ job'[w].limit # 1
  \/ \E a \in Customers :
       \/ focus \in {"wishes", "reviews"} /\ (ProductDetail(w, a) \/ StoreDetail(w, a))
       \/ focus = "wishes" /\ ListRecentViews(w, a)

Adds(w) ==
  \E a \in Customers :
    \/ focus = "wishes" /\ RecordView(w, a)
    \/ focus \in {"wishes", "rank"} /\ (AddToWishlist(w, a) \/ AddStoreToWishlist(w, a))

\* One request that reads, and one that may add to a list meanwhile.
MCNext ==
  /\ Reads(w1) \/ Adds(w2) \/ Writes \/ (\E w \in Workers : Proceed(w))
  /\ UNCHANGED focus

MCSpec == MCInit /\ [][MCNext]_<<vars, focus>>

=============================================================================
