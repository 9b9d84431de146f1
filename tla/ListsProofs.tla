------------------------------ MODULE ListsProofs ------------------------------
(* Theorems about the lists a customer reads.                              *)
(*                                                                         *)
(* First of RecentViews, for any number of products, any limit and any     *)
(* number of overlapping requests; then of ListPages, for any list of the   *)
(* API, any rows and any limit.                                            *)
EXTENDS RecentViews, ListPages, FiniteSetTheorems, SequenceTheorems, FunctionTheorems, TLAPS

----------------------------------------------------------------------------
(* RecentViews.                                                            *)

ViewInv == ViewsTypeOK /\ WillFit

(* A job's parts, by where it stands.                                      *)
LEMMA JobParts ==
    ASSUME NEW j \in Jobs
    PROVE  /\ j.ids \subseteq Products
           /\ j.pc # "delete" => j.ids = {}
           /\ j.pc \in {"upsert", "read", "delete"} => j.product \in Products /\ j.at \in 1 .. MaxTime
           /\ j.pc \in {"idle", "upsert", "read", "delete"}
BY DEF Jobs, Idle

(* The requests of one worker change what is about to be deleted by what   *)
(* that worker plans.                                                      *)
LEMMA DoomedStep ==
    ASSUME ViewsTypeOK, NEW w \in Workers, NEW r, job' = [job EXCEPT ![w] = r]
    PROVE  /\ Doomed \subseteq Doomed' \cup job[w].ids
           /\ r.ids \subseteq Doomed'
<1>1. job'[w] = r /\ \A u \in Workers \ {w} : job'[u] = job[u]
      BY DEF ViewsTypeOK
<1> QED
    BY <1>1 DEF Doomed

(* Fewer views left over than fitted before still fit.                     *)
LEMMA FewerFit ==
    ASSUME NEW S, NEW T, T \subseteq S, S \subseteq Products, Cardinality(S) <= MAX_RECENT_VIEWS
    PROVE  Cardinality(T) <= MAX_RECENT_VIEWS
<1>1. IsFiniteSet(S)
      BY ViewConstants, FS_Subset
<1>2. IsFiniteSet(T) /\ Cardinality(T) <= Cardinality(S)
      BY <1>1, FS_Subset
<1>3. Cardinality(S) \in Nat /\ Cardinality(T) \in Nat
      BY <1>1, <1>2, FS_CardinalityType
<1> QED
    BY <1>2, <1>3, ViewConstants

(* A step that adds no view, and whose worker neither drops a plan without *)
(* carrying it out nor stops being about to look, keeps the fit.           *)
LEMMA KeepsFit ==
    ASSUME ViewsTypeOK, WillFit, NEW w \in Workers, NEW r, job' = [job EXCEPT ![w] = r],
           job[w].pc # "read", live' \subseteq live, leaked' = leaked,
           live' \cap job[w].ids \subseteq r.ids
    PROVE  WillFit'
<1>1. CASE leaked
      BY <1>1 DEF WillFit
<1>2. CASE \E u \in Workers : job[u].pc = "read"
  <2>1. PICK u \in Workers : job[u].pc = "read"
        BY <1>2
  <2>2. job'[u].pc = "read"
        BY <2>1 DEF ViewsTypeOK
  <2> QED
      BY <2>2 DEF WillFit
<1>3. CASE Cardinality(live \ Doomed) <= MAX_RECENT_VIEWS
  <2>1. (live \ Doomed)' \subseteq live \ Doomed
        BY DoomedStep
  <2>2. PICK S, T : S = live \ Doomed /\ T = (live \ Doomed)'
        OBVIOUS
  <2>3. S \subseteq Products
        BY <2>2 DEF ViewsTypeOK
  <2>4. Cardinality(T) <= MAX_RECENT_VIEWS
        BY <1>3, <2>1, <2>2, <2>3, FewerFit
  <2> QED
      BY <2>2, <2>4 DEF WillFit
<1> QED
    BY <1>1, <1>2, <1>3 DEF WillFit

(* The same when no request moves.                                         *)
LEMMA KeepsFitAtRest ==
    ASSUME ViewsTypeOK, WillFit, UNCHANGED <<job, leaked>>, live' \subseteq live
    PROVE  WillFit'
<1>1. Doomed' = Doomed
      BY DEF Doomed
<1>2. CASE Cardinality(live \ Doomed) <= MAX_RECENT_VIEWS
  <2>1. PICK S, T : S = live \ Doomed /\ T = (live \ Doomed)'
        OBVIOUS
  <2>2. T \subseteq S /\ S \subseteq Products
        BY <1>1, <2>1 DEF ViewsTypeOK
  <2>3. Cardinality(T) <= MAX_RECENT_VIEWS
        BY <1>2, <2>1, <2>2, FewerFit
  <2> QED
      BY <2>1, <2>3 DEF WillFit
<1> QED
    BY <1>2 DEF WillFit

----------------------------------------------------------------------------

(* Every step keeps the types.                                             *)
LEMMA StepKeepsTypes == ViewsTypeOK /\ [ViewsNext]_viewsVars => ViewsTypeOK'
<1> SUFFICES ASSUME ViewsTypeOK, [ViewsNext]_viewsVars PROVE ViewsTypeOK'
    OBVIOUS
<1>1. Idle \in Jobs
      BY DEF Jobs
<1>2. ASSUME NEW w \in Workers, End(w) PROVE job' \in [Workers -> Jobs]
      BY <1>1, <1>2 DEF End, ViewsTypeOK
<1>3. ASSUME NEW w \in Workers, NEW p \in Products, Record(w, p) PROVE ViewsTypeOK'
  <2>1. PICK j : j = [pc |-> "upsert", product |-> p, at |-> time, ids |-> {}]
        OBVIOUS
  <2>2. j \in Jobs
        BY <2>1 DEF ViewsTypeOK, Jobs
  <2> QED
      BY <1>3, <2>1, <2>2 DEF Record, ViewsTypeOK
<1>4. ASSUME NEW w \in Workers, NEW p \in Products, DeleteOne(w, p) PROVE ViewsTypeOK'
      BY <1>4 DEF DeleteOne, ViewsTypeOK
<1>4a. ASSUME NEW w \in Workers, ClearAll(w) PROVE ViewsTypeOK'
      BY <1>4a DEF ClearAll, ViewsTypeOK
<1>5. ASSUME NEW w \in Workers, Upsert(w) PROVE ViewsTypeOK'
  <2>1. PICK p \in Products, t \in 1 .. MaxTime : p = job[w].product /\ t = job[w].at
        BY <1>5, JobParts DEF Upsert, ViewsTypeOK
  <2>2. PICK j : j = [pc |-> "read", product |-> p, at |-> t, ids |-> {}]
        OBVIOUS
  <2>3. j \in Jobs
        BY <2>2 DEF Jobs
  <2>4. job' = [job EXCEPT ![w] = j]
        BY <1>5, <2>1, <2>2 DEF Upsert, Goto
  <2>5. viewed' = [viewed EXCEPT ![p] = t] /\ live' = live \cup {p}
        BY <1>5, <2>1 DEF Upsert
  <2> QED
      BY <1>5, <2>3, <2>4, <2>5, ViewConstants DEF Upsert, ViewsTypeOK
<1>6. ASSUME NEW w \in Workers, TrimRead(w) PROVE ViewsTypeOK'
  <2>1. PICK ids \in OverLimit : IF ids = {} THEN End(w) ELSE Goto(w, "delete", ids)
        BY <1>6 DEF TrimRead
  <2>2. ids \subseteq Products
        BY <2>1 DEF OverLimit, ViewsTypeOK
  <2>3. job' \in [Workers -> Jobs]
    <3>1. CASE ids = {}
          BY <1>2, <2>1, <3>1
    <3>2. CASE ids # {}
      <4>1. PICK p \in Products, t \in 1 .. MaxTime : p = job[w].product /\ t = job[w].at
            BY <1>6, JobParts DEF TrimRead, ViewsTypeOK
      <4>2. PICK j : j = [pc |-> "delete", product |-> p, at |-> t, ids |-> ids]
            OBVIOUS
      <4>3. ids \in (SUBSET Products) \ {{}}
            BY <2>2, <3>2
      <4>5. j \in Jobs
            BY <4>2, <4>3 DEF Jobs
      <4>4. job' = [job EXCEPT ![w] = j]
            BY <2>1, <3>2, <4>1, <4>2 DEF Goto
      <4> QED
          BY <4>4, <4>5 DEF ViewsTypeOK
    <3> QED
        BY <3>1, <3>2
  <2> QED
      BY <1>6, <2>3 DEF TrimRead, ViewsTypeOK
<1>7. ASSUME NEW w \in Workers, TrimDelete(w) PROVE ViewsTypeOK'
      BY <1>2, <1>7 DEF TrimDelete, ViewsTypeOK
<1>8. ASSUME NEW w \in Workers, Fail(w) PROVE ViewsTypeOK'
      BY <1>2, <1>8 DEF Fail, ViewsTypeOK
<1>9. CASE Surroundings
      BY <1>9, ViewConstants DEF Surroundings, TimePasses, SetActive, ViewsTypeOK
<1>10. CASE UNCHANGED viewsVars
       BY <1>10 DEF viewsVars, ViewsTypeOK
<1> QED
    BY <1>3, <1>4, <1>4a, <1>5, <1>6, <1>7, <1>8, <1>9, <1>10 DEF ViewsNext, Handle

(* After looking at the list, what is not to be deleted fits.              *)
LEMMA LookingFits ==
    ASSUME ViewsTypeOK, NEW w \in Workers, TrimRead(w)
    PROVE  WillFit'
<1>1. PICK ids \in OverLimit : IF ids = {} THEN End(w) ELSE Goto(w, "delete", ids)
      BY DEF TrimRead
<1>2. PICK r : job' = [job EXCEPT ![w] = r] /\ r.ids = ids
  <2>1. CASE ids = {}
    <3>1. Idle.ids = ids
          BY <2>1 DEF Idle
    <3>2. job' = [job EXCEPT ![w] = Idle]
          BY <1>1, <2>1 DEF End
    <3> QED
        BY <3>1, <3>2
  <2>2. CASE ids # {}
    <3>1. PICK j : j = [pc |-> "delete", product |-> job[w].product, at |-> job[w].at, ids |-> ids]
          OBVIOUS
    <3>2. j.ids = ids
          BY <3>1
    <3>3. job' = [job EXCEPT ![w] = j]
          BY <1>1, <2>2, <3>1 DEF Goto
    <3> QED
        BY <3>2, <3>3
  <2> QED
      BY <2>1, <2>2
<1>3. ids \subseteq Doomed'
      BY <1>2, DoomedStep
<1>4. live' = live
      BY DEF TrimRead
<1>5. PICK T : T = (live \ Doomed)'
      OBVIOUS
<1>6. T \subseteq live \ ids
      BY <1>3, <1>4, <1>5
<1>7. Cardinality(live \ ids) <= MAX_RECENT_VIEWS
  <2>1. CASE Cardinality(live) <= MAX_RECENT_VIEWS
    <3>1. ids = {}
          BY <1>1, <2>1 DEF OverLimit
    <3>2. live \ ids = live
          BY <3>1
    <3> QED
        BY <2>1, <3>2
  <2>2. CASE ~(Cardinality(live) <= MAX_RECENT_VIEWS)
    <3>1. PICK keep \in Newest(MAX_RECENT_VIEWS) : ids = live \ keep
          BY <1>1, <2>2 DEF OverLimit
    <3>2. live \ ids = keep /\ Cardinality(keep) = MAX_RECENT_VIEWS
          BY <3>1 DEF Newest
    <3> QED
        BY <3>2, ViewConstants
  <2> QED
      BY <2>1, <2>2
<1>8. Cardinality(T) <= MAX_RECENT_VIEWS
  <2>1. PICK S : S = live \ ids
        OBVIOUS
  <2>2. S \subseteq Products
        BY <2>1 DEF ViewsTypeOK
  <2> QED
      BY <1>6, <1>7, <2>1, <2>2, FewerFit
<1> QED
    BY <1>5, <1>8 DEF WillFit

(* The invariant: types, and that what stays will fit.                     *)
THEOREM ViewsWillFit == ViewsSpec => []ViewInv
<1>1. ViewsInit => ViewInv
  <2> SUFFICES ASSUME ViewsInit PROVE ViewInv
      OBVIOUS
  <2>1. Idle \in Jobs /\ Idle.ids = {}
        BY DEF Idle, Jobs
  <2>2. 0 \in 0 .. MaxTime /\ 1 \in 1 .. MaxTime
        BY ViewConstants
  <2>3. ViewsTypeOK
        BY <2>1, <2>2 DEF ViewsInit, ViewsTypeOK
  <2>4. live \ Doomed = {}
        BY DEF ViewsInit
  <2>5. Cardinality(live \ Doomed) <= MAX_RECENT_VIEWS
        BY <2>4, FS_EmptySet, ViewConstants
  <2> QED
      BY <2>3, <2>5 DEF ViewInv, WillFit
<1>2. ViewInv /\ [ViewsNext]_viewsVars => ViewInv'
  <2> SUFFICES ASSUME ViewsTypeOK, WillFit, [ViewsNext]_viewsVars PROVE WillFit'
      BY StepKeepsTypes DEF ViewInv
  <2>1. ASSUME NEW w \in Workers, NEW p \in Products, Record(w, p) PROVE WillFit'
    <3>1. PICK r : job' = [job EXCEPT ![w] = r]
          BY <2>1 DEF Record
    <3>2. job[w].pc # "read" /\ job[w].ids = {}
          BY <2>1 DEF Record, Idle
    <3> QED
        BY <2>1, <3>1, <3>2, KeepsFit DEF Record
  <2>2. ASSUME NEW w \in Workers, NEW p \in Products, DeleteOne(w, p) PROVE WillFit'
        BY <2>2, KeepsFitAtRest DEF DeleteOne
  <2>2a. ASSUME NEW w \in Workers, ClearAll(w) PROVE WillFit'
        BY <2>2a, KeepsFitAtRest DEF ClearAll
  <2>3. ASSUME NEW w \in Workers, Upsert(w) PROVE WillFit'
    <3>1. job'[w].pc = "read"
          BY <2>3 DEF Upsert, Goto, ViewsTypeOK
    <3> QED
        BY <3>1 DEF WillFit
  <2>4. ASSUME NEW w \in Workers, TrimDelete(w) PROVE WillFit'
    <3>1. job' = [job EXCEPT ![w] = Idle] /\ live' = live \ job[w].ids
          BY <2>4 DEF TrimDelete, End
    <3>2. live' \cap job[w].ids \subseteq Idle.ids
          BY <3>1
    <3> QED
        BY <2>4, <3>1, <3>2, KeepsFit DEF TrimDelete
  <2>5. ASSUME NEW w \in Workers, Fail(w) PROVE WillFit'
    <3>1. CASE job[w].pc \in {"read", "delete"}
          BY <2>5, <3>1 DEF Fail, WillFit
    <3>2. CASE job[w].pc \notin {"read", "delete"}
      <4>1. job[w].ids = {}
            BY <3>2, JobParts DEF ViewsTypeOK
      <4>2. leaked' = leaked /\ live' = live /\ job' = [job EXCEPT ![w] = Idle]
            BY <2>5, <3>2 DEF Fail, End, ViewsTypeOK
      <4> QED
          BY <3>2, <4>1, <4>2, KeepsFit
    <3> QED
        BY <3>1, <3>2
  <2>6. CASE Surroundings
        BY <2>6, KeepsFitAtRest DEF Surroundings, TimePasses, SetActive
  <2>7. CASE UNCHANGED viewsVars
        BY <2>7, KeepsFitAtRest DEF viewsVars
  <2> QED
      BY <2>1, <2>2, <2>2a, <2>3, <2>4, <2>5, <2>6, <2>7, LookingFits DEF ViewsNext, Handle
<1> QED
    BY <1>1, <1>2, PTL DEF ViewsSpec

(* Rows and requests always have their types.                              *)
THEOREM ViewTypeCorrect == ViewsSpec => []ViewsTypeOK
BY ViewsWillFit, PTL DEF ViewInv

(* Once no request is under way, the customer has at most the limit of     *)
(* views, unless a request failed before its clean-up.                     *)
THEOREM NeverTooManyViews == ViewsSpec => []AtMostMax
<1>1. ViewInv => AtMostMax
  <2> SUFFICES ASSUME ViewInv, AtRest, ~leaked
               PROVE  Cardinality(live) <= MAX_RECENT_VIEWS
      BY DEF AtMostMax
  <2>1. \A w \in Workers : job[w].pc # "read" /\ job[w].ids = {}
        BY DEF AtRest, Idle
  <2>2. live \ Doomed = live
        BY <2>1 DEF Doomed
  <2> QED
      BY <2>1, <2>2 DEF ViewInv, WillFit
<1> QED
    BY <1>1, ViewsWillFit, PTL

(* What a lone clean-up is about to delete is the oldest there is.         *)
AloneOldest ==
    \A w \in Workers : \A x \in job[w].ids, y \in live \ job[w].ids : viewed[x] <= viewed[y]

LEMMA AloneOldestKept ==
    ASSUME NEW w, Workers = {w}, ViewsTypeOK, AloneOldest, [ViewsNext]_viewsVars
    PROVE  AloneOldest'
<1>1. CASE job'[w].ids = {}
      BY <1>1 DEF AloneOldest
<1>2. CASE UNCHANGED <<viewed, live, job>>
      BY <1>2 DEF AloneOldest
<1>3. CASE job[w] = Idle /\ job' = job
      BY <1>1, <1>3 DEF Idle
<1>4. CASE End(w)
      BY <1>1, <1>4 DEF End, Idle, ViewsTypeOK
<1>5. ASSUME NEW p \in Products, Record(w, p) PROVE AloneOldest'
      BY <1>1, <1>5 DEF Record, ViewsTypeOK
<1>6. CASE Upsert(w)
      BY <1>1, <1>6 DEF Upsert, Goto, ViewsTypeOK
<1>7. CASE TrimRead(w)
  <2>1. PICK ids \in OverLimit : IF ids = {} THEN End(w) ELSE Goto(w, "delete", ids)
        BY <1>7 DEF TrimRead
  <2>2. CASE ids # {}
    <3>1. PICK keep \in SUBSET live :
            ids = live \ keep /\ \A x \in keep, y \in live \ keep : viewed[x] >= viewed[y]
          BY <2>1, <2>2 DEF OverLimit, Newest
    <3>2. job'[w].ids = ids
          BY <2>1, <2>2 DEF Goto, ViewsTypeOK
    <3>3. ASSUME NEW x \in ids, NEW y \in live \ ids PROVE viewed[x] <= viewed[y]
      <4>1. y \in keep /\ x \in live \ keep
            BY <3>1
      <4>2. viewed[x] \in Nat /\ viewed[y] \in Nat
            BY <4>1 DEF ViewsTypeOK
      <4> QED
          BY <3>1, <4>1, <4>2
    <3> QED
        BY <1>7, <3>2, <3>3 DEF TrimRead, AloneOldest
  <2> QED
      BY <1>4, <2>1, <2>2
<1> QED
    BY <1>2, <1>3, <1>4, <1>5, <1>6, <1>7
    DEF ViewsNext, Handle, Surroundings, TimePasses, SetActive, TrimDelete, DeleteOne, ClearAll, Fail,
        viewsVars

(* Of requests one after the other, dying or not: deleteOldestOverLimit    *)
(* drops no view that is newer than one it keeps.                          *)
THEOREM AloneTrimsOldest ==
    ASSUME NEW w, Workers = {w}
    PROVE  ViewsSpec => TrimsOldest
<1>1. ViewsInit => AloneOldest
      BY DEF ViewsInit, Idle, AloneOldest
<1>2. ViewsTypeOK /\ AloneOldest /\ [ViewsNext]_viewsVars => AloneOldest'
      BY AloneOldestKept
<1>3. AloneOldest => DropsOldest
      BY DEF AloneOldest, DropsOldest, TrimDelete
<1> QED
    BY <1>1, <1>2, <1>3, ViewTypeCorrect, PTL DEF ViewsSpec, TrimsOldest

----------------------------------------------------------------------------
(* ListPages: the lists.                                                   *)

(* Which order goes with which cut.                                        *)
LEMMA ListShape ==
    ASSUME list \in Lists
    PROVE  /\ list.order \in {"id", "likes", "stamp"}
           /\ list.cut \in {"id", "likes", "offset"}
           /\ list.rises \in BOOLEAN /\ list.ties \in BOOLEAN /\ list.fills \in BOOLEAN
           /\ list.cut = "offset" => list.order = "stamp" /\ ~list.fills
           /\ list.cut # "offset" => ~list.ties
           /\ list.cut = "likes" <=> list.order = "likes"
           /\ list.order # "id" => ~list.rises
<1> USE DEF ById, ByLikes, ByOffset
<1>1. ASSUME list \in {ListBannersByStore, ListStoreSpecialClosures, ListStoreDailyCapacities,
                       ListAuditLogsBySeller, ListProductsByStore, ListOrdersByStore,
                       ListConversationMessages, ListActiveProductsByStore,
                       ListProductReviewIdsLatest, ListStoreReviewIdsLatest, ListReviewComments}
      PROVE  /\ list.order = "id" /\ list.cut = "id"
             /\ list.rises \in BOOLEAN /\ list.ties = FALSE /\ list.fills \in BOOLEAN
  <2>1. \A w : /\ ById(w).order = "id" /\ ById(w).cut = "id"
               /\ ById(w).rises = FALSE /\ ById(w).ties = FALSE /\ ById(w).fills = FALSE
        OBVIOUS
  <2>2. CASE \E w : list = ById(w)
    <3> HIDE DEF ById
    <3> QED
        BY <2>1, <2>2
  <2>3. CASE list \in {ListBannersByStore, ListStoreSpecialClosures, ListStoreDailyCapacities,
                       ListAuditLogsBySeller}
    <3> HIDE DEF ById
    <3>1. \E w : list = ById(w)
          BY <2>3 DEF ListBannersByStore, ListStoreSpecialClosures, ListStoreDailyCapacities,
                      ListAuditLogsBySeller
    <3> QED
        BY <2>2, <3>1
  <2>4. CASE list \in {ListProductsByStore, ListOrdersByStore, ListConversationMessages,
                       ListActiveProductsByStore}
    <3> HIDE DEF ById
    <3>1. \E w : list = ById(w)
          BY <2>4 DEF ListProductsByStore, ListOrdersByStore, ListConversationMessages,
                      ListActiveProductsByStore
    <3> QED
        BY <2>2, <3>1
  <2>5. CASE list \in {ListProductReviewIdsLatest, ListStoreReviewIdsLatest}
        BY <2>5 DEF ListProductReviewIdsLatest, ListStoreReviewIdsLatest
  <2>6. CASE list = ListReviewComments
        BY <2>6 DEF ListReviewComments
  <2> QED
      BY <1>1, <2>3, <2>4, <2>5, <2>6
<1>2. ASSUME list \in {ListProductReviewIdsByLikes, ListStoreReviewIdsByLikes}
      PROVE  /\ list.order = "likes" /\ list.cut = "likes"
             /\ list.rises = FALSE /\ list.ties = FALSE /\ list.fills = TRUE
      BY <1>2 DEF ListProductReviewIdsByLikes, ListStoreReviewIdsByLikes
<1>3. ASSUME list = ListConversationsByStore
      PROVE  /\ list.order = "stamp" /\ list.cut = "id"
             /\ list.rises = FALSE /\ list.ties = FALSE /\ list.fills = FALSE
      BY <1>3 DEF ListConversationsByStore
<1>4. ASSUME list \in {ListReviewableOrderItems, FindWishlistItems, ListNotifications,
                       ListSearchHistories, FindRecentByAccountPaginated, FindOrdersByAccount,
                       ListMyReviews}
      PROVE  /\ list.order = "stamp" /\ list.cut = "offset"
             /\ list.rises = FALSE /\ list.ties \in BOOLEAN /\ list.fills = FALSE
      BY <1>4 DEF ListReviewableOrderItems, FindWishlistItems, ListNotifications,
                  ListSearchHistories, FindRecentByAccountPaginated, FindOrdersByAccount,
                  ListMyReviews
<1>5. \/ list \in {ListBannersByStore, ListStoreSpecialClosures, ListStoreDailyCapacities,
                   ListAuditLogsBySeller, ListProductsByStore, ListOrdersByStore,
                   ListConversationMessages, ListActiveProductsByStore,
                   ListProductReviewIdsLatest, ListStoreReviewIdsLatest, ListReviewComments}
      \/ list \in {ListProductReviewIdsByLikes, ListStoreReviewIdsByLikes}
      \/ list = ListConversationsByStore
      \/ list \in {ListReviewableOrderItems, FindWishlistItems, ListNotifications,
                   ListSearchHistories, FindRecentByAccountPaginated, FindOrdersByAccount,
                   ListMyReviews}
      BY Zenon DEF Lists
<1>6. CASE /\ list.order = "id" /\ list.cut = "id"
           /\ list.rises \in BOOLEAN /\ list.ties = FALSE /\ list.fills \in BOOLEAN
      BY <1>6
<1>7. CASE /\ list.order = "likes" /\ list.cut = "likes"
           /\ list.rises = FALSE /\ list.ties = FALSE /\ list.fills = TRUE
      BY <1>7
<1>8. CASE /\ list.order = "stamp" /\ list.cut = "id"
           /\ list.rises = FALSE /\ list.ties = FALSE /\ list.fills = FALSE
      BY <1>8
<1>9. CASE /\ list.order = "stamp" /\ list.cut = "offset"
           /\ list.rises = FALSE /\ list.ties \in BOOLEAN /\ list.fills = FALSE
      BY <1>9
<1> HIDE DEF ById, ByLikes, ByOffset
<1> QED
    BY <1>1, <1>2, <1>3, <1>4, <1>5, <1>6, <1>7, <1>8, <1>9

----------------------------------------------------------------------------
(* The order of a list.                                                    *)

(* Of two rows exactly one is before the other.                            *)
LEMMA OrderIsTotal ==
    ASSUME TypeOK, NEW tie \in BOOLEAN
    PROVE  /\ \A i \in Ids : ~Precedes(tie, i, i)
           /\ \A i, j \in Ids : i # j => Precedes(tie, i, j) \/ Precedes(tie, j, i)
           /\ \A i, j, k \in Ids : Precedes(tie, i, j) /\ Precedes(tie, j, k) => Precedes(tie, i, k)
<1>1. \A i \in Ids : i \in Nat
      BY ListConstants
<1>2. \A i \in Ids : row[i].stamp \in Nat /\ row[i].likes \in Nat
      BY ListConstants DEF TypeOK, Row
<1>3. list.order \in {"id", "likes", "stamp"} /\ list.rises \in BOOLEAN
      BY ListShape DEF TypeOK
<1>4. CASE list.order = "id"
      BY <1>1, <1>3, <1>4 DEF Precedes
<1>5. CASE list.order = "likes"
      BY <1>1, <1>2, <1>5 DEF Precedes
<1>6. CASE list.order = "stamp"
      BY <1>1, <1>2, <1>6 DEF Precedes
<1> QED
    BY <1>3, <1>4, <1>5, <1>6

(* A sorting has each row once.                                            *)
LEMMA SortingHasAll ==
    ASSUME TypeOK, NEW tie \in BOOLEAN, NEW S \in SUBSET Ids, NEW q \in Sortings(S, tie)
    PROVE  /\ IsFiniteSet(S) /\ Cardinality(S) \in Nat
           /\ q \in Seq(S) /\ q \in Seq(Ids) /\ Len(q) \in Nat /\ Len(q) = Cardinality(S)
           /\ \A m, n \in 1 .. Len(q) : m < n => Precedes(tie, q[m], q[n])
           /\ \A m, n \in 1 .. Len(q) : q[m] = q[n] => m = n
           /\ \A i \in S : \E k \in 1 .. Len(q) : q[k] = i
<1>1. IsFiniteSet(S) /\ Cardinality(S) \in Nat
      BY ListConstants, FS_Subset, FS_CardinalityType
<1>2. PICK n \in Nat : n = Cardinality(S)
      BY <1>1
<1>3. q \in [1 .. n -> S] /\ \A k, m \in 1 .. n : k < m => Precedes(tie, q[k], q[m])
      BY <1>2 DEF Sortings
<1>4. q \in Seq(S) /\ q \in Seq(Ids) /\ Len(q) = n
  <2>1. q \in [1 .. n -> Ids]
        BY <1>3
  <2> QED
      BY <1>3, <2>1, SeqDef
<1>5. \A k, m \in 1 .. n : q[k] = q[m] => k = m
  <2> SUFFICES ASSUME NEW k \in 1 .. n, NEW m \in 1 .. n, q[k] = q[m], k < m PROVE FALSE
      BY <1>2
  <2>1. Precedes(tie, q[k], q[m]) /\ q[k] \in Ids
        BY <1>3
  <2> QED
      BY <2>1, OrderIsTotal
<1>6. q \in Injection(1 .. n, S)
      BY <1>3, <1>5 DEF Injection, IsInjective
<1>7. Cardinality(1 .. n) = n
      BY FS_Interval
<1>8. q \in Surjection(1 .. n, S)
      BY <1>1, <1>2, <1>6, <1>7, FS_Injection
<1>9. \A i \in S : \E k \in 1 .. n : q[k] = i
      BY <1>8 DEF Surjection
<1> QED
    BY <1>1, <1>2, <1>3, <1>4, <1>5, <1>9

(* The place of a row is the number of those before it and one.            *)
LEMMA PlaceIsRank ==
    ASSUME TypeOK, NEW tie \in BOOLEAN, NEW S \in SUBSET Ids, NEW q \in Sortings(S, tie),
           NEW k \in 1 .. Len(q)
    PROVE  Cardinality({j \in S : Precedes(tie, j, q[k])}) = k - 1
<1>1. PICK T : T = {j \in S : Precedes(tie, j, q[k])}
      OBVIOUS
<1>2. /\ Len(q) \in Nat /\ q \in [1 .. Len(q) -> S]
      /\ \A m, n \in 1 .. Len(q) : m < n => Precedes(tie, q[m], q[n])
      /\ \A m, n \in 1 .. Len(q) : q[m] = q[n] => m = n
      /\ \A i \in S : \E m \in 1 .. Len(q) : q[m] = i
      BY SortingHasAll, LenProperties
<1>3. PICK f : f = [m \in 1 .. k - 1 |-> q[m]]
      OBVIOUS
<1>4. \A m \in 1 .. k - 1 : m \in 1 .. Len(q) /\ f[m] = q[m] /\ f[m] \in T
      BY <1>1, <1>2, <1>3
<1>5. ASSUME NEW j \in T PROVE \E m \in 1 .. k - 1 : f[m] = j
  <2>1. PICK m \in 1 .. Len(q) : q[m] = j
        BY <1>1, <1>2
  <2>2. j \in Ids /\ q[k] \in Ids /\ Precedes(tie, j, q[k])
        BY <1>1, <1>2
  <2>3. m # k
        BY <2>1, <2>2, OrderIsTotal
  <2>4. ~(k < m)
        BY <1>2, <2>1, <2>2, OrderIsTotal
  <2> QED
      BY <1>3, <2>1, <2>3, <2>4
<1>6. f \in Bijection(1 .. k - 1, T)
  <2>1. f \in [1 .. k - 1 -> T]
        BY <1>3, <1>4
  <2>2. \A m, n \in 1 .. k - 1 : f[m] = f[n] => m = n
        BY <1>2, <1>4
  <2> QED
      BY <1>5, <2>1, <2>2 DEF Bijection, Injection, Surjection, IsInjective
<1> QED
    BY <1>1, <1>6, FS_CountingElements DEF ExistsBijection

----------------------------------------------------------------------------
(* Sequences.                                                              *)

LEMMA TakeTakes ==
    ASSUME NEW S, NEW s \in Seq(S), NEW n \in Nat
    PROVE  /\ Take(s, n) \in Seq(S)
           /\ Len(Take(s, n)) = IF n < Len(s) THEN n ELSE Len(s)
           /\ \A k \in 1 .. Len(Take(s, n)) : k \in 1 .. Len(s) /\ Take(s, n)[k] = s[k]
<1>1. PICK l \in Nat : l = Len(s)
      BY LenProperties
<1>2. PICK m \in Nat : m = IF n < l THEN n ELSE l
      BY <1>1
<1>3. \A k \in 1 .. m : s[k] \in S
      BY <1>1, <1>2, ElementOfSeq
<1>4. Take(s, n) = SubSeq(s, 1, m)
      BY <1>1, <1>2 DEF Take
<1>5. /\ SubSeq(s, 1, m) \in Seq(S)
      /\ Len(SubSeq(s, 1, m)) = IF 1 <= m THEN m - 1 + 1 ELSE 0
      /\ \A k \in 1 .. m - 1 + 1 : SubSeq(s, 1, m)[k] = s[1 + k - 1]
      BY <1>3, SubSeqProperties
<1> QED
    BY <1>1, <1>2, <1>4, <1>5

LEMMA SkipSkips ==
    ASSUME NEW S, NEW s \in Seq(S), NEW n \in Nat
    PROVE  /\ Skip(s, n) \in Seq(S)
           /\ Len(Skip(s, n)) = IF n < Len(s) THEN Len(s) - n ELSE 0
           /\ \A k \in 1 .. Len(Skip(s, n)) : k + n \in 1 .. Len(s) /\ Skip(s, n)[k] = s[k + n]
<1>1. PICK l \in Nat : l = Len(s)
      BY LenProperties
<1>2. \A k \in n + 1 .. l : s[k] \in S
      BY <1>1, ElementOfSeq
<1>3. Skip(s, n) = SubSeq(s, n + 1, l)
      BY <1>1 DEF Skip
<1>4. /\ SubSeq(s, n + 1, l) \in Seq(S)
      /\ Len(SubSeq(s, n + 1, l)) = IF n + 1 <= l THEN l - (n + 1) + 1 ELSE 0
      /\ \A k \in 1 .. l - (n + 1) + 1 : SubSeq(s, n + 1, l)[k] = s[n + 1 + k - 1]
      BY <1>2, SubSeqProperties
<1> QED
    BY <1>1, <1>3, <1>4

Count(s, i) == Cardinality({k \in DOMAIN s : s[k] = i})

(* How often a row is in a sequence.                                       *)
LEMMA CountFacts ==
    ASSUME NEW s \in Seq(Ids), NEW i
    PROVE  /\ Count(s, i) \in Nat
           /\ Count(s, i) = 0 <=> ~\E k \in 1 .. Len(s) : s[k] = i
           /\ Count(s, i) <= 1 <=> \A k, m \in 1 .. Len(s) : s[k] = i /\ s[m] = i => k = m
<1>1. PICK K : K = {k \in DOMAIN s : s[k] = i}
      OBVIOUS
<1>2. DOMAIN s = 1 .. Len(s) /\ Len(s) \in Nat
      BY LenProperties
<1>3. IsFiniteSet(K) /\ Cardinality(K) \in Nat
  <2>1. K \in SUBSET (1 .. Len(s))
        BY <1>1, <1>2
  <2>2. IsFiniteSet(1 .. Len(s))
        BY <1>2, FS_Interval
  <2> QED
      BY <2>1, <2>2, FS_Subset, FS_CardinalityType
<1>4. Cardinality(K) = 0 <=> K = {}
      BY <1>3, FS_EmptySet
<1>5. Cardinality(K) = 1 <=> \E x : K = {x}
      BY <1>3, FS_Singleton
<1>6. Cardinality(K) <= 1 <=> \A x, y \in K : x = y
  <2>1. ASSUME \A x, y \in K : x = y, K # {} PROVE Cardinality(K) = 1
    <3>1. PICK x \in K : TRUE
          BY <2>1
    <3>2. K = {x}
          BY <2>1, <3>1
    <3> QED
        BY <1>5, <3>2
  <2>2. ASSUME Cardinality(K) <= 1 PROVE \A x, y \in K : x = y
    <3>1. Cardinality(K) = 0 \/ Cardinality(K) = 1
          BY <1>3, <2>2
    <3> QED
        BY <1>4, <1>5, <3>1
  <2>3. ASSUME K = {} PROVE Cardinality(K) <= 1
        BY <1>4, <2>3
  <2> QED
      BY <2>1, <2>2, <2>3
<1> QED
    BY <1>1, <1>2, <1>3, <1>4, <1>6 DEF Count

(* How often a row is in two sequences joined, if it is at most once in the *)
(* second.                                                                  *)
LEMMA CountJoined ==
    ASSUME NEW s \in Seq(Ids), NEW t \in Seq(Ids), NEW i,
           \A k, m \in 1 .. Len(t) : t[k] = t[m] => k = m
    PROVE  /\ s \o t \in Seq(Ids)
           /\ Count(s \o t, i) = IF \E k \in 1 .. Len(t) : t[k] = i THEN Count(s, i) + 1
                                                                 ELSE Count(s, i)
<1>1. PICK n \in Nat, l \in Nat : n = Len(s) /\ l = Len(t)
      BY LenProperties
<1>2. /\ s \o t \in Seq(Ids) /\ DOMAIN (s \o t) = 1 .. n + l /\ DOMAIN s = 1 .. n
      /\ \A k \in 1 .. n : (s \o t)[k] = s[k]
      /\ \A k \in 1 .. l : (s \o t)[n + k] = t[k]
      BY <1>1, ConcatProperties, LenProperties
<1>3. PICK J : J = {k \in 1 .. n + l : (s \o t)[k] = i}
      OBVIOUS
<1>4. PICK K : K = {k \in 1 .. n : s[k] = i}
      OBVIOUS
<1>5. Count(s \o t, i) = Cardinality(J) /\ Count(s, i) = Cardinality(K)
      BY <1>2, <1>3, <1>4 DEF Count
<1>6. IsFiniteSet(K) /\ Cardinality(K) \in Nat
  <2>1. K \in SUBSET (1 .. n)
        BY <1>4
  <2>2. IsFiniteSet(1 .. n)
        BY FS_Interval
  <2> QED
      BY <2>1, <2>2, FS_Subset, FS_CardinalityType
<1>7. \A k \in 1 .. n + l : k \in 1 .. n \/ (k - n \in 1 .. l /\ k = n + (k - n))
      OBVIOUS
<1>8. CASE ~\E k \in 1 .. Len(t) : t[k] = i
  <2>1. J = K
        BY <1>1, <1>2, <1>3, <1>4, <1>7, <1>8
  <2> QED
      BY <1>2, <1>5, <1>8, <2>1
<1>9. CASE \E k \in 1 .. Len(t) : t[k] = i
  <2>1. PICK k \in 1 .. l : t[k] = i
        BY <1>1, <1>9
  <2>2. \A m \in 1 .. l : t[m] = i => m = k
        BY <1>1, <2>1
  <2>3. n + k \in J /\ n + k \notin K
        BY <1>2, <1>3, <1>4, <2>1
  <2>4. \A m \in J : m \in K \/ m = n + k
        BY <1>2, <1>3, <1>4, <1>7, <2>2
  <2>5. \A m \in K : m \in J
        BY <1>2, <1>3, <1>4
  <2>6. J = K \cup {n + k}
        BY <2>3, <2>4, <2>5
  <2>7. Cardinality(J) = Cardinality(K) + 1
        BY <1>6, <2>3, <2>6, FS_AddElement
  <2> QED
      BY <1>2, <1>5, <1>9, <2>7
<1> QED
    BY <1>8, <1>9

----------------------------------------------------------------------------
(* What the steps do.                                                      *)

(* page: up to limit rows of q, after the first from.                      *)
PageOf(page, q, from) ==
  /\ page \in Seq(Ids) /\ Len(page) <= limit
  /\ \A k \in 1 .. Len(page) : k + from \in 1 .. Len(q) /\ page[k] = q[k + from]
  /\ \A k \in 1 .. Len(q) : from < k /\ k <= from + limit => k - from \in 1 .. Len(page)

(* The reader has got the page.                                            *)
Gets(page, more) ==
  /\ walk'.pc = IF list.fills THEN "fill" ELSE IF more THEN "ask" ELSE "done"
  /\ walk'.offset = walk.offset + limit /\ walk'.page = page /\ walk'.more = more
  /\ walk'.shown = IF list.fills THEN walk.shown ELSE walk.shown \o page
  /\ walk' = [pc |-> walk'.pc, cursor |-> walk'.cursor, offset |-> walk'.offset,
             page |-> walk'.page, more |-> walk'.more, shown |-> walk'.shown]

LEMMA WalkFields ==
    ASSUME TypeOK
    PROVE  /\ walk.pc \in {"ask", "fill", "done"} /\ walk.cursor \in Cursors \cup {None}
           /\ walk.offset \in Nat /\ walk.page \in Seq(Ids) /\ walk.more \in BOOLEAN
           /\ walk.shown \in Seq(Ids) /\ limit \in Nat \ {0}
           /\ walk = [pc |-> walk.pc, cursor |-> walk.cursor, offset |-> walk.offset,
                      page |-> walk.page, more |-> walk.more, shown |-> walk.shown]
  BY ListConstants DEF TypeOK

(* A page of the rows q that are beyond the cursor, and the cursor then.   *)
CursorPage(q, page, more) ==
  /\ walk.pc = "ask" /\ list.cut # "offset"
  /\ PageOf(page, q, 0) /\ Gets(page, more)
  /\ more <=> Len(q) > limit
  /\ more => walk'.cursor = [id |-> q[limit], likes |-> row[q[limit]].likes]
  /\ ~more => walk'.cursor = None
  /\ fallen' = fallen \ Range(page)
  /\ UNCHANGED <<list, limit, row, clock, steady, seen, writes>>

LEMMA CursorStep ==
    ASSUME TypeOK, FetchByCursor
    PROVE  \E q \in Sortings({i \in Visible(row) : Beyond(walk.cursor, i)}, FALSE) :
           \E page \in Seq(Ids) : \E more \in BOOLEAN :
             CursorPage(q, page, more)
<1>1. PICK S : S = {i \in Visible(row) : Beyond(walk.cursor, i)}
      OBVIOUS
<1>2. list.ties = FALSE /\ walk.pc = "ask" /\ list.cut # "offset" /\ S \in SUBSET Ids
      BY <1>1, ListShape DEF FetchByCursor, Visible, TypeOK
<1>3. PICK q \in Sortings(S, FALSE) :
        /\ Got(Take(Take(q, limit + 1), limit), NextCursorOf(Take(q, limit + 1)), Len(Take(q, limit + 1)) > limit)
        /\ fallen' = fallen \ Range(Take(Take(q, limit + 1), limit))
      BY <1>1, <1>2 DEF FetchByCursor
<1>4. q \in Seq(Ids) /\ Len(q) \in Nat
      BY <1>2, <1>3, SortingHasAll
<1>5. limit \in Nat \ {0} /\ limit + 1 \in Nat
      BY WalkFields
<1>6. PICK s : s = Take(q, limit + 1)
      OBVIOUS
<1>7. /\ s \in Seq(Ids) /\ Len(s) = IF limit + 1 < Len(q) THEN limit + 1 ELSE Len(q)
      /\ \A k \in 1 .. Len(s) : k \in 1 .. Len(q) /\ s[k] = q[k]
      BY <1>4, <1>5, <1>6, TakeTakes
<1>8. PICK page : page = Take(s, limit)
      OBVIOUS
<1>9. /\ page \in Seq(Ids) /\ Len(page) = IF limit < Len(s) THEN limit ELSE Len(s)
      /\ \A k \in 1 .. Len(page) : k \in 1 .. Len(s) /\ page[k] = s[k]
      BY <1>5, <1>7, <1>8, TakeTakes
<1>10. PageOf(page, q, 0)
       BY <1>4, <1>5, <1>7, <1>9 DEF PageOf
<1>11. PICK more \in BOOLEAN : more <=> Len(s) > limit
       BY <1>4, <1>5, <1>7
<1>12. more <=> Len(q) > limit
       BY <1>4, <1>5, <1>7, <1>11
<1>13. Got(page, NextCursorOf(s), more)
  <2>1. more = (Len(s) > limit)
        BY <1>4, <1>5, <1>7, <1>11
  <2> QED
      BY <1>3, <1>6, <1>8, <2>1
<1>14. Gets(page, more) /\ walk'.cursor = NextCursorOf(s)
       BY <1>13, WalkFields DEF Got, Gets
<1>15. ~more => NextCursorOf(s) = None
       BY <1>4, <1>5, <1>7, <1>11 DEF NextCursorOf
<1>16. more => NextCursorOf(s) = [id |-> q[limit], likes |-> row[q[limit]].likes]
       BY <1>4, <1>5, <1>7, <1>11 DEF NextCursorOf
<1>17. fallen' = fallen \ Range(page)
       BY <1>3, <1>6, <1>8
<1>18. UNCHANGED <<list, limit, row, clock, steady, seen, writes>>
       BY DEF FetchByCursor
<1> QED
    BY <1>1, <1>2, <1>3, <1>9, <1>10, <1>11, <1>12, <1>14, <1>15, <1>16, <1>17, <1>18 DEF CursorPage

(* A page of the rows q after as many as have been asked for.              *)
OffsetPage(q, page, more) ==
  /\ walk.pc = "ask" /\ list.cut = "offset"
  /\ PageOf(page, q, walk.offset) /\ Gets(page, more)
  /\ more <=> Len(q) > walk.offset + limit
  /\ walk'.cursor = None
  /\ UNCHANGED <<list, limit, row, clock, steady, fallen, seen, writes>>

LEMMA OffsetStep ==
    ASSUME TypeOK, FetchByOffset
    PROVE  \E tie \in {FALSE, list.ties} : \E q \in Sortings(Visible(row), tie) :
           \E page \in Seq(Ids) : \E more \in BOOLEAN :
             OffsetPage(q, page, more)
<1>1. Visible(row) \in SUBSET Ids /\ list.ties \in BOOLEAN
      BY ListShape DEF Visible, TypeOK
<1>2. PICK tie \in {FALSE, list.ties} : \E q \in Sortings(Visible(row), tie) :
         LET s == Skip(q, walk.offset) IN Got(Take(s, limit), None, HasMore(s))
       BY DEF FetchByOffset
<1>3. PICK q \in Sortings(Visible(row), tie) :
        Got(Take(Skip(q, walk.offset), limit), None, HasMore(Skip(q, walk.offset)))
      BY <1>2
<1>4. q \in Seq(Ids) /\ Len(q) \in Nat
  <2>1. tie \in BOOLEAN
        BY <1>1, <1>2
  <2> QED
      BY <1>1, <1>3, <2>1, SortingHasAll
<1>5. limit \in Nat \ {0} /\ walk.offset \in Nat
      BY WalkFields
<1>6. PICK s : s = Skip(q, walk.offset)
      OBVIOUS
<1>7. /\ s \in Seq(Ids) /\ Len(s) = IF walk.offset < Len(q) THEN Len(q) - walk.offset ELSE 0
      /\ \A k \in 1 .. Len(s) : k + walk.offset \in 1 .. Len(q) /\ s[k] = q[k + walk.offset]
      BY <1>4, <1>5, <1>6, SkipSkips
<1>8. PICK page : page = Take(s, limit)
      OBVIOUS
<1>9. /\ page \in Seq(Ids) /\ Len(page) = IF limit < Len(s) THEN limit ELSE Len(s)
      /\ \A k \in 1 .. Len(page) : k \in 1 .. Len(s) /\ page[k] = s[k]
      BY <1>5, <1>7, <1>8, TakeTakes
<1>10. PageOf(page, q, walk.offset)
  <2>1. Len(page) <= limit
        BY <1>5, <1>7, <1>9
  <2>2. ASSUME NEW k \in 1 .. Len(page)
        PROVE  k + walk.offset \in 1 .. Len(q) /\ page[k] = q[k + walk.offset]
        BY <1>7, <1>9, <2>2
  <2>3. ASSUME NEW k \in 1 .. Len(q), walk.offset < k, k <= walk.offset + limit
        PROVE  k - walk.offset \in 1 .. Len(page)
        BY <1>4, <1>5, <1>7, <1>9, <2>3, SMTT(30)
  <2> QED
      BY <1>9, <2>1, <2>2, <2>3 DEF PageOf
<1>11. HasMore(s) \in BOOLEAN
       BY DEF HasMore
<1>12. PICK more \in BOOLEAN : more = HasMore(s)
       BY <1>11
<1>13. more <=> Len(s) > limit
       BY <1>12 DEF HasMore
<1>14. more <=> Len(q) > walk.offset + limit
       BY <1>4, <1>5, <1>7, <1>13
<1>15. Got(page, None, more)
       BY <1>3, <1>6, <1>8, <1>12
<1>16. Gets(page, more) /\ walk'.cursor = None
       BY <1>15, WalkFields DEF Got, Gets
<1>17. /\ walk.pc = "ask" /\ list.cut = "offset"
       /\ UNCHANGED <<list, limit, row, clock, steady, fallen, seen, writes>>
       BY DEF FetchByOffset, rows
<1> QED
    BY <1>3, <1>2, <1>9, <1>10, <1>14, <1>16, <1>17 DEF OffsetPage

(* Those of the page that are alive, at the places f of it.                 *)
Filled(f, got) ==
  /\ walk.pc = "fill"
  /\ got \in Seq(Ids)
  /\ \A m \in 1 .. Len(got) : /\ f[m] \in 1 .. Len(walk.page)
                                /\ got[m] = walk.page[f[m]]
  /\ \A m, n \in 1 .. Len(got) : m < n => f[m] < f[n]
  /\ \A k \in 1 .. Len(walk.page) :
       row[walk.page[k]].state = "live" => \E m \in 1 .. Len(got) : f[m] = k
  /\ walk'.pc = IF walk.more THEN "ask" ELSE "done"
  /\ walk'.cursor = walk.cursor /\ walk'.offset = walk.offset
  /\ walk'.page = walk.page /\ walk'.more = walk.more
  /\ walk'.shown = walk.shown \o got
  /\ walk' = [pc |-> walk'.pc, cursor |-> walk'.cursor, offset |-> walk'.offset,
             page |-> walk'.page, more |-> walk'.more, shown |-> walk'.shown]
  /\ UNCHANGED <<list, limit, row, clock, steady, fallen, seen, writes>>

LEMMA FillStep ==
    ASSUME TypeOK, HydrateReviews
    PROVE  \E f, got : Filled(f, got)
<1>1. PICK N : N = {k \in DOMAIN walk.page : row[walk.page[k]].state = "live"}
      OBVIOUS
<1>2. PICK found \in FindReviewRowsByIds(walk.page) :
         walk' = [walk EXCEPT !.pc = IF walk.more THEN "ask" ELSE "done",
                              !.shown = @ \o found]
       BY DEF HydrateReviews
<1>3. \E f \in Ascending(N) : found = [m \in DOMAIN f |-> walk.page[f[m]]]
       BY <1>1, <1>2 DEF FindReviewRowsByIds
<1>4. PICK f \in Ascending(N) :
        walk' = [walk EXCEPT !.pc = IF walk.more THEN "ask" ELSE "done",
                             !.shown = @ \o [m \in DOMAIN f |-> walk.page[f[m]]]]
      BY <1>2, <1>3
<1>5. PICK l \in Nat : l = Len(walk.page) /\ DOMAIN walk.page = 1 .. l
      BY WalkFields, LenProperties
<1>6. IsFiniteSet(N) /\ Cardinality(N) \in Nat
  <2>1. N \in SUBSET (1 .. l) /\ IsFiniteSet(1 .. l)
        BY <1>1, <1>5, FS_Interval
  <2> QED
      BY <2>1, FS_Subset, FS_CardinalityType
<1>7. PICK c \in Nat : c = Cardinality(N)
      BY <1>6
<1>8. f \in [1 .. c -> N] /\ \A m, n \in 1 .. c : m < n => f[m] < f[n]
      BY <1>7 DEF Ascending
<1>9. \A m \in 1 .. c : f[m] \in N /\ f[m] \in 1 .. l
      BY <1>1, <1>5, <1>8
<1>10. f \in Injection(1 .. c, N)
  <2>1. \A m, n \in 1 .. c : f[m] = f[n] => m = n
    <3> SUFFICES ASSUME NEW m \in 1 .. c, NEW n \in 1 .. c, f[m] = f[n], m < n PROVE FALSE
        OBVIOUS
    <3>1. f[m] < f[n] /\ f[m] \in 1 .. l
          BY <1>8, <1>9
    <3> QED
        BY <3>1
  <2> QED
      BY <1>8, <2>1 DEF Injection, IsInjective
<1>11. f \in Surjection(1 .. c, N)
  <2>1. Cardinality(1 .. c) = c /\ IsFiniteSet(1 .. c)
        BY FS_Interval
  <2> QED
      BY <1>6, <1>7, <1>10, <2>1, FS_Injection
<1>12. PICK got : got = [m \in 1 .. c |-> walk.page[f[m]]]
       OBVIOUS
<1>13. got \in Seq(Ids) /\ Len(got) = c
  <2>1. \A m \in 1 .. c : walk.page[f[m]] \in Ids
        BY <1>5, <1>9, WalkFields, ElementOfSeq
  <2>2. got \in [1 .. c -> Ids]
        BY <1>12, <2>1
  <2> QED
      BY <2>2, SeqDef
<1>14. walk'.shown = walk.shown \o got
       BY <1>4, <1>8, <1>12, WalkFields
<1>15. \A k \in 1 .. Len(walk.page) : row[walk.page[k]].state = "live" => \E m \in 1 .. c : f[m] = k
       BY <1>1, <1>5, <1>11 DEF Surjection
<1>16. \A m \in 1 .. Len(got) : f[m] \in 1 .. Len(walk.page) /\ got[m] = walk.page[f[m]]
       BY <1>5, <1>9, <1>12, <1>13
<1>17. /\ walk'.pc = IF walk.more THEN "ask" ELSE "done"
       /\ walk'.cursor = walk.cursor /\ walk'.offset = walk.offset
       /\ walk'.page = walk.page /\ walk'.more = walk.more
       /\ walk' = [pc |-> walk'.pc, cursor |-> walk'.cursor, offset |-> walk'.offset,
                  page |-> walk'.page, more |-> walk'.more, shown |-> walk'.shown]
       BY <1>4, WalkFields
<1>18. /\ walk.pc = "fill"
       /\ UNCHANGED <<list, limit, row, clock, steady, fallen, seen, writes>>
       BY DEF HydrateReviews, rows
<1> QED
    BY <1>8, <1>13, <1>14, <1>15, <1>16, <1>17, <1>18 DEF Filled

(* A write by others: rows S are written, and a row is again among those    *)
(* that fell unless it kept its likes.                                     *)
Written(S) ==
  LET moved == {i \in S : row'[i].stamp # row[i].stamp /\ row[i].state # "none"} IN
  /\ walk.pc # "done" /\ writes < MaxWrites /\ writes' = writes + 1
  /\ S \subseteq Ids /\ row' \in [Ids -> Row]
  /\ \A i \in Ids \ S : row'[i] = row[i]
  /\ \A i \in Ids : row[i].state # "none" => row'[i].state # "none"
  /\ steady' = steady \ S
  /\ fallen \subseteq fallen' /\ fallen' \subseteq Ids
  /\ \A i \in Ids \ fallen' : row[i].state # "none" => row'[i].likes >= row[i].likes
  /\ seen' = seen \cup (IF moved \cup (Visible(row') \ Visible(row)) # {} THEN {"came"} ELSE {})
                  \cup (IF moved \cup (Visible(row) \ Visible(row')) # {} THEN {"went"} ELSE {})
  /\ UNCHANGED <<list, limit, walk, clock>>

(* One row is written.                                                     *)
LEMMA WriteIsWritten ==
    ASSUME TypeOK, NEW i \in Ids, NEW r \in Row, Write(i, r),
           row[i].state # "none" => r.state # "none" /\ r.likes = row[i].likes
    PROVE  Written({i})
<1>1. /\ row \in [Ids -> Row] /\ fallen \subseteq Ids
      /\ \A j \in Ids : row[j].likes \in Nat
      BY ListConstants DEF TypeOK, Row
<1>2. PICK t : t = [row EXCEPT ![i] = r]
      OBVIOUS
<1>3. Change({i}, t) /\ fallen' = fallen
      BY <1>2 DEF Write
<1>4. row' = t /\ t \in [Ids -> Row] /\ t[i] = r /\ \A j \in Ids \ {i} : t[j] = row[j]
      BY <1>1, <1>2, <1>3 DEF Change
<1>5. /\ \A j \in Ids : row[j].state # "none" => row'[j].state # "none"
      /\ \A j \in Ids \ fallen' : row[j].state # "none" => row'[j].likes >= row[j].likes
      BY <1>1, <1>4
<1> QED
    BY <1>1, <1>3, <1>4, <1>5 DEF Change, Written

(* So is each write of one row.                                            *)
LEMMA WriteRowIsWritten ==
    ASSUME TypeOK, NEW i \in Ids, WriteRow(i)
    PROVE  Written({i})
<1>1. row[i] \in Row /\ clock \in 1 .. MaxStamp /\ MaxStamp \in Nat /\ MaxLikes \in Nat
      BY ListConstants DEF TypeOK
<1>2. CASE Create(i)
  <2>1. [state |-> "live", fits |-> TRUE, stamp |-> clock, likes |-> 0] \in Row
        BY <1>1 DEF Row
  <2> QED
      BY <1>2, <2>1, WriteIsWritten DEF Create
<1>3. CASE SoftDelete(i)
  <2>1. PICK r : r = [row[i] EXCEPT !.state = "gone"]
        OBVIOUS
  <2>2. r \in Row /\ r.state = "gone" /\ r.likes = row[i].likes
        BY <1>1, <2>1 DEF Row
  <2>3. Write(i, r)
        BY <1>3, <2>1 DEF SoftDelete
  <2> QED
      BY <2>2, <2>3, WriteIsWritten
<1>4. CASE Restore(i)
  <2>1. PICK r : r = [row[i] EXCEPT !.state = "live"]
        OBVIOUS
  <2>2. r \in Row /\ r.state = "live" /\ r.likes = row[i].likes
        BY <1>1, <2>1 DEF Row
  <2>3. Write(i, r)
        BY <1>4, <2>1 DEF Restore
  <2> QED
      BY <2>2, <2>3, WriteIsWritten
<1>5. CASE Leave(i)
  <2>1. PICK r : r = [row[i] EXCEPT !.fits = FALSE]
        OBVIOUS
  <2>2. r \in Row /\ r.state = row[i].state /\ r.likes = row[i].likes
        BY <1>1, <2>1 DEF Row
  <2>3. Write(i, r)
        BY <1>5, <2>1 DEF Leave
  <2> QED
      BY <2>2, <2>3, WriteIsWritten
<1>6. CASE Join(i)
  <2>1. PICK r : r = [row[i] EXCEPT !.fits = TRUE]
        OBVIOUS
  <2>2. r \in Row /\ r.state = row[i].state /\ r.likes = row[i].likes
        BY <1>1, <2>1 DEF Row
  <2>3. Write(i, r)
        BY <1>6, <2>1 DEF Join
  <2> QED
      BY <2>2, <2>3, WriteIsWritten
<1>7. CASE Touch(i)
  <2>1. PICK t \in {clock - 1, clock} \cap (0 .. MaxStamp) :
          Write(i, [row[i] EXCEPT !.state = "live", !.stamp = t])
        BY <1>7 DEF Touch
  <2>2. PICK r : r = [row[i] EXCEPT !.state = "live", !.stamp = t]
        OBVIOUS
  <2>3. r \in Row /\ r.state = "live" /\ r.likes = row[i].likes
        BY <1>1, <2>1, <2>2 DEF Row
  <2> QED
      BY <2>1, <2>2, <2>3, WriteIsWritten
<1>8. CASE LikeReview(i)
  <2>1. PICK t : t = [row EXCEPT ![i] = [row[i] EXCEPT !.likes = @ + 1]]
        OBVIOUS
  <2>2. /\ row \in [Ids -> Row] /\ fallen \subseteq Ids
        /\ \A j \in Ids : row[j].likes \in Nat
        BY ListConstants DEF TypeOK, Row
  <2>3. /\ Change({i}, t) /\ fallen' = fallen
        /\ row[i].state = "live" /\ row[i].likes < MaxLikes
        BY <1>8, <2>1 DEF LikeReview, Write
  <2>4. [row[i] EXCEPT !.likes = @ + 1] \in Row
        BY <1>1, <2>3 DEF Row
  <2>5. /\ row' = t /\ t \in [Ids -> Row] /\ t[i].state = "live" /\ t[i].likes = row[i].likes + 1
        /\ \A j \in Ids \ {i} : t[j] = row[j]
        BY <1>1, <2>1, <2>2, <2>3, <2>4 DEF Change, Row
  <2>6. /\ \A j \in Ids : row[j].state # "none" => row'[j].state # "none"
        /\ \A j \in Ids \ fallen' : row[j].state # "none" => row'[j].likes >= row[j].likes
        BY <2>2, <2>5
  <2> QED
      BY <2>2, <2>3, <2>5, <2>6 DEF Change, Written
<1>9. CASE UnlikeReview(i)
  <2>1. PICK t : t = [row EXCEPT ![i].likes = @ - 1]
        OBVIOUS
  <2>2. /\ row \in [Ids -> Row] /\ fallen \subseteq Ids
        /\ \A j \in Ids : row[j].likes \in Nat
        BY ListConstants DEF TypeOK, Row
  <2>3. Change({i}, t) /\ fallen' = fallen \cup {i} /\ row[i].likes > 0
        BY <1>9, <2>1 DEF UnlikeReview
  <2>4. [row[i] EXCEPT !.likes = @ - 1] \in Row
        BY <1>1, <2>3 DEF Row
  <2>5. /\ row' = t /\ t \in [Ids -> Row] /\ t[i].state = row[i].state
        /\ \A j \in Ids \ {i} : t[j] = row[j]
        BY <1>1, <2>1, <2>2, <2>3, <2>4 DEF Change, Row
  <2>6. /\ \A j \in Ids : row[j].state # "none" => row'[j].state # "none"
        /\ \A j \in Ids \ fallen' : row[j].state # "none" => row'[j].likes >= row[j].likes
        BY <2>2, <2>3, <2>5
  <2> QED
      BY <2>2, <2>3, <2>5, <2>6 DEF Change, Written
<1> QED
    BY <1>2, <1>3, <1>4, <1>5, <1>6, <1>7, <1>8, <1>9
       DEF WriteRow, SellerSendConversationMessage, CreateSellerConversationMessage, UpsertView,
           UpsertWishlistItem, SoftDeleteWishlistItem, MarkNotificationRead, DeleteSearchHistory

(* So are the writes of several rows at once.                              *)
LEMMA AllIsWritten ==
    ASSUME TypeOK,
           \/ MarkAllNotificationsRead \/ ClearSearchHistories
           \/ \E S \in SUBSET Ids : PickUp(S)
    PROVE  \E S \in SUBSET Ids : Written(S)
<1>1. /\ row \in [Ids -> Row] /\ fallen \subseteq Ids /\ Visible(row) \subseteq Ids
      /\ \A j \in Ids : row[j].likes \in Nat /\ row[j] \in Row
      BY ListConstants DEF TypeOK, Row, Visible
<1>2. ASSUME NEW S \in SUBSET Ids, NEW t, All(S, t),
             \A i \in S : /\ t[i] \in Row
                          /\ row[i].state # "none" => /\ t[i].likes = row[i].likes
                                                      /\ t[i].state # "none"
      PROVE  Written(S)
  <2>1. PICK u : u = [i \in Ids |-> IF i \in S THEN t[i] ELSE row[i]]
        OBVIOUS
  <2>2. Change(S, u) /\ fallen' = fallen
        BY <1>2, <2>1 DEF All
  <2>3. row' = u
        BY <2>2 DEF Change
  <2>4. /\ u \in [Ids -> Row]
        /\ \A j \in Ids \ S : row'[j] = row[j]
        /\ \A j \in Ids : row[j].state # "none" => row'[j].state # "none"
        /\ \A j \in Ids \ fallen' : row[j].state # "none" => row'[j].likes >= row[j].likes
        BY <1>1, <1>2, <2>1, <2>3
  <2> QED
      BY <1>1, <2>2, <2>3, <2>4 DEF Change, Written
<1>3. CASE MarkAllNotificationsRead
  <2>1. PICK t : t = [i \in Ids |-> [row[i] EXCEPT !.fits = FALSE]]
        OBVIOUS
  <2>2. All(Visible(row), t)
        BY <1>3, <2>1 DEF MarkAllNotificationsRead
  <2>3. \A i \in Ids : t[i] \in Row /\ t[i].likes = row[i].likes /\ t[i].state = row[i].state
        BY <1>1, <2>1 DEF Row
  <2> QED
      BY <1>1, <1>2, <2>2, <2>3
<1>4. CASE ClearSearchHistories
  <2>1. PICK t : t = [i \in Ids |-> [row[i] EXCEPT !.state = "gone"]]
        OBVIOUS
  <2>2. All(Visible(row), t)
        BY <1>4, <2>1 DEF ClearSearchHistories
  <2>3. \A i \in Ids : t[i] \in Row /\ t[i].likes = row[i].likes /\ t[i].state = "gone"
        BY <1>1, <2>1 DEF Row
  <2> QED
      BY <1>1, <1>2, <2>2, <2>3
<1>5. ASSUME NEW S \in SUBSET Ids, PickUp(S) PROVE Written(S)
  <2>1. PICK n \in 0 .. MaxStamp :
           All(S, [i \in Ids |-> [state |-> "live", fits |-> TRUE, stamp |-> n, likes |-> 0]])
        BY <1>5 DEF PickUp
  <2>2. PICK t : t = [i \in Ids |-> [state |-> "live", fits |-> TRUE, stamp |-> n, likes |-> 0]]
        OBVIOUS
  <2>3. All(S, t)
        BY <2>1, <2>2
  <2>4. \A i \in S : t[i] \in Row /\ row[i].state = "none"
        BY <1>5, <2>2, ListConstants DEF PickUp, Row
  <2> QED
      BY <1>2, <2>3, <2>4
<1> QED
    BY <1>1, <1>3, <1>4, <1>5

(* A step reads a page, fills it, writes, or lets time pass; nothing happens *)
(* to a walk that is done.                                                  *)
LEMMA StepCases ==
    ASSUME TypeOK, [Next]_vars
    PROVE  \/ FetchByCursor \/ FetchByOffset \/ HydrateReviews
           \/ \E S \in SUBSET Ids : Written(S)
           \/ Tick
           \/ UNCHANGED vars
<1>1. CASE \E i \in Ids : WriteRow(i)
  <2>1. PICK i \in Ids : WriteRow(i)
        BY <1>1
  <2>2. Written({i}) /\ {i} \in SUBSET Ids
        BY <2>1, WriteRowIsWritten
  <2> QED
      BY <2>2
<1>2. CASE \/ MarkAllNotificationsRead \/ ClearSearchHistories
           \/ \E S \in SUBSET Ids : PickUp(S)
      BY <1>2, AllIsWritten
<1> QED
    BY <1>1, <1>2 DEF Next, Read

----------------------------------------------------------------------------
(* Types.                                                                  *)

LEMMA InitType == Init => TypeOK
<1> SUFFICES ASSUME Init PROVE TypeOK
    OBVIOUS
<1>1. limit \in 1 .. MaxLimit
  <2>1. PICK l \in Asked : limit = NormalizeLimit(l)
        BY DEF Init
  <2> QED
      BY <2>1, ListConstants DEF NormalizeLimit
<1>2. row \in [Ids -> Row]
      BY DEF Init
<1>3. walk \in [pc : {"ask", "fill", "done"}, cursor : Cursors \cup {None}, offset : Nat,
                page : Seq(Ids), more : BOOLEAN, shown : Seq(Ids)] /\ Len(walk.page) = 0
  <2>1. <<>> \in Seq(Ids) /\ Len(<<>>) = 0
        BY EmptySeq
  <2> QED
      BY <2>1 DEF Init
<1>4. Visible(row) \subseteq Ids
      BY DEF Visible
<1> QED
    BY <1>1, <1>2, <1>3, <1>4, ListConstants DEF Init, TypeOK

LEMMA GetsTyped ==
    ASSUME TypeOK, NEW page \in Seq(Ids), NEW more \in BOOLEAN, Gets(page, more),
           walk'.cursor \in Cursors \cup {None}
    PROVE  walk' \in [pc : {"ask", "fill", "done"}, cursor : Cursors \cup {None}, offset : Nat,
                      page : Seq(Ids), more : BOOLEAN, shown : Seq(Ids)]
<1>1. walk'.pc \in {"ask", "fill", "done"}
      BY DEF Gets
<1>2. walk'.offset \in Nat
      BY WalkFields DEF Gets
<1>3. walk'.shown \in Seq(Ids)
  <2>1. walk.shown \o page \in Seq(Ids)
        BY WalkFields, ConcatProperties
  <2> QED
      BY <2>1, WalkFields DEF Gets
<1>4. /\ walk'.page \in Seq(Ids) /\ walk'.more \in BOOLEAN
      /\ walk' = [pc |-> walk'.pc, cursor |-> walk'.cursor, offset |-> walk'.offset,
                  page |-> walk'.page, more |-> walk'.more, shown |-> walk'.shown]
      BY DEF Gets
<1> QED
    BY <1>1, <1>2, <1>3, <1>4

LEMMA StepType == TypeOK /\ [Next]_vars => TypeOK'
<1> SUFFICES ASSUME TypeOK, [Next]_vars PROVE TypeOK'
    OBVIOUS
<1>1. CASE FetchByCursor
  <2>1. PICK q \in Sortings({i \in Visible(row) : Beyond(walk.cursor, i)}, FALSE),
             page \in Seq(Ids), more \in BOOLEAN : CursorPage(q, page, more)
        BY <1>1, CursorStep
  <2>2. {i \in Visible(row) : Beyond(walk.cursor, i)} \in SUBSET Ids
        BY DEF Visible
  <2>3. q \in Seq(Ids) /\ Len(q) \in Nat
        BY <2>1, <2>2, SortingHasAll
  <2>4. walk'.cursor \in Cursors \cup {None}
    <3>1. CASE more
      <4>1. limit \in 1 .. Len(q)
            BY <2>1, <2>3, <3>1, WalkFields DEF CursorPage
      <4>2. q[limit] \in Ids /\ row[q[limit]].likes \in 0 .. MaxLikes
            BY <2>3, <4>1, ElementOfSeq DEF TypeOK, Row
      <4> QED
          BY <2>1, <3>1, <4>2 DEF Cursors, CursorPage
    <3> QED
        BY <2>1, <3>1 DEF CursorPage
  <2>5. /\ walk' \in [pc : {"ask", "fill", "done"}, cursor : Cursors \cup {None}, offset : Nat,
                      page : Seq(Ids), more : BOOLEAN, shown : Seq(Ids)]
        /\ Len(walk'.page) <= limit
        BY <2>1, <2>4, GetsTyped DEF Gets, PageOf, CursorPage
  <2> QED
      BY <2>1, <2>5 DEF TypeOK, Visible, Cursors, Row, CursorPage
<1>2. CASE FetchByOffset
  <2>1. PICK tie \in {FALSE, list.ties} : \E q \in Sortings(Visible(row), tie) :
        \E page \in Seq(Ids) : \E more \in BOOLEAN : OffsetPage(q, page, more)
        BY <1>2, OffsetStep
  <2>2. PICK q \in Sortings(Visible(row), tie), page \in Seq(Ids), more \in BOOLEAN :
          OffsetPage(q, page, more)
        BY <2>1
  <2>3. /\ walk' \in [pc : {"ask", "fill", "done"}, cursor : Cursors \cup {None}, offset : Nat,
                      page : Seq(Ids), more : BOOLEAN, shown : Seq(Ids)]
        /\ Len(walk'.page) <= limit
        BY <2>2, GetsTyped DEF Gets, PageOf, OffsetPage
  <2> QED
      BY <2>2, <2>3 DEF TypeOK, Visible, Cursors, Row, OffsetPage
<1>3. CASE HydrateReviews
  <2>1. PICK f, got : Filled(f, got)
        BY <1>3, FillStep
  <2>2. walk.shown \o got \in Seq(Ids)
        BY <2>1, WalkFields, ConcatProperties DEF Filled
  <2> QED
      BY <2>1, <2>2, WalkFields, ZenonT(30) DEF TypeOK, Visible, Cursors, Filled
<1>4. CASE \E S \in SUBSET Ids : Written(S)
  <2>1. PICK S \in SUBSET Ids : Written(S)
        BY <1>4
  <2>2. steady' \subseteq Visible(row')
        BY <2>1 DEF Written, TypeOK, Visible
  <2>3. seen' \subseteq {"came", "went"} /\ writes' \in 0 .. MaxWrites
        BY <2>1, ListConstants DEF Written, TypeOK
  <2> QED
      BY <2>1, <2>2, <2>3 DEF Written, TypeOK, Cursors, Row
<1>5. CASE Tick
      BY <1>5, ListConstants DEF Tick, TypeOK, Visible, Cursors, Row
<1>6. CASE UNCHANGED vars
      BY <1>6 DEF vars, rows, TypeOK, Visible, Cursors, Row
<1> QED
    BY <1>1, <1>2, <1>3, <1>4, <1>5, <1>6, StepCases

----------------------------------------------------------------------------
(* How often rows are shown.                                               *)

LEMMA RangeOf ==
    ASSUME NEW s \in Seq(Ids)
    PROVE  \A i : i \in Range(s) <=> \E k \in 1 .. Len(s) : s[k] = i
  BY LenProperties DEF Range

Once(s) == \A k, m \in 1 .. Len(s) : s[k] = s[m] => k = m

LEMMA TimesFacts ==
    ASSUME TypeOK, NEW i
    PROVE  /\ Times(i) \in Nat
           /\ Times(i) = 0 <=> i \notin Range(walk.shown)
           /\ Times(i) <= 1 <=> \A k, m \in 1 .. Len(walk.shown) :
                                  walk.shown[k] = i /\ walk.shown[m] = i => k = m
<1>1. walk.shown \in Seq(Ids) /\ Times(i) = Count(walk.shown, i)
      BY WalkFields DEF Times, Count
<1> QED
    BY <1>1, CountFacts, RangeOf, SMTT(30)

LEMMA TimesFactsNext ==
    ASSUME TypeOK', NEW i
    PROVE  /\ Times(i)' \in Nat
           /\ Times(i)' = 0 <=> i \notin Range(walk'.shown)
           /\ Times(i)' <= 1 <=> \A k, m \in 1 .. Len(walk'.shown) :
                                   walk'.shown[k] = i /\ walk'.shown[m] = i => k = m
<1>1. walk'.shown \in Seq(Ids) /\ Times(i)' = Count(walk'.shown, i)
      BY DEF Times, Count, TypeOK
<1> QED
    BY <1>1, CountFacts, RangeOf, SMTT(30)

(* The rows t are shown after those shown before.                          *)
LEMMA TimesGrow ==
    ASSUME TypeOK, NEW t \in Seq(Ids), Once(t), walk'.shown = walk.shown \o t
    PROVE  \A i : /\ Times(i) \in Nat
                  /\ Times(i)' = IF i \in Range(t) THEN Times(i) + 1 ELSE Times(i)
<1> TAKE i
<1>1. walk.shown \in Seq(Ids) /\ Times(i) = Count(walk.shown, i)
      BY WalkFields DEF Times, Count
<1>2. Times(i)' = Count(walk.shown \o t, i)
      BY DEF Times, Count
<1>3. Count(walk.shown \o t, i) = IF \E k \in 1 .. Len(t) : t[k] = i THEN Count(walk.shown, i) + 1
                                                                    ELSE Count(walk.shown, i)
      BY <1>1, CountJoined DEF Once
<1>4. i \in Range(t) <=> \E k \in 1 .. Len(t) : t[k] = i
      BY RangeOf
<1>5. Count(walk.shown, i) \in Nat
      BY <1>1, CountFacts
<1> QED
    BY <1>1, <1>2, <1>3, <1>4, <1>5

(* A page has the rows from its place on, each once.                       *)
LEMMA PageFacts ==
    ASSUME TypeOK, NEW tie \in BOOLEAN, NEW S \in SUBSET Ids, NEW q \in Sortings(S, tie),
           NEW from \in Nat, NEW page, PageOf(page, q, from)
    PROVE  /\ page \in Seq(Ids) /\ Once(page)
           /\ \A i : i \in Range(page) <=>
                       \E k \in 1 .. Len(q) : from < k /\ k <= from + limit /\ q[k] = i
<1>1. /\ Len(q) \in Nat /\ \A m, n \in 1 .. Len(q) : q[m] = q[n] => m = n
      BY SortingHasAll
<1>2. page \in Seq(Ids) /\ Len(page) \in Nat /\ limit \in Nat /\ Len(page) <= limit
      BY WalkFields, LenProperties DEF PageOf
<1>3. \A k \in 1 .. Len(page) : k + from \in 1 .. Len(q) /\ page[k] = q[k + from]
      BY DEF PageOf
<1>4. \A k \in 1 .. Len(q) : from < k /\ k <= from + limit => k - from \in 1 .. Len(page)
      BY DEF PageOf
<1>5. Once(page)
  <2> SUFFICES ASSUME NEW k \in 1 .. Len(page), NEW m \in 1 .. Len(page), page[k] = page[m] PROVE k = m
      BY DEF Once
  <2>1. k + from \in 1 .. Len(q) /\ m + from \in 1 .. Len(q) /\ q[k + from] = q[m + from]
        BY <1>3
  <2>2. k + from = m + from
        BY <1>1, <2>1
  <2> QED
      BY <1>2, <2>2
<1>6. ASSUME NEW i, i \in Range(page)
      PROVE  \E k \in 1 .. Len(q) : from < k /\ k <= from + limit /\ q[k] = i
  <2>1. PICK k \in 1 .. Len(page) : page[k] = i
        BY <1>2, <1>6, RangeOf
  <2>2. k + from \in 1 .. Len(q) /\ q[k + from] = i /\ from < k + from /\ k + from <= from + limit
        BY <1>2, <1>3, <2>1
  <2> QED
      BY <2>2
<1>7. ASSUME NEW i, NEW k \in 1 .. Len(q), from < k, k <= from + limit, q[k] = i
      PROVE  i \in Range(page)
  <2>1. k - from \in 1 .. Len(page)
        BY <1>4, <1>7
  <2>2. page[k - from] = i
    <3>1. (k - from) + from = k
          BY <1>1
    <3> QED
        BY <1>3, <1>7, <2>1, <3>1
  <2> QED
      BY <1>2, <2>1, <2>2, RangeOf
<1> QED
    BY <1>2, <1>5, <1>6, <1>7

(* How often rows have been shown when a page is there.                    *)
LEMMA GetsTimes ==
    ASSUME TypeOK, NEW page \in Seq(Ids), Once(page), NEW more, Gets(page, more)
    PROVE  \A i : /\ Times(i) \in Nat
                  /\ Times(i)' = IF ~list.fills /\ i \in Range(page) THEN Times(i) + 1 ELSE Times(i)
<1>1. CASE list.fills
  <2>1. walk'.shown = walk.shown
        BY <1>1 DEF Gets
  <2> QED
      BY <1>1, <2>1, TimesFacts DEF Times
<1>2. CASE ~list.fills
  <2>1. walk'.shown = walk.shown \o page
        BY <1>2 DEF Gets
  <2> QED
      BY <1>2, <2>1, TimesGrow
<1> QED
    BY <1>1, <1>2

(* How often when it is filled: those of the page that live once more.     *)
LEMMA FilledTimes ==
    ASSUME TypeOK, NEW f, NEW got, Filled(f, got), Once(walk.page)
    PROVE  /\ Once(got)
           /\ \A i : i \in Range(got) => i \in Range(walk.page)
           /\ \A i \in Range(walk.page) : row[i].state = "live" => i \in Range(got)
           /\ \A i : /\ Times(i) \in Nat
                     /\ Times(i)' = IF i \in Range(got) THEN Times(i) + 1 ELSE Times(i)
<1>1. /\ got \in Seq(Ids) /\ Len(got) \in Nat /\ walk.page \in Seq(Ids) /\ Len(walk.page) \in Nat
      /\ walk'.shown = walk.shown \o got
      BY WalkFields, LenProperties DEF Filled
<1>2. /\ \A m \in 1 .. Len(got) : f[m] \in 1 .. Len(walk.page) /\ got[m] = walk.page[f[m]]
      /\ \A m, n \in 1 .. Len(got) : m < n => f[m] < f[n]
      BY DEF Filled
<1>3. Once(got)
  <2>1. ASSUME NEW k \in 1 .. Len(got), NEW m \in 1 .. Len(got), got[k] = got[m], k < m PROVE FALSE
    <3>1. f[k] \in 1 .. Len(walk.page) /\ f[m] \in 1 .. Len(walk.page) /\ walk.page[f[k]] = walk.page[f[m]]
          BY <1>2, <2>1
    <3>2. f[k] = f[m] /\ f[k] < f[m]
          BY <1>2, <2>1, <3>1 DEF Once
    <3> QED
        BY <1>1, <3>1, <3>2
  <2>2. \A k, m \in 1 .. Len(got) : k < m \/ m < k \/ k = m
        BY <1>1
  <2> QED
      BY <2>1, <2>2 DEF Once
<1>4. ASSUME NEW i, i \in Range(got) PROVE i \in Range(walk.page)
  <2>1. PICK m \in 1 .. Len(got) : got[m] = i
        BY <1>1, <1>4, RangeOf
  <2>2. f[m] \in 1 .. Len(walk.page) /\ i = walk.page[f[m]]
        BY <1>2, <2>1
  <2> QED
      BY <1>1, <2>2, RangeOf
<1>5. ASSUME NEW i \in Range(walk.page), row[i].state = "live" PROVE i \in Range(got)
  <2>1. PICK k \in 1 .. Len(walk.page) : walk.page[k] = i
        BY <1>1, <1>5, RangeOf
  <2>2. PICK m \in 1 .. Len(got) : f[m] = k
        BY <1>5, <2>1 DEF Filled
  <2>3. got[m] = i
        BY <1>2, <2>1, <2>2
  <2> QED
      BY <1>1, <2>3, RangeOf
<1> QED
    BY <1>1, <1>3, <1>4, <1>5, TimesGrow

----------------------------------------------------------------------------
(* The shape of a walk: its page has each row once, and no row that is not  *)
(* there has been fetched.                                                  *)
WalkShape ==
  /\ walk.pc = "ask" => walk.more
  /\ walk.pc = "done" => ~walk.more
  /\ walk.pc = "fill" => list.fills
  /\ Once(walk.page)
  /\ \A i \in Ids : i \in Range(walk.shown) \/ i \in Range(walk.page) => row[i].state # "none"
  /\ writes = 0 => seen = {} /\ steady = Visible(row)

LEMMA InitShape == Init => WalkShape
<1> SUFFICES ASSUME Init PROVE WalkShape
    OBVIOUS
<1>1. <<>> \in Seq(Ids) /\ Len(<<>>) = 0
      BY EmptySeq
<1>2. Range(<<>>) = {}
      BY DEF Range
<1> QED
    BY <1>1, <1>2 DEF Init, WalkShape, Once

LEMMA StepShape == TypeOK /\ WalkShape /\ [Next]_vars => WalkShape'
<1> SUFFICES ASSUME TypeOK, WalkShape, [Next]_vars PROVE WalkShape'
    OBVIOUS
<1>1. TypeOK'
      BY StepType
<1>2. ASSUME NEW tie \in BOOLEAN, NEW S \in SUBSET Visible(row), NEW q \in Sortings(S, tie),
             NEW from \in Nat, NEW page, NEW more \in BOOLEAN, PageOf(page, q, from), Gets(page, more),
             UNCHANGED <<list, row, steady, seen, writes>>
      PROVE  WalkShape'
  <2>1. S \in SUBSET Ids /\ \A i \in S : row[i].state = "live"
        BY DEF Visible
  <2>2. /\ page \in Seq(Ids) /\ Once(page)
        /\ \A i : i \in Range(page) => i \in S
    <3>1. q \in Seq(S)
          BY <2>1, SortingHasAll
    <3>2. /\ page \in Seq(Ids) /\ Once(page)
          /\ \A i : i \in Range(page) => \E k \in 1 .. Len(q) : q[k] = i
          BY <1>2, <2>1, PageFacts
    <3>3. \A k \in 1 .. Len(q) : q[k] \in S
          BY <3>1, ElementOfSeq
    <3> QED
        BY <3>2, <3>3
  <2>3. \A i : Times(i) \in Nat
        /\ Times(i)' = IF ~list.fills /\ i \in Range(page) THEN Times(i) + 1 ELSE Times(i)
        BY <1>2, <2>2, GetsTimes
  <2>4. \A i : i \in Range(walk'.shown) => i \in Range(walk.shown) \/ i \in Range(page)
        BY <1>1, <2>3, TimesFacts, TimesFactsNext
  <2> QED
      BY <1>2, <2>1, <2>2, <2>4 DEF WalkShape, Gets, Visible
<1>3. CASE FetchByCursor
  <2>1. PICK q \in Sortings({i \in Visible(row) : Beyond(walk.cursor, i)}, FALSE),
             page \in Seq(Ids), more \in BOOLEAN : CursorPage(q, page, more)
        BY <1>3, CursorStep
  <2> QED
      BY <1>2, <2>1 DEF CursorPage
<1>4. CASE FetchByOffset
  <2>1. PICK tie \in {FALSE, list.ties} : \E q \in Sortings(Visible(row), tie) :
        \E page \in Seq(Ids) : \E more \in BOOLEAN : OffsetPage(q, page, more)
        BY <1>4, OffsetStep
  <2>2. PICK q \in Sortings(Visible(row), tie), page \in Seq(Ids), more \in BOOLEAN :
          OffsetPage(q, page, more)
        BY <2>1
  <2>3. tie \in BOOLEAN /\ walk.offset \in Nat
        BY ListShape, WalkFields DEF TypeOK
  <2> QED
      BY <1>2, <2>2, <2>3 DEF OffsetPage
<1>5. CASE HydrateReviews
  <2>1. PICK f, got : Filled(f, got)
        BY <1>5, FillStep
  <2>2. /\ \A i : i \in Range(got) => i \in Range(walk.page)
        /\ \A i : /\ Times(i) \in Nat
                  /\ Times(i)' = IF i \in Range(got) THEN Times(i) + 1 ELSE Times(i)
        BY <2>1, FilledTimes DEF WalkShape
  <2>3. \A i : i \in Range(walk'.shown) => i \in Range(walk.shown) \/ i \in Range(walk.page)
        BY <1>1, <2>2, TimesFacts, TimesFactsNext
  <2> QED
      BY <2>1, <2>3, WalkFields DEF WalkShape, Filled, Visible
<1>6. CASE \E S \in SUBSET Ids : Written(S)
      BY <1>6 DEF Written, WalkShape, TypeOK
<1>7. CASE Tick \/ UNCHANGED vars
      BY <1>7 DEF WalkShape, Tick, vars, rows, Visible
<1> QED
    BY <1>3, <1>4, <1>5, <1>6, <1>7, StepCases

----------------------------------------------------------------------------
(* A cursor of the order of the list.                                      *)

CursorAt(i) == [id |-> i, likes |-> row[i].likes]

(* The list is cut by the order it is listed in: it is by its nature, or as *)
(* long as nothing is written and the order happens to be that of the ids.  *)
CutAsListed == list.cut # "offset" /\ (list.order = list.cut \/ (writes = 0 /\ SortedAsCut))

(* What is beyond a row that is beyond the cursor is beyond the cursor.    *)
LEMMA BeyondIsTransitive ==
    ASSUME TypeOK, NEW i \in Ids, NEW j \in Ids, Beyond(walk.cursor, i), Beyond(CursorAt(i), j)
    PROVE  list.cut = "offset" \/ Beyond(walk.cursor, j)
<1>1. /\ \A k \in Ids : k \in Nat /\ row[k].likes \in Nat /\ CursorAt(k) # None
      /\ list.cut \in {"id", "likes", "offset"}
      BY ListConstants, ListShape, SMTT(30) DEF TypeOK, Row, CursorAt
<1>2. CASE walk.cursor = None
      BY <1>2 DEF Beyond
<1>3. CASE walk.cursor # None
  <2>1. walk.cursor.id \in Nat /\ walk.cursor.likes \in Nat
        BY <1>3, WalkFields, ListConstants DEF Cursors
  <2>2. CursorAt(i).id = i /\ CursorAt(i).likes = row[i].likes
        BY DEF CursorAt
  <2> QED
      BY <1>1, <1>3, <2>1, <2>2 DEF Beyond
<1> QED
    BY <1>2, <1>3

(* Of two rows of the list the one that comes later is beyond the other.   *)
LEMMA BeyondIsAfter ==
    ASSUME TypeOK, CutAsListed, NEW i \in Visible(row), NEW j \in Visible(row)
    PROVE  Beyond(CursorAt(i), j) <=> Precedes(FALSE, i, j)
<1>1. /\ i \in Ids /\ j \in Ids /\ i \in Nat /\ j \in Nat
      /\ \A k \in Ids : CursorAt(k) # None /\ row[k].likes \in Nat /\ row[k].stamp \in Nat
      BY ListConstants DEF TypeOK, Row, CursorAt, Visible
<1>2. CursorAt(i).id = i /\ CursorAt(i).likes = row[i].likes
      BY DEF CursorAt
<1>3. /\ list.order \in {"id", "likes", "stamp"} /\ list.cut \in {"id", "likes"}
      /\ list.rises \in BOOLEAN
      /\ list.cut = "likes" <=> list.order = "likes"
      /\ list.order # "id" => ~list.rises
      BY ListShape DEF TypeOK, CutAsListed
<1>4. CASE list.order = "id"
      BY <1>1, <1>2, <1>3, <1>4 DEF Beyond, Precedes
<1>5. CASE list.order = "likes"
      BY <1>1, <1>2, <1>3, <1>5 DEF Beyond, Precedes
<1>6. CASE list.order = "stamp"
  <2>1. /\ list.cut = "id" /\ ~list.rises
        /\ \A m, n \in Visible(row) : m > n => row[m].stamp >= row[n].stamp
        BY <1>3, <1>6 DEF CutAsListed, SortedAsCut
  <2> QED
      BY <1>1, <1>2, <1>6, <2>1 DEF Beyond, Precedes
<1> QED
    BY <1>3, <1>4, <1>5, <1>6

(* The cursor after a page: what was not beyond it is not, nor is the page; *)
(* what is left of the list is.                                            *)
LEMMA CursorMoves ==
    ASSUME TypeOK, NEW q \in Sortings({i \in Visible(row) : Beyond(walk.cursor, i)}, FALSE),
           NEW page \in Seq(Ids), NEW more \in BOOLEAN, CursorPage(q, page, more)
    PROVE  /\ more => \A j \in Ids : Beyond(walk.cursor, j)' => Beyond(walk.cursor, j)
           /\ CutAsListed => \A j \in Visible(row) :
                /\ j \in Range(page) => Beyond(walk.cursor, j) /\ ~(more /\ Beyond(walk.cursor, j)')
                /\ Beyond(walk.cursor, j) /\ j \notin Range(page) => more /\ Beyond(walk.cursor, j)'
<1>1. PICK S : S = {i \in Visible(row) : Beyond(walk.cursor, i)}
      OBVIOUS
<1>2. S \in SUBSET Ids /\ S \subseteq Visible(row) /\ FALSE \in BOOLEAN /\ 0 \in Nat
      BY <1>1 DEF Visible
<1>3. PICK tie \in BOOLEAN : tie = FALSE
       OBVIOUS
<1>4. q \in Sortings(S, tie)
       BY <1>1, <1>3
<1>5. /\ q \in Seq(S) /\ Len(q) \in Nat
      /\ \A m, n \in 1 .. Len(q) : m < n => Precedes(FALSE, q[m], q[n])
      /\ \A i \in S : \E k \in 1 .. Len(q) : q[k] = i
  <2>1. /\ q \in Seq(S) /\ Len(q) \in Nat
        /\ \A m, n \in 1 .. Len(q) : m < n => Precedes(tie, q[m], q[n])
        /\ \A i \in S : \E k \in 1 .. Len(q) : q[k] = i
        BY <1>2, <1>4, SortingHasAll
  <2> QED
      BY <1>3, <2>1
<1>6. \A i : i \in Range(page) <=> \E k \in 1 .. Len(q) : 0 < k /\ k <= 0 + limit /\ q[k] = i
      BY <1>2, <1>4, PageFacts DEF CursorPage
<1>7. \A k \in 1 .. Len(q) : q[k] \in S
      BY <1>5, ElementOfSeq
<1>8. \A j : Beyond(walk.cursor, j)' <=> Beyond(walk'.cursor, j)
      BY DEF CursorPage, Beyond
<1>9. limit \in Nat \ {0} /\ list.cut # "offset" /\ (more <=> Len(q) > limit)
      BY WalkFields DEF CursorPage
<1>10. more => limit \in 1 .. Len(q) /\ walk'.cursor = CursorAt(q[limit])
      BY <1>5, <1>9 DEF CursorPage, CursorAt
<1>11. ASSUME more, NEW j \in Ids, Beyond(walk.cursor, j)' PROVE Beyond(walk.cursor, j)
  <2>1. q[limit] \in S /\ Beyond(CursorAt(q[limit]), j)
        BY <1>7, <1>8, <1>10, <1>11
  <2> QED
      BY <1>1, <1>2, <1>9, <2>1, BeyondIsTransitive
<1>12. ASSUME CutAsListed, NEW j \in Visible(row), j \in Range(page)
       PROVE  Beyond(walk.cursor, j) /\ ~(more /\ Beyond(walk.cursor, j)')
  <2>1. PICK k \in 1 .. Len(q) : k <= limit /\ q[k] = j
        BY <1>6, <1>9, <1>12
  <2>2. j \in S
        BY <1>7, <2>1
  <2>3. ASSUME more, Beyond(walk.cursor, j)' PROVE FALSE
    <3>1. q[limit] \in Visible(row) /\ Beyond(CursorAt(q[limit]), j)
          BY <1>2, <1>7, <1>8, <1>10, <2>3
    <3>2. Precedes(FALSE, q[limit], j) /\ q[limit] \in Ids /\ j \in Ids
          BY <1>12, <3>1, BeyondIsAfter DEF Visible
    <3>3. k = limit \/ k < limit
          BY <1>5, <1>9, <2>1
    <3>4. k = limit \/ Precedes(FALSE, j, q[limit])
          BY <1>5, <1>10, <2>1, <2>3, <3>3
    <3> QED
        BY <2>1, <3>2, <3>4, OrderIsTotal
  <2> QED
      BY <1>1, <2>2, <2>3
<1>13. ASSUME CutAsListed, NEW j \in Visible(row), Beyond(walk.cursor, j), j \notin Range(page)
       PROVE  more /\ Beyond(walk.cursor, j)'
  <2>1. PICK k \in 1 .. Len(q) : q[k] = j
        BY <1>1, <1>5, <1>13
  <2>2. k > limit /\ more
        BY <1>5, <1>6, <1>9, <1>13, <2>1
  <2>3. Precedes(FALSE, q[limit], j) /\ q[limit] \in Visible(row)
        BY <1>2, <1>5, <1>7, <1>10, <2>1, <2>2
  <2>4. Beyond(CursorAt(q[limit]), j)
        BY <1>13, <2>3, BeyondIsAfter
  <2> QED
      BY <1>8, <1>10, <2>2, <2>4
<1> QED
    BY <1>11, <1>12, <1>13

(* Rows still ahead of the reader, and rows of a page not filled yet.      *)
Ahead(i) == walk.more /\ Beyond(walk.cursor, i)
Pending(i) == walk.pc = "fill" /\ i \in Range(walk.page)

(* A row that stayed at its place is ahead, or of the page to be filled, or *)
(* has been shown, once.                                                    *)
OnceInPlace ==
  CutAsListed => \A i \in steady : /\ ~(Ahead(i) /\ Pending(i))
                                   /\ Times(i) = IF Ahead(i) \/ Pending(i) THEN 0 ELSE 1

LEMMA StepOnce == TypeOK /\ WalkShape /\ OnceInPlace /\ [Next]_vars => OnceInPlace'
<1> SUFFICES ASSUME TypeOK, WalkShape, OnceInPlace, [Next]_vars, CutAsListed', NEW i \in steady'
             PROVE  (/\ ~(Ahead(i) /\ Pending(i))
                     /\ Times(i) = IF Ahead(i) \/ Pending(i) THEN 0 ELSE 1)'
    BY DEF OnceInPlace
<1>1. steady \subseteq Visible(row) /\ Visible(row) \subseteq Ids /\ \A j \in Visible(row) : row[j].state = "live"
      BY DEF TypeOK, Visible
<1>2. CASE FetchByCursor
  <2>1. PICK q \in Sortings({j \in Visible(row) : Beyond(walk.cursor, j)}, FALSE),
             page \in Seq(Ids), more \in BOOLEAN : CursorPage(q, page, more)
        BY <1>2, CursorStep
  <2>2. CutAsListed /\ i \in steady /\ i \in Visible(row)
        BY <1>1, <2>1 DEF CursorPage, CutAsListed, SortedAsCut, Visible
  <2>3. /\ ~Pending(i) /\ walk.more
        /\ Times(i) = IF Beyond(walk.cursor, i) THEN 0 ELSE 1
        BY <2>1, <2>2 DEF CursorPage, WalkShape, OnceInPlace, Ahead, Pending
  <2>4. {j \in Visible(row) : Beyond(walk.cursor, j)} \in SUBSET Ids /\ FALSE \in BOOLEAN /\ 0 \in Nat
        BY <1>1
  <2>5. Once(page)
        BY <2>1, <2>4, PageFacts DEF CursorPage
  <2>6. Times(i)' = IF ~list.fills /\ i \in Range(page) THEN Times(i) + 1 ELSE Times(i)
        BY <2>1, <2>5, GetsTimes DEF CursorPage
  <2>7. /\ i \in Range(page) => Beyond(walk.cursor, i) /\ ~(more /\ Beyond(walk.cursor, i)')
        /\ Beyond(walk.cursor, i) /\ i \notin Range(page) => more /\ Beyond(walk.cursor, i)'
        /\ more /\ Beyond(walk.cursor, i)' => Beyond(walk.cursor, i)
        BY <1>1, <2>1, <2>2, CursorMoves
  <2>8. /\ Ahead(i)' <=> more /\ Beyond(walk.cursor, i)'
        /\ Pending(i)' <=> list.fills /\ i \in Range(page)
        BY <2>1 DEF Ahead, Pending, CursorPage, Gets
  <2> QED
      BY <2>3, <2>6, <2>7, <2>8
<1>3. CASE FetchByOffset
      BY <1>3 DEF FetchByOffset, CutAsListed
<1>4. CASE HydrateReviews
  <2>1. PICK f, got : Filled(f, got)
        BY <1>4, FillStep
  <2>2. CutAsListed /\ i \in steady /\ row[i].state = "live" /\ i \in Ids
        BY <1>1, <2>1 DEF Filled, CutAsListed, SortedAsCut, Visible
  <2>3. /\ i \in Range(got) <=> i \in Range(walk.page)
        /\ Times(i)' = IF i \in Range(got) THEN Times(i) + 1 ELSE Times(i)
        BY <2>1, <2>2, FilledTimes DEF WalkShape
  <2>4. Pending(i) <=> i \in Range(walk.page)
        BY <2>1 DEF Filled, Pending
  <2>5. ~Pending(i)' /\ (Ahead(i)' <=> Ahead(i))
        BY <2>1 DEF Filled, Pending, Ahead, Beyond
  <2> QED
      BY <2>2, <2>3, <2>4, <2>5 DEF OnceInPlace
<1>5. CASE \E S \in SUBSET Ids : Written(S)
  <2>1. PICK S \in SUBSET Ids : Written(S)
        BY <1>5
  <2>2. CutAsListed /\ i \in steady /\ row'[i] = row[i]
        BY <1>1, <2>1 DEF Written, CutAsListed, TypeOK
  <2>3. Times(i)' = Times(i) /\ (Pending(i)' <=> Pending(i)) /\ (Ahead(i)' <=> Ahead(i))
        BY <2>1, <2>2 DEF Written, Times, Pending, Ahead, Beyond
  <2> QED
      BY <2>2, <2>3 DEF OnceInPlace
<1>6. CASE Tick \/ UNCHANGED vars
  <2>1. UNCHANGED <<list, row, walk, steady, writes>>
        BY <1>6 DEF Tick, vars, rows
  <2>2. CutAsListed /\ i \in steady
        BY <2>1 DEF CutAsListed, SortedAsCut, Visible
  <2>3. Times(i)' = Times(i) /\ (Pending(i)' <=> Pending(i)) /\ (Ahead(i)' <=> Ahead(i))
        BY <2>1 DEF Times, Pending, Ahead, Beyond
  <2> QED
      BY <2>2, <2>3 DEF OnceInPlace
<1> QED
    BY <1>2, <1>3, <1>4, <1>5, <1>6, StepCases

LEMMA InitOnce == Init => OnceInPlace
<1> SUFFICES ASSUME Init, NEW i \in steady
             PROVE  /\ ~(Ahead(i) /\ Pending(i))
                    /\ Times(i) = IF Ahead(i) \/ Pending(i) THEN 0 ELSE 1
    BY DEF OnceInPlace
<1>1. TypeOK /\ walk.shown = <<>> /\ walk.pc = "ask" /\ walk.more /\ walk.cursor = None
      BY InitType DEF Init
<1>2. Range(walk.shown) = {}
      BY <1>1 DEF Range
<1>3. Times(i) = 0
      BY <1>1, <1>2, TimesFacts
<1> QED
    BY <1>1, <1>3 DEF Ahead, Pending, Beyond

(* A row fetched and not fallen since is not beyond the cursor.            *)
FallenBehind ==
  CutByOrder /\ walk.more =>
    \A i \in Ids \ fallen : i \in Range(walk.shown) \/ i \in Range(walk.page) => ~Beyond(walk.cursor, i)

LEMMA InitFallen == Init => FallenBehind
<1> SUFFICES ASSUME Init PROVE FallenBehind
    OBVIOUS
<1>1. Range(<<>>) = {}
      BY DEF Range
<1> QED
    BY <1>1 DEF Init, FallenBehind

LEMMA StepFallen == TypeOK /\ WalkShape /\ FallenBehind /\ [Next]_vars => FallenBehind'
<1> SUFFICES ASSUME TypeOK, WalkShape, FallenBehind, [Next]_vars, CutByOrder', walk'.more,
                    NEW i \in Ids, i \notin fallen', i \in Range(walk'.shown) \/ i \in Range(walk'.page)
             PROVE  ~Beyond(walk.cursor, i)'
    BY DEF FallenBehind
<1>1. TypeOK' /\ CutByOrder
  <2>1. list' = list
        BY StepCases DEF CursorPage, FetchByCursor, FetchByOffset, HydrateReviews, Written, Tick, vars, rows
  <2> QED
      BY <2>1, StepType DEF CutByOrder
<1>2. CASE FetchByCursor
  <2>1. PICK q \in Sortings({j \in Visible(row) : Beyond(walk.cursor, j)}, FALSE),
             page \in Seq(Ids), more \in BOOLEAN : CursorPage(q, page, more)
        BY <1>2, CursorStep
  <2>2. {j \in Visible(row) : Beyond(walk.cursor, j)} \in SUBSET Ids /\ FALSE \in BOOLEAN /\ 0 \in Nat
        BY DEF Visible
  <2>3. Once(page) /\ \A j : j \in Range(page) => j \in Visible(row)
    <3>1. PICK S \in SUBSET Ids : S = {j \in Visible(row) : Beyond(walk.cursor, j)}
          BY <2>2
    <3>2. PICK tie \in BOOLEAN : tie = FALSE
          OBVIOUS
    <3>3. q \in Sortings(S, tie)
          BY <2>1, <3>1, <3>2
    <3>4. q \in Seq(S)
          BY <3>3, SortingHasAll
    <3>5. Once(page) /\ \A j : j \in Range(page) => \E k \in 1 .. Len(q) : q[k] = j
          BY <2>1, <2>2, <3>3, PageFacts DEF CursorPage
    <3> QED
        BY <3>1, <3>4, <3>5, ElementOfSeq
  <2>4. walk.more /\ more /\ walk'.page = page /\ fallen' = fallen \ Range(page)
        BY <2>1 DEF CursorPage, Gets, WalkShape
  <2>5. CutAsListed
        BY <1>1, <2>1 DEF CutByOrder, CutAsListed, CursorPage
  <2>6. CASE i \in Range(page)
        BY <2>1, <2>3, <2>4, <2>5, <2>6, CursorMoves
  <2>7. CASE i \notin Range(page)
    <3>1. Times(i)' = Times(i)
          BY <2>1, <2>3, <2>7, GetsTimes DEF CursorPage
    <3>2. i \in Range(walk.shown) /\ i \notin fallen
          BY <1>1, <2>4, <2>7, <3>1, TimesFacts, TimesFactsNext
    <3>3. ~Beyond(walk.cursor, i)
          BY <1>1, <2>4, <3>2 DEF FallenBehind
    <3> QED
        BY <2>1, <2>4, <3>3, CursorMoves
  <2> QED
      BY <2>6, <2>7
<1>3. CASE FetchByOffset
  <2>1. list.cut = "offset" /\ list.order = "stamp"
        BY <1>3, ListShape DEF FetchByOffset, TypeOK
  <2> QED
      BY <1>1, <2>1 DEF CutByOrder
<1>4. CASE HydrateReviews
  <2>1. PICK f, got : Filled(f, got)
        BY <1>4, FillStep
  <2>2. /\ \A j : j \in Range(got) => j \in Range(walk.page)
        /\ Times(i) \in Nat
        /\ Times(i)' = IF i \in Range(got) THEN Times(i) + 1 ELSE Times(i)
        BY <2>1, FilledTimes DEF WalkShape
  <2>3. i \in Range(walk'.shown) => i \in Range(walk.shown) \/ i \in Range(walk.page)
        BY <1>1, <2>2, TimesFacts, TimesFactsNext
  <2>4. /\ i \notin fallen /\ walk.more
        /\ i \in Range(walk.shown) \/ i \in Range(walk.page)
        /\ Beyond(walk.cursor, i)' <=> Beyond(walk.cursor, i)
        BY <2>1, <2>3 DEF Filled, Beyond
  <2> QED
      BY <1>1, <2>4 DEF FallenBehind
<1>5. CASE \E S \in SUBSET Ids : Written(S)
  <2>1. PICK S \in SUBSET Ids : Written(S)
        BY <1>5
  <2>2. i \notin fallen /\ walk' = walk /\ list' = list
        BY <2>1 DEF Written
  <2>3. ~Beyond(walk.cursor, i) /\ row[i].state # "none"
        BY <1>1, <2>2 DEF FallenBehind, WalkShape
  <2>4. row'[i].likes >= row[i].likes
        BY <2>1, <2>3 DEF Written
  <2>5. row[i].likes \in Nat /\ row'[i].likes \in Nat /\ walk.cursor # None /\ walk.cursor.likes \in Nat
    <3>1. walk.cursor # None
          BY <2>3 DEF Beyond
    <3>2. walk.cursor \in Cursors /\ MaxLikes \in Nat
          BY <3>1, ListConstants, WalkFields
    <3>3. row \in [Ids -> Row] /\ row' \in [Ids -> Row]
          BY <1>1 DEF TypeOK
    <3> QED
        BY <3>1, <3>2, <3>3 DEF Row, Cursors
  <2> QED
      BY <2>2, <2>3, <2>4, <2>5 DEF Beyond
<1>6. CASE Tick \/ UNCHANGED vars
  <2>1. UNCHANGED <<list, row, walk, fallen>>
        BY <1>6 DEF Tick, vars, rows
  <2> QED
      BY <1>1, <2>1 DEF FallenBehind, Beyond
<1> QED
    BY <1>2, <1>3, <1>4, <1>5, <1>6, StepCases

----------------------------------------------------------------------------
(* Lists by offset.                                                        *)

(* The rows listed before row i.                                           *)
Before(i) == {j \in Visible(row) : Precedes(FALSE, j, i)}

LEMMA BeforeIsCounted ==
    ASSUME TypeOK, NEW i
    PROVE  /\ IsFiniteSet(Visible(row)) /\ Cardinality(Visible(row)) \in Nat
           /\ IsFiniteSet(Before(i)) /\ Cardinality(Before(i)) \in Nat
<1>1. Visible(row) \in SUBSET Ids /\ Before(i) \in SUBSET Ids
      BY DEF Visible, Before
<1> QED
    BY <1>1, ListConstants, FS_Subset, FS_CardinalityType

(* Without ties the database has one order of the rows.                    *)
LEMMA OneSorting ==
    ASSUME TypeOK, NoTies, NEW tie \in {FALSE, list.ties}
    PROVE  Sortings(Visible(row), tie) \subseteq Sortings(Visible(row), FALSE)
<1>1. PICK V : V = Visible(row)
      OBVIOUS
<1>2. V \subseteq Ids /\ \A i \in V : row[i].state # "none"
      BY <1>1 DEF Visible
<1>3. \A i, j \in V : Precedes(tie, i, j) => Precedes(FALSE, i, j)
  <2>1. CASE tie = FALSE
        BY <2>1
  <2>2. CASE tie = list.ties /\ list.ties
    <3>1. \A i, j \in V : i # j => row[i].stamp # row[j].stamp
          BY <1>2, <2>2 DEF NoTies
    <3>2. \A i, j \in V : Precedes(tie, i, j) => i # j
      <4>1. tie \in BOOLEAN
            BY <2>2, ListShape DEF TypeOK
      <4> QED
          BY <1>2, <4>1, OrderIsTotal
    <3> QED
        BY <3>1, <3>2 DEF Precedes
  <2> QED
      BY <2>1, <2>2, ListShape DEF TypeOK
<1>4. PICK n : n = Cardinality(V)
      OBVIOUS
<1>5. ASSUME NEW q \in Sortings(V, tie) PROVE q \in Sortings(V, FALSE)
  <2>1. q \in [1 .. n -> V] /\ \A k, m \in DOMAIN q : k < m => Precedes(tie, q[k], q[m])
        BY <1>4 DEF Sortings
  <2>2. \A k, m \in DOMAIN q : k < m => Precedes(FALSE, q[k], q[m])
        BY <1>3, <2>1
  <2> QED
      BY <1>4, <2>1, <2>2 DEF Sortings
<1> QED
    BY <1>1, <1>5

(* A page at an offset has the rows of the ranks asked for.                *)
LEMMA OffsetRanks ==
    ASSUME TypeOK, NoTies, FetchByOffset
    PROVE  /\ list.cut = "offset" /\ walk.pc = "ask" /\ ~list.fills
           /\ UNCHANGED <<list, limit, row, clock, steady, fallen, seen, writes>>
           /\ walk'.offset = walk.offset + limit
           /\ walk'.pc = "done" => Cardinality(Visible(row)) <= walk.offset + limit
           /\ \A i : Times(i) \in Nat
           /\ \A i \in Visible(row) :
                Times(i)' = IF walk.offset <= Cardinality(Before(i)) /\ Cardinality(Before(i)) < walk.offset + limit
                            THEN Times(i) + 1 ELSE Times(i)
           /\ \A i \in Ids \ Visible(row) : Times(i)' = Times(i)
<1>1. PICK tie \in {FALSE, list.ties} : \E q \in Sortings(Visible(row), tie) :
        \E page \in Seq(Ids) : \E more \in BOOLEAN : OffsetPage(q, page, more)
      BY OffsetStep
<1>2. PICK q \in Sortings(Visible(row), tie), page \in Seq(Ids), more \in BOOLEAN :
        OffsetPage(q, page, more)
      BY <1>1
<1>3. PICK V \in SUBSET Ids : V = Visible(row)
      BY DEF Visible
<1>4. PICK no \in BOOLEAN : no = FALSE
      OBVIOUS
<1>5. q \in Sortings(V, no)
      BY <1>2, <1>3, <1>4, OneSorting
<1>6. /\ q \in Seq(V) /\ Len(q) \in Nat /\ Len(q) = Cardinality(V)
      /\ \A i \in V : \E k \in 1 .. Len(q) : q[k] = i
      BY <1>5, SortingHasAll
<1>7. limit \in Nat /\ walk.offset \in Nat
      BY WalkFields
<1>8. /\ Once(page)
      /\ \A i : i \in Range(page) <=>
                  \E k \in 1 .. Len(q) : walk.offset < k /\ k <= walk.offset + limit /\ q[k] = i
      BY <1>2, <1>5, <1>7, PageFacts DEF OffsetPage
<1>9. /\ list.cut = "offset" /\ ~list.fills /\ (more <=> Len(q) > walk.offset + limit)
      BY <1>2, ListShape DEF OffsetPage, TypeOK
<1>10. \A i : /\ Times(i) \in Nat
              /\ Times(i)' = IF i \in Range(page) THEN Times(i) + 1 ELSE Times(i)
       BY <1>2, <1>8, <1>9, GetsTimes DEF OffsetPage
<1>11. ASSUME NEW i \in V
       PROVE  i \in Range(page) <=>
                walk.offset <= Cardinality(Before(i)) /\ Cardinality(Before(i)) < walk.offset + limit
  <2>1. PICK k \in 1 .. Len(q) : q[k] = i
        BY <1>6
  <2>2. Cardinality({j \in V : Precedes(no, j, q[k])}) = k - 1
        BY <1>5, PlaceIsRank
  <2>3. Cardinality(Before(i)) = k - 1
        BY <1>3, <1>4, <2>1, <2>2 DEF Before
  <2>4. \A m \in 1 .. Len(q) : q[m] = i => m = k
        BY <1>5, <2>1, SortingHasAll
  <2>5. i \in Range(page) <=> walk.offset < k /\ k <= walk.offset + limit
        BY <1>8, <2>1, <2>4
  <2> QED
      BY <1>6, <1>7, <2>3, <2>5
<1>12. \A i \in Range(page) : i \in V
       BY <1>6, <1>8, ElementOfSeq
<1>13. walk'.pc = "done" => ~more
       BY <1>2 DEF OffsetPage, Gets
<1>14. /\ walk.pc = "ask" /\ walk'.offset = walk.offset + limit
       /\ UNCHANGED <<list, limit, row, clock, steady, fallen, seen, writes>>
       BY <1>2 DEF OffsetPage, Gets
<1>15. walk'.pc = "done" => Cardinality(V) <= walk.offset + limit
       BY <1>6, <1>7, <1>9, <1>13
<1> QED
    BY <1>3, <1>9, <1>10, <1>11, <1>12, <1>14, <1>15

(* A write that took no row from the list left each row all that was before *)
(* it; one that brought none left nothing else before it.                   *)
LEMMA WrittenBefore ==
    ASSUME TypeOK, TypeOK', NEW S \in SUBSET Ids, Written(S), NoTies', list.cut = "offset"
    PROVE  /\ seen \subseteq seen'
           /\ "went" \notin seen' =>
                NoTies /\ \A i \in Visible(row) :
                            i \in Visible(row') /\ Cardinality(Before(i)) <= Cardinality(Before(i)')
           /\ "came" \notin seen' =>
                NoTies /\ \A i \in Visible(row') :
                            i \in Visible(row) /\ Cardinality(Before(i)') <= Cardinality(Before(i))
<1>1. PICK moved : moved = {i \in S : row'[i].stamp # row[i].stamp /\ row[i].state # "none"}
      OBVIOUS
<1>2. seen' = seen \cup (IF moved \cup (Visible(row') \ Visible(row)) # {} THEN {"came"} ELSE {})
                   \cup (IF moved \cup (Visible(row) \ Visible(row')) # {} THEN {"went"} ELSE {})
      BY <1>1 DEF Written
<1>3. /\ list' = list /\ list.order = "stamp"
      /\ \A i \in Ids \ S : row'[i] = row[i]
      /\ \A i \in Ids : row[i].state # "none" => row'[i].state # "none"
      /\ \A i \in Ids : row[i].stamp \in Nat /\ row'[i].stamp \in Nat
      BY ListShape, ListConstants DEF Written, TypeOK, Row
<1>4. Visible(row) \subseteq Ids /\ Visible(row') \subseteq Ids /\ \A i \in Visible(row) : row[i].state # "none"
      BY DEF Visible
<1>5. ASSUME moved = {} PROVE NoTies
  <2>1. \A i \in Ids : row[i].state # "none" => row'[i].stamp = row[i].stamp
        BY <1>1, <1>3, <1>5
  <2> QED
      BY <1>3, <2>1 DEF NoTies
<1>6. ASSUME moved = {}, NEW i \in Visible(row), NEW j \in Visible(row)
      PROVE  Precedes(FALSE, i, j)' <=> Precedes(FALSE, i, j)
  <2>1. row'[i].stamp = row[i].stamp /\ row'[j].stamp = row[j].stamp
        BY <1>1, <1>3, <1>4, <1>6
  <2> QED
      BY <1>3, <2>1 DEF Precedes
<1>7. ASSUME NEW i
      PROVE  /\ IsFiniteSet(Before(i)) /\ IsFiniteSet(Before(i)')
             /\ Before(i)' = {j \in Visible(row') : Precedes(FALSE, j, i)'}
  <2>1. Before(i) \in SUBSET Ids /\ Before(i)' \in SUBSET Ids
        BY <1>4 DEF Before, Visible
  <2> QED
      BY <2>1, ListConstants, FS_Subset DEF Before
<1>8. ASSUME "went" \notin seen', NEW i \in Visible(row)
      PROVE  i \in Visible(row') /\ Cardinality(Before(i)) <= Cardinality(Before(i)')
  <2>1. moved = {} /\ Visible(row) \subseteq Visible(row')
        BY <1>2, <1>8
  <2>2. Before(i) \subseteq Before(i)'
        BY <1>6, <1>7, <1>8, <2>1 DEF Before
  <2> QED
      BY <1>7, <1>8, <2>1, <2>2, FS_Subset
<1>9. ASSUME "came" \notin seen', NEW i \in Visible(row')
      PROVE  i \in Visible(row) /\ Cardinality(Before(i)') <= Cardinality(Before(i))
  <2>1. moved = {} /\ Visible(row') \subseteq Visible(row)
        BY <1>2, <1>9
  <2>2. Before(i)' \subseteq Before(i)
        BY <1>6, <1>7, <1>9, <2>1 DEF Before
  <2> QED
      BY <1>7, <1>9, <2>1, <2>2, FS_Subset
<1>10. ("went" \notin seen' => NoTies) /\ ("came" \notin seen' => NoTies)
       BY <1>2, <1>5
<1> QED
    BY <1>2, <1>8, <1>9, <1>10

(* As long as nothing went, what is steady and before the offset has been   *)
(* shown, and a walk that is done has gone past the end.                    *)
NoGaps ==
  list.cut = "offset" /\ NoTies /\ "went" \notin seen =>
    /\ \A i \in steady : Cardinality(Before(i)) < walk.offset => Times(i) >= 1
    /\ walk.pc = "done" => Cardinality(Visible(row)) <= walk.offset

(* As long as nothing came, no row is shown twice, and what was shown and is *)
(* still listed is before the offset.                                        *)
NoRepeats ==
  list.cut = "offset" /\ NoTies /\ "came" \notin seen =>
    \A i \in Ids : /\ Times(i) <= 1
                   /\ Times(i) >= 1 /\ i \in Visible(row) => Cardinality(Before(i)) < walk.offset

LEMMA InitOffset == Init => NoGaps /\ NoRepeats
<1> SUFFICES ASSUME Init PROVE NoGaps /\ NoRepeats
    OBVIOUS
<1>1. TypeOK /\ walk.shown = <<>> /\ walk.pc = "ask" /\ walk.offset = 0
      BY InitType DEF Init
<1>2. Range(walk.shown) = {}
      BY <1>1 DEF Range
<1>3. \A i : Times(i) = 0 /\ Cardinality(Before(i)) \in Nat
      BY <1>1, <1>2, TimesFacts, BeforeIsCounted
<1> QED
    BY <1>1, <1>3 DEF NoGaps, NoRepeats

LEMMA StepOffset == TypeOK /\ WalkShape /\ NoGaps /\ NoRepeats /\ [Next]_vars => NoGaps' /\ NoRepeats'
<1> SUFFICES ASSUME TypeOK, WalkShape, NoGaps, NoRepeats, [Next]_vars, list'.cut = "offset", NoTies'
             PROVE  NoGaps' /\ NoRepeats'
    BY DEF NoGaps, NoRepeats
<1>1. /\ TypeOK' /\ steady \subseteq Visible(row) /\ Visible(row) \subseteq Ids
      /\ walk.offset \in Nat /\ limit \in Nat
      BY StepType, WalkFields DEF TypeOK, Visible
<1>2. \A i : /\ Times(i) \in Nat /\ Cardinality(Before(i)) \in Nat
      BY TimesFacts, BeforeIsCounted
<1>3. CASE FetchByCursor
      BY <1>3 DEF FetchByCursor
<1>4. CASE FetchByOffset
  <2>1. NoTies /\ list.cut = "offset"
        BY <1>4 DEF FetchByOffset, rows, NoTies
  <2>2. /\ UNCHANGED <<list, limit, row, clock, steady, fallen, seen, writes>>
        /\ walk'.offset = walk.offset + limit
        /\ walk'.pc = "done" => Cardinality(Visible(row)) <= walk.offset + limit
        /\ \A i \in Visible(row) :
             Times(i)' = IF walk.offset <= Cardinality(Before(i)) /\ Cardinality(Before(i)) < walk.offset + limit
                         THEN Times(i) + 1 ELSE Times(i)
        /\ \A i \in Ids \ Visible(row) : Times(i)' = Times(i)
        BY <1>4, <2>1, OffsetRanks
  <2>3. Visible(row)' = Visible(row) /\ \A i : Before(i)' = Before(i)
        BY <2>2 DEF Visible, Before, Precedes
  <2>4. NoGaps'
    <3>1. ASSUME "went" \notin seen', NEW i \in steady', Cardinality(Before(i)) < walk.offset + limit
          PROVE  Times(i)' >= 1
      <4>1. i \in Visible(row) /\ i \in steady /\ "went" \notin seen
            BY <1>1, <2>2, <3>1
      <4>2. Cardinality(Before(i)) < walk.offset => Times(i) >= 1
            BY <2>1, <4>1 DEF NoGaps
      <4> QED
          BY <1>1, <1>2, <2>2, <3>1, <4>1, <4>2
    <3> QED
        BY <2>2, <2>3, <3>1 DEF NoGaps
  <2>5. NoRepeats'
    <3>1. ASSUME "came" \notin seen', NEW i \in Ids
          PROVE  /\ Times(i)' <= 1
                 /\ Times(i)' >= 1 /\ i \in Visible(row) => Cardinality(Before(i)) < walk.offset + limit
      <4>1. /\ Times(i) <= 1
            /\ Times(i) >= 1 /\ i \in Visible(row) => Cardinality(Before(i)) < walk.offset
            BY <2>1, <2>2, <3>1 DEF NoRepeats
      <4>2. CASE i \in Visible(row)
            BY <1>1, <1>2, <2>2, <4>1, <4>2
      <4>3. CASE i \notin Visible(row)
            BY <2>2, <4>1, <4>3
      <4> QED
          BY <4>2, <4>3
    <3> QED
        BY <2>2, <2>3, <3>1 DEF NoRepeats
  <2> QED
      BY <2>4, <2>5
<1>5. CASE HydrateReviews
  <2>1. list.fills /\ list.cut = "offset"
        BY <1>5 DEF HydrateReviews, WalkShape, rows
  <2> QED
      BY <2>1, ListShape DEF TypeOK
<1>6. CASE \E S \in SUBSET Ids : Written(S)
  <2>1. PICK S \in SUBSET Ids : Written(S)
        BY <1>6
  <2>2. list.cut = "offset" /\ walk' = walk /\ walk.pc # "done" /\ steady' \subseteq steady
        BY <2>1 DEF Written
  <2>3. \A i : Times(i)' = Times(i)
        BY <2>2 DEF Times
  <2>4. \A i : Cardinality(Before(i)') \in Nat
    <3> TAKE i
    <3>1. Before(i)' \in SUBSET Ids
          BY DEF Before, Visible
    <3> QED
        BY <3>1, ListConstants, FS_Subset, FS_CardinalityType
  <2>5. NoGaps'
    <3>1. ASSUME "went" \notin seen', NEW i \in steady', Cardinality(Before(i)') < walk.offset
          PROVE  Times(i) >= 1
      <4>1. /\ NoTies /\ "went" \notin seen /\ i \in steady
            /\ Cardinality(Before(i)) <= Cardinality(Before(i)')
            BY <1>1, <2>1, <2>2, <3>1, WrittenBefore
      <4>2. Cardinality(Before(i)) < walk.offset
            BY <1>1, <1>2, <2>4, <3>1, <4>1
      <4> QED
          BY <2>2, <4>1, <4>2 DEF NoGaps
    <3> QED
        BY <2>2, <2>3, <3>1 DEF NoGaps
  <2>6. NoRepeats'
    <3>1. ASSUME "came" \notin seen', NEW i \in Ids
          PROVE  /\ Times(i) <= 1
                 /\ Times(i) >= 1 /\ i \in Visible(row') => Cardinality(Before(i)') < walk.offset
      <4>1. NoTies /\ "came" \notin seen
            BY <1>1, <2>1, <2>2, <3>1, WrittenBefore
      <4>2. /\ Times(i) <= 1
            /\ Times(i) >= 1 /\ i \in Visible(row) => Cardinality(Before(i)) < walk.offset
            BY <2>2, <4>1 DEF NoRepeats
      <4>3. i \in Visible(row') => i \in Visible(row) /\ Cardinality(Before(i)') <= Cardinality(Before(i))
            BY <1>1, <2>1, <2>2, <3>1, WrittenBefore
      <4> QED
          BY <1>1, <1>2, <2>4, <4>2, <4>3
    <3> QED
        BY <2>2, <2>3, <3>1 DEF NoRepeats
  <2> QED
      BY <2>5, <2>6
<1>7. CASE Tick \/ UNCHANGED vars
  <2>1. UNCHANGED <<list, row, walk, steady, seen>>
        BY <1>7 DEF Tick, vars, rows
  <2>2. /\ NoTies /\ list.cut = "offset" /\ Visible(row)' = Visible(row)
        /\ \A i : Before(i)' = Before(i) /\ Times(i)' = Times(i)
        BY <2>1 DEF NoTies, Visible, Before, Precedes, Times
  <2> QED
      BY <2>1, <2>2 DEF NoGaps, NoRepeats
<1> QED
    BY <1>3, <1>4, <1>5, <1>6, <1>7, StepCases

----------------------------------------------------------------------------
(* A list nothing happens to.                                              *)

Sorted(s) == \A m, n \in 1 .. Len(s) : m < n => Precedes(FALSE, s[m], s[n])
AllBefore(s, t) == \A m \in 1 .. Len(s), n \in 1 .. Len(t) : Precedes(FALSE, s[m], t[n])

(* Two sorted sequences, one before the other, joined.                     *)
LEMMA SortedJoined ==
    ASSUME NEW s \in Seq(Ids), NEW t \in Seq(Ids), Sorted(s), Sorted(t), AllBefore(s, t)
    PROVE  Sorted(s \o t)
<1>1. PICK n \in Nat, l \in Nat : n = Len(s) /\ l = Len(t)
      BY LenProperties
<1>2. PICK u : u = s \o t
      OBVIOUS
<1>3. /\ Len(u) = n + l
      /\ \A k \in 1 .. n : u[k] = s[k]
      /\ \A k \in 1 .. l : u[n + k] = t[k]
      BY <1>1, <1>2, ConcatProperties
<1>4. \A k, m \in 1 .. n : k < m => Precedes(FALSE, s[k], s[m])
      BY <1>1 DEF Sorted
<1>5. \A k, m \in 1 .. l : k < m => Precedes(FALSE, t[k], t[m])
      BY <1>1 DEF Sorted
<1>6. \A k \in 1 .. n, m \in 1 .. l : Precedes(FALSE, s[k], t[m])
      BY <1>1 DEF AllBefore
<1>7. ASSUME NEW k \in 1 .. n + l, NEW m \in 1 .. n + l, k < m
      PROVE  Precedes(FALSE, u[k], u[m])
  <2>1. CASE m <= n
    <3>1. k \in 1 .. n /\ m \in 1 .. n
          BY <1>7, <2>1
    <3>2. u[k] = s[k] /\ u[m] = s[m]
          BY <1>3, <3>1
    <3> QED
        BY <1>4, <1>7, <3>1, <3>2
  <2>2. CASE k <= n /\ n < m
    <3>1. k \in 1 .. n /\ m - n \in 1 .. l /\ n + (m - n) = m
          BY <1>7, <2>2
    <3>2. u[k] = s[k] /\ u[m] = t[m - n]
          BY <1>3, <3>1
    <3> QED
        BY <1>6, <3>1, <3>2
  <2>3. CASE n < k
    <3>1. /\ m - n \in 1 .. l /\ n + (m - n) = m
          /\ k - n \in 1 .. l /\ n + (k - n) = k /\ k - n < m - n
          BY <1>7, <2>3
    <3>2. u[k] = t[k - n] /\ u[m] = t[m - n]
          BY <1>3, <3>1
    <3> QED
        BY <1>5, <3>1, <3>2
  <2>4. m <= n \/ (k <= n /\ n < m) \/ n < k
        BY <1>7
  <2> QED
      BY <2>1, <2>2, <2>3, <2>4
<1> QED
    BY <1>2, <1>3, <1>7 DEF Sorted

(* What a page of a sorting has is sorted.                                 *)
LEMMA PageSorted ==
    ASSUME TypeOK, NEW S \in SUBSET Ids, NEW q \in Sortings(S, FALSE),
           NEW from \in Nat, NEW page, PageOf(page, q, from)
    PROVE  Sorted(page) /\ Range(page) \subseteq S /\ page \in Seq(Ids) /\ Once(page)
<1>1. PICK no \in BOOLEAN : no = FALSE
      OBVIOUS
<1>2. q \in Sortings(S, no)
      BY <1>1
<1>3. /\ q \in Seq(S) /\ Len(q) \in Nat
      /\ \A m, n \in 1 .. Len(q) : m < n => Precedes(no, q[m], q[n])
      BY <1>2, SortingHasAll
<1>4. /\ page \in Seq(Ids) /\ Once(page)
      /\ \A i : i \in Range(page) => \E k \in 1 .. Len(q) : q[k] = i
      BY <1>2, PageFacts
<1>5. Range(page) \subseteq S
      BY <1>3, <1>4, ElementOfSeq
<1>6. Len(page) \in Nat /\ \A k \in 1 .. Len(page) : k + from \in 1 .. Len(q) /\ page[k] = q[k + from]
      BY <1>4, LenProperties DEF PageOf
<1>7. Sorted(page)
  <2> SUFFICES ASSUME NEW m \in 1 .. Len(page), NEW n \in 1 .. Len(page), m < n
               PROVE  Precedes(FALSE, page[m], page[n])
      BY DEF Sorted
  <2>1. m + from < n + from
        BY <1>6
  <2> QED
      BY <1>1, <1>3, <1>6, <2>1
<1> QED
    BY <1>4, <1>5, <1>7

(* As long as nothing is written, what was shown and the page to be filled  *)
(* are of the list, and sorted.                                             *)
Untouched == writes = 0 /\ NoTies /\ SortedAsCut

SortedSoFar ==
  Untouched =>
    /\ Range(walk.shown) \cup Range(walk.page) \subseteq Visible(row)
    /\ Sorted(walk.shown) /\ Sorted(walk.page)
    /\ walk.pc = "fill" => AllBefore(walk.shown, walk.page)

LEMMA InitSorted == Init => SortedSoFar
<1> SUFFICES ASSUME Init PROVE SortedSoFar
    OBVIOUS
<1>1. walk.shown = <<>> /\ walk.page = <<>> /\ walk.pc = "ask"
      BY DEF Init
<1>2. Range(<<>>) = {} /\ Len(<<>>) = 0
      BY EmptySeq DEF Range
<1> QED
    BY <1>1, <1>2 DEF SortedSoFar, Sorted

(* What a page has comes after all that was shown.                         *)
LEMMA PageAfterShown ==
    ASSUME TypeOK, WalkShape, OnceInPlace, NoRepeats, SortedSoFar, Untouched,
           NEW S \in SUBSET Visible(row), NEW page \in Seq(Ids), Range(page) \subseteq S,
           walk.pc = "ask",
           \/ list.cut # "offset" /\ \A j \in S : Beyond(walk.cursor, j)
           \/ list.cut = "offset" /\ \A j \in Range(page) : walk.offset <= Cardinality(Before(j))
    PROVE  AllBefore(walk.shown, page)
<1> SUFFICES ASSUME NEW m \in 1 .. Len(walk.shown), NEW n \in 1 .. Len(page)
             PROVE  Precedes(FALSE, walk.shown[m], page[n])
    BY DEF AllBefore
<1>1. /\ walk.shown \in Seq(Ids) /\ steady = Visible(row) /\ seen = {} /\ walk.more
      /\ walk.offset \in Nat
      BY WalkFields DEF WalkShape, Untouched
<1>2. PICK x, y : x = walk.shown[m] /\ y = page[n]
      OBVIOUS
<1>3. x \in Range(walk.shown) /\ y \in Range(page)
      BY <1>1, <1>2, RangeOf
<1>4. x \in Visible(row) /\ y \in S /\ y \in Visible(row) /\ x \in Ids /\ y \in Ids
      BY <1>3 DEF SortedSoFar, Visible
<1>5. Times(x) \in Nat /\ Times(x) # 0
      BY <1>3, TimesFacts
<1>6. x = y \/ Precedes(FALSE, x, y) \/ Precedes(FALSE, y, x)
      BY <1>4, OrderIsTotal
<1>7. CASE list.cut # "offset" /\ \A j \in S : Beyond(walk.cursor, j)
  <2>1. CutAsListed
        BY <1>7 DEF CutAsListed, Untouched
  <2>2. ~Beyond(walk.cursor, x) /\ Beyond(walk.cursor, y)
        BY <1>1, <1>4, <1>5, <1>7, <2>1 DEF OnceInPlace, Ahead
  <2>3. ASSUME Precedes(FALSE, y, x) PROVE FALSE
    <3>1. Beyond(CursorAt(y), x)
          BY <1>4, <2>1, <2>3, BeyondIsAfter
    <3> QED
        BY <1>4, <1>7, <2>2, <3>1, BeyondIsTransitive
  <2> QED
      BY <1>2, <1>6, <2>2, <2>3
<1>8. CASE list.cut = "offset" /\ \A j \in Range(page) : walk.offset <= Cardinality(Before(j))
  <2>1. Cardinality(Before(x)) < walk.offset /\ walk.offset <= Cardinality(Before(y))
        BY <1>1, <1>3, <1>4, <1>5, <1>8 DEF NoRepeats, Untouched
  <2>2. /\ IsFiniteSet(Before(x)) /\ Cardinality(Before(x)) \in Nat
        /\ IsFiniteSet(Before(y)) /\ Cardinality(Before(y)) \in Nat
        BY BeforeIsCounted
  <2>3. ASSUME Precedes(FALSE, y, x) PROVE FALSE
    <3>1. Before(y) \subseteq Before(x)
          BY <1>4, <2>3, OrderIsTotal DEF Before, Visible
    <3>2. Cardinality(Before(y)) <= Cardinality(Before(x))
          BY <2>2, <3>1, FS_Subset
    <3> QED
        BY <1>1, <2>1, <2>2, <3>2
  <2>4. x # y
        BY <1>1, <2>1, <2>2
  <2> QED
      BY <1>2, <1>6, <2>3, <2>4
<1> QED
    BY <1>7, <1>8

LEMMA StepSorted ==
    TypeOK /\ WalkShape /\ OnceInPlace /\ NoRepeats /\ SortedSoFar /\ [Next]_vars => SortedSoFar'
<1> SUFFICES ASSUME TypeOK, WalkShape, OnceInPlace, NoRepeats, SortedSoFar, [Next]_vars, Untouched'
             PROVE  (/\ Range(walk.shown) \cup Range(walk.page) \subseteq Visible(row)
                     /\ Sorted(walk.shown) /\ Sorted(walk.page)
                     /\ walk.pc = "fill" => AllBefore(walk.shown, walk.page))'
    BY DEF SortedSoFar
<1>1. TypeOK' /\ walk.shown \in Seq(Ids) /\ walk.page \in Seq(Ids) /\ Visible(row) \in SUBSET Ids
      BY StepType, WalkFields DEF Visible
<1>2. ASSUME UNCHANGED <<list, row, writes>>
      PROVE  /\ Untouched /\ Visible(row)' = Visible(row)
             /\ \A s : Sorted(s)' <=> Sorted(s)
             /\ \A s, t : AllBefore(s, t)' <=> AllBefore(s, t)
  <2>1. Untouched /\ Visible(row)' = Visible(row)
        BY <1>2 DEF Untouched, NoTies, SortedAsCut, Visible
  <2>2. \A i, j : Precedes(FALSE, i, j)' <=> Precedes(FALSE, i, j)
        BY <1>2 DEF Precedes
  <2> QED
      BY <2>1, <2>2 DEF Sorted, AllBefore
<1>3. ASSUME NEW S \in SUBSET Visible(row), NEW q \in Sortings(S, FALSE), NEW from \in Nat,
             NEW page, NEW more \in BOOLEAN, PageOf(page, q, from), Gets(page, more),
             UNCHANGED <<list, row, writes>>, walk.pc = "ask",
             \/ list.cut # "offset" /\ \A j \in S : Beyond(walk.cursor, j)
             \/ list.cut = "offset" /\ \A j \in Range(page) : walk.offset <= Cardinality(Before(j))
      PROVE  (/\ Range(walk.shown) \cup Range(walk.page) \subseteq Visible(row)
              /\ Sorted(walk.shown) /\ Sorted(walk.page)
              /\ walk.pc = "fill" => AllBefore(walk.shown, walk.page))'
  <2>1. S \in SUBSET Ids
        BY <1>1
  <2>2. Sorted(page) /\ Range(page) \subseteq S /\ page \in Seq(Ids) /\ Once(page)
        BY <1>3, <2>1, PageSorted
  <2>3. Untouched
        BY <1>2, <1>3
  <2>4. AllBefore(walk.shown, page)
        BY <1>3, <2>2, <2>3, PageAfterShown
  <2>5. Range(walk.shown) \subseteq Visible(row) /\ Sorted(walk.shown)
        BY <2>3 DEF SortedSoFar
  <2>6. CASE list.fills
    <3>1. walk'.shown = walk.shown /\ walk'.page = page
          BY <1>3, <2>6 DEF Gets
    <3> QED
        BY <1>2, <1>3, <2>2, <2>4, <2>5, <3>1
  <2>7. CASE ~list.fills
    <3>1. walk'.shown = walk.shown \o page /\ walk'.page = page /\ walk'.pc # "fill"
          BY <1>3, <2>7 DEF Gets
    <3>2. Sorted(walk.shown \o page)
          BY <1>1, <2>2, <2>4, <2>5, SortedJoined
    <3>3. \A i : i \in Range(walk'.shown) => i \in Range(walk.shown) \/ i \in Range(page)
          BY <1>1, <2>2, <3>1, TimesGrow, TimesFacts, TimesFactsNext
    <3>4. Range(walk'.shown) \subseteq Visible(row)
          BY <2>2, <2>5, <3>3
    <3> QED
        BY <1>2, <1>3, <2>2, <3>1, <3>2, <3>4
  <2> QED
      BY <2>6, <2>7
<1>4. CASE FetchByCursor
  <2>1. PICK q \in Sortings({i \in Visible(row) : Beyond(walk.cursor, i)}, FALSE),
             page \in Seq(Ids), more \in BOOLEAN : CursorPage(q, page, more)
        BY <1>4, CursorStep
  <2>2. PICK S \in SUBSET Visible(row) : S = {i \in Visible(row) : Beyond(walk.cursor, i)}
        OBVIOUS
  <2>3. q \in Sortings(S, FALSE) /\ \A j \in S : Beyond(walk.cursor, j)
        BY <2>1, <2>2
  <2> QED
      BY <1>3, <2>1, <2>2, <2>3 DEF CursorPage
<1>5. CASE FetchByOffset
  <2>1. PICK tie \in {FALSE, list.ties} : \E q \in Sortings(Visible(row), tie) :
        \E page \in Seq(Ids) : \E more \in BOOLEAN : OffsetPage(q, page, more)
        BY <1>5, OffsetStep
  <2>2. PICK q \in Sortings(Visible(row), tie), page \in Seq(Ids), more \in BOOLEAN :
          OffsetPage(q, page, more)
        BY <2>1
  <2>3. Untouched /\ UNCHANGED <<list, row, writes>>
        BY <1>2, <2>2 DEF OffsetPage
  <2>4. q \in Sortings(Visible(row), FALSE) /\ walk.offset \in Nat
        BY <2>2, <2>3, OneSorting, WalkFields DEF Untouched
  <2>5. \A j \in Range(page) : walk.offset <= Cardinality(Before(j))
    <3> TAKE j \in Range(page)
    <3>1. PICK no \in BOOLEAN : no = FALSE
          OBVIOUS
    <3>2. PICK V \in SUBSET Ids : V = Visible(row)
          BY <1>1
    <3>3. q \in Sortings(V, no)
          BY <2>4, <3>1, <3>2
    <3>4. PICK k \in 1 .. Len(q) : walk.offset < k /\ q[k] = j
          BY <2>2, <2>4, <3>3, PageFacts DEF OffsetPage
    <3>5. Cardinality({i \in V : Precedes(no, i, q[k])}) = k - 1
          BY <3>3, PlaceIsRank
    <3>6. Cardinality(Before(j)) = k - 1
          BY <3>1, <3>2, <3>4, <3>5 DEF Before
    <3>7. Len(q) \in Nat
          BY <3>3, SortingHasAll
    <3> QED
        BY <2>4, <3>4, <3>6, <3>7
  <2> QED
      BY <1>3, <2>2, <2>3, <2>4, <2>5 DEF OffsetPage
<1>6. CASE HydrateReviews
  <2>1. PICK f, got : Filled(f, got)
        BY <1>6, FillStep
  <2>2. /\ got \in Seq(Ids) /\ walk'.shown = walk.shown \o got /\ walk'.page = walk.page
        /\ walk.pc = "fill" /\ walk'.pc # "fill" /\ UNCHANGED <<list, row, writes>>
        /\ \A m \in 1 .. Len(got) : f[m] \in 1 .. Len(walk.page) /\ got[m] = walk.page[f[m]]
        /\ \A m, n \in 1 .. Len(got) : m < n => f[m] < f[n]
        BY <2>1 DEF Filled
  <2>3. Untouched
        BY <1>2, <2>2
  <2>4. /\ Range(walk.shown) \subseteq Visible(row) /\ Range(walk.page) \subseteq Visible(row)
        /\ Sorted(walk.shown) /\ Sorted(walk.page) /\ AllBefore(walk.shown, walk.page)
        BY <2>2, <2>3 DEF SortedSoFar
  <2>5. Sorted(got) /\ AllBefore(walk.shown, got)
        BY <2>2, <2>4 DEF Sorted, AllBefore
  <2>6. Sorted(walk.shown \o got)
        BY <1>1, <2>2, <2>4, <2>5, SortedJoined
  <2>7. \A i : i \in Range(walk'.shown) => i \in Range(walk.shown) \/ i \in Range(walk.page)
    <3>1. /\ \A i : i \in Range(got) => i \in Range(walk.page)
          /\ \A i : /\ Times(i) \in Nat
                    /\ Times(i)' = IF i \in Range(got) THEN Times(i) + 1 ELSE Times(i)
          BY <2>1, FilledTimes DEF WalkShape
    <3> QED
        BY <1>1, <3>1, TimesFacts, TimesFactsNext
  <2> QED
      BY <1>2, <2>2, <2>4, <2>6, <2>7
<1>7. CASE \E S \in SUBSET Ids : Written(S)
      BY <1>7 DEF Written, Untouched, TypeOK
<1>8. CASE Tick \/ UNCHANGED vars
  <2>1. UNCHANGED <<list, row, walk, writes>>
        BY <1>8 DEF Tick, vars, rows
  <2> QED
      BY <1>2, <2>1 DEF SortedSoFar
<1> QED
    BY <1>4, <1>5, <1>6, <1>7, <1>8, StepCases

----------------------------------------------------------------------------
(* The inductive invariant and what it gives.                              *)

ListInv ==
  TypeOK /\ WalkShape /\ OnceInPlace /\ FallenBehind /\ NoGaps /\ NoRepeats /\ SortedSoFar

THEOREM ListInvHolds == Spec => []ListInv
<1>1. Init => ListInv
      BY InitType, InitShape, InitOnce, InitFallen, InitOffset, InitSorted DEF ListInv
<1>2. ListInv /\ [Next]_vars => ListInv'
      BY StepType, StepShape, StepOnce, StepFallen, StepOffset, StepSorted DEF ListInv
<1> QED
    BY <1>1, <1>2, PTL DEF Spec

(* The list, its rows and the walk keep their types, and what is said to be *)
(* at its place is in the list.                                             *)
THEOREM ListTypes == Spec => []TypeOK
<1>1. ListInv => TypeOK
      BY DEF ListInv
<1> QED
    BY <1>1, ListInvHolds, PTL

(* Read with the cursor it is sorted by, a list shows a row that stays at   *)
(* its place once, whatever happens to the others.                          *)
THEOREM SteadyAreShownOnce == Spec => []SteadyShownOnce
<1>1. ListInv => SteadyShownOnce
  <2> SUFFICES ASSUME ListInv, CutByOrder, NEW i \in steady
               PROVE  Times(i) <= 1 /\ (walk.pc = "done" => Times(i) = 1)
      BY DEF SteadyShownOnce
  <2>1. TypeOK /\ WalkShape /\ OnceInPlace
        BY DEF ListInv
  <2>2. CutAsListed
        BY <2>1, ListShape DEF CutByOrder, CutAsListed, TypeOK
  <2>3. /\ Times(i) = IF Ahead(i) \/ Pending(i) THEN 0 ELSE 1
        /\ walk.pc = "done" => ~Ahead(i) /\ ~Pending(i)
        BY <2>1, <2>2 DEF OnceInPlace, WalkShape, Ahead, Pending
  <2> QED
      BY <2>3
<1> QED
    BY <1>1, ListInvHolds, PTL

(* Read so, it fetches a row again only if the row has lost a like since.  *)
THEOREM OnlyFallenAgain == Spec => AgainOnlyFallen
<1>1. ListInv /\ [Next]_vars =>
        [CutByOrder /\ walk.pc = "ask" /\ walk' # walk =>
           \A k \in DOMAIN walk'.page : Times(walk'.page[k]) > 0 => walk'.page[k] \in fallen]_vars
  <2> SUFFICES ASSUME ListInv, [Next]_vars, CutByOrder, walk.pc = "ask", walk' # walk,
                      NEW k \in DOMAIN walk'.page, Times(walk'.page[k]) > 0
               PROVE  walk'.page[k] \in fallen
      OBVIOUS
  <2>1. TypeOK /\ WalkShape /\ FallenBehind /\ list.cut # "offset"
        BY ListShape DEF ListInv, CutByOrder, TypeOK
  <2>2. FetchByCursor
        BY <2>1, StepCases DEF FetchByOffset, HydrateReviews, Written, Tick, vars, rows
  <2>3. PICK q \in Sortings({i \in Visible(row) : Beyond(walk.cursor, i)}, FALSE),
             page \in Seq(Ids), more \in BOOLEAN : CursorPage(q, page, more)
        BY <2>1, <2>2, CursorStep
  <2>4. PICK S \in SUBSET Ids : S = {i \in Visible(row) : Beyond(walk.cursor, i)}
        BY DEF Visible
  <2>5. Range(page) \subseteq S /\ walk'.page = page
        BY <2>1, <2>3, <2>4, PageSorted DEF CursorPage, Gets
  <2>6. PICK i : i = walk'.page[k]
        OBVIOUS
  <2>7. i \in S /\ i \in Ids /\ Beyond(walk.cursor, i)
    <3>1. i \in Range(page)
          BY <2>5, <2>6 DEF Range
    <3> QED
        BY <2>4, <2>5, <3>1
  <2>8. i \in Range(walk.shown)
        BY <2>1, <2>6, TimesFacts
  <2> QED
      BY <2>1, <2>6, <2>7, <2>8 DEF FallenBehind, WalkShape
<1> QED
    BY <1>1, ListInvHolds, PTL DEF Spec, AgainOnlyFallen

LEMMA InvOffset == ListInv => OffsetGapsAndRepeats
<1> SUFFICES ASSUME ListInv, list.cut = "offset", NoTies
             PROVE  /\ "went" \notin seen /\ walk.pc = "done" => \A i \in steady : Times(i) >= 1
                    /\ "came" \notin seen => \A i \in Ids : Times(i) <= 1
    BY DEF OffsetGapsAndRepeats
<1>1. TypeOK /\ NoGaps /\ NoRepeats
      BY DEF ListInv
<1>2. ASSUME "went" \notin seen, walk.pc = "done", NEW i \in steady PROVE Times(i) >= 1
  <2>1. i \in Visible(row) /\ i \in Ids /\ walk.offset \in Nat
        BY <1>1, WalkFields DEF TypeOK, Visible
  <2>2. Before(i) \subseteq Visible(row) /\ i \notin Before(i)
        BY <1>1, <2>1, OrderIsTotal DEF Before
  <2>3. /\ IsFiniteSet(Visible(row)) /\ Cardinality(Visible(row)) \in Nat
        /\ Cardinality(Before(i)) \in Nat
        BY <1>1, BeforeIsCounted
  <2>4. Cardinality(Before(i)) < Cardinality(Visible(row))
        BY <2>1, <2>2, <2>3, FS_Subset
  <2> QED
      BY <1>1, <1>2, <2>1, <2>3, <2>4 DEF NoGaps
<1>3. ASSUME "came" \notin seen, NEW i \in Ids PROVE Times(i) <= 1
      BY <1>1, <1>3 DEF NoRepeats
<1> QED
    BY <1>2, <1>3

(* Read with an offset, a list that only grows has no gaps, and one that    *)
(* only shrinks no repetitions.                                             *)
THEOREM OffsetsMissOrRepeat == Spec => []OffsetGapsAndRepeats
  BY ListInvHolds, InvOffset, PTL

(* The pages of a list nothing happens to are the list.                    *)
THEOREM RestIsWhole == Spec => []RestWhole
<1>1. ListInv => RestWhole
  <2> SUFFICES ASSUME ListInv, walk.pc = "done", writes = 0, NoTies, SortedAsCut
               PROVE  walk.shown \in Sortings(Visible(row), FALSE)
      BY DEF RestWhole
  <2>1. /\ TypeOK /\ WalkShape /\ OnceInPlace /\ NoGaps /\ SortedSoFar
        /\ steady = Visible(row) /\ seen = {} /\ Untouched
        BY DEF ListInv, WalkShape, Untouched
  <2>2. PICK s \in Seq(Ids) : s = walk.shown
        BY <2>1, WalkFields
  <2>3. PICK n \in Nat : n = Len(s) /\ DOMAIN s = 1 .. n
        BY <2>2, LenProperties
  <2>4. PICK V \in SUBSET Ids : V = Visible(row)
        BY DEF Visible
  <2>5. \A i \in V : Times(i) # 0
    <3> SUFFICES ASSUME NEW i \in V PROVE Times(i) # 0
        OBVIOUS
    <3>1. CASE list.cut = "offset"
      <4>1. OffsetGapsAndRepeats
            BY InvOffset
      <4>2. Times(i) >= 1
            BY <2>1, <2>4, <3>1, <4>1 DEF OffsetGapsAndRepeats, Untouched
      <4> QED
          BY <4>2
    <3>2. CASE list.cut # "offset"
          BY <2>1, <2>4, <3>2 DEF OnceInPlace, CutAsListed, WalkShape, Ahead, Pending, Untouched
    <3> QED
        BY <3>1, <3>2
  <2>6. /\ Range(s) \subseteq V
        /\ \A k, m \in 1 .. n : k < m => Precedes(FALSE, s[k], s[m])
        BY <2>1, <2>2, <2>3, <2>4 DEF SortedSoFar, Sorted
  <2>7. s \in [1 .. n -> V]
        BY <2>2, <2>3, <2>6, RangeOf, SeqDef
  <2>8. \A k, m \in 1 .. n : s[k] = s[m] => k = m
    <3>1. \A k \in 1 .. n : s[k] \in Ids
          BY <2>2, <2>3, ElementOfSeq
    <3>2. ASSUME NEW k \in 1 .. n, NEW m \in 1 .. n, s[k] = s[m], k < m PROVE FALSE
          BY <2>1, <2>6, <3>1, <3>2, OrderIsTotal
    <3>3. \A k, m \in 1 .. n : k < m \/ m < k \/ k = m
          OBVIOUS
    <3> QED
        BY <3>2, <3>3
  <2>9. \A i \in V : \E k \in 1 .. n : s[k] = i
        BY <2>1, <2>2, <2>3, <2>5, TimesFacts, RangeOf
  <2>10. s \in Bijection(1 .. n, V)
         BY <2>7, <2>8, <2>9 DEF Bijection, Injection, Surjection, IsInjective
  <2>11. Cardinality(V) = n
         BY <2>10, FS_CountingElements DEF ExistsBijection
  <2> QED
      BY <2>2, <2>3, <2>4, <2>6, <2>7, <2>11 DEF Sortings
<1> QED
    BY <1>1, ListInvHolds, PTL
================================================================================
