------------------------------- MODULE Reviews -------------------------------
(***************************************************************************)
(* Reviews of picked-up order items, with their media, comments and likes: *)
(* UserReviewService, ReviewRepository and the engagement part of          *)
(* UserRepository.                                                         *)
(*                                                                         *)
(* review.order_item_id is UNIQUE and deletion is soft, so an item has one *)
(* review row for ever and the row is named by its item.  A transaction    *)
(* that only writes is one step; one that reads first and writes what it   *)
(* read is two.  A row lock is the pc of the request that holds it.        *)
(***************************************************************************)
EXTENDS Naturals, FiniteSets

CONSTANTS
    Workers,        \* slots for requests in flight
    Users,
    Orders,
    Items,          \* order items
    OrderOf,        \* the order of each item
    Buyer,          \* the customer of each order
    PickedUp,       \* the orders that are PICKED_UP (a final status)
    MediaChoices,   \* <<images, videos>> a client may send with a review
    MAX_IMAGE_COUNT, MAX_VIDEO_COUNT,
    None,
    MaxWrites, MaxComments    \* model bounds on rows written

ASSUME ReviewConstants ==
    /\ OrderOf \in [Items -> Orders]
    /\ Buyer \in [Orders -> Users]
    /\ PickedUp \subseteq Orders
    /\ MediaChoices \subseteq Nat \X Nat
    /\ MAX_IMAGE_COUNT \in Nat /\ MAX_VIDEO_COUNT \in Nat
    /\ None \notin Users \cup Items
    /\ MaxWrites \in Nat /\ MaxComments \in Nat

VARIABLES
    review,     \* the state of each item's review row
    content,    \* which write its rating and content are from
    media,      \* live review_media rows, by the createMany that made them
    comments,   \* live review_comment rows
    like,       \* the state of each review_like row
    shown,      \* items whose product and store are active
    gone,       \* orders whose deleted_at is set
    job,        \* what each worker is doing
    writes, commented,   \* rows written so far
    (* History variables *)
    deletions,  \* how many times each review was deleted
    notified    \* REVIEW_LIKED notifications, by review and liker

vars == <<review, content, media, comments, like, shown, gone, job, writes,
          commented, deletions, notified>>

RowStates == {"none", "live", "deleted"}

Pcs == {"idle", "creating", "restoring", "liking", "reliking", "unliking",
        "commenting", "uncommenting"}

Batches == [item : Items, write : Nat, images : 0..MAX_IMAGE_COUNT,
            videos : 0..MAX_VIDEO_COUNT]
Comments == [id : Nat, item : Items, by : Users, gen : Nat]

Jobs == [pc : Pcs, item : Items \cup {None}, user : Users \cup {None},
         images : 0..MAX_IMAGE_COUNT, videos : 0..MAX_VIDEO_COUNT, comment : Nat,
         since : Nat]    \* history: the writes there were when the item was checked

Idle == [pc |-> "idle", item |-> None, user |-> None,
         images |-> 0, videos |-> 0, comment |-> 0, since |-> 0]

TypeOK ==
    /\ review \in [Items -> RowStates]
    /\ content \in [Items -> Nat]
    /\ media \subseteq Batches
    /\ comments \subseteq Comments
    /\ like \in [Items -> [Users -> RowStates]]
    /\ shown \subseteq Items
    /\ gone \subseteq Orders
    /\ job \in [Workers -> Jobs]
    /\ writes \in Nat
    /\ commented \in Nat
    /\ deletions \in [Items -> Nat]
    /\ notified \in [Items -> [Users -> Nat]]

Init ==
    /\ review = [i \in Items |-> "none"]
    /\ content = [i \in Items |-> 0]
    /\ media = {}
    /\ comments = {}
    /\ like = [i \in Items |-> [u \in Users |-> "none"]]
    /\ shown = Items
    /\ gone = {}
    /\ job = [w \in Workers |-> Idle]
    /\ writes = 0
    /\ commented = 0
    /\ deletions = [i \in Items |-> 0]
    /\ notified = [i \in Items |-> [u \in Users |-> 0]]

-----------------------------------------------------------------------------
(* findFirst on review: the soft-delete extension hides deleted rows. *)
Visible(i) == review[i] = "live"

(* An item is found for its customer through its order. *)
Author(i) == Buyer[OrderOf[i]]

ItemsOf(o) == {i \in Items : OrderOf[i] = o}

UnlockedWhateverHolds(i) == TRUE                            \* mutated form

(* No transaction holds the review row FOR SHARE, so an UPDATE may lock it. *)
Unlocked(i) == \A w \in Workers : ~(job[w].pc = "commenting" /\ job[w].item = i)

StartJob(w, pc, i, u) ==
    /\ job[w] = Idle
    /\ job' = [job EXCEPT ![w] = [pc |-> pc, item |-> i, user |-> u,
                                  images |-> 0, videos |-> 0, comment |-> 0, since |-> 0]]

End(w) == job' = [job EXCEPT ![w] = Idle]

-----------------------------------------------------------------------------
(* Writing, rewriting and deleting a review *)

(* validateMedia *)
MediaAccepted(images, videos) ==
    /\ images <= MAX_IMAGE_COUNT
    /\ videos <= MAX_VIDEO_COUNT

(* What writeReview asks of the item: picked up, and not reviewed yet.  It *)
(* does not ask whether the order is deleted.                              *)
CanWriteReview(i) == OrderOf[i] \in PickedUp /\ ~Visible(i)

CheckReviewOfAny(w, i) ==                                   \* mutated form
    /\ job[w] = Idle
    /\ OrderOf[i] \in PickedUp
    /\ \E m \in MediaChoices :
          /\ MediaAccepted(m[1], m[2])
          /\ job' = [job EXCEPT ![w] =
                        [pc |-> IF review[i] = "none" THEN "creating" ELSE "restoring",
                         item |-> i, user |-> Author(i),
                         images |-> m[1], videos |-> m[2], comment |-> 0, since |-> writes]]
    /\ UNCHANGED <<review, content, media, comments, like, shown, gone, writes,
                   commented, deletions, notified>>

(* writeReview up to its transaction, by the customer of the item. *)
CheckReview(w, i) ==
    /\ job[w] = Idle
    /\ CanWriteReview(i)
    /\ \E m \in MediaChoices :
          /\ MediaAccepted(m[1], m[2])
          /\ job' = [job EXCEPT ![w] =
                        [pc |-> IF review[i] = "deleted" THEN "restoring" ELSE "creating",
                         item |-> i, user |-> Author(i),
                         images |-> m[1], videos |-> m[2], comment |-> 0, since |-> writes]]
    /\ UNCHANGED <<review, content, media, comments, like, shown, gone, writes,
                   commented, deletions, notified>>

(* Rows of review_media after a write: createMany, if there is any to make. *)
NewBatch(w) ==
    LET b == [item |-> job[w].item, write |-> writes + 1,
              images |-> job[w].images, videos |-> job[w].videos]
    IN  IF b.images + b.videos > 0 THEN {b} ELSE {}

(* createOrRestoreReviewWithMedia deletes every earlier media row. *)
MediaAfterRestore(i) == {b \in media : b.item # i}

(* createOrRestoreReviewWithMedia when the item had no review row: the     *)
(* INSERT fails on order_item_id if another request made one meanwhile.    *)
CreateReview(w) ==
    /\ job[w].pc = "creating"
    /\ writes < MaxWrites
    /\ LET i == job[w].item
       IN  IF review[i] = "none"
           THEN /\ review' = [review EXCEPT ![i] = "live"]
                /\ content' = [content EXCEPT ![i] = writes + 1]
                /\ media' = media \cup NewBatch(w)
                /\ writes' = writes + 1
           ELSE UNCHANGED <<review, content, media, writes>>
    /\ End(w)
    /\ UNCHANGED <<comments, like, shown, gone, commented, deletions, notified>>

(* The same with an existingDeletedReviewId: by id, whatever the row is now. *)
RestoreReview(w) ==
    /\ job[w].pc = "restoring"
    /\ writes < MaxWrites
    /\ Unlocked(job[w].item)
    /\ LET i == job[w].item
       IN  /\ review' = [review EXCEPT ![i] = "live"]
           /\ content' = [content EXCEPT ![i] = writes + 1]
           /\ media' = MediaAfterRestore(i) \cup NewBatch(w)
    /\ writes' = writes + 1
    /\ End(w)
    /\ UNCHANGED <<comments, like, shown, gone, commented, deletions, notified>>

(* deleteMyReview: softDeleteReview is one transaction that only writes. *)
DeleteReview(i) ==
    /\ Visible(i)
    /\ Unlocked(i)
    /\ review' = [review EXCEPT ![i] = "deleted"]
    /\ media' = {b \in media : b.item # i}
    /\ comments' = {c \in comments : c.item # i}
    /\ deletions' = [deletions EXCEPT ![i] = @ + 1]
    /\ UNCHANGED <<content, like, shown, gone, job, writes, commented, notified>>

-----------------------------------------------------------------------------
(* Likes *)

(* likeReview: the reads of its transaction, from one snapshot. *)
FindLike(w, u, i) ==
    /\ Visible(i)
    /\ Author(i) # u
    /\ like[i][u] # "live"
    /\ StartJob(w, IF like[i][u] = "deleted" THEN "reliking" ELSE "liking", i, u)
    /\ UNCHANGED <<review, content, media, comments, like, shown, gone, writes,
                   commented, deletions, notified>>

(* likeReview, a first like: the row and the author's notification; the    *)
(* INSERT fails on uk_review_like if another request liked meanwhile.      *)
Like(w) ==
    /\ job[w].pc = "liking"
    /\ LET i == job[w].item  u == job[w].user
       IN  IF like[i][u] = "none"
           THEN /\ like' = [like EXCEPT ![i][u] = "live"]
                /\ notified' = [notified EXCEPT ![i][u] = @ + 1]
           ELSE UNCHANGED <<like, notified>>
    /\ End(w)
    /\ UNCHANGED <<review, content, media, comments, shown, gone, writes, commented, deletions>>

RelikeNotifying(w) ==                                       \* mutated form
    /\ job[w].pc = "reliking"
    /\ LET i == job[w].item  u == job[w].user
       IN  /\ like' = [like EXCEPT ![i][u] = "live"]
           /\ notified' = [notified EXCEPT ![i][u] = @ + 1]
    /\ End(w)
    /\ UNCHANGED <<review, content, media, comments, shown, gone, writes, commented, deletions>>

(* likeReview, a like taken back before: the row is restored by its id, and *)
(* no notification is sent.                                                *)
Relike(w) ==
    /\ job[w].pc = "reliking"
    /\ like' = [like EXCEPT ![job[w].item][job[w].user] = "live"]
    /\ End(w)
    /\ UNCHANGED <<review, content, media, comments, shown, gone, writes, commented,
                   deletions, notified>>

(* unlikeReview: its lookup of the review, then its updateMany. *)
FindReviewToUnlike(w, u, i) ==
    /\ Visible(i)
    /\ StartJob(w, "unliking", i, u)
    /\ UNCHANGED <<review, content, media, comments, like, shown, gone, writes,
                   commented, deletions, notified>>

Unlike(w) ==
    /\ job[w].pc = "unliking"
    /\ LET i == job[w].item  u == job[w].user
       IN  like' = IF like[i][u] = "live" THEN [like EXCEPT ![i][u] = "deleted"] ELSE like
    /\ End(w)
    /\ UNCHANGED <<review, content, media, comments, shown, gone, writes, commented,
                   deletions, notified>>

-----------------------------------------------------------------------------
(* Comments *)

(* createReviewComment: SELECT ... FOR SHARE OF r; the request holds the   *)
(* lock until it inserts or fails.                                         *)
LockReview(w, u, i) ==
    /\ Visible(i)
    /\ i \in shown
    /\ StartJob(w, "commenting", i, u)
    /\ UNCHANGED <<review, content, media, comments, like, shown, gone, writes,
                   commented, deletions, notified>>

Comment(w) ==
    /\ job[w].pc = "commenting"
    /\ commented < MaxComments
    /\ comments' = comments \cup {[id |-> commented + 1, item |-> job[w].item,
                                   by |-> job[w].user, gen |-> deletions[job[w].item]]}
    /\ commented' = commented + 1
    /\ End(w)
    /\ UNCHANGED <<review, content, media, like, shown, gone, writes, deletions, notified>>

(* softDeleteMyReviewComment: its lookup, then its update by id. *)
FindMyComment(w, u, c) ==
    /\ job[w] = Idle
    /\ c.by = u
    /\ job' = [job EXCEPT ![w] =
                  [pc |-> "uncommenting", item |-> c.item, user |-> u,
                   images |-> 0, videos |-> 0, comment |-> c.id, since |-> 0]]
    /\ UNCHANGED <<review, content, media, comments, like, shown, gone, writes,
                   commented, deletions, notified>>

Uncomment(w) ==
    /\ job[w].pc = "uncommenting"
    /\ comments' = {c \in comments : c.id # job[w].comment}
    /\ End(w)
    /\ UNCHANGED <<review, content, media, like, shown, gone, writes, commented,
                   deletions, notified>>

-----------------------------------------------------------------------------
(* The seller (de)activates the product or the store. *)
Toggle(i) ==
    /\ shown' = IF i \in shown THEN shown \ {i} ELSE shown \cup {i}
    /\ UNCHANGED <<review, content, media, comments, like, gone, job, writes,
                   commented, deletions, notified>>

(* Orders are soft-deleted by nothing in src/: by hand, on the database.   *)
DeleteOrder(o) ==
    /\ o \in Orders \ gone
    /\ gone' = gone \cup {o}
    /\ UNCHANGED <<review, content, media, comments, like, shown, job, writes,
                   commented, deletions, notified>>

(* A request dies or its transaction is rolled back, which frees its lock. *)
Fail(w) ==
    /\ job[w] # Idle
    /\ End(w)
    /\ UNCHANGED <<review, content, media, comments, like, shown, gone, writes,
                   commented, deletions, notified>>

Handle(w) ==
    \/ \E i \in Items : CheckReview(w, i)
    \/ \E i \in Items, u \in Users :
          FindLike(w, u, i) \/ FindReviewToUnlike(w, u, i) \/ LockReview(w, u, i)
    \/ \E c \in comments, u \in Users : FindMyComment(w, u, c)
    \/ CreateReview(w) \/ RestoreReview(w)
    \/ Like(w) \/ Relike(w) \/ Unlike(w)
    \/ Comment(w) \/ Uncomment(w)
    \/ Fail(w)

Next ==
    \/ \E w \in Workers : Handle(w)
    \/ \E i \in Items : DeleteReview(i) \/ Toggle(i)
    \/ \E o \in Orders : DeleteOrder(o)

Spec == Init /\ [][Next]_vars

-----------------------------------------------------------------------------
(* What the customer is shown.  One read each; what a page leaves out is    *)
(* the business of ListPages.                                              *)

MediaOf(i) == {b \in media : b.item = i}

(* findOrdersByAccount and findOrderDetailByAccount read orders, of which   *)
(* the soft-delete extension hides the deleted.                            *)
FindOrdersByAccount(u) == {o \in Orders \ gone : Buyer[o] = u}

FindOrderDetailByAccount(u, o) == FindOrdersByAccount(u) \cap {o}

(* getMyOrder: what it says of each item of the order, if it is found.     *)
GetMyOrder(u, o) ==
    [i \in UNION {ItemsOf(p) : p \in FindOrderDetailByAccount(u, o)} |->
        [hasMyReview |-> Visible(i),
         canWriteReview |-> o \in PickedUp /\ review[i] \in {"none", "deleted"}]]

(* findReviewableOrderIds reads items: of these orders, deleted or not.    *)
FindReviewableOrderIds(u, orders) ==
    {o \in orders :
        \E i \in ItemsOf(o) : /\ Author(i) = u
                              /\ o \in PickedUp
                              /\ review[i] \in {"none", "deleted"}}

ListReviewableOrderItemsOfAnyOrder(u) ==                    \* mutated form
    {i \in Items : /\ Author(i) = u
                   /\ OrderOf[i] \in PickedUp
                   /\ review[i] \in {"none", "deleted"}}

(* listReviewableOrderItems: the tab of reviews to write.  It reads items  *)
(* and excludes those of deleted orders itself.                            *)
ListReviewableOrderItems(u) ==
    {i \in Items : /\ Author(i) = u
                   /\ OrderOf[i] \in PickedUp \ gone
                   /\ review[i] \in {"none", "deleted"}}

(* What mapReview shows of a review.                                       *)
ReviewOf(i) == [item |-> i, write |-> content[i], media |-> MediaOf(i)]

(* listMyReviews: the tab of reviews written.                              *)
ListMyReviews(u) == {ReviewOf(i) : i \in {j \in Items : Visible(j) /\ Author(j) = u}}

(* findOrderItemForReview: an item of an order of the account, deleted or  *)
(* not, if it is one.                                                      *)
FindOrderItemForReview(u, i) == {j \in Items : j = i /\ Author(j) = u}

(* myReviewForOrderItem, for each item that is found.                      *)
MyReviewForOrderItem(u, i) ==
    {[reviews |-> IF Visible(j) THEN {ReviewOf(j)} ELSE {},
      canWrite |-> ~Visible(j) /\ OrderOf[j] \in PickedUp] : j \in FindOrderItemForReview(u, i)}

-----------------------------------------------------------------------------
(* Properties *)

(* No zombie comments: a live comment is under a live review, and was      *)
(* written after the review's last deletion, so that rewriting a review    *)
(* never brings back what was said about the old one.                      *)
NoZombieComments ==
    \A c \in comments : Visible(c.item) /\ c.gen = deletions[c.item]

(* The media shown with a review were sent with the text shown, in one     *)
(* batch, whatever writes and deletions raced; a deleted review has none.  *)
MediaMatchText ==
    \A b \in media :
        /\ Visible(b.item)
        /\ b.write = content[b.item]
        /\ \A d \in media : d.item = b.item => d = b

(* A review written anew starts without what belonged to the old one: no   *)
(* comment on a deleted review and no picture of an overwritten or deleted *)
(* text is ever shown again, whatever requests overlap the deletion and    *)
(* the rewriting.                                                          *)
NothingOldComesBack == NoZombieComments /\ MediaMatchText

(* The author is told of a liker exactly once, when the like row is made,  *)
(* however often and however concurrently the like is taken back and given *)
(* again.                                                                  *)
ToldOncePerLiker ==
    \A i \in Items, u \in Users :
        notified[i][u] = IF like[i][u] = "none" THEN 0 ELSE 1

(* Every page offers what the write accepts: the order list, the order, the *)
(* tab of reviews to write and the item's own page each decide for         *)
(* themselves whether an item can be reviewed, be it for the first time or *)
(* anew after a deletion, and whichever of them shows a live order says    *)
(* what writeReview of that moment answers.  Of a deleted order the tab,   *)
(* the order and the order list say nothing, while the write, the item's   *)
(* own page and findReviewableOrderIds, for a list read before the         *)
(* deletion, take the item still; a review written is in the tab of those  *)
(* written and on the item's own page either way.                          *)
OffersAgree ==
    \A u \in Users, i \in Items :
        LET o == OrderOf[i]
            takes == u = Author(i) /\ CanWriteReview(i)
            offered == i \in ListReviewableOrderItems(u)
            mine == {r \in ListMyReviews(u) : r.item = i}
            order == GetMyOrder(u, o)
            page == MyReviewForOrderItem(u, i)
        IN  /\ takes <=> \E r \in page : r.canWrite
            /\ mine = UNION {r.reviews : r \in page}
            /\ u = Author(i) /\ o \in PickedUp => (takes <=> mine = {})
            /\ offered <=> takes /\ o \notin gone
            /\ offered <=> i \in DOMAIN order /\ order[i].canWriteReview
            /\ i \in DOMAIN order => (order[i].hasMyReview <=> mine # {})
            /\ takes => o \in FindReviewableOrderIds(u, {o})
            /\ o \in FindReviewableOrderIds(u, FindOrdersByAccount(u)) <=>
                  ItemsOf(o) \cap ListReviewableOrderItems(u) # {}

ReviewKept == \A i \in Items : Visible(i) /\ Visible(i)' => content'[i] = content[i]

(* A review that is there is not written over: writeReview answers         *)
(* REVIEW_ALREADY_EXISTS.                                                  *)
NotOverwritten == [][ReviewKept]_vars

(* i is written over by a request that was admitted before the text it     *)
(* replaces was written.                                                   *)
OverwrittenByOverlap(i) ==
    \E w \in Workers :
        /\ job[w].pc = "restoring" /\ job[w].item = i /\ job'[w] = Idle
        /\ job[w].since < content[i] /\ content[i] < content'[i]

(* A review that can be seen changes its text in one way only: by a request *)
(* that found it deleted before that text was written.  Whoever sends a    *)
(* review to an item whose review is there already is refused, however     *)
(* writing, deleting and failing requests overlap; what gets through is    *)
(* the second of two that both found the review deleted.                   *)
OverwrittenOnlyByOverlap ==
    [][\A i \in Items : Visible(i) /\ Visible(i)' /\ content'[i] # content[i]
            => OverwrittenByOverlap(i)]_vars

(* What requests in flight rely on: a request that holds the lock of a     *)
(* review keeps it from being deleted, and a like row, once made, stays.   *)
(* The inductive part of the theorems.                                     *)
JobsHold ==
    \A w \in Workers :
        /\ job[w] # Idle => job[w].item \in Items /\ job[w].user \in Users
        /\ job[w].pc = "commenting" => Visible(job[w].item)
        /\ job[w].pc = "reliking" => like[job[w].item][job[w].user] # "none"

ReviewInv ==
    /\ TypeOK
    /\ NoZombieComments
    /\ MediaMatchText
    /\ ToldOncePerLiker
    /\ JobsHold

(* A review about to be rewritten has its row, and if the row can be seen  *)
(* again its text is later than the request.                               *)
RestoresHold ==
    /\ \A i \in Items : content[i] <= writes
    /\ \A w \in Workers : job[w].pc = "restoring" =>
          /\ job[w].since <= writes
          /\ review[job[w].item] # "none"
          /\ Visible(job[w].item) => job[w].since < content[job[w].item]
=============================================================================
