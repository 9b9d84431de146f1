---------------------------- MODULE ContentProofs ----------------------------
(***************************************************************************)
(* Proofs about what customers and sellers write, Reviews and              *)
(* SellerContent, for any users, items, stores, banners, labels, requests  *)
(* in flight and bounds.                                                   *)
(*                                                                         *)
(* Reviews: NoZombieComments is not inductive.  That the comment about to  *)
(* be inserted is under a live review comes from the lock its request      *)
(* holds, which JobsHold says and DeleteReview respects through Unlocked.  *)
(*                                                                         *)
(* SellerContent: that nobody writes another store's banner rests on where *)
(* banners lead.  HomeInv says that a banner leads to no store but the one *)
(* that made it and that a request which found it was its maker's; every   *)
(* merge of a change into a link, old or new, keeps that (LeadsHome).      *)
(***************************************************************************)
EXTENDS Reviews, ContentCrews, TLAPS

----------------------------------------------------------------------------
(* Reviews.                                                                 *)

(* An empty database satisfies the invariant.                              *)
LEMMA InitReviewInv == Init => ReviewInv
<1> SUFFICES ASSUME Init PROVE ReviewInv
    OBVIOUS
<1> USE ReviewConstants DEF Init, Idle
<1>1. TypeOK
      BY DEF TypeOK, RowStates, Batches, Comments, Jobs, Pcs
<1>2. NoZombieComments /\ MediaMatchText /\ ToldOncePerLiker /\ JobsHold
      BY DEF NoZombieComments, MediaMatchText, ToldOncePerLiker, JobsHold
<1> QED
    BY <1>1, <1>2 DEF ReviewInv

(* A request that only reads, and remembers what it is entitled to, keeps  *)
(* the invariant.                                                          *)
LEMMA ReadKeepsInv ==
    ASSUME NEW w \in Workers, NEW j \in Jobs, ReviewInv,
           job' = [job EXCEPT ![w] = j],
           j # Idle => j.item \in Items /\ j.user \in Users,
           j.pc = "commenting" => Visible(j.item),
           j.pc = "reliking" => like[j.item][j.user] # "none",
           UNCHANGED <<review, content, media, comments, like, shown, gone, writes,
                       commented, deletions, notified>>
    PROVE  ReviewInv'
<1> USE DEF ReviewInv
<1>1. TypeOK'
      BY DEF TypeOK
<1>2. NoZombieComments' /\ MediaMatchText' /\ ToldOncePerLiker'
      BY DEF NoZombieComments, MediaMatchText, ToldOncePerLiker, Visible
<1>3. JobsHold'
      BY DEF JobsHold, TypeOK, Visible, Idle
<1> QED
    BY <1>1, <1>2, <1>3

(* The end of a request, if no review lost its lock holder's protection    *)
(* and no like row vanished, keeps what the other requests rely on.        *)
LEMMA EndKeepsJobs ==
    ASSUME NEW w \in Workers, ReviewInv, End(w),
           \A i \in Items : Visible(i) => Visible(i)',
           \A i \in Items, u \in Users : like[i][u] # "none" => like'[i][u] # "none"
    PROVE  JobsHold' /\ job' \in [Workers -> Jobs]
<1>1. Idle \in Jobs
      BY ReviewConstants DEF Idle, Jobs, Pcs
<1>2. job' \in [Workers -> Jobs]
      BY <1>1 DEF End, ReviewInv, TypeOK
<1>3. JobsHold'
  <2> SUFFICES ASSUME NEW x \in Workers
               PROVE  /\ (job[x] # Idle => job[x].item \in Items /\ job[x].user \in Users)'
                      /\ (job[x].pc = "commenting" => Visible(job[x].item))'
                      /\ (job[x].pc = "reliking" => like[job[x].item][job[x].user] # "none")'
      BY DEF JobsHold
  <2>1. CASE x = w
        BY <2>1 DEF End, ReviewInv, TypeOK, Idle
  <2>2. CASE x # w
    <3>1. job'[x] = job[x]
          BY <2>2 DEF End, ReviewInv, TypeOK
    <3>2. PICK j \in Jobs : j = job[x]
          BY DEF ReviewInv, TypeOK
    <3>3. /\ j # Idle => j.item \in Items /\ j.user \in Users
          /\ j.pc = "commenting" => Visible(j.item)
          /\ j.pc = "reliking" => like[j.item][j.user] # "none"
          BY <3>2 DEF ReviewInv, JobsHold
    <3>4. /\ j.pc = "commenting" => Visible(j.item)'
          /\ j.pc = "reliking" => like'[j.item][j.user] # "none"
          BY <3>3 DEF Idle
    <3>5. /\ Visible(j.item)' <=> review'[j.item] = "live"
          BY DEF Visible
    <3> QED
        BY <3>1, <3>2, <3>3, <3>4, <3>5 DEF Visible
  <2> QED
      BY <2>1, <2>2
<1> QED
    BY <1>2, <1>3

(* The reads of writeReview, likeReview, unlikeReview and of the comments. *)
LEMMA ReadsKeepInv ==
    ASSUME NEW w \in Workers, ReviewInv,
           \/ \E i \in Items : CheckReview(w, i)
           \/ \E i \in Items, u \in Users :
                 FindLike(w, u, i) \/ FindReviewToUnlike(w, u, i) \/ LockReview(w, u, i)
           \/ \E c \in comments, u \in Users : FindMyComment(w, u, c)
    PROVE  ReviewInv'
<1> USE DEF ReviewInv
<1>1. ASSUME NEW i \in Items, CheckReview(w, i) PROVE ReviewInv'
  <2>1. PICK j : /\ \E m \in MediaChoices : /\ MediaAccepted(m[1], m[2])
                                            /\ j.images = m[1] /\ j.videos = m[2]
                 /\ j = [pc |-> j.pc, item |-> i, user |-> Author(i),
                         images |-> j.images, videos |-> j.videos, comment |-> 0,
                         since |-> writes]
                 /\ j.pc \in {"creating", "restoring"}
                 /\ job' = [job EXCEPT ![w] = j]
        BY <1>1 DEF CheckReview
  <2>2. /\ j.images \in 0..MAX_IMAGE_COUNT
        /\ j.videos \in 0..MAX_VIDEO_COUNT
        BY <2>1, ReviewConstants DEF MediaAccepted
  <2>3. j \in Jobs /\ j.item \in Items /\ j.user \in Users
        BY <2>1, <2>2, ReviewConstants DEF Jobs, Pcs, Author, TypeOK
  <2> QED
      BY <1>1, <2>1, <2>3, ReadKeepsInv DEF CheckReview
<1>2. ASSUME NEW i \in Items, NEW u \in Users,
             FindLike(w, u, i) \/ FindReviewToUnlike(w, u, i) \/ LockReview(w, u, i)
      PROVE  ReviewInv'
  <2>1. PICK pc \in Pcs : /\ StartJob(w, pc, i, u)
                          /\ pc = "commenting" => Visible(i)
                          /\ pc = "reliking" => like[i][u] # "none"
        BY <1>2 DEF FindLike, FindReviewToUnlike, LockReview, Pcs
  <2>2. PICK j \in Jobs : /\ j.pc = pc /\ j.item = i /\ j.user = u
                          /\ job' = [job EXCEPT ![w] = j]
    <3> DEFINE r == [pc |-> pc, item |-> i, user |-> u,
                     images |-> 0, videos |-> 0, comment |-> 0, since |-> 0]
    <3>1. r \in Jobs
          BY ReviewConstants DEF Jobs
    <3>2. job' = [job EXCEPT ![w] = r]
          BY <2>1 DEF StartJob
    <3> QED
        BY <3>1, <3>2
  <2>3. UNCHANGED <<review, content, media, comments, like, shown, gone, writes,
                    commented, deletions, notified>>
        BY <1>2 DEF FindLike, FindReviewToUnlike, LockReview
  <2>4. j # Idle => j.item \in Items /\ j.user \in Users
        BY <2>2
  <2>5. j.pc = "commenting" => Visible(j.item)
        BY <2>1, <2>2
  <2>6. j.pc = "reliking" => like[j.item][j.user] # "none"
        BY <2>1, <2>2
  <2> QED
      BY <2>2, <2>3, <2>4, <2>5, <2>6, ReadKeepsInv
<1>3. ASSUME NEW c \in comments, NEW u \in Users, FindMyComment(w, u, c)
      PROVE  ReviewInv'
  <2>1. PICK d \in Comments : d = c
        BY DEF TypeOK
  <2> DEFINE j == [pc |-> "uncommenting", item |-> d.item, user |-> u,
                   images |-> 0, videos |-> 0, comment |-> d.id, since |-> 0]
  <2>2. j \in Jobs /\ j.item \in Items
        BY ReviewConstants DEF Jobs, Pcs, Comments
  <2> QED
      BY <1>3, <2>1, <2>2, ReadKeepsInv DEF FindMyComment
<1> QED
    BY <1>1, <1>2, <1>3

(* The two writes of a review: a first one, and a rewrite of a deleted one *)
(* or, in a race, of one just restored.                                    *)
LEMMA WritesKeepInv ==
    ASSUME NEW w \in Workers, ReviewInv, CreateReview(w) \/ RestoreReview(w)
    PROVE  ReviewInv'
<1> USE DEF ReviewInv
<1>1. job[w] \in Jobs /\ job[w].item \in Items
      BY DEF CreateReview, RestoreReview, TypeOK, JobsHold, Idle
<1>2. PICK i \in Items : i = job[w].item
      BY <1>1
<1>3. NewBatch(w) \subseteq Batches /\ \A b \in NewBatch(w) : b.item = i /\ b.write = writes + 1
      BY <1>1, <1>2 DEF NewBatch, Batches, Jobs, TypeOK
<1>4. \A b, d \in NewBatch(w) : b = d
      BY DEF NewBatch
<1>5. JobsHold' /\ job' \in [Workers -> Jobs]
  <2>1. \A k \in Items : Visible(k) => Visible(k)'
        BY <1>2 DEF CreateReview, RestoreReview, Visible, TypeOK
  <2>2. End(w) /\ like' = like
        BY DEF CreateReview, RestoreReview
  <2> QED
      BY <2>1, <2>2, EndKeepsJobs
<1>6. CASE UNCHANGED <<review, content, media, comments, like, shown, gone, writes,
                       commented, deletions, notified>>
      BY <1>5, <1>6 DEF TypeOK, NoZombieComments, MediaMatchText, ToldOncePerLiker, Visible
<1>7. CASE /\ CreateReview(w)
           /\ review[i] = "none"
  <2>1. /\ review' = [review EXCEPT ![i] = "live"]
        /\ content' = [content EXCEPT ![i] = writes + 1]
        /\ media' = media \cup NewBatch(w)
        /\ writes' = writes + 1
        /\ UNCHANGED <<comments, like, shown, gone, commented, deletions, notified>>
        BY <1>2, <1>7 DEF CreateReview
  <2>2. TypeOK'
        BY <1>3, <1>5, <2>1 DEF TypeOK, RowStates
  <2>3. NoZombieComments' /\ ToldOncePerLiker'
        BY <2>1 DEF NoZombieComments, ToldOncePerLiker, Visible, TypeOK
  <2>4. \A b \in media : b.item # i
        BY <1>7 DEF MediaMatchText, Visible
  <2>5. MediaMatchText'
        BY <1>3, <1>4, <2>1, <2>4 DEF MediaMatchText, Visible, TypeOK, Batches
  <2> QED
      BY <1>5, <2>2, <2>3, <2>5
<1>8. CASE RestoreReview(w)
  <2>1. /\ review' = [review EXCEPT ![i] = "live"]
        /\ content' = [content EXCEPT ![i] = writes + 1]
        /\ media' = {b \in media : b.item # i} \cup NewBatch(w)
        /\ writes' = writes + 1
        /\ UNCHANGED <<comments, like, shown, gone, commented, deletions, notified>>
        BY <1>2, <1>8 DEF RestoreReview, MediaAfterRestore
  <2>2. TypeOK'
        BY <1>3, <1>5, <2>1 DEF TypeOK, RowStates
  <2>3. NoZombieComments' /\ ToldOncePerLiker'
        BY <2>1 DEF NoZombieComments, ToldOncePerLiker, Visible, TypeOK
  <2>4. MediaMatchText'
        BY <1>3, <1>4, <2>1 DEF MediaMatchText, Visible, TypeOK, Batches
  <2> QED
      BY <1>5, <2>2, <2>3, <2>4
<1> QED
    BY <1>2, <1>6, <1>7, <1>8 DEF CreateReview

(* The writes of the like handlers.                                        *)
LEMMA LikesKeepInv ==
    ASSUME NEW w \in Workers, ReviewInv, Like(w) \/ Relike(w) \/ Unlike(w)
    PROVE  ReviewInv'
<1> USE DEF ReviewInv
<1>1. PICK i \in Items, u \in Users : i = job[w].item /\ u = job[w].user
      BY DEF Like, Relike, Unlike, JobsHold, Idle
<1>2. End(w) /\ UNCHANGED <<review, content, media, comments, shown, gone, writes, commented, deletions>>
      BY DEF Like, Relike, Unlike
<1>3. \/ UNCHANGED <<like, notified>>
      \/ /\ like[i][u] = "none"
         /\ like' = [like EXCEPT ![i][u] = "live"]
         /\ notified' = [notified EXCEPT ![i][u] = @ + 1]
      \/ /\ like[i][u] # "none"
         /\ \E v \in {"live", "deleted"} : like' = [like EXCEPT ![i][u] = v]
         /\ notified' = notified
      BY <1>1 DEF Like, Relike, Unlike, JobsHold
<1>4. /\ like' \in [Items -> [Users -> RowStates]]
      /\ notified' \in [Items -> [Users -> Nat]]
      /\ \A k \in Items, x \in Users : like[k][x] # "none" => like'[k][x] # "none"
  <2>1. CASE UNCHANGED <<like, notified>>
        BY <2>1 DEF TypeOK
  <2>2. ASSUME NEW v \in {"live", "deleted"}, like' = [like EXCEPT ![i][u] = v]
        PROVE  /\ like' \in [Items -> [Users -> RowStates]]
               /\ \A k \in Items, x \in Users : like[k][x] # "none" => like'[k][x] # "none"
    <3>1. like'[i][u] = v
          BY <2>2 DEF TypeOK
    <3>2. \A k \in Items, x \in Users : k # i \/ x # u => like'[k][x] = like[k][x]
          BY <2>2 DEF TypeOK
    <3>3. like' \in [Items -> [Users -> RowStates]]
          BY <2>2 DEF TypeOK, RowStates
    <3> QED
        BY <3>1, <3>2, <3>3
  <2>3. notified' \in [Items -> [Users -> Nat]]
    <3>1. notified[i][u] + 1 \in Nat
          BY DEF TypeOK
    <3>2. PICK v \in Nat : v = notified[i][u] + 1
          BY <3>1
    <3>3. notified' = notified \/ notified' = [notified EXCEPT ![i][u] = v]
          BY <1>3, <3>2
    <3>4. notified \in [Items -> [Users -> Nat]]
          BY DEF TypeOK
    <3>5. CASE notified' = [notified EXCEPT ![i][u] = v]
          BY <3>4, <3>5
    <3> QED
        BY <3>3, <3>4, <3>5
  <2> QED
      BY <1>3, <2>1, <2>2, <2>3
<1>5. JobsHold' /\ job' \in [Workers -> Jobs]
      BY <1>2, <1>4, EndKeepsJobs DEF Visible
<1>6. TypeOK'
      BY <1>2, <1>4, <1>5 DEF TypeOK
<1>7. ToldOncePerLiker'
      BY <1>3 DEF ToldOncePerLiker, TypeOK
<1>8. NoZombieComments' /\ MediaMatchText'
      BY <1>2 DEF NoZombieComments, MediaMatchText, Visible
<1> QED
    BY <1>5, <1>6, <1>7, <1>8

(* A comment is inserted under the lock of its review; deleting one, or a  *)
(* request that fails, takes nothing from the others.                      *)
LEMMA CommentsKeepInv ==
    ASSUME NEW w \in Workers, ReviewInv, Comment(w) \/ Uncomment(w) \/ Fail(w)
    PROVE  ReviewInv'
<1> USE DEF ReviewInv
<1>1. /\ End(w)
      /\ UNCHANGED <<review, content, media, like, shown, gone, writes, deletions, notified>>
      BY DEF Comment, Uncomment, Fail
<1>2. JobsHold' /\ job' \in [Workers -> Jobs]
      BY <1>1, EndKeepsJobs DEF Visible
<1>3. MediaMatchText' /\ ToldOncePerLiker'
      BY <1>1 DEF MediaMatchText, ToldOncePerLiker, Visible
<1>4. CASE Uncomment(w) \/ Fail(w)
      BY <1>1, <1>2, <1>3, <1>4 DEF Uncomment, Fail, TypeOK, NoZombieComments, Visible
<1>5. CASE Comment(w)
  <2>1. PICK i \in Items, u \in Users : i = job[w].item /\ u = job[w].user
        BY <1>5 DEF Comment, JobsHold, Idle
  <2>2. Visible(i)
        BY <1>5, <2>1 DEF Comment, JobsHold
  <2>3. PICK c \in Comments : c.item = i /\ c.gen = deletions[i] /\ comments' = comments \cup {c}
    <3> DEFINE d == [id |-> commented + 1, item |-> i, by |-> u, gen |-> deletions[i]]
    <3>1. d \in Comments
          BY DEF Comments, TypeOK
    <3>2. comments' = comments \cup {d}
          BY <1>5, <2>1 DEF Comment
    <3> QED
        BY <3>1, <3>2
  <2>4. NoZombieComments'
        BY <1>1, <2>2, <2>3 DEF NoZombieComments, Visible
  <2>5. TypeOK'
        BY <1>1, <1>2, <1>5, <2>3 DEF TypeOK, Comment
  <2> QED
      BY <1>2, <1>3, <2>4, <2>5
<1> QED
    BY <1>4, <1>5

(* Deleting a review waits for its lock and takes its media and comments   *)
(* along.                                                                  *)
LEMMA DeleteKeepsInv ==
    ASSUME NEW i \in Items, ReviewInv, DeleteReview(i)
    PROVE  ReviewInv'
<1> USE DEF ReviewInv, DeleteReview
<1>1. TypeOK'
      BY DEF TypeOK, RowStates
<1>2. NoZombieComments'
      BY DEF NoZombieComments, Visible, TypeOK
<1>3. MediaMatchText' /\ ToldOncePerLiker'
      BY DEF MediaMatchText, ToldOncePerLiker, Visible, TypeOK
<1>4. JobsHold'
      BY DEF JobsHold, Visible, Unlocked, TypeOK, Idle
<1> QED
    BY <1>1, <1>2, <1>3, <1>4

(* Every step keeps the invariant.                                         *)
LEMMA NextReviewInv == ReviewInv /\ [Next]_vars => ReviewInv'
<1> SUFFICES ASSUME ReviewInv, [Next]_vars PROVE ReviewInv'
    OBVIOUS
<1>1. ASSUME NEW w \in Workers, Handle(w) PROVE ReviewInv'
      BY <1>1, ReadsKeepInv, WritesKeepInv, LikesKeepInv, CommentsKeepInv DEF Handle
<1>2. ASSUME NEW i \in Items, Toggle(i) PROVE ReviewInv'
      BY <1>2 DEF Toggle, ReviewInv, TypeOK, NoZombieComments, MediaMatchText,
                  ToldOncePerLiker, JobsHold, Visible
<1>3. ASSUME NEW o \in Orders, DeleteOrder(o) PROVE ReviewInv'
      BY <1>3 DEF DeleteOrder, ReviewInv, TypeOK, NoZombieComments, MediaMatchText,
                  ToldOncePerLiker, JobsHold, Visible
<1>4. CASE UNCHANGED vars
      BY <1>4 DEF vars, ReviewInv, TypeOK, NoZombieComments, MediaMatchText,
                  ToldOncePerLiker, JobsHold, Visible
<1> QED
    BY <1>1, <1>2, <1>3, <1>4, DeleteKeepsInv DEF Next

(* The inductive invariant holds in every reachable state of Reviews.      *)
THEOREM ReviewInvHolds == Spec => []ReviewInv
BY InitReviewInv, NextReviewInv, PTL DEF Spec

(* Every row and every request in flight has its type; in particular no    *)
(* live batch of media exceeds the limits of validateMedia.                *)
THEOREM ReviewTypeCorrect == Spec => []TypeOK
<1>1. ReviewInv => TypeOK
      BY DEF ReviewInv
<1> QED
    BY ReviewInvHolds, <1>1, PTL

(* createReviewComment and softDeleteReview, however they interleave, leave *)
(* no comment that a rewritten review would bring back.                    *)
THEOREM CommentsNeverComeBack == Spec => []NoZombieComments
<1>1. ReviewInv => NoZombieComments
      BY DEF ReviewInv
<1> QED
    BY ReviewInvHolds, <1>1, PTL

(* createOrRestoreReviewWithMedia shows the media of the text it shows,    *)
(* even when two rewrites race.                                            *)
THEOREM MediaAlwaysMatchText == Spec => []MediaMatchText
<1>1. ReviewInv => MediaMatchText
      BY DEF ReviewInv
<1> QED
    BY ReviewInvHolds, <1>1, PTL

(* Both at once: what a rewritten review shows is its own.                 *)
THEOREM RewritesStartAfresh == Spec => []NothingOldComesBack
<1>1. ReviewInv => NothingOldComesBack
      BY DEF ReviewInv, NothingOldComesBack
<1> QED
    BY ReviewInvHolds, <1>1, PTL

(* likeReview and unlikeReview, however they interleave, tell the author   *)
(* of each liker once.                                                     *)
THEOREM LikersToldOnce == Spec => []ToldOncePerLiker
<1>1. ReviewInv => ToldOncePerLiker
      BY DEF ReviewInv
<1> QED
    BY ReviewInvHolds, <1>1, PTL

(* The order list, the order, the tab of reviews to write, the item's page  *)
(* and writeReview agree, in every state, on which items of live orders can *)
(* be reviewed, though each has its own condition over a review missing,    *)
(* live or deleted; and an item of a deleted order, which the write still   *)
(* takes, is offered by its own page alone.                                 *)
THEOREM PagesOfferTheSame == Spec => []OffersAgree
<1>1. ASSUME ReviewInv, NEW u \in Users, NEW i \in Items
      PROVE  LET o == OrderOf[i]
                 takes == u = Author(i) /\ CanWriteReview(i)
                 offered == i \in ListReviewableOrderItems(u)
                 mine == {r \in ListMyReviews(u) : r.item = i}
                 order == GetMyOrder(u, o)
                 page == MyReviewForOrderItem(u, i)
             IN  /\ takes <=> \E r \in page : r.canWrite
                 /\ mine = UNION {r.reviews : r \in page}
                 /\ u = Author(i) /\ o \in PickedUp => (takes <=> mine = {})
                 /\ offered <=> takes /\ o \notin gone
                 /\ offered <=> i \in DOMAIN order /\ order[i].canWriteReview
                 /\ i \in DOMAIN order => (order[i].hasMyReview <=> mine # {})
                 /\ takes => o \in FindReviewableOrderIds(u, {o})
                 /\ o \in FindReviewableOrderIds(u, FindOrdersByAccount(u)) <=>
                       ItemsOf(o) \cap ListReviewableOrderItems(u) # {}
  <2> DEFINE o == OrderOf[i]
             takes == u = Author(i) /\ CanWriteReview(i)
             offered == i \in ListReviewableOrderItems(u)
             mine == {r \in ListMyReviews(u) : r.item = i}
             order == GetMyOrder(u, o)
             page == MyReviewForOrderItem(u, i)
  <2>1. /\ \A j \in Items : ~Visible(j) <=> review[j] \in {"none", "deleted"}
        /\ \A j \in Items : OrderOf[j] \in Orders
        BY <1>1, ReviewConstants DEF Visible, ReviewInv, TypeOK, RowStates
  <2>2. offered <=> takes /\ o \notin gone
        BY <2>1 DEF ListReviewableOrderItems, CanWriteReview
  <2>3. /\ i \in DOMAIN order <=> u = Author(i) /\ o \notin gone
        /\ i \in DOMAIN order =>
              /\ order[i].hasMyReview <=> Visible(i)
              /\ order[i].canWriteReview <=> o \in PickedUp /\ ~Visible(i)
    <3>1. FindOrderDetailByAccount(u, o) = IF u = Author(i) /\ o \notin gone THEN {o} ELSE {}
          BY <2>1 DEF FindOrderDetailByAccount, FindOrdersByAccount, Author
    <3>2. i \in DOMAIN order <=> u = Author(i) /\ o \notin gone
          BY <3>1 DEF GetMyOrder, ItemsOf
    <3>3. i \in DOMAIN order =>
              order[i] = [hasMyReview |-> Visible(i),
                          canWriteReview |-> o \in PickedUp /\ review[i] \in {"none", "deleted"}]
          BY DEF GetMyOrder
    <3>4. i \in DOMAIN order =>
              /\ order[i].hasMyReview = Visible(i)
              /\ order[i].canWriteReview = (o \in PickedUp /\ review[i] \in {"none", "deleted"})
          BY <3>3
    <3> HIDE DEF order
    <3> QED
        BY <2>1, <3>2, <3>4
  <2>4. FindOrderItemForReview(u, i) = IF u = Author(i) THEN {i} ELSE {}
        BY DEF FindOrderItemForReview
  <2>5. PICK card : card = [reviews |-> IF Visible(i) THEN {ReviewOf(i)} ELSE {},
                            canWrite |-> ~Visible(i) /\ OrderOf[i] \in PickedUp]
        OBVIOUS
  <2>6. /\ card.reviews = IF Visible(i) THEN {ReviewOf(i)} ELSE {}
        /\ card.canWrite <=> ~Visible(i) /\ OrderOf[i] \in PickedUp
        BY <2>5
  <2>7. page = IF u = Author(i) THEN {card} ELSE {}
        BY <2>4, <2>5 DEF MyReviewForOrderItem
  <2>8. mine = IF u = Author(i) /\ Visible(i) THEN {ReviewOf(i)} ELSE {}
        BY DEF ListMyReviews, ReviewOf
  <2>9. takes <=> \E r \in page : r.canWrite
        BY <2>6, <2>7 DEF CanWriteReview
  <2>10. mine = UNION {r.reviews : r \in page}
        BY <2>6, <2>7, <2>8
  <2>11. u = Author(i) /\ o \in PickedUp => (takes <=> mine = {})
        BY <2>8 DEF CanWriteReview
  <2>12. offered <=> i \in DOMAIN order /\ order[i].canWriteReview
        BY <2>2, <2>3 DEF CanWriteReview
  <2>13. i \in DOMAIN order => (order[i].hasMyReview <=> mine # {})
        BY <2>3, <2>8
  <2>14. takes => o \in FindReviewableOrderIds(u, {o})
        BY <2>1 DEF FindReviewableOrderIds, CanWriteReview, ItemsOf
  <2>15. o \in FindReviewableOrderIds(u, FindOrdersByAccount(u)) <=>
            ItemsOf(o) \cap ListReviewableOrderItems(u) # {}
    <3>1. \A j \in ItemsOf(o) : Author(j) = Buyer[o] /\ OrderOf[j] = o
          BY DEF ItemsOf, Author
    <3>2. o \in FindReviewableOrderIds(u, FindOrdersByAccount(u)) <=>
             /\ Buyer[o] = u /\ o \notin gone /\ o \in PickedUp
             /\ \E j \in ItemsOf(o) : review[j] \in {"none", "deleted"}
          BY <2>1, <3>1 DEF FindReviewableOrderIds, FindOrdersByAccount
    <3>3. ItemsOf(o) \cap ListReviewableOrderItems(u) # {} <=>
             \E j \in ItemsOf(o) : /\ Author(j) = u
                                   /\ OrderOf[j] \in PickedUp \ gone
                                   /\ review[j] \in {"none", "deleted"}
          BY DEF ListReviewableOrderItems, ItemsOf
    <3> QED
        BY <3>1, <3>2, <3>3
  <2> QED
      BY <2>2, <2>9, <2>10, <2>11, <2>12, <2>13, <2>14, <2>15
<1>2. ReviewInv => OffersAgree
      BY <1>1 DEF OffersAgree
<1> QED
    BY ReviewInvHolds, <1>2, PTL

(* What a request is doing that has not come to restore a review.          *)
LEMMA OnlyChecksRestore ==
    ASSUME NEW w \in Workers, ReviewInv, Handle(w), ~ \E i \in Items : CheckReview(w, i)
    PROVE  /\ job'[w].pc # "restoring"
           /\ \A x \in Workers : x # w => job'[x] = job[x]
<1> USE DEF ReviewInv, TypeOK
<1>1. ASSUME NEW i \in Items, NEW u \in Users,
             FindLike(w, u, i) \/ FindReviewToUnlike(w, u, i) \/ LockReview(w, u, i)
      PROVE  \E j : j.pc # "restoring" /\ job' = [job EXCEPT ![w] = j]
  <2>1. PICK pc \in {"reliking", "liking", "unliking", "commenting"} : StartJob(w, pc, i, u)
        BY <1>1 DEF FindLike, FindReviewToUnlike, LockReview
  <2> QED
      BY <2>1 DEF StartJob
<1>2. ASSUME NEW c \in comments, NEW u \in Users, FindMyComment(w, u, c)
      PROVE  \E j : j.pc # "restoring" /\ job' = [job EXCEPT ![w] = j]
      BY <1>2 DEF FindMyComment
<1>3. CASE End(w)
      BY <1>3 DEF End, Idle
<1>4. ASSUME NEW j, j.pc # "restoring", job' = [job EXCEPT ![w] = j]
      PROVE  /\ job'[w].pc # "restoring"
             /\ \A x \in Workers : x # w => job'[x] = job[x]
      BY <1>4
<1> QED
    BY <1>1, <1>2, <1>3, <1>4
    DEF Handle, CreateReview, RestoreReview, Like, Relike, Unlike, Comment, Uncomment, Fail

(* The item a request writes the review of, and what the write leaves.      *)
LEMMA WrittenReview ==
    ASSUME NEW w \in Workers, ReviewInv, CreateReview(w) \/ RestoreReview(w)
    PROVE  \/ UNCHANGED <<review, content, writes>>
           \/ \E i \in Items :
                 /\ i = job[w].item
                 /\ RestoreReview(w) \/ review[i] = "none"
                 /\ review' = [review EXCEPT ![i] = "live"]
                 /\ content' = [content EXCEPT ![i] = writes + 1]
                 /\ writes' = writes + 1
<1>1. PICK i \in Items : i = job[w].item
      BY DEF CreateReview, RestoreReview, ReviewInv, JobsHold, Idle
<1> QED
    BY <1>1 DEF CreateReview, RestoreReview

(* A rewrite makes a text later than every request under way; a deletion,  *)
(* which leaves the row, takes nothing from them.                          *)
LEMMA RestoresHoldKept ==
    ASSUME ReviewInv, RestoresHold, [Next]_vars
    PROVE  RestoresHold'
<1> USE DEF ReviewInv
<1>1. ASSUME UNCHANGED <<content, writes>>,
             \A x \in Workers : job'[x] = job[x] \/ job'[x].pc # "restoring",
             \A i \in Items : \/ review'[i] = review[i]
                              \/ review[i] # "none" /\ review'[i] = "deleted"
      PROVE  RestoresHold'
  <2> SUFFICES ASSUME NEW x \in Workers, job[x].pc = "restoring", job'[x] = job[x]
               PROVE  /\ job[x].since <= writes
                      /\ review'[job[x].item] # "none"
                      /\ review'[job[x].item] = "live" => job[x].since < content[job[x].item]
      BY <1>1 DEF RestoresHold, Visible
  <2>1. job[x].item \in Items
        BY DEF JobsHold, Idle
  <2> QED
      BY <1>1, <2>1 DEF RestoresHold, Visible
<1>2. ASSUME NEW w \in Workers, NEW i \in Items, CheckReview(w, i) PROVE RestoresHold'
  <2>1. PICK m \in MediaChoices :
          job' = [job EXCEPT ![w] = [pc |-> IF review[i] = "deleted" THEN "restoring" ELSE "creating",
                                     item |-> i, user |-> Author(i),
                                     images |-> m[1], videos |-> m[2], comment |-> 0,
                                     since |-> writes]]
        BY <1>2 DEF CheckReview
  <2>2. PICK j : j = [pc |-> IF review[i] = "deleted" THEN "restoring" ELSE "creating",
                      item |-> i, user |-> Author(i),
                      images |-> m[1], videos |-> m[2], comment |-> 0, since |-> writes]
        OBVIOUS
  <2>3. /\ job' = [job EXCEPT ![w] = j]
        /\ UNCHANGED <<review, content, writes>>
        BY <1>2, <2>1, <2>2 DEF CheckReview
  <2>4. j.pc = "restoring" => j.item = i /\ j.since = writes /\ review[i] = "deleted"
        BY <2>2
  <2>5. ASSUME NEW x \in Workers, job'[x].pc = "restoring"
        PROVE  /\ job'[x].since <= writes
               /\ review[job'[x].item] # "none"
               /\ review[job'[x].item] = "live" => job'[x].since < content[job'[x].item]
    <3>1. CASE x = w
          BY <2>3, <2>4, <2>5, <3>1 DEF TypeOK
    <3>2. CASE x # w
          BY <2>3, <2>5, <3>2 DEF RestoresHold, Visible, TypeOK
    <3> QED
        BY <3>1, <3>2
  <2> QED
      BY <2>3, <2>5 DEF RestoresHold, Visible
<1>3. ASSUME NEW w \in Workers, CreateReview(w) \/ RestoreReview(w) PROVE RestoresHold'
  <2>1. \A x \in Workers : job[x].pc = "restoring" => job[x].item \in Items
        BY DEF JobsHold, Idle
  <2>2. \A x \in Workers : job'[x] = job[x] \/ job'[x].pc # "restoring"
        BY <1>3 DEF CreateReview, RestoreReview, End, Idle, TypeOK
  <2>3. CASE UNCHANGED <<review, content, writes>>
        BY <1>1, <2>2, <2>3
  <2>4. ASSUME NEW i \in Items,
               review' = [review EXCEPT ![i] = "live"],
               content' = [content EXCEPT ![i] = writes + 1],
               writes' = writes + 1
        PROVE  RestoresHold'
    <3>1. \A k \in Items : content'[k] <= writes'
          BY <2>4 DEF RestoresHold, TypeOK
    <3>2. ASSUME NEW x \in Workers, job'[x].pc = "restoring"
          PROVE  /\ job'[x].since <= writes'
                 /\ review'[job'[x].item] # "none"
                 /\ review'[job'[x].item] = "live" => job'[x].since < content'[job'[x].item]
      <4>1. PICK j \in Jobs : j = job[x] /\ j = job'[x]
            BY <2>2, <3>2 DEF TypeOK
      <4>2. j.pc = "restoring"
            BY <3>2, <4>1
      <4>3. j.item \in Items
            BY <2>1, <4>1, <4>2
      <4>4. j.since \in Nat
            BY DEF Jobs
      <4>5. /\ j.since <= writes
            /\ review[j.item] # "none"
            /\ review[j.item] = "live" => j.since < content[j.item]
            BY <4>1, <4>2, <4>3 DEF RestoresHold, Visible
      <4> QED
          BY <2>4, <4>1, <4>2, <4>3, <4>4, <4>5 DEF TypeOK
    <3> QED
        BY <3>1, <3>2 DEF RestoresHold, Visible
  <2> QED
      BY <1>3, <2>3, <2>4, WrittenReview
<1>4. ASSUME NEW w \in Workers, Handle(w) PROVE RestoresHold'
  <2>1. CASE \/ \E i \in Items : CheckReview(w, i)
             \/ CreateReview(w) \/ RestoreReview(w)
        BY <1>2, <1>3, <2>1
  <2>2. CASE ~ \E i \in Items : CheckReview(w, i)
    <3>1. \A x \in Workers : job'[x] = job[x] \/ job'[x].pc # "restoring"
          BY <1>4, <2>2, OnlyChecksRestore
    <3> QED
        BY <1>1, <1>3, <1>4, <2>2, <3>1
        DEF Handle, FindLike, FindReviewToUnlike, LockReview, FindMyComment,
            Like, Relike, Unlike, Comment, Uncomment, Fail
  <2> QED
      BY <2>1, <2>2
<1>5. ASSUME NEW i \in Items, DeleteReview(i) PROVE RestoresHold'
      BY <1>1, <1>5 DEF DeleteReview, Visible, TypeOK
<1>6. CASE \/ \E i \in Items : Toggle(i)
           \/ \E o \in Orders : DeleteOrder(o)
           \/ UNCHANGED vars
      BY <1>1, <1>6 DEF Toggle, DeleteOrder, vars
<1> QED
    BY <1>4, <1>5, <1>6 DEF Next

(* writeReview replaces a text that can be seen only when its request had  *)
(* been admitted before that text was written, however many requests       *)
(* overlap.                                                                *)
THEOREM OverwritingTakesAnOverlap == Spec => OverwrittenOnlyByOverlap
<1>1. Init => RestoresHold
      BY DEF Init, Idle, RestoresHold
<1>2. ReviewInv /\ RestoresHold /\ [Next]_vars => RestoresHold'
      BY RestoresHoldKept
<1>3. ReviewInv /\ RestoresHold /\ [Next]_vars
      => [\A i \in Items : Visible(i) /\ Visible(i)' /\ content'[i] # content[i]
             => OverwrittenByOverlap(i)]_vars
  <2> SUFFICES ASSUME ReviewInv, RestoresHold, Next, NEW i \in Items,
                      review[i] = "live", content'[i] # content[i]
               PROVE  OverwrittenByOverlap(i)
      BY DEF Visible
  <2>1. PICK w \in Workers : CreateReview(w) \/ RestoreReview(w)
        BY DEF Next, Handle, CheckReview, FindLike, FindReviewToUnlike, LockReview, FindMyComment,
               Like, Relike, Unlike, Comment, Uncomment, Fail, DeleteReview, Toggle, DeleteOrder
  <2>2. PICK k \in Items : /\ k = job[w].item
                           /\ RestoreReview(w) \/ review[k] = "none"
                           /\ content' = [content EXCEPT ![k] = writes + 1]
        BY <2>1, WrittenReview
  <2>3. k = i /\ content'[i] = writes + 1
        BY <2>2 DEF ReviewInv, TypeOK
  <2>4. RestoreReview(w)
        BY <2>2, <2>3
  <2>5. job[w].pc = "restoring" /\ job'[w] = Idle
        BY <2>4 DEF RestoreReview, End, ReviewInv, TypeOK
  <2>6. job[w].since < content[i] /\ content[i] <= writes
        BY <2>2, <2>3, <2>5 DEF RestoresHold, Visible
  <2>7. content[i] < content'[i]
        BY <2>3, <2>6 DEF ReviewInv, TypeOK
  <2> QED
      BY <2>2, <2>3, <2>5, <2>6, <2>7 DEF OverwrittenByOverlap
<1> QED
    BY <1>1, <1>2, <1>3, ReviewInvHolds, PTL DEF Spec, OverwrittenOnlyByOverlap

(* A lone writer that restores a review found it deleted.                  *)
AloneRestores ==
    \A w \in Workers : job[w].pc = "restoring" => review[job[w].item] = "deleted"

LEMMA AloneRestoresKept ==
    ASSUME NEW w, Workers = {w}, ReviewInv, AloneRestores, [Next]_vars
    PROVE  AloneRestores'
<1> USE DEF ReviewInv
<1>1. CASE job'[w].pc # "restoring"
      BY <1>1 DEF AloneRestores
<1>2. CASE job'[w] = job[w] /\ \A i \in Items : review'[i] = review[i] \/ review'[i] = "deleted"
      BY <1>2 DEF AloneRestores, JobsHold, Idle
<1>3. ASSUME NEW i \in Items, CheckReview(w, i) PROVE AloneRestores'
  <2>1. PICK m \in MediaChoices :
          job' = [job EXCEPT ![w] = [pc |-> IF review[i] = "deleted" THEN "restoring" ELSE "creating",
                                     item |-> i, user |-> Author(i),
                                     images |-> m[1], videos |-> m[2], comment |-> 0,
                                     since |-> writes]]
        BY <1>3 DEF CheckReview
  <2>2. PICK j : j = [pc |-> IF review[i] = "deleted" THEN "restoring" ELSE "creating",
                      item |-> i, user |-> Author(i),
                      images |-> m[1], videos |-> m[2], comment |-> 0, since |-> writes]
        OBVIOUS
  <2>3. job'[w] = j /\ review' = review
        BY <1>3, <2>1, <2>2 DEF CheckReview, TypeOK
  <2>4. j.pc = "restoring" => review[j.item] = "deleted"
        BY <2>2
  <2> QED
      BY <2>3, <2>4 DEF AloneRestores
<1>4. ASSUME NEW i \in Items, DeleteReview(i) \/ Toggle(i) PROVE AloneRestores'
      BY <1>2, <1>4 DEF DeleteReview, Toggle, TypeOK
<1>5. CASE UNCHANGED vars \/ \E o \in Orders : DeleteOrder(o)
      BY <1>2, <1>5 DEF vars, DeleteOrder
<1>6. CASE Handle(w) /\ ~ \E i \in Items : CheckReview(w, i)
      BY <1>1, <1>6, OnlyChecksRestore
<1> QED
    BY <1>3, <1>4, <1>5, <1>6 DEF Next

(* Of requests one after the other, dying or not: writeReview writes over  *)
(* no review that is there.                                                *)
THEOREM AloneNotOverwritten ==
    ASSUME NEW w, Workers = {w}
    PROVE  Spec => NotOverwritten
<1>1. Init => AloneRestores
      BY DEF Init, Idle, AloneRestores
<1>2. ReviewInv /\ AloneRestores /\ [Next]_vars => AloneRestores'
      BY AloneRestoresKept
<1>3. ReviewInv /\ AloneRestores /\ [Next]_vars => [ReviewKept]_vars
  <2> SUFFICES ASSUME ReviewInv, AloneRestores, Next, NEW i \in Items, review[i] = "live"
               PROVE  content'[i] = content[i]
      BY DEF ReviewKept, Visible
  <2>1. CASE CreateReview(w)
        BY <2>1 DEF CreateReview, ReviewInv, TypeOK
  <2>2. CASE RestoreReview(w)
    <3>1. job[w].item # i
          BY <2>2 DEF RestoreReview, AloneRestores
    <3> QED
        BY <2>2, <3>1 DEF RestoreReview, ReviewInv, TypeOK
  <2>3. CASE UNCHANGED content
        BY <2>3
  <2> QED
      BY <2>1, <2>2, <2>3
      DEF Next, Handle, CheckReview, FindLike, FindReviewToUnlike, LockReview, FindMyComment,
          Like, Relike, Unlike, Comment, Uncomment, Fail, DeleteReview, Toggle,
          DeleteOrder
<1> QED
    BY <1>1, <1>2, <1>3, ReviewInvHolds, PTL DEF Spec, NotOverwritten

----------------------------------------------------------------------------
(* Links and changes of links.                                              *)

(* A link has a column for everything a banner may lead to.                 *)
LEMMA LinkFields ==
    ASSUME NEW l \in Links
    PROVE  /\ DOMAIN l = Columns \cup {"type"} /\ l = [c \in Columns \cup {"type"} |-> l[c]]
           /\ l.type \in Types /\ \A c \in Columns : l[c] \in Targets[c] \cup {Null}
           /\ l.store = l["store"] /\ l.product = l["product"] /\ l.type = l["type"]
BY DEF Links, Columns, Targets

(* So has a change, but for what it leaves as it is.                        *)
LEMMA ChangeFields ==
    ASSUME NEW d \in Changes
    PROVE  /\ DOMAIN d = Columns \cup {"type"} /\ d = [c \in Columns \cup {"type"} |-> d[c]]
           /\ d.type \in Types \cup {Keep} /\ \A c \in Columns : d[c] \in Targets[c] \cup {Null, Keep}
           /\ d.store = d["store"] /\ d.product = d["product"] /\ d.type = d["type"]
BY DEF Changes, Columns, Targets

(* What has such fields is a link.                                          *)
LEMMA IsLink ==
    ASSUME NEW l, l = [c \in Columns \cup {"type"} |-> l[c]], l["type"] \in Types,
           \A c \in Columns : l[c] \in Targets[c] \cup {Null}
    PROVE  l \in Links
BY DEF Links, Columns, Targets

(* And what has those is a change.                                          *)
LEMMA IsChange ==
    ASSUME NEW d, d = [c \in Columns \cup {"type"} |-> d[c]], d["type"] \in Types \cup {Keep},
           \A c \in Columns : d[c] \in Targets[c] \cup {Null, Keep}
    PROVE  d \in Changes
BY DEF Changes, Columns, Targets

(* A link is a change that leaves nothing as it is.                         *)
LEMMA LinkIsChange == Links \subseteq Changes
BY DEF Links, Changes

(* A request asks for a change.                                             *)
LEMMA InputIsChange == ASSUME NEW input \in Inputs PROVE input \in Changes
<1>1. PICK c \in Columns : \E t \in Types \cup {Keep}, v \in Targets[c] \cup {Null, Keep} :
        input = Input(c, t, v)
      BY DEF Inputs
<1>2. "type" \notin Columns
      BY DEF Columns
<1>3. input = [d \in Columns \cup {"type"} |-> input[d]]
      BY <1>1 DEF Input
<1>4. input["type"] \in Types \cup {Keep}
      BY <1>1, <1>2 DEF Input
<1>5. ASSUME NEW d \in Columns PROVE input[d] \in Targets[d] \cup {Null, Keep}
      BY <1>1, <1>2 DEF Input
<1> QED
    BY <1>3, <1>4, <1>5, IsChange

(* The empty link is one.                                                   *)
LEMMA NoLinkIsLink == NoLink \in Links
BY DEF NoLink, Links, Types

(* Resolving a change of a link gives a link.                               *)
LEMMA ResolvedIsLink ==
    ASSUME NEW d \in Changes, NEW l \in Links, NEW m, m = ResolveNextBannerLinkValues(d, l)
    PROVE  /\ m \in Links
           /\ \A c \in Columns \cup {"type"} : m[c] = Given(d[c], l[c])
<1>1. m = [c \in Columns \cup {"type"} |-> Given(d[c], l[c])]
      BY LinkFields DEF ResolveNextBannerLinkValues
<1>2. \A c \in Columns \cup {"type"} : m[c] = Given(d[c], l[c])
      BY <1>1
<1>3. m["type"] \in Types /\ \A c \in Columns : m[c] \in Targets[c] \cup {Null}
      BY <1>2, LinkFields, ChangeFields DEF Given
<1>4. m = [c \in Columns \cup {"type"} |-> m[c]]
      BY <1>1
<1>5. m \in Links
      BY <1>3, <1>4, IsLink
<1> QED
    BY <1>2, <1>5

(* Null and Keep are neither stores nor products.                           *)
LEMMA NotTargets ==
    /\ Null \notin Stores /\ Keep \notin Stores /\ Null \notin Products /\ Keep \notin Products
    /\ Keep # Null /\ Keep \notin Types /\ Null \notin Columns
    /\ \A c \in Columns : Null \notin Targets[c] /\ Keep \notin Targets[c]
<1>1. /\ Keep # Null /\ Keep \notin Types /\ Null \notin Columns
      /\ \A c \in Columns : Null \notin Targets[c] /\ Keep \notin Targets[c]
      BY ContentConstants
<1>2. Targets["store"] = Stores /\ Targets["product"] = Products /\ {"store", "product"} \subseteq Columns
      BY DEF Targets, Columns
<1> QED
    BY <1>1, <1>2

(* A valid link of a store leads home if it has the column of its type only.*)
LEMMA ValidLeadsHome ==
    ASSUME NEW s \in Stores, NEW l \in Changes,
           NEW m \in Links, ValidateBannerOwnership(s, m),
           \A c \in Columns : l[c] \notin {Null, Keep} => ColumnOf[m.type] = c /\ l[c] = m[c]
    PROVE  LeadsHome(s, l)
<1>1. m.type \in Types /\ l.store = l["store"] /\ l.product = l["product"]
      BY LinkFields, ChangeFields
<1>2. m.store = m["store"] /\ m.product = m["product"]
      BY LinkFields
<1>3. ASSUME l["store"] \notin {Null, Keep} PROVE l["store"] = s
  <2>1. ColumnOf[m.type] = "store" /\ l["store"] = m["store"]
        BY <1>3 DEF Columns
  <2>2. m.type = "STORE"
        BY <1>1, <2>1, NotTargets DEF ColumnOf, Types, Columns
  <2> QED
      BY <1>2, <2>1, <2>2 DEF ValidateBannerOwnership
<1>4. ASSUME NEW p \in Products, l["product"] = p PROVE StoreOf[p] = s
  <2>1. ColumnOf[m.type] = "product" /\ m["product"] = p
        BY <1>4, NotTargets DEF Columns
  <2>2. m.type = "PRODUCT"
        BY <1>1, <2>1, NotTargets DEF ColumnOf, Types, Columns
  <2> QED
      BY <1>2, <2>1, <2>2 DEF ValidateBannerOwnership
<1> QED
    BY <1>1, <1>3, <1>4 DEF LeadsHome

(* Changing a link that leads home by a change that does keeps it there.    *)
LEMMA ResolvedLeadsHome ==
    ASSUME NEW s \in Stores, NEW d \in Changes, NEW l \in Links, LeadsHome(s, d), LeadsHome(s, l)
    PROVE  LeadsHome(s, ResolveNextBannerLinkValues(d, l))
<1>1. PICK m \in Links : /\ m = ResolveNextBannerLinkValues(d, l)
                         /\ \A c \in Columns : m[c] = Given(d[c], l[c])
      BY ResolvedIsLink
<1>2. m["store"] = Given(d["store"], l["store"]) /\ m["product"] = Given(d["product"], l["product"])
      BY <1>1 DEF Columns
<1>3. /\ m.store = m["store"] /\ m.product = m["product"]
      /\ l.store = l["store"] /\ l.product = l["product"]
      /\ d.store = d["store"] /\ d.product = d["product"]
      BY LinkFields, ChangeFields
<1> QED
    BY <1>1, <1>2, <1>3 DEF LeadsHome, Given

(* What becomes of a link that is checked with all its columns.             *)
LEMMA ValidFollows ==
    ASSUME NEW s \in Stores, NEW m \in Links, ValidateBannerOwnership(s, m),
           \A c \in Columns : m[c] # Null => ColumnOf[m.type] = c
    PROVE  Follows(m)
<1> SUFFICES ASSUME NEW c \in Columns, ColumnOf[m.type] = c PROVE m[c] # Null
    BY DEF Follows
<1>1. m.type \in Types
      BY LinkFields
<1>2. m.type = "NONE" => FALSE
      BY NotTargets DEF ColumnOf
<1>3. CASE m.type = "URL"
      BY <1>3 DEF ColumnOf, ValidateBannerOwnership
<1>4. CASE m.type = "PRODUCT"
      BY <1>4, NotTargets DEF ColumnOf, ValidateBannerOwnership
<1>5. CASE m.type = "STORE"
      BY <1>5, NotTargets DEF ColumnOf, ValidateBannerOwnership
<1>6. CASE m.type = "CATEGORY"
      BY <1>6 DEF ColumnOf, ValidateBannerOwnership
<1> QED
    BY <1>1, <1>2, <1>3, <1>4, <1>5, <1>6 DEF Types

(* A new banner leads home and has the column of its type.                  *)
LEMMA CreateChecks ==
    ASSUME NEW w, NEW s \in Stores, NEW input \in Inputs, SellerCreateBanner(w, s, input)
    PROVE  \E l \in Links : /\ Start(w, "create banner", s, Null, l)
                            /\ LeadsHome(s, l) /\ Follows(l)
<1>1. input \in Changes
      BY InputIsChange
<1>2. PICK l \in Links : /\ l = ResolveNextBannerLinkValues(input, NoLink)
                         /\ \A c \in Columns \cup {"type"} : l[c] = Given(input[c], NoLink[c])
      BY <1>1, NoLinkIsLink, ResolvedIsLink
<1>3. /\ AssertInputLinkFieldsMatch(l.type, input) /\ ValidateBannerOwnership(s, l)
      /\ Start(w, "create banner", s, Null, l)
      BY <1>2 DEF SellerCreateBanner
<1>4. \A c \in Columns : NoLink[c] = Null
      BY DEF NoLink, Columns
<1>5. \A c \in Columns : l[c] # Null => ColumnOf[l.type] = c
      BY <1>2, <1>3, <1>4 DEF AssertInputLinkFieldsMatch, Given
<1>6. Follows(l)
      BY <1>3, <1>5, ValidFollows
<1>7. LeadsHome(s, l)
  <2>1. l \in Changes
        BY LinkIsChange
  <2> QED
      BY <1>3, <1>5, <2>1, ValidLeadsHome
<1> QED
    BY <1>3, <1>6, <1>7

(* So does a banner that a store may change, whatever the request gives.    *)
LEMMA UpdateChecks ==
    ASSUME NEW w, NEW s \in Stores, NEW b \in Banners, NEW input \in Inputs, banner[b] \in Links,
           SellerUpdateBanner(w, s, b, input)
    PROVE  \E d \in Changes :
             /\ Start(w, "update banner", s, b, d)
             /\ LeadsHome(s, d)
             /\ Follows(banner[b]) => Follows(ResolveNextBannerLinkValues(d, banner[b]))
<1>1. input \in Changes
      BY InputIsChange
<1>2. PICK l \in Links : l = banner[b]
      OBVIOUS
<1>3. PICK m \in Links : /\ m = ResolveNextBannerLinkValues(input, l)
                         /\ \A c \in Columns \cup {"type"} : m[c] = Given(input[c], l[c])
      BY <1>1, ResolvedIsLink
<1>4. /\ AssertInputLinkFieldsMatch(m.type, input) /\ ValidateBannerOwnership(s, m)
      /\ Start(w, "update banner", s, b, BuildBannerUpdateData(input, m))
      BY <1>2, <1>3 DEF SellerUpdateBanner
<1>5. CASE input.type = Keep
  <2>1. Start(w, "update banner", s, b, input)
        BY <1>4, <1>5 DEF BuildBannerUpdateData
  <2>2. \A c \in Columns : input[c] \notin {Null, Keep} => ColumnOf[m.type] = c /\ input[c] = m[c]
        BY <1>3, <1>4 DEF AssertInputLinkFieldsMatch, Given
  <2>3. LeadsHome(s, input)
        BY <1>1, <1>4, <2>2, ValidLeadsHome
  <2>4. ASSUME Follows(l) PROVE Follows(m)
    <3>1. m.type = l.type
          BY <1>1, <1>3, <1>5, LinkFields, ChangeFields DEF Given
    <3>2. ASSUME NEW c \in Columns, m[c] # Null PROVE ColumnOf[m.type] = c
      <4>1. CASE input[c] = Keep
            BY <1>3, <2>4, <3>1, <3>2, <4>1 DEF Follows, Given
      <4>2. CASE input[c] # Keep
            BY <1>3, <1>4, <3>2, <4>2 DEF AssertInputLinkFieldsMatch, Given
      <4> QED
          BY <4>1, <4>2
    <3> QED
        BY <1>4, <3>2, ValidFollows
  <2> QED
      BY <1>1, <1>2, <1>3, <2>1, <2>3, <2>4
<1>6. CASE input.type # Keep
  <2>1. PICK d : d = BuildBannerLinkFields(m)
        OBVIOUS
  <2>2. /\ DOMAIN m = Columns \cup {"type"} /\ m.type \in Types /\ m.type = m["type"]
        /\ \A c \in Columns : m[c] \in Targets[c] \cup {Null}
        BY LinkFields
  <2>3. /\ d = [c \in Columns \cup {"type"} |-> d[c]]
        /\ d["type"] = m["type"]
        /\ \A c \in Columns : d[c] = IF c # ColumnOf[m.type] THEN Null ELSE m[c]
    <3>1. d = [c \in Columns \cup {"type"} |->
                 IF c \in Columns /\ c # ColumnOf[m.type] THEN Null ELSE m[c]]
          BY <2>1, <2>2 DEF BuildBannerLinkFields
    <3>2. "type" \notin Columns
          BY DEF Columns
    <3> QED
        BY <3>1, <3>2
  <2>4. d \in Links
        BY <2>2, <2>3, IsLink
  <2>5. d \in Changes
        BY <2>4, LinkIsChange
  <2>6. Start(w, "update banner", s, b, d)
        BY <1>4, <1>6, <2>1 DEF BuildBannerUpdateData
  <2>7. \A c \in Columns : d[c] \notin {Null, Keep} => ColumnOf[m.type] = c /\ d[c] = m[c]
        BY <2>3
  <2>8. LeadsHome(s, d)
        BY <1>4, <2>5, <2>7, ValidLeadsHome
  <2>9. d.type = m.type
        BY <2>2, <2>3, <2>4, LinkFields
  <2>10. ValidateBannerOwnership(s, d)
    <3>1. ASSUME NEW c \in Columns, ColumnOf[m.type] = c PROVE d[c] = m[c]
          BY <2>3, <3>1
    <3>2. /\ d.url = d["url"] /\ d.product = d["product"] /\ d.store = d["store"]
          /\ d.category = d["category"]
          /\ m.url = m["url"] /\ m.product = m["product"] /\ m.store = m["store"]
          /\ m.category = m["category"]
          OBVIOUS
    <3>3. /\ m.type = "URL" => d["url"] = m["url"]
          /\ m.type = "PRODUCT" => d["product"] = m["product"]
          /\ m.type = "STORE" => d["store"] = m["store"]
          /\ m.type = "CATEGORY" => d["category"] = m["category"]
          BY <3>1 DEF ColumnOf, Columns
    <3> QED
        BY <1>4, <2>9, <3>2, <3>3 DEF ValidateBannerOwnership
  <2>11. Follows(d)
    <3>1. \A c \in Columns : d[c] # Null => ColumnOf[d.type] = c
          BY <2>3, <2>9
    <3> QED
        BY <2>4, <2>10, <3>1, ValidFollows
  <2>12. ResolveNextBannerLinkValues(d, l) = d
    <3>1. \A c \in Columns \cup {"type"} : d[c] # Keep
          BY <2>4, LinkFields, NotTargets
    <3>2. ResolveNextBannerLinkValues(d, l) = [c \in Columns \cup {"type"} |-> d[c]]
          BY <3>1, LinkFields DEF ResolveNextBannerLinkValues, Given
    <3> QED
        BY <2>3, <3>2
  <2> QED
      BY <1>2, <2>5, <2>6, <2>8, <2>11, <2>12
<1> QED
    BY <1>5, <1>6

----------------------------------------------------------------------------
(* Content stays home.                                                      *)

(* The fields of a request under way.                                       *)
LEMMA WritingFields ==
    ASSUME NEW op, NEW s, NEW r, NEW d
    PROVE  \E j : /\ j = Writing(op, s, r, d)
                 /\ j = [pc |-> "write", op |-> op, store |-> s, row |-> r, data |-> d, old |-> {}]
                 /\ j.pc = "write" /\ j.op = op /\ j.store = s /\ j.row = r /\ j.data = d /\ j.old = {}
<1>1. PICK j : j = Writing(op, s, r, d)
      OBVIOUS
<1>2. j = [pc |-> "write", op |-> op, store |-> s, row |-> r, data |-> d, old |-> {}]
      BY <1>1 DEF Writing, NoTask
<1> QED
    BY <1>1, <1>2

(* The fields of one written, and of none.                                  *)
LEMMA AuditFields ==
    /\ \E j : /\ j = [NoTask EXCEPT !.pc = "audit"]
             /\ j = [pc |-> "audit", op |-> Null, store |-> Null, row |-> Null, data |-> Null, old |-> {}]
             /\ j.pc = "audit" /\ j.store = Null /\ j.row = Null /\ j.op = Null
    /\ \E j : /\ j = NoTask
             /\ j = [pc |-> "idle", op |-> Null, store |-> Null, row |-> Null, data |-> Null, old |-> {}]
             /\ j.pc = "idle" /\ j.store = Null /\ j.row = Null /\ j.op = Null
<1>1. PICK j, k : j = [NoTask EXCEPT !.pc = "audit"] /\ k = NoTask
      OBVIOUS
<1>2. j = [pc |-> "audit", op |-> Null, store |-> Null, row |-> Null, data |-> Null, old |-> {}]
      BY <1>1 DEF NoTask
<1>3. k = [pc |-> "idle", op |-> Null, store |-> Null, row |-> Null, data |-> Null, old |-> {}]
      BY <1>1 DEF NoTask
<1> QED
    BY <1>1, <1>2, <1>3

\* A request with its fields.
Whole(j) == j = [pc |-> j.pc, op |-> j.op, store |-> j.store, row |-> j.row, data |-> j.data, old |-> j.old]

(* What a request has found stays so, whoever writes in between.            *)
LEMMA TaskStaysOK ==
    ASSUME NEW j, TaskOK(j), \A r \in Banners \cup Topics : maker[r] # Null => maker'[r] = maker[r]
    PROVE  TaskOK(j)'
<1>1. Null \notin Stores
      BY NotTargets
<1> QED
    BY <1>1 DEF TaskOK, Sheets

(* A request that goes on, to what it may write, keeps the invariant if the *)
(* contents are as they were.                                               *)
LEMMA GoingOnKeepsHome ==
    ASSUME HomeInv, NEW w \in Handlers, NEW j, task' = [task EXCEPT ![w] = j],
           Whole(j), j.store \in Stores \cup {Null}, TaskOK(j), UNCHANGED <<contents, onSale>>,
           filed' \in [Products -> [LabelKinds -> SUBSET (Labels["category"] \cup Labels["tag"])]],
           \A p \in Products, kind \in LabelKinds : filed'[p][kind] \subseteq Labels[kind]
    PROVE  HomeInv'
<1> USE DEF contents
<1>1. task'[w] = j /\ \A x \in Handlers \ {w} : task'[x] = task[x]
      BY DEF HomeInv, Shapes
<1>2. ContentTypeOK'
      BY <1>1 DEF HomeInv, ContentTypeOK
<1>3. Shapes'
      BY <1>1 DEF HomeInv, Shapes, Whole
<1>4. Homes' /\ ContentStaysHome'
      BY DEF HomeInv, Homes, LeadsHome, ContentStaysHome
<1>5. ASSUME NEW x \in Handlers PROVE TaskOK(task[x])'
  <2>1. PICK q : q = task'[x] /\ TaskOK(q)
        BY <1>1 DEF HomeInv
  <2>2. TaskOK(q)'
        BY <2>1, TaskStaysOK
  <2> QED
      BY <2>1, <2>2 DEF TaskOK
<1> QED
    BY <1>2, <1>3, <1>4, <1>5 DEF HomeInv

(* Starting a request that may write what it asks for.                      *)
LEMMA StartKeepsHome ==
    ASSUME HomeInv, NEW w \in Handlers, NEW op, NEW s \in Stores, NEW r, NEW d, Start(w, op, s, r, d),
           \A j : j.pc = "write" /\ j.op = op /\ j.store = s /\ j.row = r /\ j.data = d /\ j.old = {}
                   => TaskOK(j)
    PROVE  HomeInv'
<1>1. PICK j : j = Writing(op, s, r, d) /\ Whole(j) /\ j.store = s /\ TaskOK(j)
  <2>1. PICK j : /\ j = Writing(op, s, r, d)
                 /\ j = [pc |-> "write", op |-> op, store |-> s, row |-> r, data |-> d, old |-> {}]
                 /\ j.pc = "write" /\ j.op = op /\ j.store = s /\ j.row = r /\ j.data = d /\ j.old = {}
        BY WritingFields
  <2> QED
      BY <2>1 DEF Whole
<1>2. task' = [task EXCEPT ![w] = j] /\ UNCHANGED <<contents, onSale>> /\ filed' = filed
      BY <1>1 DEF Start, labels
<1> QED
    BY <1>1, <1>2, GoingOnKeepsHome DEF HomeInv, ContentTypeOK

(* A store finds the banners it made, and no others.                        *)
LEMMA FoundIsOwn ==
    ASSUME HomeInv, NEW s \in Stores, NEW b \in Banners, FindBannerForStore(b, s)
    PROVE  banner[b] \in Links /\ maker[b] = s
<1>1. live[b] /\ banner[b] # Null /\ banner[b] \in Links
      BY DEF HomeInv, ContentTypeOK, FindBannerForStore
<1>2. maker[b] \in Stores /\ LeadsHome(maker[b], banner[b])
      BY <1>1 DEF HomeInv, Homes, Shapes
<1> QED
    BY <1>1, <1>2, NotTargets DEF FindBannerForStore, LeadsHome

(* What a seller asks for is about the store's own.                         *)
LEMMA AskingKeepsHome ==
    ASSUME HomeInv, NEW w \in Handlers, NEW s \in Stores,
           AskBanner(w, s) \/ AskTopic(w, s) \/ AskProfile(w, s) \/ AskLabels(w, s)
    PROVE  HomeInv'
<1>1. "create banner" \notin LabelKinds /\ "update banner" \notin LabelKinds
      /\ "delete" \notin LabelKinds /\ "create topic" \notin LabelKinds /\ "edit" \notin LabelKinds
      BY DEF LabelKinds
<1>2. CASE AskBanner(w, s)
  <2>1. ASSUME NEW input \in Inputs, SellerCreateBanner(w, s, input) PROVE HomeInv'
    <3>1. PICK l \in Links : Start(w, "create banner", s, Null, l) /\ LeadsHome(s, l)
          BY <2>1, CreateChecks
    <3>2. \A j : j.pc = "write" /\ j.op = "create banner" /\ j.store = s /\ j.row = Null /\ j.data = l /\ j.old = {}
            => TaskOK(j)
          BY <1>1, <3>1 DEF TaskOK
    <3> QED
        BY <3>1, <3>2, StartKeepsHome
  <2>2. ASSUME NEW input \in Inputs, NEW b \in Banners, SellerUpdateBanner(w, s, b, input)
        PROVE  HomeInv'
    <3>1. banner[b] \in Links /\ maker[b] = s
          BY <2>2, FoundIsOwn DEF SellerUpdateBanner
    <3>2. PICK d \in Changes : Start(w, "update banner", s, b, d) /\ LeadsHome(s, d)
          BY <2>2, <3>1, UpdateChecks
    <3>3. \A j : j.pc = "write" /\ j.op = "update banner" /\ j.store = s /\ j.row = b /\ j.data = d /\ j.old = {}
            => TaskOK(j)
          BY <1>1, <3>1, <3>2 DEF TaskOK
    <3> QED
        BY <3>2, <3>3, StartKeepsHome
  <2>3. ASSUME NEW b \in Banners, SellerDeleteBanner(w, s, b) PROVE HomeInv'
    <3>1. maker[b] = s /\ Start(w, "delete", s, b, Null)
          BY <2>3, FoundIsOwn DEF SellerDeleteBanner
    <3>2. \A j : j.pc = "write" /\ j.op = "delete" /\ j.store = s /\ j.row = b /\ j.data = Null /\ j.old = {}
            => TaskOK(j)
          BY <1>1, <3>1 DEF TaskOK
    <3> QED
        BY <3>1, <3>2, StartKeepsHome
  <2> QED
      BY <1>2, <2>1, <2>2, <2>3 DEF AskBanner
<1>3. CASE AskTopic(w, s)
  <2>1. ASSUME NEW texts \in [Fields -> Texts], SellerCreateFaqTopic(w, s, texts) PROVE HomeInv'
    <3>1. \A j : j.pc = "write" /\ j.op = "create topic" /\ j.store = s /\ j.row = Null /\ j.data = texts /\ j.old = {}
            => TaskOK(j)
          BY <1>1, <2>1 DEF TaskOK
    <3> QED
        BY <2>1, <3>1, StartKeepsHome DEF SellerCreateFaqTopic
  <2>2. ASSUME NEW t \in Topics, FindFaqTopicById(t, s) PROVE maker[t] = s /\ t \in Sheets
        BY <2>2 DEF FindFaqTopicById, HomeInv, Homes, Sheets
  <2>3. ASSUME NEW t \in Topics, NEW texts \in [Fields -> Texts \cup {Keep}],
               SellerUpdateFaqTopic(w, s, t, texts)
        PROVE  HomeInv'
    <3>1. \A j : j.pc = "write" /\ j.op = "edit" /\ j.store = s /\ j.row = t /\ j.data = texts /\ j.old = {}
            => TaskOK(j)
          BY <1>1, <2>2, <2>3 DEF TaskOK, SellerUpdateFaqTopic
    <3> QED
        BY <2>3, <3>1, StartKeepsHome DEF SellerUpdateFaqTopic
  <2>4. ASSUME NEW t \in Topics, SellerDeleteFaqTopic(w, s, t) PROVE HomeInv'
    <3>1. \A j : j.pc = "write" /\ j.op = "delete" /\ j.store = s /\ j.row = t /\ j.data = Null /\ j.old = {}
            => TaskOK(j)
          BY <1>1, <2>2, <2>4 DEF TaskOK, SellerDeleteFaqTopic
    <3> QED
        BY <2>4, <3>1, StartKeepsHome DEF SellerDeleteFaqTopic
  <2> QED
      BY <1>3, <2>1, <2>3, <2>4 DEF AskTopic
<1>4. CASE AskProfile(w, s)
  <2>1. PICK texts \in [Fields -> Texts \cup {Keep}] : Start(w, "edit", s, s, texts)
        BY <1>4 DEF AskProfile, SellerUpdateStoreBasicInfo
  <2>2. \A j : j.pc = "write" /\ j.op = "edit" /\ j.store = s /\ j.row = s /\ j.data = texts /\ j.old = {}
            => TaskOK(j)
        BY <1>1, ContentConstants DEF TaskOK, Sheets
  <2> QED
      BY <2>1, <2>2, StartKeepsHome
<1>5. CASE AskLabels(w, s)
  <2>1. PICK p \in Products, kind \in LabelKinds : \E ids \in SUBSET Labels[kind] :
          Start(w, kind, s, p, ids)
        BY <1>5 DEF AskLabels, SellerSetProductCategories, SellerSetProductTags,
                    SellerSetProductLabels, LabelKinds
  <2>2. PICK ids \in SUBSET Labels[kind] : Start(w, kind, s, p, ids)
        BY <2>1
  <2>3. \A j : j.pc = "write" /\ j.op = kind /\ j.store = s /\ j.row = p /\ j.data = ids /\ j.old = {}
            => TaskOK(j)
        BY <1>1, <2>2 DEF TaskOK
  <2> QED
      BY <2>2, <2>3, StartKeepsHome
<1> QED
    BY <1>2, <1>3, <1>4, <1>5

(* A row that is written is one its store has made, or makes.               *)
LEMMA WritingKeepsHome ==
    ASSUME HomeInv, NEW w \in Handlers, NEW r \in Banners \cup Topics, NEW s \in Stores,
           Audit(w), maker[r] \in {s, Null},
           maker' = [maker EXCEPT ![r] = s], hands' = [hands EXCEPT ![r] = @ \cup {s}],
           ContentTypeOK', Homes'
    PROVE  HomeInv'
<1>1. Shapes /\ Homes /\ ContentStaysHome
      BY DEF HomeInv
<1>2. PICK j : /\ j = [NoTask EXCEPT !.pc = "audit"] /\ j.pc = "audit" /\ j.store = Null
               /\ Whole(j)
      BY AuditFields DEF Whole
<1>3. task'[w] = j /\ \A x \in Handlers \ {w} : task'[x] = task[x]
      BY <1>1, <1>2 DEF Audit, Shapes
<1>4. task' = [x \in Handlers |-> task'[x]]
      BY <1>1 DEF Audit, Shapes
<1>5. Shapes'
      BY <1>1, <1>2, <1>3, <1>4 DEF Shapes, Whole
<1>6. maker'[r] = s /\ \A q \in Banners \cup Topics : q # r => maker'[q] = maker[q]
      BY <1>1 DEF Shapes
<1>7. ContentStaysHome'
  <2> SUFFICES ASSUME NEW q \in Banners \cup Topics PROVE hands'[q] \subseteq {maker'[q]}
      BY DEF ContentStaysHome
  <2>1. CASE q = r
    <3>1. hands'[r] = hands[r] \cup {s} /\ hands[r] \subseteq {maker[r]}
          BY <1>1 DEF Shapes, ContentStaysHome
    <3>2. maker[r] = Null => hands[r] = {}
          BY <1>1 DEF Homes
    <3> QED
        BY <1>6, <2>1, <3>1, <3>2
  <2>2. CASE q # r
        BY <1>1, <1>6, <2>2 DEF Shapes, ContentStaysHome
  <2> QED
      BY <2>1, <2>2
<1>8. ASSUME NEW x \in Handlers \ {w} PROVE TaskOK(task[x])'
  <2>1. PICK q : q = task'[x] /\ TaskOK(q)
        BY <1>3 DEF HomeInv
  <2>2. TaskOK(q)'
        BY <1>6, <2>1, TaskStaysOK
  <2> QED
      BY <2>1, <2>2 DEF TaskOK
<1>9. TaskOK(task[w])'
      BY <1>2, <1>3 DEF TaskOK
<1> QED
    BY <1>5, <1>7, <1>8, <1>9 DEF HomeInv

(* Creating what is the store's own.                                        *)
LEMMA CreatingKeepsHome ==
    ASSUME HomeInv, NEW w \in Handlers, CreateBanner(w) \/ CreateFaqTopic(w)
    PROVE  HomeInv'
<1>1. PICK j : j = task[w]
      OBVIOUS
<1>2. ContentTypeOK /\ Shapes /\ Homes /\ TaskOK(j)
      BY <1>1 DEF HomeInv
<1>3. j.pc = "write" /\ j.store \in Stores /\ j.store # Null
      BY <1>1, <1>2, NotTargets DEF CreateBanner, CreateFaqTopic, Writes, TaskOK
<1>4. \A x \in Handlers : task'[x].store \in Stores \cup {Null}
  <2>1. PICK a : a = [NoTask EXCEPT !.pc = "audit"] /\ a.store = Null
        BY AuditFields
  <2>2. task'[w] = a /\ \A x \in Handlers \ {w} : task'[x] = task[x]
        BY <1>2, <2>1 DEF CreateBanner, CreateFaqTopic, Audit, Shapes
  <2> QED
      BY <1>2, <2>1, <2>2 DEF ContentTypeOK
<1>5. ASSUME NEW r \in Banners \cup Topics, Made(w, r), maker[r] = Null
      PROVE  /\ maker' = [maker EXCEPT ![r] = j.store]
             /\ hands' = [hands EXCEPT ![r] = @ \cup {j.store}]
             /\ maker'[r] = j.store
             /\ live' \in [Banners \cup Topics -> BOOLEAN]
             /\ \A q \in Banners \cup Topics : q # r => /\ maker'[q] = maker[q] /\ live'[q] = live[q]
                                                        /\ hands'[q] = hands[q]
      BY <1>1, <1>2, <1>5 DEF Made, Shapes, Homes, ContentTypeOK
<1>6. CASE CreateBanner(w)
  <2>1. PICK b \in Banners : /\ banner[b] = Null /\ banner' = [banner EXCEPT ![b] = j.data]
                             /\ Made(w, b)
        BY <1>1, <1>6 DEF CreateBanner
  <2>2. /\ j.data \in Links /\ LeadsHome(j.store, j.data) /\ maker[b] = Null
        /\ UNCHANGED <<topicStore, text, filed, onSale>>
        BY <1>1, <1>2, <1>6, <2>1 DEF CreateBanner, Writes, TaskOK, Homes, labels
  <2>3. j.data # Null /\ b \notin Topics
    <3>1. b \notin Topics /\ Null \notin Links
          BY ContentConstants
    <3> QED
        BY <2>2, <3>1
  <2>4. banner'[b] = j.data /\ \A q \in Banners : q # b => banner'[q] = banner[q]
        BY <1>2, <2>1 DEF ContentTypeOK
  <2>5. ContentTypeOK'
    <3>1. banner' \in [Banners -> Links \cup {Null}]
          BY <1>2, <2>1, <2>2 DEF ContentTypeOK
    <3>2. \A q \in Banners : live'[q] => banner'[q] # Null
          BY <1>2, <1>5, <2>1, <2>2, <2>3, <2>4 DEF ContentTypeOK
    <3> QED
        BY <1>2, <1>4, <1>5, <2>1, <2>2, <3>1, <3>2 DEF ContentTypeOK
  <2>6. Homes'
    <3>1. ASSUME NEW q \in Banners
          PROVE  IF banner'[q] = Null THEN maker'[q] = Null
                 ELSE maker'[q] # Null /\ LeadsHome(maker'[q], banner'[q])
          BY <1>2, <1>3, <1>5, <2>1, <2>2, <2>3, <2>4 DEF Homes
    <3>2. \A t \in Topics : maker'[t] = topicStore'[t]
          BY <1>2, <1>5, <2>1, <2>2, <2>3 DEF Homes
    <3>3. \A q \in Banners \cup Topics : maker'[q] = Null => ~live'[q] /\ hands'[q] = {}
          BY <1>2, <1>3, <1>5, <2>1, <2>2 DEF Homes
    <3> QED
        BY <3>1, <3>2, <3>3 DEF Homes, LeadsHome
  <2>7. /\ Audit(w)
        /\ maker' = [maker EXCEPT ![b] = j.store]
        /\ hands' = [hands EXCEPT ![b] = @ \cup {j.store}]
        /\ b \in Banners \cup Topics /\ maker[b] \in {j.store, Null}
        BY <1>5, <1>6, <2>1, <2>2 DEF CreateBanner
  <2> QED
      BY <1>2, <1>3, <2>5, <2>6, <2>7, WritingKeepsHome
<1>7. CASE CreateFaqTopic(w)
  <2>1. PICK t \in Topics : /\ topicStore[t] = Null
                            /\ topicStore' = [topicStore EXCEPT ![t] = j.store]
                            /\ text' = [text EXCEPT ![t] = j.data]
                            /\ Made(w, t)
        BY <1>1, <1>7 DEF CreateFaqTopic
  <2>2. /\ j.data \in [Fields -> Texts] /\ maker[t] = Null /\ t \notin Banners
        /\ UNCHANGED <<banner, filed, onSale>>
        BY <1>1, <1>2, <1>7, <2>1, ContentConstants
           DEF CreateFaqTopic, Writes, TaskOK, Homes, labels
  <2>3. ContentTypeOK'
    <3>1. text' \in [Sheets -> [Fields -> Texts]] /\ topicStore' \in [Topics -> Stores \cup {Null}]
          BY <1>2, <1>3, <2>1, <2>2 DEF ContentTypeOK, Sheets
    <3>2. \A q \in Banners : live'[q] => banner'[q] # Null
          BY <1>2, <1>5, <2>1, <2>2 DEF ContentTypeOK
    <3> QED
        BY <1>2, <1>4, <1>5, <2>1, <2>2, <3>1, <3>2 DEF ContentTypeOK
  <2>4. Homes'
    <3>1. ASSUME NEW q \in Banners
          PROVE  IF banner'[q] = Null THEN maker'[q] = Null
                 ELSE maker'[q] # Null /\ LeadsHome(maker'[q], banner'[q])
      <4>1. maker'[q] = maker[q] /\ banner'[q] = banner[q]
            BY <1>5, <2>1, <2>2
      <4> QED
          BY <1>2, <4>1 DEF Homes
    <3>2. \A u \in Topics : maker'[u] = topicStore'[u]
          BY <1>2, <1>5, <2>1, <2>2 DEF Homes, ContentTypeOK
    <3>3. \A q \in Banners \cup Topics : maker'[q] = Null => ~live'[q] /\ hands'[q] = {}
          BY <1>2, <1>3, <1>5, <2>1, <2>2 DEF Homes
    <3> QED
        BY <3>1, <3>2, <3>3 DEF Homes, LeadsHome
  <2>5. /\ Audit(w)
        /\ maker' = [maker EXCEPT ![t] = j.store]
        /\ hands' = [hands EXCEPT ![t] = @ \cup {j.store}]
        /\ t \in Banners \cup Topics /\ maker[t] \in {j.store, Null}
        BY <1>5, <1>7, <2>1, <2>2 DEF CreateFaqTopic
  <2> QED
      BY <1>2, <1>3, <2>3, <2>4, <2>5, WritingKeepsHome
<1> QED
    BY <1>6, <1>7

(* Changing or deleting what is the store's own.                            *)
LEMMA ChangingKeepsHome ==
    ASSUME HomeInv, NEW w \in Handlers, UpdateBanner(w) \/ Edit(w) \/ SoftDelete(w)
    PROVE  HomeInv'
<1>1. PICK j : j = task[w]
      OBVIOUS
<1>2. ContentTypeOK /\ Shapes /\ Homes /\ TaskOK(j)
      BY <1>1 DEF HomeInv
<1>3. j.pc = "write" /\ j.store \in Stores /\ j.store # Null
      BY <1>1, <1>2, NotTargets DEF UpdateBanner, Edit, SoftDelete, Writes, TaskOK
<1>4. PICK a : /\ a = [NoTask EXCEPT !.pc = "audit"] /\ a.store = Null /\ a.pc = "audit" /\ Whole(a)
      BY AuditFields DEF Whole
<1>5. task' = [task EXCEPT ![w] = a] /\ \A x \in Handlers : task'[x].store \in Stores \cup {Null}
  <2>1. task' = [task EXCEPT ![w] = a]
        BY <1>4 DEF UpdateBanner, Edit, SoftDelete, Audit
  <2>2. task'[w] = a /\ \A x \in Handlers \ {w} : task'[x] = task[x]
        BY <1>2, <2>1 DEF Shapes
  <2> QED
      BY <1>2, <1>4, <2>1, <2>2 DEF ContentTypeOK
<1>6. ASSUME NEW r \in Banners \cup Topics, maker[r] = j.store, Touched(w, r), UNCHANGED maker
      PROVE  /\ maker' = [maker EXCEPT ![r] = j.store]
             /\ hands' = [hands EXCEPT ![r] = @ \cup {j.store}]
             /\ maker'[r] # Null
             /\ \A q \in Banners \cup Topics : q # r => hands'[q] = hands[q]
  <2>1. maker = [q \in Banners \cup Topics |-> maker[q]]
        BY <1>2 DEF Shapes
  <2>2. maker' = [maker EXCEPT ![r] = j.store]
        BY <1>6, <2>1
  <2> QED
      BY <1>1, <1>2, <1>3, <1>6, <2>2 DEF Touched, Shapes
<1>7. CASE UpdateBanner(w)
  <2>1. PICK b \in Banners, d \in Changes : b = j.row /\ d = j.data /\ maker[b] = j.store /\ LeadsHome(j.store, d)
        BY <1>1, <1>2, <1>3, <1>7 DEF UpdateBanner, Writes, TaskOK
  <2>2. banner[b] \in Links /\ LeadsHome(j.store, banner[b])
        BY <1>2, <1>3, <2>1 DEF Homes, ContentTypeOK
  <2>3. PICK m \in Links : m = ResolveNextBannerLinkValues(d, banner[b]) /\ LeadsHome(j.store, m)
        BY <1>3, <2>1, <2>2, ResolvedIsLink, ResolvedLeadsHome
  <2>4. /\ banner' = [banner EXCEPT ![b] = m]
        /\ UNCHANGED <<topicStore, live, text, maker, filed, onSale>>
        /\ Touched(w, b) /\ Audit(w)
        BY <1>1, <1>7, <2>1, <2>3 DEF UpdateBanner, labels
  <2>5. m # Null /\ banner'[b] = m /\ \A q \in Banners : q # b => banner'[q] = banner[q]
        BY <1>2, <2>3, <2>4, ContentConstants DEF ContentTypeOK
  <2>6. ContentTypeOK'
        BY <1>2, <1>5, <2>3, <2>4, <2>5 DEF ContentTypeOK
  <2>7. Homes'
    <3>1. ASSUME NEW q \in Banners
          PROVE  IF banner'[q] = Null THEN maker'[q] = Null
                 ELSE maker'[q] # Null /\ LeadsHome(maker'[q], banner'[q])
          BY <1>2, <1>3, <2>1, <2>3, <2>4, <2>5 DEF Homes
    <3>2. \A t \in Topics : maker'[t] = topicStore'[t]
          BY <1>2, <2>4 DEF Homes
    <3>3. \A q \in Banners \cup Topics : maker'[q] = Null => ~live'[q] /\ hands'[q] = {}
          BY <1>2, <1>6, <2>1, <2>4 DEF Homes
    <3> QED
        BY <3>1, <3>2, <3>3 DEF Homes, LeadsHome
  <2> QED
      BY <1>3, <1>6, <2>1, <2>4, <2>6, <2>7, WritingKeepsHome
<1>8. CASE Edit(w)
  <2>1. /\ j.row \in Sheets /\ j.data \in [Fields -> Texts \cup {Keep}]
        /\ j.row \in Topics => maker[j.row] = j.store
        BY <1>1, <1>2, <1>3, <1>8 DEF Edit, Writes, TaskOK
  <2>2. /\ text' = [text EXCEPT ![j.row] = [f \in Fields |-> Given(j.data[f], @[f])]]
        /\ UNCHANGED <<banner, topicStore, live, maker, filed, onSale>> /\ Audit(w)
        BY <1>1, <1>8 DEF Edit, labels
  <2>3. text' \in [Sheets -> [Fields -> Texts]]
        BY <1>2, <2>1, <2>2 DEF ContentTypeOK, Given
  <2>4. ContentTypeOK'
        BY <1>2, <1>5, <2>2, <2>3 DEF ContentTypeOK
  <2>5. CASE j.row \in Topics
    <3>1. Touched(w, j.row)
          BY <1>1, <1>8, <2>5 DEF Edit
    <3>2. /\ maker' = [maker EXCEPT ![j.row] = j.store]
          /\ hands' = [hands EXCEPT ![j.row] = @ \cup {j.store}]
          /\ maker'[j.row] # Null
          /\ \A q \in Banners \cup Topics : q # j.row => hands'[q] = hands[q]
          BY <1>6, <2>1, <2>2, <2>5, <3>1
    <3>3. Homes'
      <4>1. ASSUME NEW q \in Banners
            PROVE  IF banner'[q] = Null THEN maker'[q] = Null
                   ELSE maker'[q] # Null /\ LeadsHome(maker'[q], banner'[q])
            BY <1>2, <2>2 DEF Homes
      <4>2. \A t \in Topics : maker'[t] = topicStore'[t]
            BY <1>2, <2>2 DEF Homes
      <4>3. \A q \in Banners \cup Topics : maker'[q] = Null => ~live'[q] /\ hands'[q] = {}
            BY <1>2, <2>2, <3>2 DEF Homes
      <4> QED
          BY <4>1, <4>2, <4>3 DEF Homes, LeadsHome
    <3> QED
        BY <1>3, <2>1, <2>2, <2>4, <2>5, <3>2, <3>3, WritingKeepsHome
  <2>6. CASE j.row \notin Topics
    <3>1. UNCHANGED <<banner, topicStore, maker, live, hands>>
          BY <1>1, <1>8, <2>2, <2>6 DEF Edit
    <3>2. Shapes'
      <4>1. /\ task' = [x \in Handlers |-> task'[x]] /\ task'[w] = a
            /\ \A x \in Handlers \ {w} : task'[x] = task[x]
            BY <1>2, <1>5 DEF Shapes
      <4> QED
          BY <1>2, <1>4, <3>1, <4>1 DEF Shapes, Whole
    <3>3. Homes' /\ ContentStaysHome'
          BY <3>1 DEF HomeInv, Homes, LeadsHome, ContentStaysHome
    <3>4. ASSUME NEW x \in Handlers PROVE TaskOK(task[x])'
      <4>1. PICK q : q = task'[x] /\ TaskOK(q)
        <5>1. CASE x = w
          <6>1. task'[w] = a
                BY <1>2, <1>5 DEF Shapes
          <6>2. TaskOK(a)
                BY <1>4 DEF TaskOK
          <6> QED
              BY <5>1, <6>1, <6>2
        <5>2. CASE x # w
              BY <1>2, <1>5, <5>2 DEF HomeInv, Shapes
        <5> QED
            BY <5>1, <5>2
      <4>2. TaskOK(q)'
            BY <3>1, <4>1, TaskStaysOK
      <4> QED
          BY <4>1, <4>2 DEF TaskOK
    <3> QED
        BY <2>4, <3>2, <3>3, <3>4 DEF HomeInv
  <2> QED
      BY <2>5, <2>6
<1>9. CASE SoftDelete(w)
  <2>1. PICK r \in Banners \cup Topics : r = j.row /\ maker[r] = j.store
        BY <1>1, <1>2, <1>3, <1>9 DEF SoftDelete, Writes, TaskOK
  <2>2. /\ live' = [live EXCEPT ![r] = FALSE] /\ Touched(w, r) /\ Audit(w)
        /\ UNCHANGED <<banner, topicStore, text, maker, filed, onSale>>
        BY <1>1, <1>9, <2>1 DEF SoftDelete, labels
  <2>3. /\ live' \in [Banners \cup Topics -> BOOLEAN]
        /\ \A q \in Banners \cup Topics : live'[q] => live[q]
        BY <1>2, <2>2 DEF ContentTypeOK
  <2>4. ContentTypeOK'
        BY <1>2, <1>5, <2>2, <2>3 DEF ContentTypeOK
  <2>5. Homes'
    <3>1. ASSUME NEW q \in Banners
          PROVE  IF banner'[q] = Null THEN maker'[q] = Null
                 ELSE maker'[q] # Null /\ LeadsHome(maker'[q], banner'[q])
          BY <1>2, <2>2 DEF Homes
    <3>2. \A t \in Topics : maker'[t] = topicStore'[t]
          BY <1>2, <2>2 DEF Homes
    <3>3. \A q \in Banners \cup Topics : maker'[q] = Null => ~live'[q] /\ hands'[q] = {}
          BY <1>2, <1>6, <2>1, <2>2, <2>3 DEF Homes
    <3> QED
        BY <3>1, <3>2, <3>3 DEF Homes, LeadsHome
  <2> QED
      BY <1>3, <1>6, <2>1, <2>2, <2>4, <2>5, WritingKeepsHome
<1> QED
    BY <1>7, <1>8, <1>9

(* The labels of products are filed by kind, whoever writes them.           *)
LEMMA FiledAgain ==
    ASSUME ContentTypeOK, NEW p \in Products, NEW kind \in LabelKinds, NEW ids \in SUBSET Labels[kind],
           filed' = [filed EXCEPT ![p][kind] = ids]
    PROVE  /\ filed' \in [Products -> [LabelKinds -> SUBSET (Labels["category"] \cup Labels["tag"])]]
           /\ \A q \in Products, k \in LabelKinds : filed'[q][k] \subseteq Labels[k]
           /\ filed'[p][kind] = ids
           /\ \A q \in Products, k \in LabelKinds : q # p \/ k # kind => filed'[q][k] = filed[q][k]
<1>1. ids \subseteq Labels["category"] \cup Labels["tag"]
      BY DEF LabelKinds
<1>2. PICK g \in [LabelKinds -> SUBSET (Labels["category"] \cup Labels["tag"])] :
        g = [filed[p] EXCEPT ![kind] = ids]
      BY <1>1 DEF ContentTypeOK
<1>3. filed' = [filed EXCEPT ![p] = g]
      BY <1>2
<1>4. g[kind] = ids /\ \A k \in LabelKinds : k # kind => g[k] = filed[p][k]
      BY <1>2 DEF ContentTypeOK
<1>5. filed'[p] = g /\ \A q \in Products : q # p => filed'[q] = filed[q]
      BY <1>3 DEF ContentTypeOK
<1> QED
    BY <1>2, <1>3, <1>4, <1>5 DEF ContentTypeOK

(* What the four steps of a request that leaves the contents alone do.      *)
LEMMA RequestGoesOn ==
    ASSUME HomeInv, NEW w \in Handlers,
           DeleteLabels(w) \/ CreateLabels(w) \/ Reply(w) \/ Abort(w)
    PROVE  /\ UNCHANGED <<contents, onSale>>
           /\ \E j : task' = [task EXCEPT ![w] = j] /\ Whole(j) /\ j.store \in Stores \cup {Null} /\ TaskOK(j)
           /\ \/ UNCHANGED filed
              \/ \E p \in Products, kind \in LabelKinds : \E ids \in SUBSET Labels[kind] :
                   filed' = [filed EXCEPT ![p][kind] = ids]
<1>1. PICK j : j = task[w]
      OBVIOUS
<1>2. ContentTypeOK /\ Shapes /\ TaskOK(j) /\ Whole(j) /\ j.store \in Stores \cup {Null}
      BY <1>1 DEF HomeInv, Shapes, Whole, ContentTypeOK
<1>3. PICK a : a = [NoTask EXCEPT !.pc = "audit"] /\ a.pc = "audit" /\ a.store = Null /\ Whole(a)
      BY AuditFields DEF Whole
<1>4. PICK i : i = NoTask /\ i.pc = "idle" /\ i.store = Null /\ Whole(i)
      BY AuditFields DEF Whole
<1>5. TaskOK(a) /\ TaskOK(i)
      BY <1>3, <1>4 DEF TaskOK
<1>6. CASE DeleteLabels(w)
  <2>1. j.op \in LabelKinds /\ j.row \in Products /\ j.data \subseteq Labels[j.op]
        BY <1>1, <1>2, <1>6 DEF DeleteLabels, TaskOK
  <2>2. PICK t : t = [j EXCEPT !.pc = "swap", !.old = filed[j.row][j.op]] /\ Whole(t)
                 /\ t.pc = "swap" /\ t.op = j.op /\ t.store = j.store /\ t.row = j.row
                 /\ t.data = j.data /\ t.old = filed[j.row][j.op]
    <3>1. PICK t : t = [j EXCEPT !.pc = "swap", !.old = filed[j.row][j.op]]
          OBVIOUS
    <3>2. t = [pc |-> "swap", op |-> j.op, store |-> j.store, row |-> j.row, data |-> j.data,
               old |-> filed[j.row][j.op]]
          BY <1>2, <3>1 DEF Whole
    <3> QED
        BY <3>1, <3>2 DEF Whole
  <2>3. TaskOK(t)
        BY <1>2, <2>1, <2>2 DEF TaskOK, ContentTypeOK
  <2>4. /\ task' = [task EXCEPT ![w] = t] /\ filed' = [filed EXCEPT ![j.row][j.op] = {}]
        /\ UNCHANGED <<contents, onSale>>
        BY <1>1, <1>6, <2>2 DEF DeleteLabels
  <2> QED
      BY <1>2, <2>1, <2>2, <2>3, <2>4
<1>7. CASE CreateLabels(w)
  <2>1. j.op \in LabelKinds /\ j.row \in Products /\ j.data \subseteq Labels[j.op]
        BY <1>1, <1>2, <1>7 DEF CreateLabels, TaskOK
  <2>2. PICK ids \in SUBSET Labels[j.op] : ids = filed[j.row][j.op] \cup j.data
        BY <1>2, <2>1 DEF ContentTypeOK
  <2>3. /\ filed' = [filed EXCEPT ![j.row][j.op] = ids]
        /\ task' = [task EXCEPT ![w] = a] /\ UNCHANGED <<contents, onSale>>
        BY <1>1, <1>3, <1>7, <2>2 DEF CreateLabels, Audit
  <2> QED
      BY <1>3, <1>5, <2>1, <2>2, <2>3
<1>8. CASE Reply(w)
  <2>1. task' = [task EXCEPT ![w] = i] /\ UNCHANGED <<contents, onSale, filed>>
        BY <1>4, <1>8 DEF Reply, labels
  <2> QED
      BY <1>4, <1>5, <2>1
<1>9. CASE Abort(w)
  <2>1. task' = [task EXCEPT ![w] = i] /\ UNCHANGED <<contents, onSale>>
        BY <1>4, <1>9 DEF Abort
  <2>2. \/ UNCHANGED filed
        \/ j.pc = "swap" /\ filed' = [filed EXCEPT ![j.row][j.op] = j.old]
        BY <1>1, <1>9 DEF Abort
  <2>3. j.pc = "swap" => j.op \in LabelKinds /\ j.row \in Products /\ j.old \subseteq Labels[j.op]
        BY <1>2 DEF TaskOK
  <2> QED
      BY <1>4, <1>5, <2>1, <2>2, <2>3
<1> QED
    BY <1>6, <1>7, <1>8, <1>9

LEMMA FilingKeepsHome ==
    ASSUME HomeInv, NEW w \in Handlers,
           DeleteLabels(w) \/ CreateLabels(w) \/ Reply(w) \/ Abort(w)
    PROVE  HomeInv'
<1>1. UNCHANGED <<contents, onSale>>
      BY RequestGoesOn
<1>2. PICK j : task' = [task EXCEPT ![w] = j] /\ Whole(j) /\ j.store \in Stores \cup {Null} /\ TaskOK(j)
      BY RequestGoesOn
<1>3. /\ filed' \in [Products -> [LabelKinds -> SUBSET (Labels["category"] \cup Labels["tag"])]]
      /\ \A p \in Products, kind \in LabelKinds : filed'[p][kind] \subseteq Labels[kind]
  <2>1. CASE UNCHANGED filed
        BY <2>1 DEF HomeInv, ContentTypeOK
  <2>2. CASE \E p \in Products, kind \in LabelKinds : \E ids \in SUBSET Labels[kind] :
               filed' = [filed EXCEPT ![p][kind] = ids]
        BY <2>2, FiledAgain DEF HomeInv
  <2> QED
      BY <2>1, <2>2, RequestGoesOn
<1> QED
    BY <1>1, <1>2, <1>3, GoingOnKeepsHome

(* No step takes a banner or a topic from its store, or types from anything. *)
LEMMA HomeInvKept ==
    ASSUME HomeInv, ContentNext \/ UNCHANGED contentVars
    PROVE  HomeInv'
<1>1. CASE UNCHANGED contentVars
  <2>1. ASSUME NEW w \in Handlers PROVE TaskOK(task[w])'
    <3>1. PICK j : j = task'[w] /\ TaskOK(j)
          BY <1>1 DEF HomeInv, contentVars
    <3>2. TaskOK(j)'
          BY <1>1, <3>1, TaskStaysOK DEF contentVars
    <3> QED
        BY <3>1, <3>2 DEF TaskOK
  <2>2. Shapes' /\ Homes' /\ ContentStaysHome' /\ ContentTypeOK'
        BY <1>1 DEF HomeInv, contentVars, Shapes, Homes, LeadsHome, ContentStaysHome, ContentTypeOK
  <2> QED
      BY <2>1, <2>2 DEF HomeInv
<1>2. ASSUME NEW p \in Products, SoftDeleteProduct(p) PROVE HomeInv'
  <2>1. UNCHANGED <<banner, topicStore, live, text, filed, task, maker, hands>>
        /\ onSale' \in [Products -> BOOLEAN]
        BY <1>2 DEF HomeInv, ContentTypeOK, SoftDeleteProduct, contents, labels
  <2>2. ASSUME NEW w \in Handlers PROVE TaskOK(task[w])'
    <3>1. PICK j : j = task'[w] /\ TaskOK(j)
          BY <2>1 DEF HomeInv
    <3>2. TaskOK(j)'
          BY <2>1, <3>1, TaskStaysOK
    <3> QED
        BY <3>1, <3>2 DEF TaskOK
  <2>3. Shapes' /\ Homes' /\ ContentStaysHome' /\ ContentTypeOK'
        BY <2>1 DEF HomeInv, Shapes, Homes, LeadsHome, ContentStaysHome, ContentTypeOK
  <2> QED
      BY <2>2, <2>3 DEF HomeInv
<1> QED
    BY <1>1, <1>2, AskingKeepsHome, CreatingKeepsHome, ChangingKeepsHome, FilingKeepsHome
       DEF ContentNext, Write

LEMMA HomeInvInit == ContentInit => HomeInv
<1> SUFFICES ASSUME ContentInit PROVE HomeInv
    OBVIOUS
<1>1. PICK i : i = NoTask /\ i.pc = "idle" /\ i.store = Null /\ Whole(i)
      BY AuditFields DEF Whole
<1>2. task = [w \in Handlers |-> i] /\ TaskOK(i)
      BY <1>1 DEF ContentInit, TaskOK
<1>3. /\ banner = [b \in Banners |-> Null] /\ topicStore = [t \in Topics |-> Null]
      /\ live = [r \in Banners \cup Topics |-> FALSE] /\ maker = [r \in Banners \cup Topics |-> Null]
      /\ hands = [r \in Banners \cup Topics |-> {}]
      BY DEF ContentInit
<1>4. ContentTypeOK
  <2>1. Blank \in Texts
        BY ContentConstants
  <2>2. text \in [Sheets -> [Fields -> Texts]] /\ onSale \in [Products -> BOOLEAN]
        BY <2>1 DEF ContentInit
  <2>3. /\ filed \in [Products -> [LabelKinds -> SUBSET (Labels["category"] \cup Labels["tag"])]]
        /\ \A p \in Products, kind \in LabelKinds : filed[p][kind] \subseteq Labels[kind]
        BY DEF ContentInit
  <2> QED
      BY <1>1, <1>2, <1>3, <2>2, <2>3 DEF ContentTypeOK
<1>5. Shapes
  <2>1. task = [w \in Handlers |-> task[w]] /\ \A w \in Handlers : Whole(task[w])
        BY <1>1, <1>2
  <2> QED
      BY <1>3, <2>1 DEF Shapes, Whole
<1>6. Homes /\ ContentStaysHome
      BY <1>3 DEF Homes, ContentStaysHome
<1>7. ASSUME NEW w \in Handlers PROVE TaskOK(task[w])
      BY <1>2
<1> QED
    BY <1>4, <1>5, <1>6, <1>7 DEF HomeInv

LEMMA HomeInvHolds == ContentSpec => []HomeInv
<1>1. HomeInv /\ [ContentNext]_contentVars => HomeInv'
      BY HomeInvKept
<1> QED
    BY HomeInvInit, <1>1, PTL DEF ContentSpec

(* Types.                                                                   *)
THEOREM ContentTypes == ContentSpec => []ContentTypeOK
<1>1. HomeInv => ContentTypeOK
      BY DEF HomeInv
<1> QED
    BY HomeInvHolds, <1>1, PTL

(* No seller's request ever changes or deletes a banner or a topic that     *)
(* another store made, whatever overlaps between finding and writing it.    *)
THEOREM NobodyTouchesOthers == ContentSpec => []ContentStaysHome
<1>1. HomeInv => ContentStaysHome
      BY DEF HomeInv
<1> QED
    BY HomeInvHolds, <1>1, PTL

(* Asking writes nothing yet.                                               *)
LEMMA AskingStarts ==
    ASSUME NEW w, NEW s \in Stores,
           AskBanner(w, s) \/ AskTopic(w, s) \/ AskProfile(w, s) \/ AskLabels(w, s)
    PROVE  \E op, r, d : Start(w, op, s, r, d)
<1>1. CASE AskBanner(w, s)
  <2>1. CASE \E input \in Inputs : SellerCreateBanner(w, s, input)
        BY <2>1 DEF SellerCreateBanner
  <2>2. CASE \E input \in Inputs, q \in Banners : SellerUpdateBanner(w, s, q, input)
    <3>1. PICK input \in Inputs, q \in Banners : SellerUpdateBanner(w, s, q, input)
          BY <2>2
    <3>2. \E d : Start(w, "update banner", s, q, d)
          BY <3>1 DEF SellerUpdateBanner
    <3> QED
        BY <3>2
  <2>3. CASE \E q \in Banners : SellerDeleteBanner(w, s, q)
        BY <2>3 DEF SellerDeleteBanner
  <2> QED
      BY <1>1, <2>1, <2>2, <2>3 DEF AskBanner
<1>2. CASE AskTopic(w, s)
      BY <1>2 DEF AskTopic, SellerCreateFaqTopic, SellerUpdateFaqTopic, SellerDeleteFaqTopic
<1>3. CASE AskProfile(w, s)
      BY <1>3 DEF AskProfile, SellerUpdateStoreBasicInfo
<1>4. CASE AskLabels(w, s)
      BY <1>4 DEF AskLabels, SellerSetProductCategories, SellerSetProductTags, SellerSetProductLabels
<1> QED
    BY <1>1, <1>2, <1>3, <1>4

(* No request finds a banner that leads nowhere of any store.               *)
LEMMA LostIsNotFound ==
    ASSUME NEW b \in Banners, Lost(b), NEW s \in Stores
    PROVE  ~FindBannerForStore(b, s)
<1>1. banner[b].store # s /\ \A p \in Products : banner[b].product # p
      BY NotTargets DEF Lost
<1> QED
    BY <1>1 DEF FindBannerForStore

LEMMA AskingLeavesLost ==
    ASSUME HomeInv, NEW w \in Handlers, NEW s \in Stores, NEW b \in Banners, Lost(b),
           AskBanner(w, s) \/ AskTopic(w, s) \/ AskProfile(w, s) \/ AskLabels(w, s)
    PROVE  \E op, r, d : Start(w, op, s, r, d) /\ r # b
<1>1. Null # b /\ s # b /\ b \notin Topics /\ b \notin Products
      BY ContentConstants
<1>2. CASE AskBanner(w, s)
  <2>1. CASE \E input \in Inputs : SellerCreateBanner(w, s, input)
        BY <1>1, <2>1 DEF SellerCreateBanner
  <2>2. CASE \E input \in Inputs, q \in Banners : SellerUpdateBanner(w, s, q, input)
    <3>1. PICK input \in Inputs, q \in Banners : SellerUpdateBanner(w, s, q, input)
          BY <2>2
    <3>2. q # b
          BY <3>1, LostIsNotFound DEF SellerUpdateBanner
    <3>3. PICK op : op = "update banner"
          OBVIOUS
    <3>4. PICK d : Start(w, op, s, q, d)
          BY <3>1, <3>3 DEF SellerUpdateBanner
    <3>5. \E dd : Start(w, op, s, q, dd) /\ q # b
          BY <3>2, <3>4
    <3>6. \E r : \E dd : Start(w, op, s, r, dd) /\ r # b
          BY <3>5
    <3>7. \E oo : \E r : \E dd : Start(w, oo, s, r, dd) /\ r # b
          BY <3>6
    <3> QED
        BY <3>7
  <2>3. CASE \E q \in Banners : SellerDeleteBanner(w, s, q)
        BY <2>3, LostIsNotFound DEF SellerDeleteBanner
  <2> QED
      BY <1>2, <2>1, <2>2, <2>3 DEF AskBanner
<1>3. CASE AskTopic(w, s)
      BY <1>1, <1>3 DEF AskTopic, SellerCreateFaqTopic, SellerUpdateFaqTopic, SellerDeleteFaqTopic
<1>4. CASE AskProfile(w, s)
      BY <1>1, <1>4 DEF AskProfile, SellerUpdateStoreBasicInfo
<1>5. CASE AskLabels(w, s)
      BY <1>1, <1>5 DEF AskLabels, SellerSetProductCategories, SellerSetProductTags, SellerSetProductLabels
<1> QED
    BY <1>2, <1>3, <1>4, <1>5

(* A banner of no store is touched by no step, once none is about to.       *)
LEMMA LostStays ==
    ASSUME HomeInv, ContentNext, NEW b \in Banners, Lost(b), \A w \in Handlers : task[w].row # b
    PROVE  banner'[b] = banner[b] /\ live'[b] /\ \A w \in Handlers : task'[w].row # b
<1>1. ContentTypeOK /\ Shapes /\ live[b] /\ banner[b] # Null
      BY DEF HomeInv, ContentTypeOK, Lost
<1>2. ASSUME NEW w \in Handlers, NEW j, task' = [task EXCEPT ![w] = j], j.row # b
      PROVE  \A x \in Handlers : task'[x].row # b
      BY <1>1, <1>2 DEF Shapes
<1>3. ASSUME NEW w \in Handlers, NEW s \in Stores,
             AskBanner(w, s) \/ AskTopic(w, s) \/ AskProfile(w, s) \/ AskLabels(w, s)
      PROVE  banner'[b] = banner[b] /\ live'[b] /\ \A x \in Handlers : task'[x].row # b
  <2>1. PICK op, r, d : Start(w, op, s, r, d) /\ r # b
        BY <1>3, AskingLeavesLost
  <2>2. PICK j : j = Writing(op, s, r, d) /\ j.row = r
        BY WritingFields
  <2>3. task' = [task EXCEPT ![w] = j] /\ UNCHANGED <<banner, live>>
        BY <2>1, <2>2 DEF Start, contents
  <2> QED
      BY <1>1, <1>2, <2>1, <2>2, <2>3
<1>4. ASSUME NEW w \in Handlers, Write(w)
      PROVE  banner'[b] = banner[b] /\ live'[b] /\ \A x \in Handlers : task'[x].row # b
  <2>1. PICK a : a = [NoTask EXCEPT !.pc = "audit"] /\ a.row # b
        BY AuditFields, ContentConstants
  <2>2. PICK i : i = NoTask /\ i.row # b
        BY AuditFields, ContentConstants
  <2>3. CASE CreateBanner(w)
    <3>1. PICK q \in Banners : /\ q # b /\ banner' = [banner EXCEPT ![q] = task[w].data]
                               /\ live' = [live EXCEPT ![q] = TRUE]
          BY <1>1, <2>3 DEF CreateBanner, Made
    <3>2. task' = [task EXCEPT ![w] = a]
          BY <2>1, <2>3 DEF CreateBanner, Audit
    <3> QED
        BY <1>1, <1>2, <2>1, <3>1, <3>2 DEF ContentTypeOK
  <2>4. CASE UpdateBanner(w)
    <3>1. /\ banner' = [banner EXCEPT ![task[w].row] = ResolveNextBannerLinkValues(task[w].data, @)]
          /\ live' = live /\ task' = [task EXCEPT ![w] = a]
          BY <2>1, <2>4 DEF UpdateBanner, Audit
    <3> QED
        BY <1>1, <1>2, <2>1, <3>1 DEF ContentTypeOK
  <2>5. CASE CreateFaqTopic(w)
    <3>1. PICK t \in Topics : live' = [live EXCEPT ![t] = TRUE]
          BY <2>5 DEF CreateFaqTopic, Made
    <3>2. task' = [task EXCEPT ![w] = a] /\ banner' = banner
          BY <2>1, <2>5 DEF CreateFaqTopic, Audit
    <3> QED
        BY <1>1, <1>2, <2>1, <3>1, <3>2 DEF ContentTypeOK
  <2>6. CASE Edit(w)
    <3>1. task' = [task EXCEPT ![w] = a] /\ banner' = banner /\ live' = live
          BY <2>1, <2>6 DEF Edit, Audit
    <3> QED
        BY <1>1, <1>2, <2>1, <3>1
  <2>7. CASE SoftDelete(w)
    <3>1. /\ task' = [task EXCEPT ![w] = a] /\ banner' = banner
          /\ live' = [live EXCEPT ![task[w].row] = FALSE]
          BY <2>1, <2>7 DEF SoftDelete, Audit
    <3> QED
        BY <1>1, <1>2, <2>1, <3>1 DEF ContentTypeOK
  <2>8. CASE DeleteLabels(w)
    <3>1. PICK j : j = task[w] /\ Whole(j) /\ j.row # b
          BY <1>1 DEF Shapes, Whole
    <3>2. PICK t : t = [j EXCEPT !.pc = "swap", !.old = filed[j.row][j.op]]
          OBVIOUS
    <3>3. t.row # b
          BY <3>1, <3>2 DEF Whole
    <3>4. task' = [task EXCEPT ![w] = t] /\ UNCHANGED <<banner, live>>
          BY <2>8, <3>1, <3>2 DEF DeleteLabels, contents
    <3> QED
        BY <1>1, <1>2, <3>3, <3>4
  <2>9. CASE CreateLabels(w)
    <3>1. task' = [task EXCEPT ![w] = a] /\ UNCHANGED <<banner, live>>
          BY <2>1, <2>9 DEF CreateLabels, Audit, contents
    <3> QED
        BY <1>1, <1>2, <2>1, <3>1
  <2>10. CASE Reply(w) \/ Abort(w)
    <3>1. task' = [task EXCEPT ![w] = i] /\ UNCHANGED <<banner, live>>
          BY <2>2, <2>10 DEF Reply, Abort, contents
    <3> QED
        BY <1>1, <1>2, <2>2, <3>1
  <2> QED
      BY <1>4, <2>3, <2>4, <2>5, <2>6, <2>7, <2>8, <2>9, <2>10 DEF Write
<1>5. ASSUME NEW p \in Products, SoftDeleteProduct(p)
      PROVE  banner'[b] = banner[b] /\ live'[b] /\ \A w \in Handlers : task'[w].row # b
      BY <1>1, <1>5 DEF SoftDeleteProduct, contents
<1> QED
    BY <1>3, <1>4, <1>5 DEF ContentNext

(* A banner that links to an address, a category or nothing has no store    *)
(* any more that could find it: it stays as it is for good.                 *)
THEOREM LostBannersStay == ContentSpec => LostForGood
<1>1. HomeInv /\ [ContentNext]_contentVars =>
        [\A b \in Banners : Lost(b) /\ (\A w \in Handlers : task[w].row # b) =>
           banner'[b] = banner[b] /\ live'[b] /\ \A w \in Handlers : task'[w].row # b]_contentVars
      BY LostStays
<1> QED
    BY HomeInvHolds, <1>1, PTL DEF ContentSpec, LostForGood

(* A text is written by the edit that gave it, or is a new topic's.         *)
LEMMA GivenText ==
    ASSUME HomeInv, ContentNext, NEW s \in Sheets, NEW f \in Fields, text'[s][f] # text[s][f],
           s \in Topics => topicStore[s] # Null
    PROVE  \E w \in Handlers : /\ task[w].op = "edit" /\ task[w].row = s
                               /\ task[w].data[f] = text'[s][f]
<1>1. ContentTypeOK /\ text' # text
      BY DEF HomeInv
<1>2. PICK w \in Handlers : CreateFaqTopic(w) \/ Edit(w)
  <2>1. \A w \in Handlers, x \in Stores :
          AskBanner(w, x) \/ AskTopic(w, x) \/ AskProfile(w, x) \/ AskLabels(w, x) => text' = text
        BY AskingStarts DEF Start, contents
  <2>2. \A w \in Handlers : Write(w) => text' = text \/ CreateFaqTopic(w) \/ Edit(w)
        BY DEF Write, CreateBanner, UpdateBanner, SoftDelete, DeleteLabels, CreateLabels, Reply,
               Abort, contents
  <2>3. \A p \in Products : SoftDeleteProduct(p) => text' = text
        BY DEF SoftDeleteProduct, contents
  <2> QED
      BY <1>1, <2>1, <2>2, <2>3 DEF ContentNext
<1>3. CASE CreateFaqTopic(w)
  <2>1. PICK t \in Topics : topicStore[t] = Null /\ text' = [text EXCEPT ![t] = task[w].data]
        BY <1>3 DEF CreateFaqTopic
  <2>2. t # s /\ text'[s] = text[s]
        BY <1>1, <2>1 DEF ContentTypeOK
  <2> QED
      BY <2>2
<1>4. CASE Edit(w)
  <2>1. PICK j : j = task[w] /\ j.op = "edit"
        BY <1>4 DEF Edit, Writes
  <2>2. text' = [text EXCEPT ![j.row] = [g \in Fields |-> Given(j.data[g], @[g])]]
        BY <1>4, <2>1 DEF Edit
  <2>3. s = j.row /\ text'[s][f] = Given(j.data[f], text[s][f])
        BY <1>1, <2>2 DEF ContentTypeOK
  <2>4. text'[s][f] = j.data[f]
        BY <2>3 DEF Given
  <2> QED
      BY <2>1, <2>3, <2>4
<1> QED
    BY <1>2, <1>3, <1>4

(* Tabs that edit different fields do not undo each other: a text that is   *)
(* there changes only by a request that gave it.                            *)
THEOREM TextsAreGiven == ContentSpec => OnlyGivenTextsChange
<1>1. HomeInv /\ [ContentNext]_contentVars =>
        [\A s \in Sheets, f \in Fields :
           text'[s][f] # text[s][f] /\ (s \in Topics => topicStore[s] # Null) =>
             \E w \in Handlers : /\ task[w].op = "edit" /\ task[w].row = s
                                /\ task[w].data[f] = text'[s][f]]_contentVars
      BY GivenText
<1> QED
    BY HomeInvHolds, <1>1, PTL DEF ContentSpec, OnlyGivenTextsChange

----------------------------------------------------------------------------
(* Categories and tags.                                                     *)

(* Steps outside the transactions leave the labels as they are.             *)
LEMMA LabelsLeftAlone ==
    ASSUME HomeInv, LabelInv, UNCHANGED labels, NEW w \in Handlers, NEW j,
           task[w].pc # "swap", task' = [task EXCEPT ![w] = j], j.pc # "swap"
    PROVE  LabelInv'
<1>1. \A v \in Handlers : task'[v] = IF v = w THEN j ELSE task[v]
      BY DEF HomeInv, Shapes
<1>2. \A v \in Handlers, p \in Products, kind \in LabelKinds :
        /\ InTransaction(v, p, kind)' <=> InTransaction(v, p, kind)
        /\ InTransaction(v, p, kind) => task'[v].old = task[v].old
      BY <1>1 DEF InTransaction
<1> QED
    BY <1>2 DEF LabelInv, labels

(* What the first statement takes away comes back as it was, or as asked    *)
(* for.                                                                     *)
LEMMA DeletingKeepsLabels ==
    ASSUME HomeInv, LabelInv, NEW w \in Handlers, DeleteLabels(w)
    PROVE  LabelInv'
<1>1. PICK j : j = task[w] /\ Whole(j) /\ TaskOK(j)
      BY DEF HomeInv, Shapes, Whole
<1>2. PICK p \in Products, kind \in LabelKinds : p = j.row /\ kind = j.op /\ j.pc = "write"
      BY <1>1 DEF DeleteLabels, TaskOK
<1>3. PICK t : t = [j EXCEPT !.pc = "swap", !.old = filed[p][kind]]
      OBVIOUS
<1>4. t.pc = "swap" /\ t.op = kind /\ t.row = p /\ t.old = filed[p][kind]
      BY <1>1, <1>2, <1>3 DEF Whole
<1>5. \A v \in Handlers : task'[v] = IF v = w THEN t ELSE task[v]
      BY <1>1, <1>2, <1>3 DEF DeleteLabels, HomeInv, Shapes
<1>6. /\ filed'[p][kind] = {}
      /\ \A q \in Products, k \in LabelKinds : q # p \/ k # kind => filed'[q][k] = filed[q][k]
  <2>1. filed' = [filed EXCEPT ![p][kind] = {}] /\ {} \in SUBSET Labels[kind]
        BY <1>1, <1>2 DEF DeleteLabels
  <2>2. ContentTypeOK
        BY DEF HomeInv
  <2>3. filed'[p][kind] = {}
        BY <2>1, <2>2, FiledAgain
  <2>4. \A q \in Products, k \in LabelKinds : q # p \/ k # kind => filed'[q][k] = filed[q][k]
        BY <2>1, <2>2, FiledAgain
  <2> QED
      BY <2>3, <2>4
<1>7. asked' = asked /\ \A v \in Handlers : InTransaction(v, p, kind) => task[v].old = {}
      BY <1>1, <1>2 DEF DeleteLabels
<1>8. filed[p][kind] \in asked[p][kind] /\ {} \in asked[p][kind]
  <2>1. ASSUME NEW v \in Handlers, InTransaction(v, p, kind) PROVE filed[p][kind] = {}
        BY <2>1 DEF LabelInv
  <2>2. {} \in asked[p][kind]
        BY DEF LabelInv
  <2>3. CASE \A v \in Handlers : ~InTransaction(v, p, kind)
        BY <2>3 DEF LabelInv
  <2> QED
      BY <2>1, <2>3, <2>2
<1>9. filed[p][kind] = {} \/ \A v \in Handlers : ~InTransaction(v, p, kind)
      BY DEF LabelInv
<1>10. InTransaction(w, p, kind)' /\ \A q \in Products, k \in LabelKinds :
         InTransaction(w, q, k)' => q = p /\ k = kind
      BY <1>4, <1>5 DEF InTransaction
<1>11. \A v \in Handlers \ {w}, q \in Products, k \in LabelKinds :
         (InTransaction(v, q, k)' <=> InTransaction(v, q, k)) /\ task'[v] = task[v]
      BY <1>5 DEF InTransaction
<1>12. ASSUME NEW q \in Products, NEW k \in LabelKinds
       PROVE  /\ {} \in asked'[q][k]
              /\ (\A v \in Handlers : ~InTransaction(v, q, k)') => filed'[q][k] \in asked'[q][k]
              /\ \A v \in Handlers : InTransaction(v, q, k)' =>
                   /\ filed'[q][k] = {} /\ task'[v].old \in asked'[q][k]
                   /\ task'[v].old = {} \/ \A u \in Handlers \ {v} : ~InTransaction(u, q, k)'
  <2>1. CASE q = p /\ k = kind
    <3>1. task'[w].old = filed[p][kind]
          BY <1>4, <1>5
    <3>2. \A v \in Handlers \ {w} : InTransaction(v, p, kind)' => task'[v].old = {}
          BY <1>7, <1>11
    <3>3. filed[p][kind] = {} \/ \A v \in Handlers \ {w} : ~InTransaction(v, p, kind)'
          BY <1>9, <1>11
    <3> QED
        BY <1>6, <1>7, <1>8, <1>10, <2>1, <3>1, <3>2, <3>3
  <2>2. CASE q # p \/ k # kind
    <3>1. \A v \in Handlers : InTransaction(v, q, k)' => v # w
          BY <1>10, <2>2
    <3>2. w \in Handlers /\ ~InTransaction(w, q, k)
          BY <1>1, <1>2 DEF InTransaction
    <3> QED
        BY <1>6, <1>7, <1>11, <2>2, <3>1, <3>2 DEF LabelInv
  <2> QED
      BY <2>1, <2>2
<1>13. asked' \in [Products -> [LabelKinds -> SUBSET SUBSET (Labels["category"] \cup Labels["tag"])]]
       BY <1>7 DEF LabelInv
<1> QED
    BY <1>12, <1>13 DEF LabelInv

LEMMA CreatingKeepsLabels ==
    ASSUME HomeInv, LabelInv, NEW w \in Handlers, CreateLabels(w)
    PROVE  LabelInv'
<1>1. PICK j : j = task[w] /\ TaskOK(j)
      BY DEF HomeInv
<1>2. PICK p \in Products, kind \in LabelKinds :
        p = j.row /\ kind = j.op /\ j.pc = "swap" /\ j.data \subseteq Labels[kind]
      BY <1>1 DEF CreateLabels, TaskOK
<1>3. PICK a : a = [NoTask EXCEPT !.pc = "audit"] /\ a.pc = "audit"
      BY AuditFields
<1>4. \A v \in Handlers : task'[v] = IF v = w THEN a ELSE task[v]
      BY <1>3 DEF CreateLabels, Audit, HomeInv, Shapes
<1>5. InTransaction(w, p, kind) /\ filed[p][kind] = {} /\ {} \in asked[p][kind]
  <2>1. InTransaction(w, p, kind)
        BY <1>1, <1>2 DEF InTransaction
  <2> QED
      BY <2>1 DEF LabelInv
<1>6. /\ filed'[p][kind] = j.data
      /\ \A q \in Products, k \in LabelKinds : q # p \/ k # kind => filed'[q][k] = filed[q][k]
  <2>1. PICK ids \in SUBSET Labels[kind] : ids = j.data
        BY <1>2
  <2>2. filed' = [filed EXCEPT ![p][kind] = ids]
        BY <1>1, <1>2, <1>5, <2>1 DEF CreateLabels
  <2>3. ContentTypeOK
        BY DEF HomeInv
  <2>4. filed'[p][kind] = ids
        BY <2>2, <2>3, FiledAgain
  <2>5. \A q \in Products, k \in LabelKinds : q # p \/ k # kind => filed'[q][k] = filed[q][k]
        BY <2>2, <2>3, FiledAgain
  <2> QED
      BY <2>1, <2>4, <2>5
<1>7. /\ asked' \in [Products -> [LabelKinds -> SUBSET SUBSET (Labels["category"] \cup Labels["tag"])]]
      /\ j.data \in asked'[p][kind]
      /\ \A q \in Products, k \in LabelKinds : asked[q][k] \subseteq asked'[q][k]
  <2>1. j.data \in SUBSET (Labels["category"] \cup Labels["tag"])
        BY <1>2 DEF LabelKinds
  <2>2. PICK g \in [LabelKinds -> SUBSET SUBSET (Labels["category"] \cup Labels["tag"])] :
          g = [asked[p] EXCEPT ![kind] = @ \cup {j.data}]
    <3>1. asked[p] \in [LabelKinds -> SUBSET SUBSET (Labels["category"] \cup Labels["tag"])]
          BY DEF LabelInv
    <3>2. asked[p][kind] \cup {j.data} \in SUBSET SUBSET (Labels["category"] \cup Labels["tag"])
          BY <2>1, <3>1
    <3> QED
        BY <3>1, <3>2
  <2>3. asked' = [asked EXCEPT ![p] = g]
        BY <1>1, <1>2, <2>2 DEF CreateLabels
  <2>4. j.data \in g[kind] /\ \A k \in LabelKinds : asked[p][k] \subseteq g[k]
        BY <2>2 DEF LabelInv
  <2>5. asked'[p] = g /\ \A q \in Products : q # p => asked'[q] = asked[q]
        BY <2>3 DEF LabelInv
  <2> QED
      BY <2>2, <2>3, <2>4, <2>5 DEF LabelInv
<1>8. j.data # {} => \A v \in Handlers \ {w} : ~InTransaction(v, p, kind)
      BY <1>1, <1>2 DEF CreateLabels
<1>9. /\ \A q \in Products, k \in LabelKinds : ~InTransaction(w, q, k)'
      /\ \A q \in Products, k \in LabelKinds : InTransaction(w, q, k) => q = p /\ k = kind
      BY <1>1, <1>2, <1>3, <1>4 DEF InTransaction
<1>10. \A v \in Handlers \ {w}, q \in Products, k \in LabelKinds :
         (InTransaction(v, q, k)' <=> InTransaction(v, q, k)) /\ task'[v] = task[v]
      BY <1>4 DEF InTransaction
<1>11. ASSUME NEW q \in Products, NEW k \in LabelKinds
       PROVE  /\ {} \in asked'[q][k]
              /\ (\A v \in Handlers : ~InTransaction(v, q, k)') => filed'[q][k] \in asked'[q][k]
              /\ \A v \in Handlers : InTransaction(v, q, k)' =>
                   /\ filed'[q][k] = {} /\ task'[v].old \in asked'[q][k]
                   /\ task'[v].old = {} \/ \A u \in Handlers \ {v} : ~InTransaction(u, q, k)'
  <2>1. CASE q = p /\ k = kind
    <3>1. {} \in asked'[p][kind]
          BY <1>5, <1>7
    <3>2. ASSUME NEW v \in Handlers, InTransaction(v, p, kind)'
          PROVE  /\ j.data = {} /\ task'[v].old \in asked'[p][kind]
                 /\ task'[v].old = {} \/ \A u \in Handlers \ {v} : ~InTransaction(u, p, kind)'
      <4>1. v # w /\ InTransaction(v, p, kind) /\ task'[v] = task[v]
            BY <1>9, <1>10, <3>2
      <4>2. j.data = {}
            BY <1>8, <4>1
      <4>3. task[v].old \in asked[p][kind]
            BY <4>1 DEF LabelInv
      <4>4. task[v].old = {}
            BY <1>5, <4>1 DEF LabelInv
      <4> QED
          BY <1>7, <4>1, <4>2, <4>3, <4>4
    <3> QED
        BY <1>6, <1>7, <2>1, <3>1, <3>2
  <2>2. CASE q # p \/ k # kind
    <3>1. \A v \in Handlers : ~InTransaction(v, q, k)' <=> ~InTransaction(v, q, k)
          BY <1>9, <1>10, <2>2
    <3>2. {} \in asked[q][k] /\ asked[q][k] \subseteq asked'[q][k] /\ filed'[q][k] = filed[q][k]
          BY <1>6, <1>7, <2>2 DEF LabelInv
    <3>3. ASSUME NEW v \in Handlers, InTransaction(v, q, k)'
          PROVE  /\ filed[q][k] = {} /\ task'[v].old \in asked[q][k]
                 /\ task'[v].old = {} \/ \A u \in Handlers \ {v} : ~InTransaction(u, q, k)
      <4>1. v # w /\ InTransaction(v, q, k) /\ task'[v] = task[v]
            BY <1>9, <1>10, <3>1, <3>3
      <4> QED
          BY <4>1 DEF LabelInv
    <3>4. (\A v \in Handlers : ~InTransaction(v, q, k)) => filed[q][k] \in asked[q][k]
          BY DEF LabelInv
    <3> QED
        BY <3>1, <3>2, <3>3, <3>4
  <2> QED
      BY <2>1, <2>2
<1> QED
    BY <1>7, <1>11 DEF LabelInv

LEMMA AbortingKeepsLabels ==
    ASSUME HomeInv, LabelInv, NEW w \in Handlers, Abort(w)
    PROVE  LabelInv'
<1>1. PICK j : j = task[w] /\ TaskOK(j)
      BY DEF HomeInv
<1>2. PICK i : i = NoTask /\ i.pc = "idle"
      BY AuditFields
<1>3. task' = [task EXCEPT ![w] = i] /\ asked' = asked
      BY <1>2 DEF Abort
<1>4. CASE j.pc # "swap"
  <2>1. UNCHANGED labels
        BY <1>1, <1>3, <1>4 DEF Abort, labels
  <2> QED
      BY <1>1, <1>2, <1>3, <1>4, <2>1, LabelsLeftAlone
<1>5. CASE j.pc = "swap"
  <2>1. PICK p \in Products, kind \in LabelKinds :
          p = j.row /\ kind = j.op /\ j.old \subseteq Labels[kind]
        BY <1>1, <1>5 DEF TaskOK
  <2>2. InTransaction(w, p, kind)
        BY <1>1, <1>5, <2>1 DEF InTransaction
  <2>3. /\ filed'[p][kind] = j.old
        /\ \A q \in Products, k \in LabelKinds : q # p \/ k # kind => filed'[q][k] = filed[q][k]
    <3>1. PICK ids \in SUBSET Labels[kind] : ids = j.old
          BY <2>1
    <3>2. filed' = [filed EXCEPT ![p][kind] = ids]
          BY <1>1, <1>5, <2>1, <2>2, <3>1 DEF Abort
    <3>3. ContentTypeOK
          BY DEF HomeInv
    <3>4. filed'[p][kind] = ids
          BY <3>2, <3>3, FiledAgain
    <3>5. \A q \in Products, k \in LabelKinds : q # p \/ k # kind => filed'[q][k] = filed[q][k]
          BY <3>2, <3>3, FiledAgain
    <3> QED
        BY <3>1, <3>4, <3>5
  <2>4. \A v \in Handlers : task'[v] = IF v = w THEN i ELSE task[v]
        BY <1>3 DEF HomeInv, Shapes
  <2>5. /\ \A q \in Products, k \in LabelKinds : ~InTransaction(w, q, k)'
        /\ \A q \in Products, k \in LabelKinds : InTransaction(w, q, k) => q = p /\ k = kind
        BY <1>1, <1>2, <2>1, <2>4 DEF InTransaction
  <2>6. \A v \in Handlers \ {w}, q \in Products, k \in LabelKinds :
          (InTransaction(v, q, k)' <=> InTransaction(v, q, k)) /\ task'[v] = task[v]
        BY <2>4 DEF InTransaction
  <2>7. ASSUME NEW q \in Products, NEW k \in LabelKinds
        PROVE  /\ {} \in asked'[q][k]
               /\ (\A v \in Handlers : ~InTransaction(v, q, k)') => filed'[q][k] \in asked'[q][k]
               /\ \A v \in Handlers : InTransaction(v, q, k)' =>
                    /\ filed'[q][k] = {} /\ task'[v].old \in asked'[q][k]
                    /\ task'[v].old = {} \/ \A u \in Handlers \ {v} : ~InTransaction(u, q, k)'
    <3>1. CASE q = p /\ k = kind
      <4>1. j.old \in asked[p][kind] /\ {} \in asked[p][kind]
            BY <1>1, <2>2 DEF LabelInv
      <4>2. j.old = {} \/ \A v \in Handlers \ {w} : ~InTransaction(v, p, kind)
            BY <1>1, <2>2 DEF LabelInv
      <4> QED
          BY <1>3, <2>3, <2>5, <2>6, <3>1, <4>1, <4>2 DEF LabelInv
    <3>2. CASE q # p \/ k # kind
      <4>1. \A v \in Handlers : ~InTransaction(v, q, k)' <=> ~InTransaction(v, q, k)
            BY <2>5, <2>6, <3>2
      <4>2. asked' = asked /\ filed'[q][k] = filed[q][k]
            BY <1>3, <2>3, <3>2
      <4>3. ASSUME NEW v \in Handlers, InTransaction(v, q, k)'
            PROVE  /\ filed[q][k] = {} /\ task'[v].old \in asked[q][k]
                   /\ task'[v].old = {} \/ \A u \in Handlers \ {v} : ~InTransaction(u, q, k)
        <5>1. v # w /\ InTransaction(v, q, k) /\ task'[v] = task[v]
              BY <2>5, <2>6, <4>1, <4>3
        <5> QED
            BY <5>1 DEF LabelInv
      <4>4. /\ (\A v \in Handlers : ~InTransaction(v, q, k)) => filed[q][k] \in asked[q][k]
            /\ {} \in asked[q][k]
            BY DEF LabelInv
      <4> QED
          BY <4>1, <4>2, <4>3, <4>4
    <3> QED
        BY <3>1, <3>2
  <2> QED
      BY <1>3, <2>7 DEF LabelInv
<1> QED
    BY <1>4, <1>5

LEMMA LabelInvKept ==
    ASSUME HomeInv, LabelInv, ContentNext \/ UNCHANGED contentVars
    PROVE  LabelInv'
<1>1. CASE \/ UNCHANGED contentVars
           \/ \E p \in Products : SoftDeleteProduct(p)
  <2>1. UNCHANGED <<labels, task>>
        BY <1>1 DEF contentVars, labels, SoftDeleteProduct
  <2> QED
      BY <2>1 DEF LabelInv, InTransaction, labels
<1>2. ASSUME NEW w \in Handlers, NEW s \in Stores,
             AskBanner(w, s) \/ AskTopic(w, s) \/ AskProfile(w, s) \/ AskLabels(w, s)
      PROVE  LabelInv'
  <2>1. PICK op, r, d : Start(w, op, s, r, d)
        BY <1>2, AskingStarts
  <2>2. PICK j : j = Writing(op, s, r, d) /\ j.pc = "write"
        BY WritingFields
  <2>3. PICK i : i = NoTask /\ i.pc = "idle"
        BY AuditFields
  <2>4. task[w] = i /\ task' = [task EXCEPT ![w] = j] /\ UNCHANGED labels
        BY <2>1, <2>2, <2>3 DEF Start
  <2> QED
      BY <2>2, <2>3, <2>4, LabelsLeftAlone
<1>3. ASSUME NEW w \in Handlers,
             \/ CreateBanner(w) \/ UpdateBanner(w) \/ CreateFaqTopic(w) \/ Edit(w) \/ SoftDelete(w)
             \/ Reply(w)
      PROVE  LabelInv'
  <2>1. PICK j : /\ j \in {NoTask, [NoTask EXCEPT !.pc = "audit"]} /\ j.pc # "swap"
                 /\ task' = [task EXCEPT ![w] = j]
    <3>1. PICK a : a = [NoTask EXCEPT !.pc = "audit"] /\ a.pc = "audit"
          BY AuditFields
    <3>2. PICK i : i = NoTask /\ i.pc = "idle"
          BY AuditFields
    <3>3. task' = [task EXCEPT ![w] = a] \/ task' = [task EXCEPT ![w] = i]
          BY <1>3, <3>1, <3>2 DEF CreateBanner, UpdateBanner, CreateFaqTopic, Edit, SoftDelete, Reply, Audit
    <3> QED
        BY <3>1, <3>2, <3>3
  <2>2. task[w].pc # "swap" /\ UNCHANGED labels
        BY <1>3 DEF CreateBanner, UpdateBanner, CreateFaqTopic, Edit, SoftDelete, Reply, Writes
  <2> QED
      BY <2>1, <2>2, LabelsLeftAlone
<1> QED
    BY <1>1, <1>2, <1>3, DeletingKeepsLabels, CreatingKeepsLabels, AbortingKeepsLabels
       DEF ContentNext, Write

LEMMA LabelInvInit == ContentInit => LabelInv
<1> SUFFICES ASSUME ContentInit PROVE LabelInv
    OBVIOUS
<1>1. PICK i : i = NoTask /\ i.pc = "idle"
      BY AuditFields
<1>2. \A w \in Handlers, p \in Products, kind \in LabelKinds : ~InTransaction(w, p, kind)
      BY <1>1 DEF ContentInit, InTransaction
<1>3. \A p \in Products, kind \in LabelKinds : filed[p][kind] = {} /\ asked[p][kind] = {{}}
      BY DEF ContentInit
<1>4. asked \in [Products -> [LabelKinds -> SUBSET SUBSET (Labels["category"] \cup Labels["tag"])]]
      BY DEF ContentInit
<1> QED
    BY <1>2, <1>3, <1>4 DEF LabelInv

(* The categories and tags of a product are those of one request, never a   *)
(* mixture of two that overlap or half of one.                              *)
THEOREM LabelsAreOneRequests == ContentSpec => []LabelsOfOneRequest
<1>1. HomeInv /\ LabelInv /\ [ContentNext]_contentVars => LabelInv'
      BY LabelInvKept
<1>2. LabelInv => LabelsOfOneRequest
      BY DEF LabelInv, LabelsOfOneRequest
<1> QED
    BY HomeInvHolds, LabelInvInit, <1>1, <1>2, PTL DEF ContentSpec

----------------------------------------------------------------------------
(* One request at a time.                                                   *)

LEMMA CrewIsContent ==
    ASSUME CrewInv, CrewNext
    PROVE  ContentNext /\ crew' = crew
<1>1. crew \subseteq Handlers
      BY DEF CrewInv, Crews
<1> QED
    BY <1>1 DEF CrewNext, ContentNext

LEMMA AskingAlone ==
    ASSUME CrewInv, NEW w \in Handlers, crew = {w}, NEW s \in Stores,
           AskBanner(w, s) \/ AskTopic(w, s) \/ AskProfile(w, s) \/ AskLabels(w, s)
    PROVE  /\ UNCHANGED banner
           /\ \E j : task' = [task EXCEPT ![w] = j] /\ StillResolved(j)
<1>1. HomeInv /\ LinkFollowsType
      BY DEF CrewInv
<1>2. ASSUME NEW op, NEW r, NEW d, Start(w, op, s, r, d),
             op = "create banner" => Follows(d),
             op = "update banner" => Follows(ResolveNextBannerLinkValues(d, banner[r]))
      PROVE  /\ UNCHANGED banner
             /\ \E j : task' = [task EXCEPT ![w] = j] /\ StillResolved(j)
  <2>1. PICK j : j = Writing(op, s, r, d) /\ j.op = op /\ j.row = r /\ j.data = d
        BY WritingFields
  <2>2. StillResolved(j)
        BY <1>2, <2>1 DEF StillResolved
  <2>3. task' = [task EXCEPT ![w] = j] /\ UNCHANGED banner
        BY <1>2, <2>1 DEF Start, contents
  <2> QED
      BY <2>2, <2>3
<1>3. CASE \E input \in Inputs : SellerCreateBanner(w, s, input)
  <2>1. PICK l \in Links : Start(w, "create banner", s, Null, l) /\ Follows(l)
        BY <1>3, CreateChecks
  <2> QED
      BY <1>2, <2>1
<1>4. CASE \E input \in Inputs, b \in Banners : SellerUpdateBanner(w, s, b, input)
  <2>1. PICK input \in Inputs, b \in Banners : SellerUpdateBanner(w, s, b, input)
        BY <1>4
  <2>2. banner[b] \in Links /\ banner[b] # Null
    <3>1. FindBannerForStore(b, s)
          BY <2>1 DEF SellerUpdateBanner
    <3>2. banner[b] \in Links
          BY <1>1, <3>1, FoundIsOwn
    <3> QED
        BY <3>2, ContentConstants
  <2>3. Follows(banner[b])
        BY <1>1, <2>2 DEF LinkFollowsType, Follows
  <2>4. PICK d \in Changes : /\ Start(w, "update banner", s, b, d)
                             /\ Follows(ResolveNextBannerLinkValues(d, banner[b]))
        BY <2>1, <2>2, <2>3, UpdateChecks
  <2> QED
      BY <1>2, <2>4
<1>5. CASE \E b \in Banners : SellerDeleteBanner(w, s, b)
  <2>1. PICK b \in Banners : Start(w, "delete", s, b, Null)
        BY <1>5 DEF SellerDeleteBanner
  <2> QED
      BY <1>2, <2>1
<1>6. CASE AskTopic(w, s)
  <2>1. PICK op \in {"create topic", "edit", "delete"} : \E r, d : Start(w, op, s, r, d)
        BY <1>6 DEF AskTopic, SellerCreateFaqTopic, SellerUpdateFaqTopic, SellerDeleteFaqTopic
  <2>2. PICK r, d : Start(w, op, s, r, d)
        BY <2>1
  <2> QED
      BY <1>2, <2>1, <2>2
<1>7. CASE AskProfile(w, s)
  <2>1. PICK texts \in [Fields -> Texts \cup {Keep}] : Start(w, "edit", s, s, texts)
        BY <1>7 DEF AskProfile, SellerUpdateStoreBasicInfo
  <2> QED
      BY <1>2, <2>1
<1>8. CASE AskLabels(w, s)
  <2>1. PICK kind \in LabelKinds : \E r, d : Start(w, kind, s, r, d)
        BY <1>8 DEF AskLabels, SellerSetProductCategories, SellerSetProductTags,
                    SellerSetProductLabels, LabelKinds
  <2>2. PICK r, d : Start(w, kind, s, r, d)
        BY <2>1
  <2> QED
      BY <1>2, <2>1, <2>2 DEF LabelKinds
<1> QED
    BY <1>3, <1>4, <1>5, <1>6, <1>7, <1>8 DEF AskBanner

LEMMA WritingAlone ==
    ASSUME CrewInv, NEW w \in Handlers, crew = {w}, Write(w)
    PROVE  /\ LinkFollowsType'
           /\ \E j : task' = [task EXCEPT ![w] = j] /\ j.pc # "write"
<1>1. HomeInv /\ LinkFollowsType /\ StillResolved(task[w]) /\ ContentTypeOK
      BY DEF CrewInv, HomeInv
<1>2. PICK a : a = [NoTask EXCEPT !.pc = "audit"] /\ a.pc # "write"
      BY AuditFields
<1>3. PICK i : i = NoTask /\ i.pc # "write"
      BY AuditFields
<1>4. CASE CreateBanner(w)
  <2>1. PICK b \in Banners : banner' = [banner EXCEPT ![b] = task[w].data]
        BY <1>4 DEF CreateBanner
  <2>2. Follows(task[w].data)
        BY <1>1, <1>4 DEF CreateBanner, Writes, StillResolved
  <2>3. LinkFollowsType'
        BY <1>1, <2>1, <2>2 DEF LinkFollowsType, Follows, ContentTypeOK
  <2>4. task' = [task EXCEPT ![w] = a]
        BY <1>2, <1>4 DEF CreateBanner, Audit
  <2> QED
      BY <1>2, <2>3, <2>4
<1>5. CASE UpdateBanner(w)
  <2>1. PICK m : m = ResolveNextBannerLinkValues(task[w].data, banner[task[w].row])
        OBVIOUS
  <2>2. banner' = [banner EXCEPT ![task[w].row] = m]
        BY <1>5, <2>1 DEF UpdateBanner
  <2>3. Follows(m)
        BY <1>1, <1>5, <2>1 DEF UpdateBanner, Writes, StillResolved
  <2>4. LinkFollowsType'
        BY <1>1, <2>2, <2>3 DEF LinkFollowsType, Follows, ContentTypeOK
  <2>5. task' = [task EXCEPT ![w] = a]
        BY <1>2, <1>5 DEF UpdateBanner, Audit
  <2> QED
      BY <1>2, <2>4, <2>5
<1>6. CASE CreateFaqTopic(w) \/ Edit(w) \/ SoftDelete(w) \/ CreateLabels(w)
  <2>1. task' = [task EXCEPT ![w] = a] /\ UNCHANGED banner
        BY <1>2, <1>6 DEF CreateFaqTopic, Edit, SoftDelete, CreateLabels, Audit, contents
  <2> QED
      BY <1>1, <1>2, <2>1 DEF LinkFollowsType
<1>7. CASE Reply(w) \/ Abort(w)
  <2>1. task' = [task EXCEPT ![w] = i] /\ UNCHANGED banner
        BY <1>3, <1>7 DEF Reply, Abort, contents
  <2> QED
      BY <1>1, <1>3, <2>1 DEF LinkFollowsType
<1>8. CASE DeleteLabels(w)
  <2>1. PICK j : j = task[w] /\ Whole(j)
        BY <1>1 DEF HomeInv, Shapes, Whole
  <2>2. PICK t : t = [j EXCEPT !.pc = "swap", !.old = filed[j.row][j.op]]
        OBVIOUS
  <2>3. t.pc # "write"
        BY <2>1, <2>2 DEF Whole
  <2>4. task' = [task EXCEPT ![w] = t] /\ UNCHANGED banner
        BY <1>8, <2>1, <2>2 DEF DeleteLabels, contents
  <2> QED
      BY <1>1, <2>3, <2>4 DEF LinkFollowsType
<1> QED
    BY <1>4, <1>5, <1>6, <1>7, <1>8 DEF Write

LEMMA ContentCrewInvKept ==
    ASSUME CrewInv, CrewNext \/ UNCHANGED <<contentVars, crew>>
    PROVE  CrewInv'
<1>1. HomeInv' /\ crew' = crew /\ crew' \in Crews
  <2>1. ContentNext \/ UNCHANGED contentVars
        BY CrewIsContent
  <2> QED
      BY <2>1, CrewIsContent, HomeInvKept DEF CrewInv
<1>2. ASSUME NEW w \in Handlers, crew = {w}
      PROVE  /\ LinkFollowsType' /\ StillResolved(task[w])'
             /\ \A v \in Handlers \ {w} : task'[v].pc = "idle"
  <2>1. /\ HomeInv /\ LinkFollowsType /\ StillResolved(task[w])
        /\ \A v \in Handlers \ {w} : task[v].pc = "idle"
        BY <1>2 DEF CrewInv
  <2>2. CASE UNCHANGED <<banner, task>>
        BY <2>1, <2>2 DEF LinkFollowsType, StillResolved
  <2>3. CASE \E s \in Stores : AskBanner(w, s) \/ AskTopic(w, s) \/ AskProfile(w, s) \/ AskLabels(w, s)
    <3>1. UNCHANGED banner
          BY <1>2, <2>3, AskingAlone
    <3>2. PICK j : task' = [task EXCEPT ![w] = j] /\ StillResolved(j)
          BY <1>2, <2>3, AskingAlone
    <3>3. task'[w] = j /\ \A v \in Handlers \ {w} : task'[v] = task[v]
          BY <2>1, <3>2 DEF HomeInv, Shapes
    <3> QED
        BY <2>1, <3>1, <3>2, <3>3 DEF LinkFollowsType, StillResolved
  <2>4. CASE Write(w)
    <3>1. LinkFollowsType'
          BY <1>2, <2>4, WritingAlone
    <3>2. PICK j : task' = [task EXCEPT ![w] = j] /\ j.pc # "write"
          BY <1>2, <2>4, WritingAlone
    <3>3. task'[w] = j /\ \A v \in Handlers \ {w} : task'[v] = task[v]
          BY <2>1, <3>2 DEF HomeInv, Shapes
    <3> QED
        BY <2>1, <3>1, <3>2, <3>3 DEF StillResolved
  <2> QED
      BY <1>2, <2>2, <2>3, <2>4 DEF CrewNext, SoftDeleteProduct, contents, contentVars
<1> QED
    BY <1>1, <1>2 DEF CrewInv

LEMMA ContentCrewInvInit == CrewInit => CrewInv
<1> SUFFICES ASSUME CrewInit PROVE CrewInv
    OBVIOUS
<1>1. PICK i : i = NoTask /\ i.pc = "idle"
      BY AuditFields
<1>2. \A w \in Handlers : task[w] = i
      BY <1>1 DEF CrewInit, ContentInit
<1>3. LinkFollowsType /\ \A w \in Handlers : StillResolved(task[w])
      BY <1>1, <1>2 DEF CrewInit, ContentInit, LinkFollowsType, StillResolved
<1> QED
    BY <1>1, <1>2, <1>3, HomeInvInit DEF CrewInv, CrewInit

(* A store's seller who does one thing after the other keeps links whole:   *)
(* the column of the type is set, and no other.                             *)
THEOREM AloneLinksFollow == CrewSpec => []AloneLinkFollowsType
<1>1. CrewInv /\ [CrewNext]_<<contentVars, crew>> => CrewInv'
      BY ContentCrewInvKept
<1>2. CrewInv => AloneLinkFollowsType
      BY DEF CrewInv, AloneLinkFollowsType, OneAtATime
<1> QED
    BY ContentCrewInvInit, <1>1, <1>2, PTL DEF CrewSpec
=============================================================================
