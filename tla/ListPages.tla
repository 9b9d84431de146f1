------------------------------- MODULE ListPages -------------------------------
(***************************************************************************)
(* Reading a list page by page while its rows change.                      *)
(*                                                                         *)
(* All lists of the API are read in one of two ways.  With a cursor the    *)
(* next page holds the rows beyond the last one shown: beyond its id, or   *)
(* beyond its number of likes and id.  With an offset it leaves out as     *)
(* many rows as have been asked for.  One reader walks through one list,   *)
(* and between any two statements rows are written by others.              *)
(***************************************************************************)
EXTENDS Integers, Sequences, FiniteSets, Functions

CONSTANTS
  Ids,          \* bound: primary keys
  Asked,        \* bound: what a client may send as the limit
  MaxLimit,     \* MAX of the limit
  MaxStamp,     \* bound: points in time
  MaxLikes,     \* bound: likes of a review
  MaxWrites,    \* bound: writes during a walk
  MaxShown,     \* bound: rows shown to a reader, more than any walk gets to see
  None          \* null

ASSUME ListConstants ==
  /\ Ids \subseteq Nat \ {0} /\ IsFiniteSet(Ids)
  /\ Asked \subseteq Nat
  /\ MaxLimit \in Nat \ {0}
  /\ MaxStamp \in Nat \ {0}
  /\ MaxLikes \in Nat /\ MaxWrites \in Nat /\ MaxShown \in Nat
  /\ None \notin [id : Ids, likes : 0 .. MaxLikes]

VARIABLES
  list,         \* the list that is read
  limit,        \* rows of a page
  row,          \* id -> its row
  walk,         \* the reader: its cursor or offset, the page fetched, the rows shown
  clock,        \* the time
  steady,       \* history: rows in the list, at their place, since the walk began
  fallen,       \* history: rows that lost a like since they were last fetched
  seen,         \* history: whether rows came into the list and went from it
  writes        \* how many writes there were

rows == <<row, clock, steady, fallen, seen, writes>>
vars == <<list, limit, rows, walk>>

----------------------------------------------------------------------------
(* The lists: the order of their rows, what the next page is cut by, whether *)
(* rows of one stamp have an order, whether the rows are read again after   *)
(* their ids, and what the code does to their rows: they are created,        *)
(* deleted, restored, and leave or join those the filter of the list names.  *)

ById(w) == [order |-> "id", cut |-> "id", rises |-> FALSE, ties |-> FALSE, fills |-> FALSE, writes |-> w]
ByLikes(w) == [ById(w) EXCEPT !.order = "likes", !.cut = "likes", !.fills = TRUE]
ByOffset(w) == [ById(w) EXCEPT !.order = "stamp", !.cut = "offset"]

ListBannersByStore == ById({"insert", "delete", "leave", "join"})
ListStoreSpecialClosures == ById({"insert", "delete", "restore"})
ListStoreDailyCapacities == ById({"insert", "delete", "restore", "leave", "join"})
ListAuditLogsBySeller == ById({"insert"})
ListProductsByStore == ById({"insert", "delete", "leave", "join"})
ListOrdersByStore == ById({"insert", "leave", "join"})
ListConversationMessages == ById({"insert"})
ListActiveProductsByStore == ById({"insert", "delete", "leave", "join"})
ListProductReviewIdsLatest ==
  [ById({"insert", "delete", "restore", "leave", "join"}) EXCEPT !.fills = TRUE]
ListStoreReviewIdsLatest ==
  [ById({"insert", "delete", "restore", "leave", "join"}) EXCEPT !.fills = TRUE]
ListReviewComments == [ById({"insert", "delete"}) EXCEPT !.rises = TRUE]

ListProductReviewIdsByLikes == ByLikes({"insert", "delete", "restore", "leave", "join"})
ListStoreReviewIdsByLikes == ByLikes({"insert", "delete", "restore", "leave", "join"})

\* By the last message, but cut by id.
ListConversationsByStore == [ById({"insert"}) EXCEPT !.order = "stamp"]

\* Of those with an offset only two order rows of the same time.  A reviewable item
\* leaves when its review is written or its order deleted, joins when the review is
\* deleted, and comes in when its order is picked up.
ListReviewableOrderItems == ByOffset({"leave", "join"})
FindWishlistItems == ByOffset({"leave", "join"})
ListNotifications == [ByOffset({"insert"}) EXCEPT !.ties = TRUE]
ListSearchHistories == [ByOffset({}) EXCEPT !.ties = TRUE]
FindRecentByAccountPaginated == [ByOffset({"delete", "leave", "join"}) EXCEPT !.ties = TRUE]
FindOrdersByAccount == [ByOffset({"insert", "leave", "join"}) EXCEPT !.ties = TRUE]
ListMyReviews == [ByOffset({"insert", "delete", "restore"}) EXCEPT !.ties = TRUE]

Lists ==
  {ListBannersByStore, ListStoreSpecialClosures, ListStoreDailyCapacities, ListAuditLogsBySeller,
   ListProductsByStore, ListOrdersByStore, ListConversationMessages, ListActiveProductsByStore,
   ListProductReviewIdsLatest, ListStoreReviewIdsLatest, ListReviewComments,
   ListProductReviewIdsByLikes, ListStoreReviewIdsByLikes, ListConversationsByStore,
   ListReviewableOrderItems, FindWishlistItems, ListNotifications, ListSearchHistories,
   FindRecentByAccountPaginated, FindOrdersByAccount, ListMyReviews}

----------------------------------------------------------------------------
(* Reading a page.                                                          *)

\* mutated form
NormalizeLimitAsAsked(l) == l

NormalizeLimit(l) == IF l < 1 THEN 1 ELSE IF l > MaxLimit THEN MaxLimit ELSE l

Visible(t) == {i \in Ids : t[i].state = "live" /\ t[i].fits}

\* Whether i is listed before j; rows of one time may come either way round.
Precedes(tie, i, j) ==
  CASE list.order = "id" -> IF list.rises THEN i < j ELSE i > j
    [] list.order = "likes" -> \/ row[i].likes > row[j].likes
                               \/ row[i].likes = row[j].likes /\ i > j
    [] list.order = "stamp" -> \/ row[i].stamp > row[j].stamp
                               \/ row[i].stamp = row[j].stamp /\ (IF tie THEN i < j ELSE i > j)

\* The rows of S in that order.
Sortings(S, tie) ==
  {q \in [1 .. Cardinality(S) -> S] : \A m, n \in DOMAIN q : m < n => Precedes(tie, q[m], q[n])}

\* mutated form
BeyondOrAt(c, i) ==
  \/ list.cut = "offset" \/ c = None
  \/ list.cut = "id" /\ (IF list.rises THEN i >= c.id ELSE i <= c.id)
  \/ list.cut = "likes" /\ (row[i].likes < c.likes \/ (row[i].likes = c.likes /\ i <= c.id))

\* mutated form
BeyondIfLiked(c, i) ==
  \/ list.cut = "offset" \/ c = None
  \/ list.cut = "id" /\ (IF list.rises THEN i > c.id ELSE i < c.id)
  \/ list.cut = "likes" /\ (c.likes = 0 \/ row[i].likes < c.likes \/ (row[i].likes = c.likes /\ i < c.id))

Beyond(c, i) ==
  \/ list.cut = "offset" \/ c = None
  \/ list.cut = "id" /\ (IF list.rises THEN i > c.id ELSE i < c.id)
  \/ list.cut = "likes" /\ (row[i].likes < c.likes \/ (row[i].likes = c.likes /\ i < c.id))

Take(s, n) == SubSeq(s, 1, IF n < Len(s) THEN n ELSE Len(s))
Skip(s, n) == SubSeq(s, n + 1, Len(s))

\* mutated form
NextCursorOfExtra(s) ==
  IF Len(s) <= limit THEN None ELSE [id |-> s[limit + 1], likes |-> row[s[limit + 1]].likes]

\* There is a next page if one row more than asked for was found: the page ends
\* before it, and the cursor is its last row.
NextCursorOf(s) ==
  IF Len(s) <= limit THEN None ELSE [id |-> s[limit], likes |-> row[s[limit]].likes]

\* mutated form
HasMoreButOne(s) == Len(s) > limit + 1

\* offset + limit < totalCount, counted in the same transaction; or one row more
\* than asked for.  s: the rows from the offset on.
HasMore(s) == Len(s) > limit

\* A page of items, shown at once, or of ids whose rows are read next.
Got(page, cursor, more) ==
  /\ Len(walk.shown) < MaxShown
  /\ walk' = [walk EXCEPT
       !.pc = IF list.fills THEN "fill" ELSE IF more THEN "ask" ELSE "done",
       !.cursor = cursor, !.offset = @ + limit, !.page = page, !.more = more,
       !.shown = IF list.fills THEN @ ELSE @ \o page]

FetchByCursor ==
  /\ walk.pc = "ask" /\ list.cut # "offset"
  /\ \E tie \in {FALSE, list.ties} :
     \E q \in Sortings({i \in Visible(row) : Beyond(walk.cursor, i)}, tie) :
       LET s == Take(q, limit + 1) IN
       /\ Got(Take(s, limit), NextCursorOf(s), Len(s) > limit)
       /\ fallen' = fallen \ Range(Take(s, limit))
  /\ UNCHANGED <<list, limit, row, clock, steady, seen, writes>>

FetchByOffset ==
  /\ walk.pc = "ask" /\ list.cut = "offset"
  /\ \E tie \in {FALSE, list.ties} : \E q \in Sortings(Visible(row), tie) :
       LET s == Skip(q, walk.offset) IN
       Got(Take(s, limit), None, HasMore(s))
  /\ UNCHANGED <<list, limit, rows>>

\* The numbers of N, ascending.
Ascending(N) ==
  {f \in [1 .. Cardinality(N) -> N] : \A m, n \in DOMAIN f : m < n => f[m] < f[n]}

\* Of the reviews of a page those not deleted, in the order of the page; whether the
\* filter of the list still names them is not asked again.
FindReviewRowsByIds(page) ==
  {[m \in DOMAIN f |-> page[f[m]]] :
     f \in Ascending({k \in DOMAIN page : row[page[k]].state = "live"})}

\* Rows deleted since the ids were read are skipped.
HydrateReviews ==
  /\ walk.pc = "fill"
  /\ \E found \in FindReviewRowsByIds(walk.page) :
       walk' = [walk EXCEPT !.pc = IF walk.more THEN "ask" ELSE "done",
                            !.shown = @ \o found]
  /\ UNCHANGED <<list, limit, rows>>

Read == FetchByCursor \/ FetchByOffset \/ HydrateReviews

----------------------------------------------------------------------------
(* Writes by others.                                                        *)

\* Rows S become as in t; they are no longer where they were.
Change(S, t) ==
  /\ walk.pc # "done"
  /\ writes < MaxWrites /\ writes' = writes + 1
  /\ row' = t
  /\ steady' = steady \ S
  /\ LET moved == {i \in S : t[i].stamp # row[i].stamp /\ row[i].state # "none"} IN
     seen' = seen \cup (IF moved \cup (Visible(t) \ Visible(row)) # {} THEN {"came"} ELSE {})
                  \cup (IF moved \cup (Visible(row) \ Visible(t)) # {} THEN {"went"} ELSE {})
  /\ UNCHANGED <<list, limit, walk, clock>>

Write(i, r) == r # row[i] /\ Change({i}, [row EXCEPT ![i] = r]) /\ UNCHANGED fallen

\* Rows become visible when their transaction commits, so not by ascending id.
Create(i) ==
  /\ row[i].state = "none"
  /\ Write(i, [state |-> "live", fits |-> TRUE, stamp |-> clock, likes |-> 0])

SoftDelete(i) == row[i].state = "live" /\ Write(i, [row[i] EXCEPT !.state = "gone"])

Restore(i) == row[i].state = "gone" /\ Write(i, [row[i] EXCEPT !.state = "live"])

Leave(i) == row[i].state = "live" /\ Write(i, [row[i] EXCEPT !.fits = FALSE])

Join(i) == row[i].state = "live" /\ Write(i, [row[i] EXCEPT !.fits = TRUE])

\* With the time the request came in, before its transaction; what was deleted is
\* live again.
Touch(i) ==
  /\ row[i].state # "none"
  /\ \E t \in {clock - 1, clock} \cap (0 .. MaxStamp) :
       Write(i, [row[i] EXCEPT !.state = "live", !.stamp = t])

LikeReview(i) ==
  /\ list.order = "likes"
  /\ row[i].state = "live" /\ row[i].likes < MaxLikes
  /\ Write(i, [row[i] EXCEPT !.likes = @ + 1])

UnlikeReview(i) ==
  /\ list.order = "likes"
  /\ row[i].likes > 0
  /\ Change({i}, [row EXCEPT ![i].likes = @ - 1])
  /\ fallen' = fallen \cup {i}

\* The message and the conversation, which moves up with it, in one transaction.
CreateSellerConversationMessage(i) == Touch(i)

\* Of a conversation of the seller's store; what is said is abstracted.
SellerSendConversationMessage(i) ==
  /\ list = ListConversationsByStore
  /\ row[i].state = "live"
  /\ CreateSellerConversationMessage(i)

\* A product viewed again moves up.
UpsertView(i) == list = FindRecentByAccountPaginated /\ (Create(i) \/ Touch(i))

\* Put back on the list an item keeps the time it was first put there.
UpsertWishlistItem(i) == list = FindWishlistItems /\ (Create(i) \/ Restore(i))

SoftDeleteWishlistItem(i) == list = FindWishlistItems /\ SoftDelete(i)

\* Of the unread notifications.
MarkNotificationRead(i) == list = ListNotifications /\ Leave(i)

\* Rows S, all at once, become as in t.
All(S, t) ==
  /\ S # {}
  /\ Change(S, [i \in Ids |-> IF i \in S THEN t[i] ELSE row[i]])
  /\ UNCHANGED fallen

\* The items of an order that is picked up come into the list, with the time the
\* seller's request came in.
PickUp(S) ==
  /\ list = ListReviewableOrderItems
  /\ \A i \in S : row[i].state = "none"
  /\ \E t \in {clock - 1, clock} \cap (0 .. MaxStamp) :
       All(S, [i \in Ids |-> [state |-> "live", fits |-> TRUE, stamp |-> t, likes |-> 0]])

MarkAllNotificationsRead ==
  /\ list = ListNotifications
  /\ All(Visible(row), [i \in Ids |-> [row[i] EXCEPT !.fits = FALSE]])

DeleteSearchHistory(i) == list = ListSearchHistories /\ SoftDelete(i)

ClearSearchHistories ==
  /\ list = ListSearchHistories
  /\ All(Visible(row), [i \in Ids |-> [row[i] EXCEPT !.state = "gone"]])

Tick ==
  /\ walk.pc # "done" /\ list.order = "stamp"
  /\ clock < MaxStamp /\ clock' = clock + 1
  /\ UNCHANGED <<list, limit, row, walk, steady, fallen, seen, writes>>

WriteRow(i) ==
  \/ "insert" \in list.writes /\ Create(i)
  \/ "delete" \in list.writes /\ SoftDelete(i)
  \/ "restore" \in list.writes /\ Restore(i)
  \/ "leave" \in list.writes /\ Leave(i)
  \/ "join" \in list.writes /\ Join(i)
  \/ LikeReview(i) \/ UnlikeReview(i)
  \/ SellerSendConversationMessage(i)
  \/ UpsertView(i)
  \/ UpsertWishlistItem(i) \/ SoftDeleteWishlistItem(i)
  \/ MarkNotificationRead(i)
  \/ DeleteSearchHistory(i)

----------------------------------------------------------------------------

Row == [state : {"none", "live", "gone"}, fits : BOOLEAN, stamp : 0 .. MaxStamp, likes : 0 .. MaxLikes]

\* Only a list that is sorted by them tells stamps or likes apart, and only where
\* rows join are there any to begin with that do not fit.
Init ==
  /\ list \in Lists
  /\ limit \in {NormalizeLimit(l) : l \in Asked}
  /\ row \in [Ids -> {r \in Row : /\ r.state # "gone"
                                  /\ r.fits \/ (r.state = "live" /\ "join" \in list.writes)
                                  /\ r.stamp > 0 => list.order = "stamp" /\ r.stamp = 1
                                  /\ r.likes > 0 => list.order = "likes"
                                  /\ r.state = "none" => r.stamp = 0 /\ r.likes = 0}]
  /\ walk = [pc |-> "ask", cursor |-> None, offset |-> 0, page |-> <<>>, more |-> TRUE, shown |-> <<>>]
  /\ clock = 1
  /\ steady = Visible(row)
  /\ fallen = {}
  /\ seen = {}
  /\ writes = 0

Next ==
  \/ Read
  \/ \E i \in Ids : WriteRow(i)
  \/ \E S \in SUBSET Ids : PickUp(S)
  \/ MarkAllNotificationsRead \/ ClearSearchHistories
  \/ Tick

Spec == Init /\ [][Next]_vars

\* The reader asks for the next page as long as there is one; each request ends.
FairSpec == Spec /\ WF_vars(Read)

----------------------------------------------------------------------------
(* Properties.                                                              *)

Cursors == [id : Ids, likes : 0 .. MaxLikes]

\* The list, its rows and the walk have their types, and what is said to be at its
\* place is in the list.
TypeOK ==
  /\ list \in Lists
  /\ limit \in 1 .. MaxLimit
  /\ row \in [Ids -> Row]
  /\ walk \in [pc : {"ask", "fill", "done"}, cursor : Cursors \cup {None}, offset : Nat,
              page : Seq(Ids), more : BOOLEAN, shown : Seq(Ids)]
  /\ Len(walk.page) <= limit
  /\ clock \in 1 .. MaxStamp
  /\ steady \subseteq Visible(row)
  /\ fallen \subseteq Ids /\ seen \subseteq {"came", "went"}
  /\ writes \in 0 .. MaxWrites

Times(i) == Cardinality({k \in DOMAIN walk.shown : walk.shown[k] = i})

CutByOrder == list.order = list.cut

\* With a cursor that is the order of the list, a row that is in it at its place
\* all the time is shown exactly once, whatever happens to the others.
SteadyShownOnce ==
  CutByOrder => \A i \in steady : /\ Times(i) <= 1
                                  /\ walk.pc = "done" => Times(i) = 1

\* In such a list a row is fetched again only if it has lost a like since.
AgainOnlyFallen ==
  [][CutByOrder /\ walk.pc = "ask" /\ walk' # walk =>
       \A k \in DOMAIN walk'.page : Times(walk'.page[k]) > 0 => walk'.page[k] \in fallen]_vars

\* Rows of one time are in no order that the database keeps from page to page.
NoTies ==
  list.ties => \A i, j \in Ids : i # j /\ row[i].stamp = row[j].stamp =>
                                   row[i].state = "none" \/ row[j].state = "none"

\* With an offset, a list that only grows is shown without a gap, and one that
\* only shrinks is shown without a repetition.
OffsetGapsAndRepeats ==
  list.cut = "offset" /\ NoTies =>
    /\ "went" \notin seen /\ walk.pc = "done" => \A i \in steady : Times(i) >= 1
    /\ "came" \notin seen => \A i \in Ids : Times(i) <= 1

\* The conversations are cut as they are sorted only while a later one has the
\* later message.
SortedAsCut ==
  list.cut = "id" /\ list.order = "stamp" =>
    \A i, j \in Visible(row) : i > j => row[i].stamp >= row[j].stamp

\* Of a list nothing happens to, the pages put together are the list.
RestWhole ==
  walk.pc = "done" /\ writes = 0 /\ NoTies /\ SortedAsCut =>
    walk.shown \in Sortings(Visible(row), FALSE)

\* Whatever is written meanwhile, the reader gets to a last page.
EveryWalkEnds == <>(walk.pc = "done")
=============================================================================
