# CaQuick backend: verification project

CaQuick is the server of an order platform for custom cakes: NestJS 11, GraphQL (Apollo) and a few
REST routes, Prisma 6 over MySQL 8. Customers sign in through Google or Kakao (OIDC), browse stores
and cakes, and review what they picked up; sellers sign in with a password and keep their store,
calendar, products and orders. The server keeps no state of its own worth the name (one map of OIDC
clients): everything is in MySQL, and every hard question is about what several requests, each a
series of statements, do to the same rows.

This directory holds TLA+ modules of that behaviour, the configurations with which TLC checks them,
and TLAPS proofs. Paths below are relative to the repository's `src/` unless they name a file here.

1. [The system](#1-the-system)
2. [How requests are modelled](#2-how-requests-are-modelled)
3. [Modules](#3-modules)
4. [Runs](#4-runs)
5. [Proofs](#5-proofs)
6. [What the models show that the repository does not say](#6-what-the-models-show-that-the-repository-does-not-say)
7. [What is not modelled](#7-what-is-not-modelled)
8. [Plan](#8-plan)

## 1. The system

| Component | State | Operations | Talks to | Module |
|---|---|---|---|---|
| Order status (`features/order`, `seller-order.service`) | `order` (status, stage timestamps), `order_status_history`, `notification`, `audit_log` | a seller moves an order to CONFIRMED, MADE, PICKED_UP, CANCELED | notifications (created in the same transaction), reviews (PICKED_UP is what allows one), pick-up calendar (orders count against capacities) | `OrderStatus` |
| OIDC login (`oidc-login.service`, `oidc-client.service`, `auth.controller`) | four temporary cookies; a cache of provider clients | start, callback | the provider, accounts, sessions | `OidcLogin` |
| Sessions (`features/auth`: token, seller-credential, refresh-session) | `auth_refresh_session`, `seller_credential`; cookies and access tokens at the clients | login, refresh (rotation), logout, seller password change, withdrawal | accounts (every guard reads the account) | `RefreshSessions` |
| Accounts (`account.repository`, `user.repository`, `user-profile.service`) | `account`, `account_identity`, `user_profile` | OIDC sign-up and sign-in, onboarding, profile update, withdrawal, re-joining | sessions (withdrawal revokes them) | `AccountLifecycle` |
| Reviews (`user-review.service`, `review.repository`, likes and comments in `user.repository`) | `review`, `review_media`, `review_comment`, `review_like` | write (or restore), delete, like, unlike, comment, delete comment; what each page offers | notifications (the author is told of a like), orders | `Reviews` |
| Pick-up schedule (`store-pickup-schedule`, `pickup-slot`, `store-today-pickup`, `seller-store-hours`, `seller-store-policy`) | opening hours, closures, daily capacities, policy columns | calendar, time slots, today's stores (reads); upsert and delete by the seller | orders (read) | `PickupSchedule` |
| Recently viewed products (`recent-product-view.repository`) | `recent_product_view` | record (and trim), delete, clear | products (read) | `RecentViews` |
| Product catalogue of a seller (`seller-product-*`, `seller-option`, `seller-custom-template`, `product.repository`) | products, images, option groups and items, custom templates, text tokens | create, update, switch, delete, re-order | audit log | `ProductCatalog` |
| Seller content (`seller-banner`, `seller-faq`, `seller-store-profile`, `seller-product-taxonomy`) | banners, FAQ topics, the store's profile, `product_category`, `product_tag` | create, update, delete, replace | products, stores (a banner links to one) | `SellerContent` |
| Storefront (`product-home`, `product-detail`, `product-storefront`, `store-listing`, `store-detail`, wish lists) | `wishlist_item`, `store_wishlist_item`; reads of everything a seller keeps | home banner, random cakes, showcase, rankings, product and store pages, sidebar, wish, unwish, viewed products | catalogue, content, orders, reviews | `Storefront` |
| Lists (`product-review`, `store-review`, `seller-*`, `user-*` services and their repositories) | notifications, search history, conversations, and the rows of the others | pages by cursor or offset; read off, delete, clear; the seller's message | everyone who writes those rows | `ListPages` |
| Around them | `prisma/soft-delete.middleware`, audit log, regions, S3 upload addresses, guards, filters, logging, configuration, seed, deployment | | | none |

Where it is hard:

* **Check, then write.** Services read and decide; repositories write by id in a later statement or
  transaction. Nothing sets an isolation level, so MySQL's REPEATABLE READ holds: a transaction's
  plain reads come from a snapshot taken at its first read, its writes see and lock the newest row.
  Only one place locks what it read (`createReviewComment`, `FOR SHARE`).
* **Half done.** Most seller mutations write the row and its audit row in two statements outside a
  transaction; recording a view is four statements; a password change is three.
* **Soft deletion.** Rows are hidden, not removed. The Prisma extension that hides them sees only
  the top level of a query, and the UNIQUE indexes do not see deletion at all: a name, a date or a
  key of a deleted row stays taken.
* **Two codes for one answer.** Whether a day can be chosen is decided by three functions on
  different queries, with a clock that moves on in between.
* **Two queries for one page.** Which rows a list shows and what it says of them are read one after
  the other; a list, its count, the page it leads to and the write behind its button each have
  their own condition over the same rows.
* **Cookies as memory.** What a login needs to remember travels in cookies that all tabs of a
  browser share, and the map of provider clients is gone after a restart.
* **Long sequences.** Withdraw, come back, withdraw again; delete a review, write it anew; like,
  unlike, like; delete a closure and create it again.

What makes each modelled component correct is said with its module in section 3. `PROJECT.json`
lists every component, with its sources and its status, and the hazards at their lines.

## 2. How requests are modelled

All modules share one idiom. `Workers` are slots for requests in flight; a request is the record
`job[w]` (`req[w]` in `OrderStatus`) with a program counter. In `RefreshSessions` the slots are
`Handlers` and the record is `request[w]`, and in `SellerContent` `Handlers` and `task[w]`, so that
one module can hold the proofs of two components. A step is what the database makes
atomic:

* a service's reads and checks up to the first write are one step (a single snapshot is a fair
  picture of them: the other requests' writes fall before or after it; what was decided on it may
  be stale by the next step, which is the point),
* a single statement, or a transaction that only writes, is one step,
* a transaction that reads and then writes what it decided is two: the snapshot read, and the
  writes with the commit (from the first UPDATE the row is locked until the commit),
* an INSERT that a UNIQUE index refuses ends the request and undoes its transaction,
* `Fail(w)` (`RequestDies` in `RefreshSessions`) drops a request between any two steps: a crash, a lost connection, a statement that
  errors. What was committed stays, an open transaction leaves nothing.

A check that fails throws and changes nothing, so it is a guard. Ids, tokens, names and texts are
model values or small numbers; times are instants of a small set. Bounds that only keep the model
finite are constants that say "bound" where they are declared.

**Alone and together.** Some promises hold for every overlap of requests; others are kept only
while requests come one after the other, as the code that checks them does not lock. A variable
`crew`, fixed in the initial state, therefore names the workers that serve requests: one of them, or
all at once. `CatalogCrews`, `ContentCrews` and `PickupCrews` add it to the catalogue, the seller's
content and the pick-up schedule, so that the properties can be proved as well as checked; the other
MC modules add it themselves. A property called `Alone...` is claimed for crews of one, where
crashes and arbitrary sequences of requests still happen. One without the prefix is claimed for
both.

**Fairness.** Nothing in the code retries or polls, and a request may always die, so most
specifications are `Init /\ [][Next]_vars` and claim no liveness. Two have a `FairSpec`:

* `OidcLogin`: `WF_vars(Progress(w))`, as the event loop runs every request on until it answers or
  fails (discovery, the provider and the database answer or raise; a raise is `Fail`), and
  `SF_vars(FollowRedirect(l))`: a browser that the provider sends back follows the redirect by
  itself. Strong fairness stands for the fact that the server takes any number of requests, where
  the model has two slots that others may take again and again.
* `ListPages`: `WF_vars(Read)`: a reader who has been told there is more asks for it, and the
  request is answered. Nothing is assumed of the writers.

TLC's deadlock check is off (`CHECK_DEADLOCK FALSE`) since every model stops where a bound is
reached (ids used up, the last instant, the walk over) and the system itself may rest at any time.

## 3. Modules

### OrderPolicy, OrderLifecycle, OrderStatus

`OrderPolicy` has the statuses and `LegalTransition`, which is
`OrderStatusTransitionPolicy.assertSellerTransition`. `OrderLifecycle` is the abstract
specification: an order has a status and the set of statuses it has had, and moves. It comes in two
strengths: `StrictSpec`, a move legal from the current status (what the policy's tests describe),
and `Spec`, a move legal from some status the order has had.

`OrderStatus` is `sellerUpdateOrderStatus` with its transaction. `Check` is the service
(`requireSellerContext`, the order of this store, the policy, the cancellation note); `TxRead` the
transaction's `findFirst`, whose status becomes `from_status`; `TxCommit` the update of status and
stage timestamp, the history row, the notification (none for a cancellation) and the audit row.
The transaction does not check the transition again, so two sellers of one order, or two tabs, can
overtake each other. Correct means: the row, the timestamps, the history and the audit tell one
story (`TrailAgrees`), the customer hears of every stage once and in order
(`CustomerToldOfEveryStage`), no stage is skipped (`NoStageSkipped`), a final order with nothing in
flight stays final (`SettledForGood`), and the code implements the abstract lifecycle
(`PolicyHoldsFromSomePast`, `Lifecycle!Spec` under `visited <- Visited`).

### RefreshSessions

`TokenService`, `AuthService`, `SellerCredentialService`, the session part of
`softDeleteAccount`, and `JwtBearerStrategy.validate` as the guard `Authenticates`. A token is
identified with the row its hash finds. `SellerLogin`/`OidcLogin` then `IssueTokens`;
`FindForRotation` then `RotateTx` (insert the new row, revoke and link the old one by id, without
looking again) then `Respond` (the cookie reaches the client, even from `refreshSeller` to a
non-seller); `FindForLogout` then `Revoke`; `VerifyPassword`, `UpdateHash`, `RevokeAll`;
`AskWithdrawal` then `WithdrawTx`; `Expire` lets any session expire. Three history variables
(`cred`, `rotatedFrom`, `cut`) remember which password a session rests on, its parent, and the last
change that revoked. Correct means `RotationLinks`, `WithdrawnStaysOut`, `OldPasswordStaysOut` for
every overlap; alone also that every rotated session is the one its parent names and that a
password change leaves no older session.

### AccountLifecycle

An account, its profile and its identity are created together and stay together, so they are
columns of one id. `FindIdentity` is the lookup in `upsertUserByOidcIdentity`'s transaction and
branches as it does: an identity of a live account (`SignIn` = `updateExistingIdentity`), of a
withdrawn one or none (`SignUp` = `retireWithdrawnIdentity` if needed, then `createNewIdentity`
with the nickname built from the new id). `AskOnboarding`/`AskUpdate`, `CheckNickname`
(`isNicknameTaken`, which does not see deleted profiles), `OnboardTx`, `UpdateTx`, `WithdrawTx`.
Both UNIQUE indexes count deleted rows. Initial states are an empty database and one with an
account withdrawn before identities were retired (the state the last two migrations speak of).
Correct means: a live account has an identity nobody else has and a withdrawn one has none
(`IdentityFollowsAccount`); all sign-ins of one identity end in one live account
(`OneHomePerSubject`), never in a withdrawn one (`NeverLandsOnWithdrawn`); a withdrawn account with
nothing in flight is left alone (`WithdrawnStaysGone`); alone, withdrawal anonymises and signing in
only fills blanks.

### OidcLogin

`AuthController.start` and `callback` with `OidcLoginService`, `OidcClientService` and the temporary
cookies. A login is the fresh triple of state, nonce and code verifier its start drew. `Start` is the
route up to its first await, `Discover` is `getClient` without a cached client,
`BuildAuthorizationUrl` draws the triple, `Redirect` is the response that writes all four cookies
over whatever a browser had. `Callback` takes the cookies of the request (`extractOidcTempCookies`),
`Exchange` or `ExchangeRefused` is `exchangeCode` with the checks of the library, `UpsertAccount`
stands for the transaction `AccountLifecycle` has the inside of, `IssueAuthTokens` for the session
`RefreshSessions` goes on with, `Land` for the response that clears all four cookies. External are the
person at the provider (`Grant`, `Decline`), cookies that expire (`Forget`), and addresses opened
twice or in another browser (`Callback` of any granted login in any browser). `Restart` empties the
client map and drops requests. Correct means: a session belongs to the browser and the person of
one login, once (`OwnLoginOnly`); who lands, lands where that login asked for
(`LandsWhereStarted`); and a granted login that lost neither request nor cookie ends in a landing
(`CodeLeadsToSession`), for which `harmed` remembers the logins that did lose one.

### Reviews

One review row per order item for ever (`order_item_id` is UNIQUE, deletion is soft), so the row is
named by its item. `CheckReview` decides between `CreateReview` and `RestoreReview` before the
transaction; `DeleteReview` takes media and comments along; `FindLike` then `Like` or `Relike`,
`FindReviewToUnlike` then `Unlike`; `LockReview` (`FOR SHARE`) then `Comment`, during which
`Unlocked` keeps the review from being deleted or restored; `FindMyComment` then `Uncomment`.
`Toggle` stands for the seller (de)activating product or store, which hides a review from
commenters, and `DeleteOrder` for an operator who deletes an order on the database (`gone`; no code
does). `GetMyOrder`, `FindReviewableOrderIds`, `ListReviewableOrderItems`, `ListMyReviews` and
`MyReviewForOrderItem` are what five pages say of an item. Items belong to orders, and which query
looks at the order's `deleted_at` is part of each: queries of orders have the extension do it,
`listReviewableOrderItems` has its own guard, and `findReviewableOrderIds`, `findOrderItemForReview`
and the write have none. Correct means: nothing of an old review
comes back with a rewritten one, neither comments nor pictures (`NothingOldComesBack`); the author
hears of a liker exactly once (`ToldOncePerLiker`); a text that can be seen is replaced only by a
request admitted before it was written (`OverwrittenOnlyByOverlap`; the history field `since` of a
request is the number of writes at its check); and every page of a live order offers
to write exactly the reviews `CheckReview` would take at that moment, while of a deleted order the
tab, the order and the order list are silent and the others take its items still (`OffersAgree`,
section 6).

### PickupSlots, PickupSchedule, PickupCrews

`PickupSlots` is the arithmetic: a day's hours cut into slots, the cutoff with its rounding of
begun minutes, and the fixed schedule of the home page (`pickup-slot.service`). `PickupSchedule`
holds the tables, the clock, and the seller's requests. `DayReason` is `evaluateDay`, `OpenSlots`
is `storePickupTimeSlots`, `ListedToday` is what `todayPickupStores` computes from other queries.
`UpsertHours` keeps the code's comparison of date-times although only times are stored.
`AskCreate`, `AskUpdate` and `AskDelete` are the lookups of an upsert or delete, `CreateRow` the repository's
upsert on the date (which brings a deleted row back), `UpdateRow` and `DeleteRow` the writes by id,
`Reply` the audit row and the answer. `told` remembers what the seller was last told of each day,
and `Unknown` after an error. Orders (`Book`) and time (`Tick`) move on their own. Correct means:
calendar, time slots, today's list and the home page agree (`ViewsAgree`), lead times are kept to
the second (`LeadTimeKept`), time frees no slot (`TimeOnlyCloses`, proved), and alone the rows are
what the seller was told (`AloneRowsAsTold`).

### RecentViews

`Record`, `Upsert`, `TrimRead`, `TrimDelete` are the four calls of recording a view, `DeleteOne`
and `ClearAll` the mutations, `SetActive` the seller, `TimePasses` the clock. Rows of the same time may be trimmed in any
order, as the query leaves it open. Correct means: whenever all is quiet, at most
`MAX_RECENT_VIEWS` views are left unless a request failed before cleaning up (`AtMostMax`); alone,
a clean-up drops the oldest.

### ProductCatalog, CatalogCrews

Five tables kept alike: rows hang under a parent (`owner`), and have `live`, `active`, `rank` and
`data` (the prices of a product, the range of choices of an option group, the key of a text
token). Each operation of the four services has a definition of its own name (`SellerUpdateProduct`,
`SellerDeleteProductImage`, ...) with its lookups and checks; what it has decided to do is a request record,
which one of `Create`, `CreateProduct`, `Update`, `Delete`, `Order`, `WriteTemplate` carries out,
and `Reply` audits. A product and its first image are two statements (`CreateProduct`,
`FirstImage`, or `RefuseFirstImage` where the address turns out bad). `Keep` is a field the input
leaves out, and `Given`/`Merged` what the code puts in its place. `ReplyRows` are the children a
write's reply includes, deleted ones too. Correct means: a deleted row stays deleted
(`GoneStaysGone`); alone, prices and ranges are in order (`AloneDataSane`), the number of images
keeps its limits (`AloneImagesWithinLimits`) and a re-ordering gives every row a place of its own
(`AloneOrderSettles`).

### SellerContent, ContentCrews

Banners, FAQ topics, the store's profile, and the categories and tags of products, for several
sellers. Requests are served by `Handlers` and kept in `task`, and the specification is
`ContentSpec`, as its proofs stand beside those of `Reviews` (section 5). `SellerCreateBanner` and `SellerUpdateBanner` are the service with its helpers of the same
names: the fields given are put over the link found (`ResolveNextBannerLinkValues`), must fit the
type (`AssertInputLinkFieldsMatch`) and the store (`ValidateBannerOwnership`), and become the
columns written (`BuildBannerUpdateData`: all of them with a type, those given without). A banner
has no store; `FindBannerForStore` finds it through its link. Texts are `Edit`ed field by field. The
two statements of `replaceProductCategories` and `replaceProductTags` are `DeleteLabels` and
`CreateLabels`, with the row and gap locks MySQL takes and a rollback in `Fail`. Correct means: no
store touches what another made (`ContentStaysHome`); a banner whose link leaves the store is lost
to everyone, and only lost, never found by another (`LostForGood`); label sets are those of one
request (`LabelsOfOneRequest`); a text changes only by a request that gave it
(`OnlyGivenTextsChange`); alone, a link has exactly the column of its type (`AloneLinkFollowsType`).

### Storefront

Every surface asks the database in its own words what may be shown: the operators named after the
repository's methods (`FindProductDetailById`, `FindActiveProduct`, `FindRecentByAccount`,
`PublicStoreReviews`, `BannerTargetActive`, ...) are these conditions. Most surfaces are two
statements or more: a request keeps in `page` what the first found and tells of it what the later
ones read (`FindRandomCakeRows`, `FindShowcaseReviewRows`, `ListStoreProductCategories`). Rankings read
orders, wishes, stars and the global average in any
order (`ReadAggregate`, a `Promise.all`), then compute `PopularityScore` with the Bayesian rating in
integer units and sort. The code computes in doubles, where two ratings equal in exact arithmetic may
differ in the last bit; so `RankingFair` compares rows whose scores are made of the same numbers, or
differ by more than that: a rating above the average against none, not one that is exactly the
average. Sums are sizes of sets of orders, wishes and
stars, and a sort or a sample is any of the possible ones, as the queries leave open which rows of
equal score come first. Adding to a wish list or to the viewed products checks, then writes.
Meanwhile products, stores and categories are switched or deleted, products re-filed, banners
changed, reviews written and liked. Correct means: what is listed opens (`ListedOpens`); counts are
those of the lists they stand beside (`CountsMatchLists`); what disappears between the two statements is left out and nothing else
(`ShownAreThere`); and a product or store at least as good in everything and better in one thing,
all the time, is never ranked below (`RankingFair`).

### ListPages

All 21 lists that are read page by page, each a record of its order, what its next page is cut by,
and what the code does to its rows. `FetchByCursor` takes one row more than the page
(`NextCursorOf`, `Beyond`), `FetchByOffset` skips, `HydrateReviews` reads the rows of a page of ids
and drops those deleted since. A statement may return rows that compare equal in any order, so it
picks one of the `Sortings` of the visible rows. One reader walks one list; between any two statements others create,
delete, restore, re-file, like and touch rows, among them the writes of notifications, search
history, wish list and conversations, and an order that is picked up while its customer walks through
the reviews to write (`PickUp`). Rows that do not fit the list at first are in the initial states of
every list that rows can come into. Correct means: a row that stays at its place is shown exactly
once where the cursor is the order of the list (`SteadyShownOnce`), and one is fetched again only
after it lost a like (`AgainOnlyFallen`); with an offset, a list that only grows is shown without a
gap and one that only shrinks without a repetition (`OffsetGapsAndRepeats`); pages of a list at rest
are the list (`RestWhole`, with the one exception the conversations need, `SortedAsCut`); and every
walk ends (`EveryWalkEnds`).

## 4. Runs

| Run | Asks | Result |
|---|---|---|
| `order` | trail, notifications, a final order settled, refinement of the relaxed policy | holds |
| `sessions` | links; withdrawn accounts and old passwords stay out | holds |
| `accounts` | one live account per identity; what is withdrawn stays gone | holds |
| `oidc` | sessions belong to the login that was started; a login that lost nothing completes (liveness) | holds |
| `reviews` | nothing old comes back; notifications; what a rewrite may replace; all pages of a live order offer what the write takes | holds |
| `pickup` | all views agree; lead time; alone: rows as told | holds |
| `views` | the limit, once all is quiet | holds |
| `catalog` | deleted rows stay deleted; alone: data, images, order | holds |
| `catalog_reply` | `RepliesShowLiveRows` | violated: the group returned by an edit shows items deleted before |
| `content` | content stays with its maker or with nobody; labels and texts of one request; alone: link and type | holds |
| `storefront` | what is listed opens; counts, pictures; fair rankings | holds |
| `pages` | what a walk shows, misses and repeats while rows change; that it ends (liveness) | holds |

The violation is a finding in `PROJECT.json`, with the line of the repository that says otherwise.
Every property of a passing run has a mutant there: a changed definition (marked `mutated form` in
the module) that a plausible bug would produce, under which TLC finds the property violated.

Bounds, and why they are enough:

* *Two workers* (three in `reviews`, where a like, a comment and a rewrite meet). The races are
  between a check and its write on one row; a third request adds no new pair. The results for every
  number of requests are in the proofs.
* *order*: one order of two stores with a seller of one of them and an account without a store, two
  instants, four changes (an order's whole life plus one that came too late). Orders do not
  influence each other.
* *sessions*: a customer, a seller, a suspended customer, three rows (a login, its rotation, and
  another login or rotation beside it), one password change.
* *accounts*: two subjects, two accounts, two names, one nickname wanted by both.
* *oidc*: two browsers, one provider, two logins (so one can overwrite the other in one browser, or
  meet it in the other), three targets of which one is not allowed. A second provider changes only
  which client is cached, and clients of one provider come and go already.
* *reviews*: an item of an order that was picked up and one of an order that was not, two users, three
  writes (a review and two rewrites that overlap), two comments, media of no, all and one too many
  pictures. Orders are deleted where requests come one at a time: no write looks at `gone`, so with
  overlap the rows of reviews are the same ones beside any `gone`, and `OffersAgree` is about one
  state of both. The theorem has no such bound.
* *pickup*: a week of two days (one to open, one to leave alone), three days, so that a weekday
  comes round again; two closure rows and one capacity row; hours of 9:00 and 10:00; a clock at
  9:00 and 19:00, with and without begun seconds, on both sides of every cutoff, also that of the
  home page; two policies; three seller requests. `MCNext` lets the requests come first and the
  clock and the orders after, as no step of a request reads either.
* *views*: three products, a limit of one, three instants.
* *catalog*: one product, three images with limits 1 and 2, two groups, items and tokens, two
  prices, ranges that can cross. A behaviour is about one kind of row (`focus`), since a request
  reads no other rows but parents; with both workers, options are restricted to their ranges,
  orders and deletions.
* *content*: two stores with a product each, one banner, one topic, one address, two categories and
  a tag; an input gives a type or not and one column. One kind of content at a time (`focus`), as
  the tables have nothing in common.
* *storefront*: three products in two stores, two categories of which one has a chip, two banners,
  three reviews, a customer, two writes of others. One surface at a time (`focus`): a request reads
  and one that may add to a list runs beside it. Scores use 5040 units, so that the Bayesian mean of
  up to three reviews is exact, and a table of logarithms in those units.
* *pages*: three rows, pages of one and two, two writes, likes up to two, two instants. Three rows
  are one page, its border and one beyond; two writes are one that moves a row across the border and
  one that moves another back.

Symmetry is used for workers, and for ids, subjects, names and tokens nothing orders; not in the two
runs with liveness.

The MC modules also state what `order`, `sessions`, `accounts`, `reviews` and `views` keep when
requests come one at a time: `AlonePolicyHoldsFromCurrent`, `AloneEveryRotationIsLinked`,
`AlonePasswordChangeCutsAll`, `AloneWithdrawnIsAnonymous`, `AloneSignInOnlyFillsBlanks`,
`AloneNotOverwritten`, `AloneTrimsOldest`. No run lists these: they were checked with the same
configurations while the modules were written, and are proved (section 5).

## 5. Proofs

All proofs are of the form "`Init` establishes an invariant, every action preserves it, it implies
the property", one step per action, for every value of the constants under the module's assumption.
Five modules have their proofs in `<Module>Proofs`; `LoginProofs` holds those of `OidcLogin` and
`RefreshSessions`, `ContentProofs` those of `Reviews` and `SellerContent`, `ListsProofs` those of
`RecentViews` and `ListPages`. Each states with its theorems
the invariant that makes the properties inductive:

* **OrderStatusProofs.** `OrderInv` adds to the trail what a request in flight still knows when it
  commits (`InFlightJustified`): its target is legal from a status the order has had, and the
  status its transaction read is one of those. That is the least the unlocked check leaves true,
  and enough for `StagesInOrder`, `TrailAlwaysAgrees`, `FinalOrdersStaySettled` and the refinement
  `ImplementsRelaxedPolicy` (every step is a move of `OrderLifecycle` or a stutter).
  `EveryStageIsTold` is about histories of any length. It does without induction over them: the
  notice of a change has the number of changes up to it that the customer hears of (the cardinality
  of `NotedUpTo`), and a commit appends one row and one notice of the next number, or a row that
  counts for nothing.
* **LoginProofs**, first of `RefreshSessions`. `SessionInv` with `RequestsRemember`: owner and
  password of a session do not change, so what a request read of them stays true.
  `RotationLinksHold`, `WithdrawnAccountsStayOut`, `OldPasswordsStayOut`.
* Then of `OidcLogin`. `LoginInv`: the cookies a browser holds, those a request carries and the
  login it works on are of one start of that browser, a code used is with exactly one request or
  session, and a request that passed the exchange has the target of its login. For any number of
  browsers, tabs and overlapping requests: `SessionsOfOwnLogins`, `LandingsAsAsked`.
* **ContentProofs**, first of `Reviews`. `ReviewInv` with `JobsHold`: who holds the lock keeps the
  review live, and a like row once made stays. `CommentsNeverComeBack`, `MediaAlwaysMatchText` and
  together `RewritesStartAfresh`; `LikersToldOnce`. `PagesOfferTheSame`: the five pages and the
  check of the write come to one condition on the item, its review and the user, but for that on the
  order's deletion, which three of them have and three have not. `OverwritingTakesAnOverlap` adds
  `RestoresHold`: the row a request is to restore was deleted at its check, so if it can be seen again
  its text is later than the request.
* Then of `SellerContent`. `HomeInv`: a banner leads to no store but its maker's, and a request that
  found one was its maker's. Every merge of given fields into a link, old or new, keeps that
  (`LeadsHome`), though the request decided on a link that may have changed since. It gives
  `NobodyTouchesOthers`, `LostBannersStay` and `TextsAreGiven`. `LabelsAreOneRequests` rests on
  the locks between the two statements of a replacement (`LabelInv`): whoever is between them is
  alone with the product's labels, unless there were none to take away. `AloneLinksFollow` is about
  `CrewSpec`: alone, the link that was found is the link that is written over, so exactly the column
  of the type is set whatever was given.
* **AccountLifecycleProofs.** `AccountInv` with `IdsInOrder`, `JobsKnowAccounts` (a sign-in under way
  holds the identity it found as long as its account lives) and `LandedAtHome`.
  `IdentityAlwaysFollows`, `WithdrawnNeverWelcome`, `OneHome`, `GoneForGood`.
* **PickupScheduleProofs.** The agreements of calendar, slots, today's list and home page
  (`ViewsAlwaysAgree`) follow from type correctness and arithmetic on slots, for every clock,
  interval and lead time. `AloneAsTold` is about `CrewSpec` with a crew of one: an invariant on what
  was told, what is pending in the one request and what the rows say (`ToldInv`).
* **ProductCatalogProofs.** `CatalogInv` (what a request is about to write has its type) for every
  overlap: `CatalogTypeCorrect`, `GoneForGood`. For crews of one, `CrewInv` adds `AloneInv` with
  `StillChecked`, what the checks found still holds at the write, and `CountInv` with
  `StillCounted`, so do the counts of images, which needs that no image hangs under a product never
  created (`NoOrphans`). `AloneDataStaysSane`, `AloneImagesStayWithinLimits`, and
  `AloneOrderGivesPlaces`, where ids without repetition and as many as there are rows must be all of
  them (cardinality of finite sets).
* **ListsProofs**, first of `RecentViews`. `WillFit`: some request has still to look at the list, or
  the views nobody is about to delete fit the limit. `NeverTooManyViews`.
* Then of `ListPages`, for every list, any number of rows and any page size. `ListInv` relates what
  the reader has got to where its cursor or offset stands among the rows as they are now, whatever
  was written in between: a steady row is shown once, or waits in the page being read, or lies
  beyond the cursor (`OnceInPlace`, hence `SteadyAreShownOnce`); a row fetched and ahead again has
  lost a like (`FallenBehind`, hence `OnlyFallenAgain`); with an offset, the steady rows before it
  have been shown as long as no row went (`NoGaps`), and the rows shown are before it as long as none
  came (`NoRepeats`, together `OffsetsMissOrRepeat`); in a list at rest
  what was shown is sorted and before all that is to come (`SortedSoFar`, hence `RestIsWhole`).
  A page is one of the possible sorts of the rows, not a function of them, and a sort is known by
  what it is, a sequence without repetition in the order, so that no step needs induction.

* **StorefrontProofs.** `StorefrontInv` says of a request what the statements it has executed leave
  true. There are two kinds of such claims. Some hold only as long as nothing is written (`Now`):
  what is listed opens, a count is that of its list, what was drawn is there. They need no
  preservation by writes, and follow from comparing the conditions of two methods. The others are
  history and survive every write (`Told`, `Better`): one row has been at least as good as another
  ever since the request started. `RankingsAreFair` turns these into an order of scores: more in a
  set counts for no less (cardinality), the Bayesian mean grows with a better review and the
  logarithm's table with its argument (`ScoreConstants`), and a sorting cannot put the lower score
  first. A sorting is a function from `1..n` and is known by that, and the banner shown is a least
  one, which exists as the order is well-founded; neither needs induction. Assumed are
  `StorefrontConstants`, `LinkConstants` and `ScoreConstants`. `ListedCanBeOpened`,
  `CountsAreOfTheLists`, `OnlyTheGoneAreLeftOut`.

**One request at a time.** Where the code checks in one step and writes in another without a lock,
the promise of the check is kept by requests that come one after the other, dying or not; nothing
in the code keeps it when they overlap. The theorems called `Alone...` say so of any accounts, orders
and rows with one slot for requests (`Workers = {w}`, or a crew of one where the module has crews).
Each rests on one idea, that what was read is still so at the write, stated for its component:

* `AloneImplementsStrictPolicy` (`CheckedStill`): `OrderStatus` then refines `StrictSpec` of
  `OrderLifecycle`, the policy as its tests describe it, and not just the relaxed one.
* `AloneRotationsAreLinked`, `AlonePasswordChangesCut` (`AloneSessions`): the session found for a
  rotation is not revoked yet, and no login under way rests on a password older than the last cut.
* `AloneWithdrawnIsAnonymous`, `AloneSignInFillsBlanks` (`AloneAccounts`): the account a request acts
  on lives until it writes, with the e-mail address and the name it read.
* `AloneNotOverwritten` (`AloneRestores`): a review to be restored is deleted. `AloneTrimsOldest`
  (`AloneOldest`): the ids read for deletion are older than every live view that is not among them.
* `AloneAsTold`, `AloneDataStaysSane`, `AloneImagesStayWithinLimits`, `AloneOrderGivesPlaces`,
  `AloneLinksFollow`: above, with their components.

Assumed are the named assumptions of the modules: model values differ, bounds are numbers, `Ids`
of different tables are disjoint and finite.

Only model-checked are the two liveness properties (`CodeLeadsToSession`, `EveryWalkEnds`): fairness
and `ENABLED` are beyond the provers at hand. `RepliesShowLiveRows` is violated. Every other property
the runs check is stated by a theorem.

## 6. What the models show that the repository does not say

One disagreement with the repository's own words has a run, `catalog_reply`. These were met while
modelling, and each is a behaviour of the model named:

* *Orders*: the transition is checked before the transaction, so of two requests of one order both
  commit, PICKED_UP to CANCELED or CANCELED to CONFIRMED (`order.repository.ts:443`). The model
  keeps this; `PolicyHoldsFromSomePast` is what is left, and alone the strict policy holds. The
  `from` of a history row is then the status the transaction read, not always the one it replaced.
* *Password change*: a login or rotation under way inserts its session after
  `changeSellerPassword` has revoked them all (`seller-credential.service.ts:197`).
* *Sign-up*: the initial nickname ends in the account's id, and a customer may have chosen that
  very nickname; the sign-up then fails (`initial-nickname.helper.ts:33`). Likewise `deleted_<id>`
  chosen by another blocks a withdrawal (`user-profile.service.ts:195`).
* *Opening hours*: date-times are compared and times are stored, so a store that closes after
  midnight is stored as closing before it opens (`seller-store-hours.service.ts:111`).
* *Reviews by likes*: the cursor shows a review again that lost a like, and misses one that gained
  one (`product-review.repository.ts:130`, against its comment at line 113); `AgainOnlyFallen` says
  that nothing else is repeated.
* *Reviews of deleted orders*: `listReviewableOrderItems` leaves their items out
  (`order.repository.ts:203-209`, tested in `user-review.service.spec.ts:651-662`), but
  `findReviewableOrderIds` (`:172-184`) has no such guard, although the comment above the other
  (`:189-193`) calls the conditions the same, nor has the lookup of the write and of the item's own page
  (`review.repository.ts:14-18`): who knows the item's id can review it. The order list hides the
  difference, as it asks `findReviewableOrderIds` only about orders it has just read. `OffersAgree`
  states who is silent and who is not.
* *Rewriting twice*: of two requests that both found a review deleted, the second replaces the text of
  the first and answers success in place of `REVIEW_ALREADY_EXISTS` (`user-review.service.ts:116`);
  `OverwrittenOnlyByOverlap` says that nothing else is ever replaced.
* *Conversations*: listed by their last message, cut by id (`conversation.repository.ts:20`), so
  pages of a list at rest need not be the list.
* *Viewed products and store reviews*: products of a store that was switched off are listed and do
  not open; so do reviews of an inactive product on the store's page. `ListedOpens` names both.
* *Lost banners*: a banner that links to an address, a category or nothing is in no seller's list
  (`seller.repository.ts:306`).
* Smaller: likes survive a deleted review and count for the new one (`review.repository.ts:207`); a
  text token's key is taken for ever (`product.repository.ts:711`); a product can be listed without
  an image when its first image fails; a view that came back may be trimmed away
  (`recent-product-view.repository.ts:117`); callers of a suspended seller account are refused only
  once the access token is looked at (`seller-credential.service.ts:88`, `:116`).

## 7. What is not modelled

* *Regions*: reference data that is only read. *Health check*: stateless.
* *Profile image upload*: signs an address (S3); that a saved image is the account's own is a
  comparison of strings. `updateMyProfileImage` writes one column nothing else reads, which is why
  accounts are listed as partly modelled.
* *Soft-delete extension, audit log*: part of the models of those who use them; neither has a
  behaviour of its own.
* *Guards, filters, interceptors, logging, request context, configuration, common helpers*: no state
  across requests; the access-token check is `Authenticates`, and helpers that decide something
  (`text-cleaner`, `kst-time`, `withdrawn-identity`) are modelled where they decide.
* *Seed, migrations, scripts, deployment*: not the running program.

Within the modelled parts, left out on purpose: the wording, length and format of texts (except
where a text decides: the cancellation note, the nickname forms), mapping of rows to replies, image
addresses, hearts and the list of wishes (its filter, in `visibleWishlistWhere`, is that of the product page, and
hearts on viewed products are read with the same), search words, prices and regions of lists, log lines; lock timeouts and deadlocks, which
are a `Fail`; direct edits of the database. The seller's account status is looked at by the guard
only. No code of this repository places an order: orders come from outside (`Book`, `SetSold`), and none deletes
an order or an item: an order's deletion is outside too (`DeleteOrder`), and
`order_item.deleted_at`, which every
query of items asks for, itself or through the extension, is taken to be null.

## 8. Plan

Done, in this order: order status, sessions, reviews, accounts, pick-up schedule, recent views,
catalogue; then OIDC login with the first liveness property, seller content with the taxonomy, the
lists, the storefront, and the agreement of pages in reviews; then the proofs of every safety
property the runs check, and of what the components keep for requests that come one at a time.

Next: the refinement of sessions to an abstract chain of tokens, and of the catalogue's tables to
sets of rows with a place each; the profile image, once the address checks are worth a model.
