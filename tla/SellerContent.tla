----------------------------- MODULE SellerContent -----------------------------
(***************************************************************************)
(* What a seller keeps besides orders and products proper: banners, FAQ    *)
(* topics, the profile of the store, and the categories and tags of the    *)
(* products.                                                               *)
(*                                                                         *)
(* As everywhere in the seller's services a request looks its row up for   *)
(* its own store, checks the input against what it found, and writes by id *)
(* in a later statement.  A topic names its store; a banner does not: it   *)
(* is a store's only through the product or the store it links to.         *)
(***************************************************************************)
EXTENDS Integers, FiniteSets

CONSTANTS
  Handlers,     \* request handlers of the server
  Stores,       \* each with one seller
  Products,
  StoreOf,      \* product -> its store
  Banners,      \* bound: banner ids
  Topics,       \* bound: FAQ topic ids
  Urls,         \* bound: addresses a banner may lead to
  Labels,       \* "category" and "tag" -> ids
  Texts,        \* bound: texts of a topic or a profile
  Blank,        \* a text that is not set
  Keep,         \* a field the request leaves out
  Null          \* null

Types == {"NONE", "URL", "PRODUCT", "STORE", "CATEGORY"}

\* The columns of a banner's link, and the one each type uses.
Columns == {"url", "product", "store", "category"}
ColumnOf == [NONE |-> Null, URL |-> "url", PRODUCT |-> "product", STORE |-> "store",
             CATEGORY |-> "category"]

Targets == [url |-> Urls, product |-> Products, store |-> Stores, category |-> Labels["category"]]

Links == [type : Types, url : Urls \cup {Null}, product : Products \cup {Null},
          store : Stores \cup {Null}, category : Labels["category"] \cup {Null}]

LabelKinds == {"category", "tag"}

Sheets == Topics \cup Stores     \* what has texts: topics and profiles
Fields == {"title", "body"}

ASSUME ContentConstants ==
  /\ StoreOf \in [Products -> Stores]
  /\ Labels \in [LabelKinds -> SUBSET (Labels["category"] \cup Labels["tag"])]
  /\ Blank \in Texts /\ Keep \notin Texts \cup Types /\ Keep # Null
  /\ \A c \in Columns : Null \notin Targets[c] /\ Keep \notin Targets[c]
  /\ Null \notin Columns \cup Banners \cup Topics /\ Null \notin Links
  /\ Banners \cap (Topics \cup Stores \cup Products) = {} /\ Topics \cap Stores = {}

VARIABLES
  banner,       \* banner -> its link; Null while the id is unused
  topicStore,   \* topic -> its store; Null while the id is unused
  live,         \* banner or topic -> deleted_at IS NULL
  text,         \* topic or store -> its texts
  onSale,       \* product -> deleted_at IS NULL
  filed,        \* product -> its categories and tags
  task,         \* handler -> its request
  maker,        \* history: banner or topic -> the store that created it
  hands,        \* history: banner or topic -> the stores that changed it
  asked         \* history: product -> the sets asked for, by kind

contents == <<banner, topicStore, live, text, maker, hands>>
labels == <<filed, asked>>
contentVars == <<banner, topicStore, live, text, onSale, filed, task, maker, hands, asked>>

Given(new, old) == IF new = Keep THEN old ELSE new

----------------------------------------------------------------------------
(* Banners: what a request may ask for.                                     *)

NoLink == [type |-> "NONE", url |-> Null, product |-> Null, store |-> Null, category |-> Null]

\* Bound: a request gives a type or not, and a value or null for one column.
Input(c, t, v) ==
  [d \in Columns \cup {"type"} |-> IF d = "type" THEN t ELSE IF d = c THEN v ELSE Keep]

Inputs ==
  UNION {{Input(c, t, v) : t \in Types \cup {Keep}, v \in Targets[c] \cup {Null, Keep}} : c \in Columns}

\* mutated form
FindBannerById(b, s) == live[b]

\* The join with the product counts deleted products.
FindBannerForStore(b, s) ==
  /\ live[b]
  /\ \/ banner[b].store = s
     \/ \E p \in Products : banner[b].product = p /\ StoreOf[p] = s

\* mutated form
AnyLinkFields(type, input) == TRUE

\* A column is set only together with its type.
AssertInputLinkFieldsMatch(type, input) ==
  \A c \in Columns : input[c] \notin {Null, Keep} => ColumnOf[type] = c

\* The link leads somewhere, and to nothing of another store.
ValidateBannerOwnership(s, link) ==
  /\ link.type = "URL" => link.url # Null
  /\ link.type = "PRODUCT" => \E p \in Products : link.product = p /\ onSale[p] /\ StoreOf[p] = s
  /\ link.type = "STORE" => link.store = s
  /\ link.type = "CATEGORY" => link.category # Null

ResolveNextBannerLinkValues(input, current) ==
  [c \in DOMAIN current |-> Given(input[c], current[c])]

\* mutated form
KeepBannerLinkFields(link) == link

BuildBannerLinkFields(link) ==
  [c \in DOMAIN link |-> IF c \in Columns /\ c # ColumnOf[link.type] THEN Null ELSE link[c]]

\* With a type all the columns are written, without one those given.
BuildBannerUpdateData(input, resolved) ==
  IF input.type = Keep THEN input ELSE BuildBannerLinkFields(resolved)

----------------------------------------------------------------------------
(* Requests.                                                                *)

NoTask == [pc |-> "idle", op |-> Null, store |-> Null, row |-> Null, data |-> Null, old |-> {}]

Writing(op, s, r, d) ==
  [NoTask EXCEPT !.pc = "write", !.op = op, !.store = s, !.row = r, !.data = d]

Start(w, op, s, r, d) ==
  /\ task[w] = NoTask
  /\ task' = [task EXCEPT ![w] = Writing(op, s, r, d)]
  /\ UNCHANGED <<contents, labels, onSale>>

SellerCreateBanner(w, s, input) ==
  LET link == ResolveNextBannerLinkValues(input, NoLink) IN
  /\ AssertInputLinkFieldsMatch(link.type, input)
  /\ ValidateBannerOwnership(s, link)
  /\ Start(w, "create banner", s, Null, link)

SellerUpdateBanner(w, s, b, input) ==
  /\ FindBannerForStore(b, s)
  /\ LET resolved == ResolveNextBannerLinkValues(input, banner[b]) IN
     /\ AssertInputLinkFieldsMatch(resolved.type, input)
     /\ ValidateBannerOwnership(s, resolved)
     /\ Start(w, "update banner", s, b, BuildBannerUpdateData(input, resolved))

SellerDeleteBanner(w, s, b) ==
  /\ FindBannerForStore(b, s)
  /\ Start(w, "delete", s, b, Null)

FindFaqTopicById(t, s) == live[t] /\ topicStore[t] = s

SellerCreateFaqTopic(w, s, texts) == Start(w, "create topic", s, Null, texts)

SellerUpdateFaqTopic(w, s, t, texts) ==
  /\ FindFaqTopicById(t, s)
  /\ Start(w, "edit", s, t, texts)

SellerDeleteFaqTopic(w, s, t) ==
  /\ FindFaqTopicById(t, s)
  /\ Start(w, "delete", s, t, Null)

SellerUpdateStoreBasicInfo(w, s, texts) == Start(w, "edit", s, s, texts)

\* The ids are all there; they are looked up before the transaction.
SellerSetProductLabels(w, s, p, kind, ids) ==
  /\ onSale[p] /\ StoreOf[p] = s
  /\ ids \subseteq Labels[kind]
  /\ Start(w, kind, s, p, ids)

SellerSetProductCategories(w, s, p, ids) == SellerSetProductLabels(w, s, p, "category", ids)

SellerSetProductTags(w, s, p, ids) == SellerSetProductLabels(w, s, p, "tag", ids)

----------------------------------------------------------------------------
(* Writing.                                                                 *)

Writes(w, op) == task[w].pc = "write" /\ task[w].op = op

Audit(w) == task' = [task EXCEPT ![w] = [NoTask EXCEPT !.pc = "audit"]]

Made(w, r) ==
  /\ live' = [live EXCEPT ![r] = TRUE]
  /\ maker' = [maker EXCEPT ![r] = task[w].store]
  /\ hands' = [hands EXCEPT ![r] = {task[w].store}]

Touched(w, r) == hands' = [hands EXCEPT ![r] = @ \cup {task[w].store}]

CreateBanner(w) ==
  /\ Writes(w, "create banner")
  /\ \E b \in Banners : /\ banner[b] = Null
                        /\ banner' = [banner EXCEPT ![b] = task[w].data]
                        /\ Made(w, b)
  /\ Audit(w)
  /\ UNCHANGED <<topicStore, text, labels, onSale>>

\* mutated form
UpdateBannerAsGiven(w) ==
  LET j == task[w] IN
  /\ Writes(w, "update banner")
  /\ banner' = [banner EXCEPT ![j.row] = j.data]
  /\ Touched(w, j.row)
  /\ Audit(w)
  /\ UNCHANGED <<topicStore, live, text, maker, labels, onSale>>

UpdateBanner(w) ==
  LET j == task[w] IN
  /\ Writes(w, "update banner")
  /\ banner' = [banner EXCEPT ![j.row] = ResolveNextBannerLinkValues(j.data, @)]
  /\ Touched(w, j.row)
  /\ Audit(w)
  /\ UNCHANGED <<topicStore, live, text, maker, labels, onSale>>

CreateFaqTopic(w) ==
  /\ Writes(w, "create topic")
  /\ \E t \in Topics : /\ topicStore[t] = Null
                       /\ topicStore' = [topicStore EXCEPT ![t] = task[w].store]
                       /\ text' = [text EXCEPT ![t] = task[w].data]
                       /\ Made(w, t)
  /\ Audit(w)
  /\ UNCHANGED <<banner, labels, onSale>>

\* mutated form
EditWhole(w) ==
  LET j == task[w] IN
  /\ Writes(w, "edit")
  /\ text' = [text EXCEPT ![j.row] = [f \in Fields |-> Given(j.data[f], Blank)]]
  /\ IF j.row \in Topics THEN Touched(w, j.row) ELSE UNCHANGED hands
  /\ Audit(w)
  /\ UNCHANGED <<banner, topicStore, live, maker, labels, onSale>>

\* updateFaqTopic, updateStore: the fields given, of the row with this id.
Edit(w) ==
  LET j == task[w] IN
  /\ Writes(w, "edit")
  /\ text' = [text EXCEPT ![j.row] = [f \in Fields |-> Given(j.data[f], @[f])]]
  /\ IF j.row \in Topics THEN Touched(w, j.row) ELSE UNCHANGED hands
  /\ Audit(w)
  /\ UNCHANGED <<banner, topicStore, live, maker, labels, onSale>>

SoftDelete(w) ==
  /\ Writes(w, "delete")
  /\ live' = [live EXCEPT ![task[w].row] = FALSE]
  /\ Touched(w, task[w].row)
  /\ Audit(w)
  /\ UNCHANGED <<banner, topicStore, text, maker, labels, onSale>>

\* mutated form
NoTransaction(w, p, kind) == FALSE

\* Between the two statements of the transaction.
InTransaction(w, p, kind) == task[w].pc = "swap" /\ task[w].op = kind /\ task[w].row = p

\* deleteMany locks the rows it deletes.  Where there were none it locks the gap,
\* which others may lock as well.
DeleteLabels(w) ==
  LET j == task[w] IN
  /\ j.pc = "write" /\ j.op \in LabelKinds
  /\ \A v \in Handlers : InTransaction(v, j.row, j.op) => task[v].old = {}
  /\ filed' = [filed EXCEPT ![j.row][j.op] = {}]
  /\ task' = [task EXCEPT ![w].pc = "swap", ![w].old = filed[j.row][j.op]]
  /\ UNCHANGED <<contents, asked, onSale>>

\* createMany skips rows that are there, and waits for the gap locks of others:
\* of two that wait for each other one is rolled back (Abort).
CreateLabels(w) ==
  LET j == task[w] IN
  /\ j.pc = "swap"
  /\ \A v \in Handlers \ {w} : InTransaction(v, j.row, j.op) => j.data = {}
  /\ filed' = [filed EXCEPT ![j.row][j.op] = @ \cup j.data]
  /\ asked' = [asked EXCEPT ![j.row][j.op] = @ \cup {j.data}]
  /\ Audit(w)
  /\ UNCHANGED <<contents, onSale>>

\* The audit row is written and the seller gets the reply.
Reply(w) ==
  /\ task[w].pc = "audit"
  /\ task' = [task EXCEPT ![w] = NoTask]
  /\ UNCHANGED <<contents, labels, onSale>>

\* A crash, a refused text, a deadlock or a database error between two
\* statements; what a transaction has done is undone.
Abort(w) ==
  LET j == task[w] IN
  /\ j # NoTask
  /\ task' = [task EXCEPT ![w] = NoTask]
  /\ filed' = IF j.pc = "swap" /\ InTransaction(w, j.row, j.op)
              THEN [filed EXCEPT ![j.row][j.op] = j.old] ELSE filed
  /\ UNCHANGED <<contents, asked, onSale>>

\* By another request of the seller.
SoftDeleteProduct(p) ==
  /\ onSale' = [onSale EXCEPT ![p] = FALSE]
  /\ UNCHANGED <<contents, labels, task>>

----------------------------------------------------------------------------

ContentInit ==
  /\ banner = [b \in Banners |-> Null]
  /\ topicStore = [t \in Topics |-> Null]
  /\ live = [r \in Banners \cup Topics |-> FALSE]
  /\ text = [s \in Sheets |-> [f \in Fields |-> Blank]]
  /\ onSale = [p \in Products |-> TRUE]
  /\ filed = [p \in Products |-> [kind \in LabelKinds |-> {}]]
  /\ task = [w \in Handlers |-> NoTask]
  /\ maker = [r \in Banners \cup Topics |-> Null]
  /\ hands = [r \in Banners \cup Topics |-> {}]
  /\ asked = [p \in Products |-> [kind \in LabelKinds |-> {{}}]]

AskBanner(w, s) ==
  \/ \E input \in Inputs : \/ SellerCreateBanner(w, s, input)
                           \/ \E b \in Banners : SellerUpdateBanner(w, s, b, input)
  \/ \E b \in Banners : SellerDeleteBanner(w, s, b)

AskTopic(w, s) ==
  \/ \E texts \in [Fields -> Texts] : SellerCreateFaqTopic(w, s, texts)
  \/ \E t \in Topics, texts \in [Fields -> Texts \cup {Keep}] : SellerUpdateFaqTopic(w, s, t, texts)
  \/ \E t \in Topics : SellerDeleteFaqTopic(w, s, t)

AskProfile(w, s) ==
  \E texts \in [Fields -> Texts \cup {Keep}] : SellerUpdateStoreBasicInfo(w, s, texts)

AskLabels(w, s) ==
  \E p \in Products :
    \/ \E ids \in SUBSET Labels["category"] : SellerSetProductCategories(w, s, p, ids)
    \/ \E ids \in SUBSET Labels["tag"] : SellerSetProductTags(w, s, p, ids)

Write(w) ==
  \/ CreateBanner(w) \/ UpdateBanner(w) \/ CreateFaqTopic(w) \/ Edit(w) \/ SoftDelete(w)
  \/ DeleteLabels(w) \/ CreateLabels(w)
  \/ Reply(w) \/ Abort(w)

ContentNext ==
  \/ \E w \in Handlers, s \in Stores :
       AskBanner(w, s) \/ AskTopic(w, s) \/ AskProfile(w, s) \/ AskLabels(w, s)
  \/ \E w \in Handlers : Write(w)
  \/ \E p \in Products : SoftDeleteProduct(p)

ContentSpec == ContentInit /\ [][ContentNext]_contentVars

----------------------------------------------------------------------------
(* Properties.                                                              *)

ContentTypeOK ==
  /\ banner \in [Banners -> Links \cup {Null}]
  /\ topicStore \in [Topics -> Stores \cup {Null}]
  /\ live \in [Banners \cup Topics -> BOOLEAN]
  /\ \A b \in Banners : live[b] => banner[b] # Null
  /\ text \in [Sheets -> [Fields -> Texts]]
  /\ onSale \in [Products -> BOOLEAN]
  /\ filed \in [Products -> [LabelKinds -> SUBSET (Labels["category"] \cup Labels["tag"])]]
  /\ \A p \in Products, kind \in LabelKinds : filed[p][kind] \subseteq Labels[kind]
  /\ \A w \in Handlers : task[w].store \in Stores \cup {Null}

\* No seller ever changes or deletes a banner or a topic of another store, though
\* a banner does not say whose it is, its links are rewritten by requests that
\* overlap, and products are deleted meanwhile.
ContentStaysHome == \A r \in Banners \cup Topics : hands[r] \subseteq {maker[r]}

\* The columns of a link are those of its type.
LinkFollowsType ==
  \A b \in Banners : banner[b] # Null =>
    \A c \in Columns : banner[b][c] # Null <=> ColumnOf[banner[b].type] = c

Lost(b) == live[b] /\ banner[b].store = Null /\ banner[b].product = Null

\* A banner that links to an address, a category or nothing is its seller's no
\* longer: it stays as it is for good, shown and found by no request, once none
\* that had found it is under way.
LostForGood ==
  [][\A b \in Banners : Lost(b) /\ (\A w \in Handlers : task[w].row # b) =>
       banner'[b] = banner[b] /\ live'[b] /\ \A w \in Handlers : task'[w].row # b]_contentVars

\* The categories and tags of a product are those one request asked for, never
\* a mixture of two that overlap or what a failed one left behind.
LabelsOfOneRequest ==
  \A p \in Products, kind \in LabelKinds :
    (\A w \in Handlers : ~InTransaction(w, p, kind)) => filed[p][kind] \in asked[p][kind]

\* A text that exists changes only by a request that gave it: tabs that edit different
\* fields do not undo each other.
OnlyGivenTextsChange ==
  [][\A s \in Sheets, f \in Fields :
       text'[s][f] # text[s][f] /\ (s \in Topics => topicStore[s] # Null) =>
         \E w \in Handlers : /\ task[w].op = "edit" /\ task[w].row = s
                            /\ task[w].data[f] = text'[s][f]]_contentVars

----------------------------------------------------------------------------
(* Invariants the proofs rest on.                                           *)

\* What an update of a banner may write.
Changes == [type : Types \cup {Keep}, url : Urls \cup {Null, Keep},
            product : Products \cup {Null, Keep}, store : Stores \cup {Null, Keep},
            category : Labels["category"] \cup {Null, Keep}]

\* A link, or a change of one, that leads to no other store than s.
LeadsHome(s, link) ==
  /\ link.store \in {s, Null, Keep}
  /\ \A p \in Products : link.product = p => StoreOf[p] = s

\* What a request in flight is about to write, and that the row it found is its
\* store's: nothing that happens in between makes it another's.
TaskOK(j) ==
  /\ j.pc = "write" =>
       /\ j.store \in Stores
       /\ j.op = "create banner" => j.data \in Links /\ LeadsHome(j.store, j.data)
       /\ j.op = "update banner" => /\ j.row \in Banners /\ maker[j.row] = j.store
                                    /\ j.data \in Changes /\ LeadsHome(j.store, j.data)
       /\ j.op = "create topic" => j.data \in [Fields -> Texts]
       /\ j.op = "edit" => /\ j.row \in Sheets /\ j.data \in [Fields -> Texts \cup {Keep}]
                           /\ j.row \in Topics => maker[j.row] = j.store
       /\ j.op = "delete" => j.row \in Banners \cup Topics /\ maker[j.row] = j.store
  /\ j.pc \in {"write", "swap"} /\ j.op \in LabelKinds =>
       j.row \in Products /\ j.data \subseteq Labels[j.op] /\ j.old \subseteq Labels[j.op]
  /\ j.pc = "swap" => j.op \in LabelKinds

\* Requests have their fields, and the history its types.
Shapes ==
  /\ task = [w \in Handlers |-> task[w]]
  /\ \A w \in Handlers :
       task[w] = [pc |-> task[w].pc, op |-> task[w].op, store |-> task[w].store,
                  row |-> task[w].row, data |-> task[w].data, old |-> task[w].old]
  /\ maker \in [Banners \cup Topics -> Stores \cup {Null}]
  /\ hands \in [Banners \cup Topics -> SUBSET Stores]

\* A banner leads to no other store than the one that made it, which is how a
\* store's banners are found; a topic names the store that made it.
Homes ==
  /\ \A b \in Banners : IF banner[b] = Null THEN maker[b] = Null
                         ELSE maker[b] # Null /\ LeadsHome(maker[b], banner[b])
  /\ \A t \in Topics : maker[t] = topicStore[t]
  /\ \A r \in Banners \cup Topics : maker[r] = Null => ~live[r] /\ hands[r] = {}

HomeInv ==
  ContentTypeOK /\ Shapes /\ Homes /\ ContentStaysHome /\ \A w \in Handlers : TaskOK(task[w])

\* The labels of a product are away while a transaction has them, and come back
\* as they were or as asked for; two share a transaction's place only if there
\* was nothing to take away.
LabelInv ==
  /\ asked \in [Products -> [LabelKinds -> SUBSET SUBSET (Labels["category"] \cup Labels["tag"])]]
  /\ \A p \in Products, kind \in LabelKinds :
       /\ {} \in asked[p][kind]
       /\ (\A w \in Handlers : ~InTransaction(w, p, kind)) => filed[p][kind] \in asked[p][kind]
       /\ \A w \in Handlers : InTransaction(w, p, kind) =>
            /\ filed[p][kind] = {} /\ task[w].old \in asked[p][kind]
            /\ task[w].old = {} \/ \A v \in Handlers \ {w} : ~InTransaction(v, p, kind)
=============================================================================
