----------------------------- MODULE ProductCatalog -----------------------------
(***************************************************************************)
(* A seller's products: prices, images, option groups and their items, the *)
(* custom template and its text tokens.  Five tables are kept the same way:*)
(* rows hang under a parent row, are created, updated and deleted (softly) *)
(* one at a time, and are put in a new order together.                     *)
(*                                                                         *)
(* Requests of a seller run concurrently, from several tabs.  Each looks   *)
(* its rows up and checks what it asks for against them, then writes by id *)
(* in a later statement, then writes the audit row; nothing but the        *)
(* re-ordering is in a transaction.                                        *)
(***************************************************************************)
EXTENDS Integers, Sequences, FiniteSets

CONSTANTS
  Workers,              \* request handlers of the server
  Ids,                  \* kind -> row ids of its table
  Store,                \* the seller's store, parent of the products
  MAX_PRODUCT_IMAGES,   \* 5 in the code
  MIN_PRODUCT_IMAGES,   \* 1 in the code
  Prices,               \* bound: prices a seller may ask for
  Mins, Maxes,          \* bound: least and most choices of an option group
  Keys,                 \* bound: keys of text tokens
  Ranks,                \* bound: sort orders a seller may ask for
  Keep,                 \* a field the request leaves out
  None                  \* no value

Kinds == {"product", "image", "group", "item", "token"}
Rows == UNION {Ids[k] : k \in Kinds}

\* The kinds whose table has an is_active column.
Switched == {"product", "group", "item"}

ASSUME CatalogConstants ==
  /\ Ids \in [Kinds -> SUBSET Rows]
  /\ \A k, m \in Kinds : k # m => Ids[k] \cap Ids[m] = {}
  /\ \A k \in Kinds : IsFiniteSet(Ids[k])
  /\ MAX_PRODUCT_IMAGES \in Nat
  /\ MIN_PRODUCT_IMAGES = 1 /\ MIN_PRODUCT_IMAGES <= MAX_PRODUCT_IMAGES
  /\ Prices \subseteq Nat /\ Mins \subseteq Nat /\ Maxes \subseteq Nat /\ Ranks \subseteq Nat
  /\ None \notin Rows /\ Store \notin Rows /\ None # Store
  /\ None \notin Nat /\ Keep \notin Nat /\ Keep # None /\ Keep \notin BOOLEAN /\ Keep \notin Keys

VARIABLES
  owner,      \* row -> its parent; None while the id is unused
  live,       \* row -> deleted_at IS NULL
  active,     \* row -> is_active
  rank,       \* row -> sort_order
  data,       \* row -> its prices, its range of choices or its key
  template,   \* product -> is_active of its custom template; None without one
  job         \* worker -> its request

tables == <<owner, live, active, rank, data, template>>
vars == <<owner, live, active, rank, data, template, job>>

\* What a row of each kind holds besides its parent and its place.
DataOf == [k \in Kinds |->
  CASE k = "product" -> [regular : Prices, sale : Prices \cup {None}]
    [] k = "group" -> [min : Mins, max : Maxes]
    [] k = "token" -> [key : Keys]
    [] OTHER -> {None}]

----------------------------------------------------------------------------
(* Reading.                                                                 *)

Siblings(k, p) == {r \in Ids[k] : owner[r] = p /\ live[r]}

\* The sale price is at most the regular one; as many choices as are required
\* can be made.
Sane(k, d) ==
  /\ k = "product" /\ d.sale # None => d.sale <= d.regular
  /\ k = "group" => d.min <= d.max

Given(new, old) == IF new = Keep THEN old ELSE new

\* The fields given, and for the rest those the row has.
Merged(k, d, e) ==
  CASE k = "product" -> [regular |-> Given(e.regular, d.regular), sale |-> Given(e.sale, d.sale)]
    [] k = "group" -> [min |-> Given(e.min, d.min), max |-> Given(e.max, d.max)]
    [] OTHER -> e

\* What an update may give, by kind; a token is always given in full.
Edits == [k \in Kinds |->
  CASE k = "product" -> [regular : Prices \cup {Keep}, sale : Prices \cup {None, Keep}]
    [] k = "group" -> [min : Mins \cup {Keep}, max : Maxes \cup {Keep}]
    [] OTHER -> DataOf[k]]

NoPrices == [regular |-> Keep, sale |-> Keep]

\* The children sent back with a row after a write: the nested read is not
\* guarded by deleted_at.
ReplyRows(r) == {c \in Ids["item"] \cup Ids["token"] : owner[c] = r}

----------------------------------------------------------------------------
(* Requests.                                                                *)

Idle == [pc |-> "idle", op |-> None, kind |-> None, row |-> None, data |-> None,
         on |-> Keep, rank |-> Keep, seq |-> << >>, shown |-> {}]

Start(w, j) ==
  /\ job[w] = Idle
  /\ job' = [job EXCEPT ![w] = j]
  /\ UNCHANGED tables

\* A write that has passed its checks.
Request(op, k, r, d, a, n) ==
  [Idle EXCEPT !.pc = "write", !.op = op, !.kind = k, !.row = r, !.data = d, !.on = a, !.rank = n]

\* The ids of a reorder request: no id twice.
Orders(s) == {q \in UNION {[1 .. n -> s] : n \in 1 .. Cardinality(s)} :
                \A i, j \in DOMAIN q : q[i] = q[j] => i = j}

\* mutated form
ReorderPart(w, k, p, q) ==
  /\ \A i \in DOMAIN q : q[i] \in Siblings(k, p)
  /\ Start(w, [Request("order", k, p, None, Keep, Keep) EXCEPT !.seq = q])

\* The ids are those of all the rows there are.
Reorder(w, k, p, q) ==
  /\ Len(q) = Cardinality(Siblings(k, p))
  /\ \A i \in DOMAIN q : q[i] \in Siblings(k, p)
  /\ Start(w, [Request("order", k, p, None, Keep, Keep) EXCEPT !.seq = q])

SellerCreateProduct(w, d, a) ==
  /\ Sane("product", d)
  /\ Start(w, Request("create", "product", Store, d, a, 0))

\* mutated form
SellerUpdateProductGivenOnly(w, p, d) ==
  /\ live[p]
  /\ d.sale \in Prices /\ d.regular \in Prices => Sane("product", d)
  /\ Start(w, Request("update", "product", p, d, Keep, Keep))

SellerUpdateProduct(w, p, d) ==
  /\ live[p]
  /\ Sane("product", Merged("product", data[p], d))
  /\ Start(w, Request("update", "product", p, d, Keep, Keep))

SellerSetProductActive(w, p, a) ==
  /\ live[p]
  /\ Start(w, Request("update", "product", p, NoPrices, a, Keep))

SellerDeleteProduct(w, p) == live[p] /\ Start(w, Request("delete", "product", p, None, Keep, Keep))

----------------------------------------------------------------------------

\* mutated form
SellerAddProductImageUncounted(w, p, n) ==
  /\ live[p]
  /\ Start(w, Request("create", "image", p, None, TRUE, Given(n, Cardinality(Siblings("image", p)))))

SellerAddProductImage(w, p, n) ==
  LET count == Cardinality(Siblings("image", p)) IN
  /\ live[p]
  /\ count < MAX_PRODUCT_IMAGES
  /\ Start(w, Request("create", "image", p, None, TRUE, Given(n, count)))

SellerDeleteProductImage(w, i) ==
  /\ live[i]
  /\ Cardinality(Siblings("image", owner[i])) > MIN_PRODUCT_IMAGES
  /\ Start(w, Request("delete", "image", i, None, Keep, Keep))

SellerReorderProductImages(w, p, q) == live[p] /\ Reorder(w, "image", p, q)

----------------------------------------------------------------------------

SellerCreateOptionGroup(w, p, d, a, n) ==
  /\ live[p]
  /\ Sane("group", d)
  /\ Start(w, Request("create", "group", p, d, a, Given(n, 0)))

SellerUpdateOptionGroup(w, g, d, a, n) ==
  /\ live[g]
  /\ Sane("group", Merged("group", data[g], d))
  /\ Start(w, Request("update", "group", g, d, a, n))

SellerDeleteOptionGroup(w, g) == live[g] /\ Start(w, Request("delete", "group", g, None, Keep, Keep))

SellerReorderOptionGroups(w, p, q) == live[p] /\ Reorder(w, "group", p, q)

SellerCreateOptionItem(w, g, a, n) ==
  /\ live[g]
  /\ Start(w, Request("create", "item", g, None, a, Given(n, 0)))

SellerUpdateOptionItem(w, o, a, n) ==
  /\ live[o]
  /\ Start(w, Request("update", "item", o, None, a, n))

SellerDeleteOptionItem(w, o) == live[o] /\ Start(w, Request("delete", "item", o, None, Keep, Keep))

SellerReorderOptionItems(w, g, q) == live[g] /\ Reorder(w, "item", g, q)

----------------------------------------------------------------------------

SellerUpsertProductCustomTemplate(w, p, a) ==
  /\ live[p]
  /\ Start(w, Request("template", None, p, None, a, Keep))

\* The product of the template may be deleted.
SellerSetProductCustomTemplateActive(w, p, a) ==
  /\ template[p] # None
  /\ Start(w, Request("template", None, p, None, a, Keep))

\* A new token, or with an id a token of this template.
SellerUpsertProductCustomTextToken(w, p, t, d, n) ==
  /\ template[p] # None
  /\ t # None => live[t] /\ owner[t] = p
  /\ Start(w, IF t = None THEN Request("create", "token", p, d, TRUE, Given(n, 0))
              ELSE Request("update", "token", t, d, Keep, Given(n, 0)))

SellerDeleteProductCustomTextToken(w, t) == live[t] /\ Start(w, Request("delete", "token", t, None, Keep, Keep))

SellerReorderProductCustomTextTokens(w, p, q) ==
  template[p] # None /\ Reorder(w, "token", p, q)

----------------------------------------------------------------------------
(* Writing.                                                                 *)

Writes(w, op) == job[w].pc = "write" /\ job[w].op = op

End(w) == job' = [job EXCEPT ![w] = Idle]

Audit(w, shown) == job' = [job EXCEPT ![w] = [Idle EXCEPT !.pc = "audit", !.shown = shown]]

Insert(r, p, d, a, n) ==
  /\ owner[r] = None
  /\ owner' = [owner EXCEPT ![r] = p]
  /\ live' = [live EXCEPT ![r] = TRUE]
  /\ active' = [active EXCEPT ![r] = a]
  /\ rank' = [rank EXCEPT ![r] = n]
  /\ data' = [data EXCEPT ![r] = d]
  /\ UNCHANGED template

\* UNIQUE (template_id, token_key) counts deleted tokens too.
KeyTaken(p, d, self) == \E t \in Ids["token"] \ {self} : owner[t] = p /\ data[t] = d

Create(w) ==
  LET j == job[w] IN
  /\ Writes(w, "create") /\ j.kind # "product"
  /\ IF j.kind = "token" /\ KeyTaken(j.row, j.data, None)
     THEN End(w) /\ UNCHANGED tables
     ELSE \E r \in Ids[j.kind] : /\ Insert(r, j.row, j.data, j.on, j.rank)
                                 /\ Audit(w, {})

\* createProduct; its first image is another statement.
CreateProduct(w) ==
  LET j == job[w] IN
  /\ Writes(w, "create") /\ j.kind = "product"
  /\ \E r \in Ids["product"] :
       /\ Insert(r, Store, j.data, j.on, j.rank)
       /\ job' = [job EXCEPT ![w] = [Idle EXCEPT !.pc = "image", !.row = r]]

FirstImage(w) ==
  /\ job[w].pc = "image"
  /\ \E r \in Ids["image"] : Insert(r, job[w].row, None, TRUE, 0)
  /\ Audit(w, {})

\* The address of the first image is blank or too long, which is looked at
\* only after the product has been created.
RefuseFirstImage(w) ==
  /\ job[w].pc = "image"
  /\ End(w)
  /\ UNCHANGED tables

\* mutated form
UpdateReviving(w) ==
  LET j == job[w] IN
  /\ Writes(w, "update")
  /\ IF j.kind = "token" /\ KeyTaken(owner[j.row], j.data, j.row)
     THEN End(w) /\ UNCHANGED tables
     ELSE /\ data' = [data EXCEPT ![j.row] = Merged(j.kind, @, j.data)]
          /\ active' = [active EXCEPT ![j.row] = Given(j.on, @)]
          /\ rank' = [rank EXCEPT ![j.row] = Given(j.rank, @)]
          /\ live' = [live EXCEPT ![j.row] = TRUE]
          /\ Audit(w, IF j.kind = "group" THEN ReplyRows(j.row) ELSE {})
          /\ UNCHANGED <<owner, template>>

\* By id, whether or not the row was deleted meanwhile.
Update(w) ==
  LET j == job[w] IN
  /\ Writes(w, "update")
  /\ IF j.kind = "token" /\ KeyTaken(owner[j.row], j.data, j.row)
     THEN End(w) /\ UNCHANGED tables
     ELSE /\ data' = [data EXCEPT ![j.row] = Merged(j.kind, @, j.data)]
          /\ active' = [active EXCEPT ![j.row] = Given(j.on, @)]
          /\ rank' = [rank EXCEPT ![j.row] = Given(j.rank, @)]
          /\ Audit(w, IF j.kind = "group" THEN ReplyRows(j.row) ELSE {})
          /\ UNCHANGED <<owner, live, template>>

Delete(w) ==
  LET j == job[w] IN
  /\ Writes(w, "delete")
  /\ live' = [live EXCEPT ![j.row] = FALSE]
  /\ active' = IF j.kind \in Switched THEN [active EXCEPT ![j.row] = FALSE] ELSE active
  /\ Audit(w, {})
  /\ UNCHANGED <<owner, rank, data, template>>

\* One transaction: every row gets its place in the list, by id.
Order(w) ==
  LET j == job[w] IN
  /\ Writes(w, "order")
  /\ rank' = [r \in Rows |->
                IF \E i \in DOMAIN j.seq : j.seq[i] = r
                THEN (CHOOSE i \in DOMAIN j.seq : j.seq[i] = r) - 1
                ELSE rank[r]]
  /\ Audit(w, IF j.kind = "group" THEN UNION {ReplyRows(g) : g \in Siblings("group", j.row)}
              ELSE {})
  /\ UNCHANGED <<owner, live, active, data, template>>

WriteTemplate(w) ==
  LET j == job[w] IN
  /\ Writes(w, "template")
  /\ template' = [template EXCEPT ![j.row] = j.on]
  /\ Audit(w, ReplyRows(j.row) \cap Ids["token"])
  /\ UNCHANGED <<owner, live, active, rank, data>>

\* The audit row is written and the seller gets the reply.
Reply(w) ==
  /\ job[w].pc = "audit"
  /\ End(w)
  /\ UNCHANGED tables

\* A crash, a text that is refused, or a database error, between two statements.
Fail(w) ==
  /\ job[w] # Idle
  /\ End(w)
  /\ UNCHANGED tables

----------------------------------------------------------------------------

Init ==
  /\ owner = [r \in Rows |-> None]
  /\ live = [r \in Rows |-> FALSE]
  /\ active = [r \in Rows |-> FALSE]
  /\ rank = [r \in Rows |-> 0]
  /\ data = [r \in Rows |-> None]
  /\ template = [p \in Ids["product"] |-> None]
  /\ job = [w \in Workers |-> Idle]

AskProduct(w) ==
  \/ \E d \in DataOf["product"], a \in BOOLEAN : SellerCreateProduct(w, d, a)
  \/ \E p \in Ids["product"] :
       \/ \E d \in Edits["product"] : SellerUpdateProduct(w, p, d)
       \/ \E a \in BOOLEAN : SellerSetProductActive(w, p, a)
       \/ SellerDeleteProduct(w, p)

AskImage(w) ==
  \/ \E p \in Ids["product"] :
       \/ \E n \in Ranks \cup {Keep} : SellerAddProductImage(w, p, n)
       \/ \E q \in Orders(Siblings("image", p)) : SellerReorderProductImages(w, p, q)
  \/ \E i \in Ids["image"] : SellerDeleteProductImage(w, i)

AskOption(w) ==
  \E n \in Ranks \cup {Keep} :
    \/ \E p \in Ids["product"], d \in DataOf["group"], a \in BOOLEAN :
         SellerCreateOptionGroup(w, p, d, a, n)
    \/ \E g \in Ids["group"] :
         \/ \E d \in Edits["group"], a \in BOOLEAN \cup {Keep} :
              SellerUpdateOptionGroup(w, g, d, a, n)
         \/ SellerDeleteOptionGroup(w, g)
         \/ \E a \in BOOLEAN : SellerCreateOptionItem(w, g, a, n)
         \/ \E q \in Orders(Siblings("item", g)) : SellerReorderOptionItems(w, g, q)
    \/ \E o \in Ids["item"] :
         \/ \E a \in BOOLEAN \cup {Keep} : SellerUpdateOptionItem(w, o, a, n)
         \/ SellerDeleteOptionItem(w, o)
    \/ \E p \in Ids["product"] :
         \E q \in Orders(Siblings("group", p)) : SellerReorderOptionGroups(w, p, q)

AskTemplate(w) ==
  \/ \E p \in Ids["product"] :
       \/ \E a \in BOOLEAN : \/ SellerUpsertProductCustomTemplate(w, p, a)
                              \/ SellerSetProductCustomTemplateActive(w, p, a)
       \/ \E t \in Ids["token"] \cup {None}, d \in DataOf["token"], n \in Ranks \cup {Keep} :
            SellerUpsertProductCustomTextToken(w, p, t, d, n)
       \/ \E q \in Orders(Siblings("token", p)) : SellerReorderProductCustomTextTokens(w, p, q)
  \/ \E t \in Ids["token"] : SellerDeleteProductCustomTextToken(w, t)

Handle(w) ==
  \/ AskProduct(w) \/ AskImage(w) \/ AskOption(w) \/ AskTemplate(w)
  \/ Create(w) \/ CreateProduct(w) \/ FirstImage(w) \/ RefuseFirstImage(w)
  \/ Update(w) \/ Delete(w) \/ Order(w) \/ WriteTemplate(w)
  \/ Reply(w) \/ Fail(w)

Next == \E w \in Workers : Handle(w)

Spec == Init /\ [][Next]_vars

----------------------------------------------------------------------------
(* Properties.                                                              *)

Drafts == {None} \cup (UNION {DataOf[k] \cup Edits[k] : k \in Kinds})

Jobs ==
  [pc : {"idle", "write", "image", "audit"}, op : {None, "create", "update", "delete", "order", "template"},
   kind : Kinds \cup {None}, row : Rows \cup {Store, None},
   data : Drafts,
   on : BOOLEAN \cup {Keep}, rank : Nat \cup {Keep}, seq : Seq(Rows), shown : SUBSET Rows]

\* Rows that exist have a parent and what their kind holds.
TablesOK ==
  /\ owner \in [Rows -> Rows \cup {Store, None}]
  /\ live \in [Rows -> BOOLEAN]
  /\ active \in [Rows -> BOOLEAN]
  /\ rank \in [Rows -> Nat]
  /\ data \in [Rows -> Drafts]
  /\ \A k \in Kinds : \A r \in Ids[k] : owner[r] # None => data[r] \in DataOf[k]
  /\ \A r \in Rows : live[r] => owner[r] # None
  /\ template \in [Ids["product"] -> BOOLEAN \cup {None}]

\* Rows that exist have a parent and what their kind holds; requests have their
\* types.
TypeOK == TablesOK /\ job \in [Workers -> Jobs]

\* Every sale price is at most the regular price and every option group lets
\* as many choices be made as it requires (salePrice must be less than or equal
\* to regularPrice; maxSelect must be >= minSelect), whichever fields the
\* requests gave and left out.
DataSane == \A k \in {"product", "group"} : \A r \in Ids[k] : owner[r] # None => Sane(k, data[r])

\* A product that has had an image keeps at least one, and never has more than
\* MAX_PRODUCT_IMAGES.
ImagesWithinLimits ==
  \A p \in Ids["product"] :
    (\E r \in Ids["image"] : owner[r] = p) =>
      Cardinality(Siblings("image", p)) \in MIN_PRODUCT_IMAGES .. MAX_PRODUCT_IMAGES

\* A request that was under way when its row was deleted does not bring it back.
GoneStaysGone ==
  [][\A r \in Rows : owner[r] # None /\ ~live[r] => owner'[r] = owner[r] /\ ~live'[r]]_vars

\* A new order leaves no two rows in one place.
OrderSettles ==
  \A w \in Workers :
    Order(w) => \A r, s \in Siblings(job[w].kind, job[w].row) : rank'[r] = rank'[s] => r = s

\* A reply shows no row that is deleted when it is read.
RepliesShowLiveRows ==
  [][\A w \in Workers : \A r \in job'[w].shown \ job[w].shown : live'[r]]_vars

----------------------------------------------------------------------------
(* Invariants the proofs rest on.                                           *)

\* What a request in flight is about to write.
RequestOK(j) ==
  /\ j.pc = "write" =>
       CASE j.op = "create" -> /\ j.kind \in Kinds /\ j.row \in Rows \cup {Store}
                               /\ j.data \in DataOf[j.kind] /\ j.on \in BOOLEAN /\ j.rank \in Nat
         [] j.op = "update" -> /\ j.kind \in Kinds /\ j.row \in Ids[j.kind]
                               /\ owner[j.row] # None /\ j.data \in Edits[j.kind]
         [] j.op = "delete" -> j.row \in Rows
         [] j.op = "order" -> j.kind \in Kinds
         [] OTHER -> j.op = "template" /\ j.row \in Ids["product"] /\ j.on \in BOOLEAN
  /\ j.pc = "image" => j.row \in Rows

CatalogInv == TypeOK /\ \A w \in Workers : RequestOK(job[w])
=============================================================================
