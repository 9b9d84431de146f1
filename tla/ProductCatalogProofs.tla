------------------------- MODULE ProductCatalogProofs -------------------------
(***************************************************************************)
(* Proofs about ProductCatalog, for any ids, limits, prices and ranges of  *)
(* choices.                                                                *)
(*                                                                         *)
(* TypeOK is inductive together with RequestOK: an update is written over  *)
(* a row that exists, with what its kind holds.  That prices stay in order *)
(* rests on the check and the write seeing one state of the row, so it     *)
(* needs the hypothesis that one request is served at a time.              *)
(***************************************************************************)
EXTENDS CatalogCrews, FiniteSetTheorems, TLAPS

----------------------------------------------------------------------------
(* Facts about the data of rows.                                            *)

(* Every row belongs to one kind.                                           *)
LEMMA OneKind ==
    ASSUME NEW k \in Kinds, NEW m \in Kinds, NEW r \in Ids[k], r \in Ids[m]
    PROVE  k = m /\ r \in Rows /\ r # None
<1>1. r \in Rows
      BY DEF Rows
<1>2. r # None
      BY <1>1, CatalogConstants
<1>3. k = m
      BY CatalogConstants
<1> QED
    BY <1>1, <1>2, <1>3

(* Merging the fields an update gives into a row of its kind keeps what the *)
(* kind holds.                                                              *)
LEMMA MergedHolds ==
    ASSUME NEW k \in Kinds, NEW d \in DataOf[k], NEW e \in Edits[k]
    PROVE  Merged(k, d, e) \in DataOf[k]
<1>1. CASE k = "product"
  <2>1. /\ d \in [regular : Prices, sale : Prices \cup {None}]
        /\ e \in [regular : Prices \cup {Keep}, sale : Prices \cup {None, Keep}]
        BY <1>1 DEF DataOf, Edits, Kinds
  <2>2. Merged(k, d, e) \in [regular : Prices, sale : Prices \cup {None}]
        BY <1>1, <2>1 DEF Merged, Given
  <2> QED
      BY <1>1, <2>2 DEF DataOf, Kinds
<1>2. CASE k = "group"
  <2>1. /\ d \in [min : Mins, max : Maxes]
        /\ e \in [min : Mins \cup {Keep}, max : Maxes \cup {Keep}]
        BY <1>2 DEF DataOf, Edits, Kinds
  <2>2. Merged(k, d, e) \in [min : Mins, max : Maxes]
        BY <1>2, <2>1 DEF Merged, Given
  <2> QED
      BY <1>2, <2>2 DEF DataOf, Kinds
<1>3. CASE k \notin {"product", "group"}
      BY <1>3 DEF Merged, Edits
<1> QED
    BY <1>1, <1>2, <1>3

(* What a row holds or an update gives is a draft.                          *)
LEMMA DraftsHold ==
    /\ None \in Drafts
    /\ \A k \in Kinds : DataOf[k] \subseteq Drafts /\ Edits[k] \subseteq Drafts
<1>1. None \in Drafts
      BY DEF Drafts
<1>2. ASSUME NEW k \in Kinds PROVE DataOf[k] \cup Edits[k] \subseteq Drafts
      BY DEF Drafts
<1> QED
    BY <1>1, <1>2

(* An update that gives no price is an update of a product.                 *)
LEMMA NoPricesIsEdit == NoPrices \in Edits["product"]
BY DEF NoPrices, Edits, Kinds

----------------------------------------------------------------------------
(* Starting a request.                                                      *)

(* A request that asks for what it may and is about to write it keeps the   *)
(* invariant.                                                               *)
LEMMA StartKeepsInv ==
    ASSUME NEW w \in Workers, NEW j \in Jobs, CatalogInv, RequestOK(j), Start(w, j)
    PROVE  CatalogInv'
<1>1. TypeOK'
      BY DEF CatalogInv, TypeOK, TablesOK, Start, tables
<1>2. ASSUME NEW x \in Workers PROVE RequestOK(job[x])'
  <2>1. PICK q : q = job'[x]
        OBVIOUS
  <2>2. RequestOK(q)
        BY <2>1 DEF Start, CatalogInv, TypeOK
  <2>3. RequestOK(q)'
        BY <2>2 DEF RequestOK, Start, tables
  <2> QED
      BY <2>1, <2>3 DEF RequestOK
<1> QED
    BY <1>1, <1>2 DEF CatalogInv

(* The fields of a request that is about to write.                          *)
LEMMA RequestFields ==
    ASSUME NEW op \in {"create", "update", "delete", "order", "template"},
           NEW k \in Kinds \cup {None}, NEW r \in Rows \cup {Store}, NEW d \in Drafts,
           NEW a \in BOOLEAN \cup {Keep}, NEW n \in Nat \cup {Keep},
           NEW j, j = Request(op, k, r, d, a, n)
    PROVE  /\ j \in Jobs
           /\ j.pc = "write" /\ j.op = op /\ j.kind = k /\ j.row = r
           /\ j.data = d /\ j.on = a /\ j.rank = n
<1>1. << >> \in Seq(Rows)
      OBVIOUS
<1>2. j \in Jobs
      BY <1>1 DEF Request, Idle, Jobs
<1>3. /\ j.pc = "write" /\ j.op = op /\ j.kind = k /\ j.row = r
      /\ j.data = d /\ j.on = a /\ j.rank = n
      BY DEF Request, Idle
<1> QED
    BY <1>2, <1>3

(* A request that gives nothing but a row, or a switch.                     *)
LEMMA BareRequest ==
    ASSUME NEW op \in {"create", "update", "delete", "order", "template"},
           NEW k \in Kinds \cup {None}, NEW r \in Rows \cup {Store},
           NEW a \in BOOLEAN \cup {Keep}, NEW j, j = Request(op, k, r, None, a, Keep)
    PROVE  /\ j \in Jobs
           /\ j.pc = "write" /\ j.op = op /\ j.kind = k /\ j.row = r /\ j.on = a
<1>1. << >> \in Seq(Rows) /\ None \in Drafts
      BY DraftsHold
<1>2. j \in Jobs
      BY <1>1 DEF Request, Idle, Jobs
<1>3. j.pc = "write" /\ j.op = op /\ j.kind = k /\ j.row = r /\ j.on = a
      BY DEF Request, Idle
<1> QED
    BY <1>2, <1>3

(* Asking for a new row.                                                    *)
LEMMA AskToCreate ==
    ASSUME NEW w \in Workers, CatalogInv, NEW k \in Kinds, NEW r \in Rows \cup {Store},
           NEW d \in DataOf[k], NEW a \in BOOLEAN, NEW n \in Nat,
           Start(w, Request("create", k, r, d, a, n))
    PROVE  CatalogInv'
<1>1. PICK j : j = Request("create", k, r, d, a, n)
      OBVIOUS
<1>2. d \in Drafts
      BY DraftsHold
<1>3. /\ j \in Jobs
      /\ j.pc = "write" /\ j.op = "create" /\ j.kind = k /\ j.row = r
      /\ j.data = d /\ j.on = a /\ j.rank = n
      BY <1>1, <1>2, RequestFields
<1>4. RequestOK(j)
      BY <1>3 DEF RequestOK
<1> QED
    BY <1>1, <1>3, <1>4, StartKeepsInv

(* Asking for a change of a row that is there.                              *)
LEMMA AskToUpdate ==
    ASSUME NEW w \in Workers, CatalogInv, NEW k \in Kinds, NEW r \in Ids[k], live[r],
           NEW d \in Edits[k], NEW a \in BOOLEAN \cup {Keep}, NEW n \in Nat \cup {Keep},
           Start(w, Request("update", k, r, d, a, n))
    PROVE  CatalogInv'
<1>1. PICK j : j = Request("update", k, r, d, a, n)
      OBVIOUS
<1>2. d \in Drafts /\ r \in Rows
      BY DraftsHold DEF Rows
<1>3. /\ j \in Jobs
      /\ j.pc = "write" /\ j.op = "update" /\ j.kind = k /\ j.row = r /\ j.data = d
      BY <1>1, <1>2, RequestFields
<1>4. owner[r] # None
      BY <1>2 DEF CatalogInv, TypeOK, TablesOK
<1>5. RequestOK(j)
      BY <1>3, <1>4 DEF RequestOK
<1> QED
    BY <1>1, <1>3, <1>5, StartKeepsInv

(* Asking for a deletion.                                                   *)
LEMMA AskToDelete ==
    ASSUME NEW w \in Workers, CatalogInv, NEW k \in Kinds, NEW r \in Ids[k],
           Start(w, Request("delete", k, r, None, Keep, Keep))
    PROVE  CatalogInv'
<1>1. PICK j : j = Request("delete", k, r, None, Keep, Keep)
      OBVIOUS
<1>2. r \in Rows
      BY DEF Rows
<1>3. /\ j \in Jobs
      /\ j.pc = "write" /\ j.op = "delete" /\ j.kind = k /\ j.row = r
      BY <1>1, <1>2, BareRequest
<1>4. RequestOK(j)
      BY <1>2, <1>3 DEF RequestOK
<1> QED
    BY <1>1, <1>3, <1>4, StartKeepsInv

(* Asking for a new order.                                                  *)
LEMMA AskToOrder ==
    ASSUME NEW w \in Workers, CatalogInv, NEW k \in Kinds, NEW p \in Rows,
           NEW q \in Orders(Siblings(k, p)), Reorder(w, k, p, q)
    PROVE  CatalogInv'
<1>1. PICK b : b = Request("order", k, p, None, Keep, Keep)
      OBVIOUS
<1>2. /\ b \in Jobs
      /\ b.pc = "write" /\ b.op = "order" /\ b.kind = k
      BY <1>1, BareRequest
<1>3. PICK j : j = [b EXCEPT !.seq = q] /\ Start(w, j)
      BY <1>1 DEF Reorder
<1>4. q \in Seq(Rows)
  <2>1. PICK n \in Nat : q \in [1 .. n -> Siblings(k, p)]
    <3>1. IsFiniteSet(Siblings(k, p))
      <4>1. IsFiniteSet(Ids[k])
            BY CatalogConstants
      <4> QED
          BY <4>1, FS_Subset DEF Siblings
    <3>2. Cardinality(Siblings(k, p)) \in Nat
          BY <3>1, FS_CardinalityType
    <3> QED
        BY <3>2 DEF Orders
  <2>2. Siblings(k, p) \subseteq Rows
        BY DEF Siblings, Rows
  <2> QED
      BY <2>1, <2>2
<1>5. j \in Jobs
      BY <1>2, <1>3, <1>4 DEF Jobs
<1>6. RequestOK(j)
      BY <1>2, <1>3 DEF RequestOK, Jobs
<1> QED
    BY <1>3, <1>5, <1>6, StartKeepsInv

(* Asking for a template, or to switch one.                                 *)
LEMMA AskToSwitchTemplate ==
    ASSUME NEW w \in Workers, CatalogInv, NEW p \in Ids["product"], NEW a \in BOOLEAN,
           Start(w, Request("template", None, p, None, a, Keep))
    PROVE  CatalogInv'
<1>1. PICK j : j = Request("template", None, p, None, a, Keep)
      OBVIOUS
<1>2. p \in Rows
      BY DEF Rows, Kinds
<1>3. /\ j \in Jobs
      /\ j.pc = "write" /\ j.op = "template" /\ j.row = p /\ j.on = a
      BY <1>1, <1>2, BareRequest
<1>4. RequestOK(j)
      BY <1>3 DEF RequestOK
<1> QED
    BY <1>1, <1>3, <1>4, StartKeepsInv
(* Whatever a seller asks for keeps the invariant.                          *)
LEMMA AskingKeepsInv ==
    ASSUME NEW w \in Workers, CatalogInv,
           AskProduct(w) \/ AskImage(w) \/ AskOption(w) \/ AskTemplate(w)
    PROVE  CatalogInv'
<1>1. /\ Kinds = {"product", "image", "group", "item", "token"}
      /\ DataOf["image"] = {None} /\ DataOf["item"] = {None} /\ Edits["item"] = {None}
      /\ Edits["token"] = DataOf["token"]
      BY DEF Kinds, DataOf, Edits
<1>2. \A k \in Kinds : Ids[k] \subseteq Rows
      BY DEF Rows
<1>3. ASSUME AskProduct(w) PROVE CatalogInv'
  <2>1. ASSUME NEW d \in DataOf["product"], NEW a \in BOOLEAN, SellerCreateProduct(w, d, a)
        PROVE  CatalogInv'
        BY <1>1, <2>1, AskToCreate DEF SellerCreateProduct
  <2>2. ASSUME NEW p \in Ids["product"], NEW d \in Edits["product"], SellerUpdateProduct(w, p, d)
        PROVE  CatalogInv'
        BY <1>1, <2>2, AskToUpdate DEF SellerUpdateProduct
  <2>3. ASSUME NEW p \in Ids["product"], NEW a \in BOOLEAN, SellerSetProductActive(w, p, a)
        PROVE  CatalogInv'
    <3>1. PICK d \in Edits["product"] : d = NoPrices
          BY NoPricesIsEdit
    <3> QED
        BY <1>1, <2>3, <3>1, AskToUpdate DEF SellerSetProductActive
  <2>4. ASSUME NEW p \in Ids["product"], SellerDeleteProduct(w, p) PROVE CatalogInv'
        BY <1>1, <2>4, AskToDelete DEF SellerDeleteProduct
  <2> QED
      BY <1>3, <2>1, <2>2, <2>3, <2>4 DEF AskProduct
<1>4. ASSUME NEW k \in Kinds, NEW p \in Rows PROVE Cardinality(Siblings(k, p)) \in Nat
  <2>1. IsFiniteSet(Siblings(k, p))
    <3>1. IsFiniteSet(Ids[k])
          BY CatalogConstants
    <3> QED
        BY <3>1, FS_Subset DEF Siblings
  <2> QED
      BY <2>1, FS_CardinalityType
<1>5. Ranks \subseteq Nat
      BY CatalogConstants
<1>6. ASSUME AskImage(w) PROVE CatalogInv'
  <2>1. ASSUME NEW p \in Ids["product"], NEW n \in Ranks \cup {Keep}, SellerAddProductImage(w, p, n)
        PROVE  CatalogInv'
    <3>1. PICK c \in Nat : c = Given(n, Cardinality(Siblings("image", p)))
          BY <1>1, <1>2, <1>4, <1>5 DEF Given
    <3>2. PICK d \in DataOf["image"] : d = None
          BY <1>1
    <3>3. Start(w, Request("create", "image", p, d, TRUE, c))
          BY <2>1, <3>1, <3>2 DEF SellerAddProductImage
    <3> QED
        BY <1>1, <1>2, <3>3, AskToCreate
  <2>2. ASSUME NEW p \in Ids["product"], NEW q \in Orders(Siblings("image", p)),
               SellerReorderProductImages(w, p, q)
        PROVE  CatalogInv'
        BY <1>1, <1>2, <2>2, AskToOrder DEF SellerReorderProductImages
  <2>3. ASSUME NEW i \in Ids["image"], SellerDeleteProductImage(w, i) PROVE CatalogInv'
        BY <1>1, <2>3, AskToDelete DEF SellerDeleteProductImage
  <2> QED
      BY <1>6, <2>1, <2>2, <2>3 DEF AskImage
<1>7. ASSUME NEW n \in Ranks \cup {Keep} PROVE Given(n, 0) \in Nat /\ n \in Nat \cup {Keep}
      BY <1>5 DEF Given
<1>8. ASSUME AskOption(w) PROVE CatalogInv'
  <2>1. ASSUME NEW n \in Ranks \cup {Keep}, NEW p \in Ids["product"], NEW d \in DataOf["group"],
               NEW a \in BOOLEAN, SellerCreateOptionGroup(w, p, d, a, n)
        PROVE  CatalogInv'
        BY <1>1, <1>2, <1>7, <2>1, AskToCreate DEF SellerCreateOptionGroup
  <2>2. ASSUME NEW n \in Ranks \cup {Keep}, NEW g \in Ids["group"], NEW d \in Edits["group"],
               NEW a \in BOOLEAN \cup {Keep}, SellerUpdateOptionGroup(w, g, d, a, n)
        PROVE  CatalogInv'
        BY <1>1, <1>7, <2>2, AskToUpdate DEF SellerUpdateOptionGroup
  <2>3. ASSUME NEW g \in Ids["group"], SellerDeleteOptionGroup(w, g) PROVE CatalogInv'
        BY <1>1, <2>3, AskToDelete DEF SellerDeleteOptionGroup
  <2>4. ASSUME NEW n \in Ranks \cup {Keep}, NEW g \in Ids["group"], NEW a \in BOOLEAN,
               SellerCreateOptionItem(w, g, a, n)
        PROVE  CatalogInv'
    <3>1. PICK d \in DataOf["item"] : d = None
          BY <1>1
    <3> QED
        BY <1>1, <1>2, <1>7, <2>4, <3>1, AskToCreate DEF SellerCreateOptionItem
  <2>5. ASSUME NEW g \in Ids["group"], NEW q \in Orders(Siblings("item", g)),
               SellerReorderOptionItems(w, g, q)
        PROVE  CatalogInv'
        BY <1>1, <1>2, <2>5, AskToOrder DEF SellerReorderOptionItems
  <2>6. ASSUME NEW n \in Ranks \cup {Keep}, NEW o \in Ids["item"], NEW a \in BOOLEAN \cup {Keep},
               SellerUpdateOptionItem(w, o, a, n)
        PROVE  CatalogInv'
    <3>1. PICK d \in Edits["item"] : d = None
          BY <1>1
    <3> QED
        BY <1>1, <1>7, <2>6, <3>1, AskToUpdate DEF SellerUpdateOptionItem
  <2>7. ASSUME NEW o \in Ids["item"], SellerDeleteOptionItem(w, o) PROVE CatalogInv'
        BY <1>1, <2>7, AskToDelete DEF SellerDeleteOptionItem
  <2>8. ASSUME NEW p \in Ids["product"], NEW q \in Orders(Siblings("group", p)),
               SellerReorderOptionGroups(w, p, q)
        PROVE  CatalogInv'
        BY <1>1, <1>2, <2>8, AskToOrder DEF SellerReorderOptionGroups
  <2> QED
      BY <1>8, <2>1, <2>2, <2>3, <2>4, <2>5, <2>6, <2>7, <2>8 DEF AskOption
<1>9. ASSUME AskTemplate(w) PROVE CatalogInv'
  <2>1. ASSUME NEW p \in Ids["product"], NEW a \in BOOLEAN,
               \/ SellerUpsertProductCustomTemplate(w, p, a)
               \/ SellerSetProductCustomTemplateActive(w, p, a)
        PROVE  CatalogInv'
        BY <2>1, AskToSwitchTemplate
           DEF SellerUpsertProductCustomTemplate, SellerSetProductCustomTemplateActive
  <2>2. ASSUME NEW p \in Ids["product"], NEW t \in Ids["token"] \cup {None},
               NEW d \in DataOf["token"], NEW n \in Ranks \cup {Keep},
               SellerUpsertProductCustomTextToken(w, p, t, d, n)
        PROVE  CatalogInv'
    <3>1. CASE t = None
          BY <1>1, <1>2, <1>7, <2>2, <3>1, AskToCreate DEF SellerUpsertProductCustomTextToken
    <3>2. CASE t # None
          BY <1>1, <1>7, <2>2, <3>2, AskToUpdate DEF SellerUpsertProductCustomTextToken
    <3> QED
        BY <3>1, <3>2
  <2>3. ASSUME NEW p \in Ids["product"], NEW q \in Orders(Siblings("token", p)),
               SellerReorderProductCustomTextTokens(w, p, q)
        PROVE  CatalogInv'
        BY <1>1, <1>2, <2>3, AskToOrder DEF SellerReorderProductCustomTextTokens
  <2>4. ASSUME NEW t \in Ids["token"], SellerDeleteProductCustomTextToken(w, t) PROVE CatalogInv'
        BY <1>1, <2>4, AskToDelete DEF SellerDeleteProductCustomTextToken
  <2> QED
      BY <1>9, <2>1, <2>2, <2>3, <2>4 DEF AskTemplate
<1> QED
    BY <1>3, <1>6, <1>8, <1>9
----------------------------------------------------------------------------
(* Writing.                                                                 *)

(* A worker going on to a request that is in order, while no row loses its  *)
(* parent, leaves all requests in order.                                    *)
LEMMA GoingOn ==
    ASSUME NEW w \in Workers, CatalogInv, NEW q \in Jobs,
           job' = [job EXCEPT ![w] = q],
           q.pc \in {"idle", "audit"} \/ (q.pc = "image" /\ q.row \in Rows),
           \A r \in Rows : owner[r] # None => owner'[r] # None
    PROVE  /\ job' \in [Workers -> Jobs]
           /\ \A x \in Workers : RequestOK(job[x])'
<1>1. job' \in [Workers -> Jobs]
      BY DEF CatalogInv, TypeOK
<1>2. ASSUME NEW x \in Workers PROVE RequestOK(job[x])'
  <2>1. PICK j : j = job'[x]
        OBVIOUS
  <2>2. CASE x = w
    <3>1. j = q
          BY <2>1, <2>2 DEF CatalogInv, TypeOK
    <3>2. /\ j.pc # "write"
          /\ j.pc = "image" => j.row \in Rows
          BY <3>1
    <3> QED
        BY <2>1, <3>2 DEF RequestOK
  <2>3. CASE x # w
    <3>1. j = job[x]
          BY <2>1, <2>3 DEF CatalogInv, TypeOK
    <3>2. RequestOK(j)
          BY <3>1 DEF CatalogInv
    <3>3. j.pc = "write" /\ j.op = "update" => owner'[j.row] # None
      <4>1. SUFFICES ASSUME j.pc = "write", j.op = "update"
                     PROVE  owner'[j.row] # None
            OBVIOUS
      <4>2. j.kind \in Kinds /\ j.row \in Ids[j.kind] /\ owner[j.row] # None
            BY <3>2, <4>1 DEF RequestOK
      <4>3. j.row \in Rows
            BY <4>2 DEF Rows
      <4> QED
          BY <4>2, <4>3
    <3> QED
        BY <2>1, <3>2, <3>3 DEF RequestOK
  <2> QED
      BY <2>2, <2>3
<1> QED
    BY <1>1, <1>2

(* A new row is in order.                                                   *)
LEMMA InsertKeepsTables ==
    ASSUME TablesOK, NEW k \in Kinds, NEW r \in Ids[k], NEW p \in Rows \cup {Store},
           NEW d \in DataOf[k], NEW a \in BOOLEAN, NEW n \in Nat, Insert(r, p, d, a, n)
    PROVE  /\ TablesOK'
           /\ \A s \in Rows : owner[s] # None => owner'[s] # None
<1>1. r \in Rows /\ d \in Drafts
      BY DraftsHold DEF Rows
<1>2. p # None
      BY CatalogConstants
<1>3. /\ owner' \in [Rows -> Rows \cup {Store, None}]
      /\ live' \in [Rows -> BOOLEAN] /\ active' \in [Rows -> BOOLEAN]
      /\ rank' \in [Rows -> Nat] /\ data' \in [Rows -> Drafts]
      /\ template' \in [Ids["product"] -> BOOLEAN \cup {None}]
      BY <1>1 DEF TablesOK, Insert
<1>4. ASSUME NEW m \in Kinds, NEW s \in Ids[m], owner'[s] # None PROVE data'[s] \in DataOf[m]
  <2>1. s \in Rows
        BY DEF Rows
  <2>2. CASE s = r
    <3>1. k = m
          BY <2>2, OneKind
    <3> QED
        BY <1>1, <2>2, <3>1 DEF TablesOK, Insert
  <2>3. CASE s # r
        BY <1>1, <1>4, <2>1, <2>3 DEF TablesOK, Insert
  <2> QED
      BY <2>2, <2>3
<1>5. \A s \in Rows : live'[s] => owner'[s] # None
      BY <1>1, <1>2 DEF TablesOK, Insert
<1>6. \A s \in Rows : owner[s] # None => owner'[s] # None
      BY <1>1, <1>2 DEF TablesOK, Insert
<1> QED
    BY <1>3, <1>4, <1>5, <1>6 DEF TablesOK

(* The states of a request after its write.                                 *)
LEMMA AfterWrite ==
    /\ Idle \in Jobs /\ Idle.pc = "idle"
    /\ \A s \in SUBSET Rows : LET q == [Idle EXCEPT !.pc = "audit", !.shown = s]
                             IN  q \in Jobs /\ q.pc = "audit"
    /\ \A r \in Rows : LET q == [Idle EXCEPT !.pc = "image", !.row = r]
                       IN  q \in Jobs /\ q.pc = "image" /\ q.row = r
<1>1. << >> \in Seq(Rows) /\ None \in Drafts
      BY DraftsHold
<1>2. Idle \in Jobs /\ Idle.pc = "idle"
      BY <1>1 DEF Idle, Jobs
<1>3. ASSUME NEW s \in SUBSET Rows, NEW q, q = [Idle EXCEPT !.pc = "audit", !.shown = s]
      PROVE  q \in Jobs /\ q.pc = "audit"
      BY <1>2, <1>3 DEF Jobs
<1>4. ASSUME NEW r \in Rows, NEW q, q = [Idle EXCEPT !.pc = "image", !.row = r]
      PROVE  q \in Jobs /\ q.pc = "image" /\ q.row = r
      BY <1>2, <1>4 DEF Jobs
<1> QED
    BY <1>2, <1>3, <1>4

(* The end of a request changes no row.                                     *)
LEMMA EndKeepsInv ==
    ASSUME NEW w \in Workers, CatalogInv, End(w), UNCHANGED tables
    PROVE  CatalogInv'
<1>1. \A r \in Rows : owner[r] # None => owner'[r] # None
      BY DEF tables
<1>2. job' \in [Workers -> Jobs] /\ \A x \in Workers : RequestOK(job[x])'
      BY <1>1, AfterWrite, GoingOn DEF End
<1>3. TablesOK'
      BY DEF CatalogInv, TypeOK, TablesOK, tables
<1> QED
    BY <1>2, <1>3 DEF CatalogInv, TypeOK

(* A write after which the rows are in order keeps the invariant.           *)
LEMMA AuditKeepsInv ==
    ASSUME NEW w \in Workers, CatalogInv, NEW s \in SUBSET Rows, Audit(w, s), TablesOK',
           \A r \in Rows : owner[r] # None => owner'[r] # None
    PROVE  CatalogInv'
<1>1. PICK q : q = [Idle EXCEPT !.pc = "audit", !.shown = s]
      OBVIOUS
<1>2. q \in Jobs /\ q.pc = "audit"
      BY <1>1, AfterWrite
<1>3. job' = [job EXCEPT ![w] = q]
      BY <1>1 DEF Audit
<1>4. job' \in [Workers -> Jobs] /\ \A x \in Workers : RequestOK(job[x])'
      BY <1>2, <1>3, GoingOn
<1> QED
    BY <1>4 DEF CatalogInv, TypeOK

(* What is sent back are rows.                                              *)
LEMMA ReplyRowsAreRows == \A r : ReplyRows(r) \subseteq Rows
BY DEF ReplyRows, Rows, Kinds

(* Creating a row.                                                          *)
LEMMA CreateKeepsInv ==
    ASSUME NEW w \in Workers, CatalogInv, Create(w) \/ CreateProduct(w) \/ FirstImage(w)
    PROVE  CatalogInv'
<1>1. PICK j : j = job[w]
      OBVIOUS
<1>2. RequestOK(j) /\ TablesOK
      BY <1>1 DEF CatalogInv, TypeOK
<1>3. ASSUME Create(w) PROVE CatalogInv'
  <2>1. /\ j.kind \in Kinds /\ j.row \in Rows \cup {Store}
        /\ j.data \in DataOf[j.kind] /\ j.on \in BOOLEAN /\ j.rank \in Nat
        BY <1>1, <1>2, <1>3 DEF Create, Writes, RequestOK
  <2>2. CASE End(w) /\ UNCHANGED tables
        BY <2>2, EndKeepsInv
  <2>3. ASSUME NEW r \in Ids[j.kind], Insert(r, j.row, j.data, j.on, j.rank), Audit(w, {})
        PROVE  CatalogInv'
    <3>1. /\ TablesOK'
          /\ \A s \in Rows : owner[s] # None => owner'[s] # None
          BY <1>2, <2>1, <2>3, InsertKeepsTables
    <3> QED
        BY <2>3, <3>1, AuditKeepsInv
  <2> QED
      BY <1>1, <1>3, <2>2, <2>3 DEF Create
<1>4. ASSUME CreateProduct(w) PROVE CatalogInv'
  <2>1. /\ j.kind = "product" /\ "product" \in Kinds
        /\ j.data \in DataOf["product"] /\ j.on \in BOOLEAN /\ j.rank \in Nat
        BY <1>1, <1>2, <1>4 DEF CreateProduct, Writes, RequestOK, Kinds
  <2>2. PICK r \in Ids["product"] :
          /\ Insert(r, Store, j.data, j.on, j.rank)
          /\ job' = [job EXCEPT ![w] = [Idle EXCEPT !.pc = "image", !.row = r]]
        BY <1>1, <1>4 DEF CreateProduct
  <2>3. /\ TablesOK'
        /\ \A s \in Rows : owner[s] # None => owner'[s] # None
        BY <1>2, <2>1, <2>2, InsertKeepsTables
  <2>4. PICK q : q = [Idle EXCEPT !.pc = "image", !.row = r]
        OBVIOUS
  <2>5. r \in Rows /\ q \in Jobs /\ q.pc = "image" /\ q.row = r
    <3>1. r \in Rows
          BY <2>1 DEF Rows
    <3> QED
        BY <2>4, <3>1, AfterWrite
  <2>6. job' = [job EXCEPT ![w] = q]
        BY <2>2, <2>4
  <2>7. job' \in [Workers -> Jobs] /\ \A x \in Workers : RequestOK(job[x])'
        BY <2>3, <2>5, <2>6, GoingOn
  <2> QED
      BY <2>3, <2>7 DEF CatalogInv, TypeOK
<1>5. ASSUME FirstImage(w) PROVE CatalogInv'
  <2>1. j.row \in Rows /\ "image" \in Kinds /\ None \in DataOf["image"]
        BY <1>1, <1>2, <1>5 DEF FirstImage, RequestOK, DataOf, Kinds
  <2>2. PICK r \in Ids["image"] : Insert(r, j.row, None, TRUE, 0)
        BY <1>1, <1>5 DEF FirstImage
  <2>3. /\ TablesOK'
        /\ \A s \in Rows : owner[s] # None => owner'[s] # None
        BY <1>2, <2>1, <2>2, InsertKeepsTables
  <2> QED
      BY <1>5, <2>3, AuditKeepsInv DEF FirstImage
<1> QED
    BY <1>3, <1>4, <1>5

(* Writing over a row.                                                      *)
LEMMA UpdateKeepsInv ==
    ASSUME NEW w \in Workers, CatalogInv, Update(w)
    PROVE  CatalogInv'
<1>1. PICK j : j = job[w]
      OBVIOUS
<1>2. j \in Jobs /\ RequestOK(j) /\ TablesOK
      BY <1>1 DEF CatalogInv, TypeOK
<1>3. /\ j.kind \in Kinds /\ j.row \in Ids[j.kind] /\ j.row \in Rows
      /\ owner[j.row] # None /\ j.data \in Edits[j.kind]
      /\ j.on \in BOOLEAN \cup {Keep} /\ j.rank \in Nat \cup {Keep}
  <2>1. /\ j.kind \in Kinds /\ j.row \in Ids[j.kind]
        /\ owner[j.row] # None /\ j.data \in Edits[j.kind]
        BY <1>1, <1>2 DEF Update, Writes, RequestOK
  <2>2. j.row \in Rows
        BY <2>1 DEF Rows
  <2> QED
      BY <1>2, <2>1, <2>2 DEF Jobs
<1>4. CASE End(w) /\ UNCHANGED tables
      BY <1>4, EndKeepsInv
<1>5. ASSUME data' = [data EXCEPT ![j.row] = Merged(j.kind, @, j.data)],
             active' = [active EXCEPT ![j.row] = Given(j.on, @)],
             rank' = [rank EXCEPT ![j.row] = Given(j.rank, @)],
             Audit(w, IF j.kind = "group" THEN ReplyRows(j.row) ELSE {}),
             UNCHANGED <<owner, live, template>>
      PROVE  CatalogInv'
  <2>1. PICK d : d = Merged(j.kind, data[j.row], j.data)
        OBVIOUS
  <2>2. d \in DataOf[j.kind]
    <3>1. data[j.row] \in DataOf[j.kind]
          BY <1>2, <1>3 DEF TablesOK
    <3> QED
        BY <1>3, <2>1, <3>1, MergedHolds
  <2>3. d \in Drafts
        BY <1>3, <2>2, DraftsHold
  <2>4. data' = [data EXCEPT ![j.row] = d]
        BY <1>2, <1>3, <1>5, <2>1 DEF TablesOK
  <2>5. \A m \in Kinds : \A s \in Ids[m] : owner'[s] # None => data'[s] \in DataOf[m]
    <3> SUFFICES ASSUME NEW m \in Kinds, NEW s \in Ids[m], owner'[s] # None
                 PROVE  data'[s] \in DataOf[m]
        OBVIOUS
    <3>1. s \in Rows
          BY DEF Rows
    <3>2. CASE s = j.row
      <4>1. m = j.kind
            BY <1>3, <3>2, OneKind
      <4> QED
          BY <1>2, <2>2, <2>4, <3>1, <3>2, <4>1 DEF TablesOK
    <3>3. CASE s # j.row
          BY <1>2, <1>5, <2>4, <3>1, <3>3 DEF TablesOK
    <3> QED
        BY <3>2, <3>3
  <2>6. active' \in [Rows -> BOOLEAN] /\ rank' \in [Rows -> Nat] /\ data' \in [Rows -> Drafts]
        BY <1>2, <1>3, <1>5, <2>3, <2>4 DEF TablesOK, Given
  <2>7. TablesOK'
        BY <1>2, <1>5, <2>5, <2>6 DEF TablesOK
  <2>8. PICK z \in SUBSET Rows : z = IF j.kind = "group" THEN ReplyRows(j.row) ELSE {}
        BY ReplyRowsAreRows
  <2> QED
      BY <1>5, <2>7, <2>8, AuditKeepsInv
<1> QED
    BY <1>1, <1>4, <1>5 DEF Update

(* The other writes.                                                        *)
LEMMA OtherWritesKeepInv ==
    ASSUME NEW w \in Workers, CatalogInv, Delete(w) \/ Order(w) \/ WriteTemplate(w)
    PROVE  CatalogInv'
<1>1. PICK j : j = job[w]
      OBVIOUS
<1>2. j \in Jobs /\ RequestOK(j) /\ TablesOK
      BY <1>1 DEF CatalogInv, TypeOK
<1>3. ASSUME Delete(w) PROVE CatalogInv'
  <2>1. j.row \in Rows
        BY <1>1, <1>2, <1>3 DEF Delete, Writes, RequestOK
  <2>2. TablesOK'
        BY <1>1, <1>2, <1>3, <2>1 DEF Delete, TablesOK
  <2> QED
      BY <1>3, <2>2, AuditKeepsInv DEF Delete
<1>4. ASSUME Order(w) PROVE CatalogInv'
  <2>1. PICK n \in Nat : DOMAIN j.seq = 1 .. n
    <3>1. j.seq \in Seq(Rows)
          BY <1>2 DEF Jobs
    <3> QED
        BY <3>1
  <2>2. rank' \in [Rows -> Nat]
    <3>1. ASSUME NEW r \in Rows PROVE rank'[r] \in Nat
      <4>1. CASE \E i \in DOMAIN j.seq : j.seq[i] = r
        <5>1. (CHOOSE i \in DOMAIN j.seq : j.seq[i] = r) \in 1 .. n
              BY <2>1, <4>1
        <5>2. rank'[r] = (CHOOSE i \in DOMAIN j.seq : j.seq[i] = r) - 1
              BY <1>1, <1>4, <4>1 DEF Order
        <5> QED
            BY <5>1, <5>2
      <4>2. CASE ~ \E i \in DOMAIN j.seq : j.seq[i] = r
            BY <1>1, <1>2, <1>4, <4>2 DEF Order, TablesOK
      <4> QED
          BY <4>1, <4>2
    <3>2. rank' = [r \in Rows |-> rank'[r]]
          BY <1>4 DEF Order
    <3> QED
        BY <3>1, <3>2
  <2>3. TablesOK'
        BY <1>2, <1>4, <2>2 DEF Order, TablesOK
  <2>4. PICK z \in SUBSET Rows :
          z = IF j.kind = "group" THEN UNION {ReplyRows(g) : g \in Siblings("group", j.row)} ELSE {}
        BY ReplyRowsAreRows
  <2>5. Audit(w, z)
        BY <1>1, <1>4, <2>4 DEF Order
  <2> QED
      BY <1>4, <2>3, <2>5, AuditKeepsInv DEF Order
<1>5. ASSUME WriteTemplate(w) PROVE CatalogInv'
  <2>1. j.row \in Ids["product"] /\ j.on \in BOOLEAN
        BY <1>1, <1>2, <1>5 DEF WriteTemplate, Writes, RequestOK
  <2>2. TablesOK'
        BY <1>1, <1>2, <1>5, <2>1 DEF WriteTemplate, TablesOK
  <2>3. PICK z \in SUBSET Rows : z = ReplyRows(j.row) \cap Ids["token"]
        BY ReplyRowsAreRows
  <2>4. Audit(w, z)
        BY <1>1, <1>5, <2>3 DEF WriteTemplate
  <2> QED
      BY <1>5, <2>2, <2>4, AuditKeepsInv DEF WriteTemplate
<1> QED
    BY <1>3, <1>4, <1>5

(* No step breaks the invariant.                                            *)
LEMMA NextKeepsInv ==
    ASSUME CatalogInv, [Next]_vars PROVE CatalogInv'
<1>1. ASSUME NEW w \in Workers, Handle(w) PROVE CatalogInv'
  <2>1. CASE AskProduct(w) \/ AskImage(w) \/ AskOption(w) \/ AskTemplate(w)
        BY <2>1, AskingKeepsInv
  <2>2. CASE Create(w) \/ CreateProduct(w) \/ FirstImage(w)
        BY <2>2, CreateKeepsInv
  <2>3. CASE RefuseFirstImage(w) \/ Reply(w) \/ Fail(w)
        BY <2>3, EndKeepsInv DEF RefuseFirstImage, Reply, Fail
  <2>4. CASE Update(w)
        BY <2>4, UpdateKeepsInv
  <2>5. CASE Delete(w) \/ Order(w) \/ WriteTemplate(w)
        BY <2>5, OtherWritesKeepInv
  <2> QED
      BY <1>1, <2>1, <2>2, <2>3, <2>4, <2>5 DEF Handle
<1>2. CASE UNCHANGED vars
      BY <1>2 DEF vars, CatalogInv, TypeOK, TablesOK, RequestOK
<1> QED
    BY <1>1, <1>2 DEF Next

(* An empty catalog satisfies the invariant.                                *)
LEMMA InitKeepsInv == Init => CatalogInv
<1> SUFFICES ASSUME Init PROVE CatalogInv
    OBVIOUS
<1>1. TablesOK
      BY DraftsHold DEF Init, TablesOK, Rows
<1>2. job \in [Workers -> Jobs] /\ \A w \in Workers : job[w].pc = "idle"
      BY AfterWrite DEF Init
<1>3. \A w \in Workers : RequestOK(job[w])
      BY <1>2 DEF RequestOK
<1> QED
    BY <1>1, <1>2, <1>3 DEF CatalogInv, TypeOK

(* Rows and requests have their types, whatever is asked for at once.       *)
THEOREM CatalogTypeCorrect == Spec => []TypeOK
<1>1. CatalogInv => TypeOK
      BY DEF CatalogInv
<1> QED
    BY <1>1, InitKeepsInv, NextKeepsInv, PTL DEF Spec

----------------------------------------------------------------------------
(* Deleted rows.                                                            *)

(* A step writes deleted_at, and the parent, only of a row that is new or   *)
(* that it deletes.                                                         *)
LEMMA NextLeavesGone ==
    ASSUME TypeOK, NEW w \in Workers, Handle(w), NEW r \in Rows, owner[r] # None, ~live[r]
    PROVE  owner'[r] = owner[r] /\ ~live'[r]
<1>1. CASE UNCHANGED <<owner, live>>
      BY <1>1
<1>2. ASSUME NEW s, NEW p, NEW d, NEW a, NEW n, Insert(s, p, d, a, n)
      PROVE  owner'[r] = owner[r] /\ ~live'[r]
      BY <1>2 DEF Insert, TypeOK, TablesOK
<1>3. CASE Create(w) \/ CreateProduct(w) \/ FirstImage(w)
      BY <1>1, <1>2, <1>3 DEF Create, CreateProduct, FirstImage, tables
<1>4. CASE Delete(w)
      BY <1>4 DEF Delete, TypeOK, TablesOK
<1>5. CASE AskProduct(w) \/ AskImage(w) \/ AskOption(w) \/ AskTemplate(w)
  <2>1. \A j : Start(w, j) => UNCHANGED <<owner, live>>
        BY DEF Start, tables
  <2>2. \A k, p, q : Reorder(w, k, p, q) => UNCHANGED <<owner, live>>
        BY <2>1 DEF Reorder
  <2> QED
      BY <1>1, <1>5, <2>1, <2>2
         DEF AskProduct, AskImage, AskOption, AskTemplate,
             SellerCreateProduct, SellerUpdateProduct, SellerSetProductActive, SellerDeleteProduct,
             SellerAddProductImage, SellerReorderProductImages, SellerDeleteProductImage,
             SellerCreateOptionGroup, SellerUpdateOptionGroup, SellerDeleteOptionGroup,
             SellerReorderOptionGroups, SellerCreateOptionItem, SellerUpdateOptionItem,
             SellerDeleteOptionItem, SellerReorderOptionItems,
             SellerUpsertProductCustomTemplate, SellerSetProductCustomTemplateActive,
             SellerUpsertProductCustomTextToken, SellerDeleteProductCustomTextToken,
             SellerReorderProductCustomTextTokens
<1>6. CASE RefuseFirstImage(w) \/ Reply(w) \/ Fail(w) \/ Update(w) \/ Order(w) \/ WriteTemplate(w)
      BY <1>1, <1>6 DEF RefuseFirstImage, Reply, Fail, Update, Order, WriteTemplate, tables
<1> QED
    BY <1>3, <1>4, <1>5, <1>6 DEF Handle

(* A deleted row is not brought back, and not moved, by the requests that   *)
(* found it before it was deleted and write it by id afterwards.            *)
THEOREM GoneForGood == Spec => GoneStaysGone
<1>1. ASSUME TypeOK, [Next]_vars, NEW r \in Rows, owner[r] # None /\ ~live[r]
      PROVE  owner'[r] = owner[r] /\ ~live'[r]
  <2>1. CASE UNCHANGED vars
        BY <1>1, <2>1 DEF vars
  <2> QED
      BY <1>1, <2>1, NextLeavesGone DEF Next
<1>2. TypeOK /\ [Next]_vars =>
        [\A r \in Rows : owner[r] # None /\ ~live[r] => owner'[r] = owner[r] /\ ~live'[r]]_vars
      BY <1>1
<1> QED
    BY <1>2, CatalogTypeCorrect, PTL DEF Spec, GoneStaysGone

----------------------------------------------------------------------------
(* One request at a time.                                                   *)

(* An order of as many rows as there are, none of them twice, has them all. *)
LEMMA OrderHasAll ==
    ASSUME NEW k \in Kinds, NEW p \in Rows, NEW q \in Orders(Siblings(k, p)),
           Len(q) = Cardinality(Siblings(k, p))
    PROVE  {q[i] : i \in DOMAIN q} = Siblings(k, p)
<1>1. PICK s : s = Siblings(k, p)
      OBVIOUS
<1>2. IsFiniteSet(s)
  <2>1. IsFiniteSet(Ids[k])
        BY CatalogConstants
  <2> QED
      BY <1>1, <2>1, FS_Subset DEF Siblings
<1>3. Cardinality(s) \in Nat
      BY <1>2, FS_CardinalityType
<1>4. PICK n \in Nat : q \in [1 .. n -> s] /\ \A i, j \in 1 .. n : q[i] = q[j] => i = j
      BY <1>1, <1>3 DEF Orders
<1>5. Len(q) = n
      BY <1>4
<1>6. q \in Injection(1 .. n, s)
      BY <1>4 DEF Injection, IsInjective
<1>7. Cardinality(1 .. n) = n
      BY <1>4, FS_Interval
<1>8. q \in Surjection(1 .. n, s)
      BY <1>1, <1>2, <1>5, <1>6, <1>7, FS_Injection
<1> QED
    BY <1>1, <1>4, <1>8 DEF Surjection

(* A worker changes no request but its own.                                 *)
LEMMA OthersStayAside ==
    ASSUME NEW w \in Workers, CatalogInv, Aside(w), Handle(w)
    PROVE  Aside(w)'
<1>1. \E j : job' = [job EXCEPT ![w] = j]
  <2>1. ASSUME NEW j, Start(w, j) PROVE \E q : job' = [job EXCEPT ![w] = q]
        BY <2>1 DEF Start
  <2>2. CASE AskProduct(w) \/ AskImage(w)
        BY <2>1, <2>2 DEF AskProduct, AskImage, SellerCreateProduct, SellerUpdateProduct,
                          SellerSetProductActive, SellerDeleteProduct, SellerAddProductImage,
                          SellerReorderProductImages, SellerDeleteProductImage, Reorder
  <2>3. CASE AskOption(w)
        BY <2>1, <2>3 DEF AskOption, SellerCreateOptionGroup, SellerUpdateOptionGroup,
                          SellerDeleteOptionGroup, SellerReorderOptionGroups,
                          SellerCreateOptionItem, SellerUpdateOptionItem, SellerDeleteOptionItem,
                          SellerReorderOptionItems, Reorder
  <2>4. CASE AskTemplate(w)
        BY <2>1, <2>4 DEF AskTemplate, SellerUpsertProductCustomTemplate,
                          SellerSetProductCustomTemplateActive, SellerUpsertProductCustomTextToken,
                          SellerReorderProductCustomTextTokens, SellerDeleteProductCustomTextToken,
                          Reorder
  <2>5. CASE \/ Create(w) \/ CreateProduct(w) \/ FirstImage(w) \/ RefuseFirstImage(w)
             \/ Update(w) \/ Delete(w) \/ Order(w) \/ WriteTemplate(w) \/ Reply(w) \/ Fail(w)
        BY <2>5 DEF Create, CreateProduct, FirstImage, RefuseFirstImage, Update, Delete, Order,
                    WriteTemplate, Reply, Fail, End, Audit
  <2> QED
      BY <2>2, <2>3, <2>4, <2>5 DEF Handle
<1> QED
    BY <1>1 DEF CatalogInv, TypeOK, Aside

(* Starting a request whose checks have passed.                             *)
LEMMA AloneStart ==
    ASSUME NEW w \in Workers, Aside(w), AloneInv, NEW j, Start(w, j), StillChecked(j), CatalogInv'
    PROVE  AloneInv'
<1>1. DataSane'
      BY DEF AloneInv, DataSane, Start, tables
<1>2. job'[w] = j /\ \A x \in Workers \ {w} : job'[x] = job[x]
      BY DEF AloneInv, CatalogInv, TypeOK, Start
<1>3. StillChecked(j)'
      BY DEF StillChecked, Siblings, Start, tables
<1>4. StillChecked(job[w])'
      BY <1>2, <1>3 DEF StillChecked
<1>5. ASSUME NEW x \in Workers \ {w} PROVE StillChecked(job[x])'
      BY <1>2 DEF Aside, StillChecked
<1> QED
    BY <1>1, <1>4, <1>5 DEF AloneInv

(* Creating what is in order.                                               *)
LEMMA AloneToCreate ==
    ASSUME NEW w \in Workers, Aside(w), AloneInv, NEW k \in Kinds, NEW r \in Rows \cup {Store},
           NEW d \in DataOf[k], NEW a \in BOOLEAN, NEW n \in Nat,
           Start(w, Request("create", k, r, d, a, n)), Sane(k, d)
    PROVE  AloneInv'
<1>1. PICK j : j = Request("create", k, r, d, a, n)
      OBVIOUS
<1>2. d \in Drafts
      BY DraftsHold
<1>3. /\ j \in Jobs
      /\ j.pc = "write" /\ j.op = "create" /\ j.kind = k /\ j.row = r
      /\ j.data = d /\ j.on = a /\ j.rank = n
      BY <1>1, <1>2, RequestFields
<1>4. StillChecked(j)
      BY <1>3 DEF StillChecked
<1>5. CatalogInv'
      BY AskToCreate DEF AloneInv
<1> QED
    BY <1>1, <1>4, <1>5, AloneStart

(* Changing what will be in order.                                          *)
LEMMA AloneToUpdate ==
    ASSUME NEW w \in Workers, Aside(w), AloneInv, NEW k \in Kinds, NEW r \in Ids[k], live[r],
           NEW d \in Edits[k], NEW a \in BOOLEAN \cup {Keep}, NEW n \in Nat \cup {Keep},
           Start(w, Request("update", k, r, d, a, n)), Sane(k, Merged(k, data[r], d))
    PROVE  AloneInv'
<1>1. PICK j : j = Request("update", k, r, d, a, n)
      OBVIOUS
<1>2. d \in Drafts /\ r \in Rows
      BY DraftsHold DEF Rows
<1>3. /\ j \in Jobs
      /\ j.pc = "write" /\ j.op = "update" /\ j.kind = k /\ j.row = r /\ j.data = d
      BY <1>1, <1>2, RequestFields
<1>4. StillChecked(j)
      BY <1>3 DEF StillChecked
<1>5. CatalogInv'
      BY AskToUpdate DEF AloneInv
<1> QED
    BY <1>1, <1>4, <1>5, AloneStart

(* Deleting.                                                                *)
LEMMA AloneToDelete ==
    ASSUME NEW w \in Workers, Aside(w), AloneInv, NEW k \in Kinds, NEW r \in Ids[k],
           Start(w, Request("delete", k, r, None, Keep, Keep))
    PROVE  AloneInv'
<1>1. PICK j : j = Request("delete", k, r, None, Keep, Keep)
      OBVIOUS
<1>2. r \in Rows
      BY DEF Rows
<1>3. j.pc = "write" /\ j.op = "delete"
      BY <1>1, <1>2, BareRequest
<1>4. StillChecked(j)
      BY <1>3 DEF StillChecked
<1>5. CatalogInv'
      BY AskToDelete DEF AloneInv
<1> QED
    BY <1>1, <1>4, <1>5, AloneStart

(* Ordering.                                                                *)
LEMMA AloneToOrder ==
    ASSUME NEW w \in Workers, Aside(w), AloneInv, NEW k \in Kinds, NEW p \in Rows,
           NEW q \in Orders(Siblings(k, p)), Reorder(w, k, p, q)
    PROVE  AloneInv'
<1>1. PICK b : b = Request("order", k, p, None, Keep, Keep)
      OBVIOUS
<1>2. /\ b \in Jobs
      /\ b.pc = "write" /\ b.op = "order" /\ b.kind = k /\ b.row = p
      BY <1>1, BareRequest
<1>3. PICK j : j = [b EXCEPT !.seq = q] /\ Start(w, j)
      BY <1>1 DEF Reorder
<1>4. {q[i] : i \in DOMAIN q} = Siblings(k, p)
      BY OrderHasAll DEF Reorder
<1>5. j.pc = "write" /\ j.op = "order" /\ j.kind = k /\ j.row = p /\ j.seq = q
      BY <1>2, <1>3 DEF Jobs
<1>6. StillChecked(j)
      BY <1>4, <1>5 DEF StillChecked
<1>7. CatalogInv'
      BY AskToOrder DEF AloneInv
<1> QED
    BY <1>3, <1>6, <1>7, AloneStart

(* Switching a template.                                                    *)
LEMMA AloneToSwitchTemplate ==
    ASSUME NEW w \in Workers, Aside(w), AloneInv, NEW p \in Ids["product"], NEW a \in BOOLEAN,
           Start(w, Request("template", None, p, None, a, Keep))
    PROVE  AloneInv'
<1>1. PICK j : j = Request("template", None, p, None, a, Keep)
      OBVIOUS
<1>2. p \in Rows
      BY DEF Rows, Kinds
<1>3. j.pc = "write" /\ j.op = "template"
      BY <1>1, <1>2, BareRequest
<1>4. StillChecked(j)
      BY <1>3 DEF StillChecked
<1>5. CatalogInv'
      BY AskToSwitchTemplate DEF AloneInv
<1> QED
    BY <1>1, <1>4, <1>5, AloneStart

(* What a seller asks for has passed its checks.                            *)
LEMMA AloneAsking ==
    ASSUME NEW w \in Workers, Aside(w), AloneInv,
           AskProduct(w) \/ AskImage(w) \/ AskOption(w) \/ AskTemplate(w)
    PROVE  AloneInv'
<1>1. /\ Kinds = {"product", "image", "group", "item", "token"}
      /\ DataOf["image"] = {None} /\ DataOf["item"] = {None} /\ Edits["item"] = {None}
      /\ Edits["token"] = DataOf["token"]
      /\ \A d : Sane("image", d) /\ Sane("item", d) /\ Sane("token", d)
      BY DEF Kinds, DataOf, Edits, Sane
<1>2. \A k \in Kinds : Ids[k] \subseteq Rows
      BY DEF Rows
<1>3. ASSUME AskProduct(w) PROVE AloneInv'
  <2>1. ASSUME NEW d \in DataOf["product"], NEW a \in BOOLEAN, SellerCreateProduct(w, d, a)
        PROVE  AloneInv'
        BY <1>1, <2>1, AloneToCreate DEF SellerCreateProduct
  <2>2. ASSUME NEW p \in Ids["product"], NEW d \in Edits["product"], SellerUpdateProduct(w, p, d)
        PROVE  AloneInv'
        BY <1>1, <2>2, AloneToUpdate DEF SellerUpdateProduct
  <2>3. ASSUME NEW p \in Ids["product"], NEW a \in BOOLEAN, SellerSetProductActive(w, p, a)
        PROVE  AloneInv'
    <3>1. PICK d \in Edits["product"] : d = NoPrices
          BY NoPricesIsEdit
    <3>2. Sane("product", data[p])
      <4>1. owner[p] # None
            BY <1>1, <1>2, <2>3
               DEF SellerSetProductActive, AloneInv, CatalogInv, TypeOK, TablesOK
      <4> QED
          BY <4>1 DEF AloneInv, DataSane
    <3>3. Sane("product", Merged("product", data[p], d))
          BY <3>1, <3>2 DEF Sane, Merged, Given, NoPrices
    <3> QED
        BY <1>1, <2>3, <3>1, <3>3, AloneToUpdate DEF SellerSetProductActive
  <2>4. ASSUME NEW p \in Ids["product"], SellerDeleteProduct(w, p) PROVE AloneInv'
        BY <1>1, <2>4, AloneToDelete DEF SellerDeleteProduct
  <2> QED
      BY <1>3, <2>1, <2>2, <2>3, <2>4 DEF AskProduct
<1>4. ASSUME NEW k \in Kinds, NEW p \in Rows PROVE Cardinality(Siblings(k, p)) \in Nat
  <2>1. IsFiniteSet(Siblings(k, p))
    <3>1. IsFiniteSet(Ids[k])
          BY CatalogConstants
    <3> QED
        BY <3>1, FS_Subset DEF Siblings
  <2> QED
      BY <2>1, FS_CardinalityType
<1>5. Ranks \subseteq Nat
      BY CatalogConstants
<1>6. ASSUME AskImage(w) PROVE AloneInv'
  <2>1. ASSUME NEW p \in Ids["product"], NEW n \in Ranks \cup {Keep}, SellerAddProductImage(w, p, n)
        PROVE  AloneInv'
    <3>1. PICK c \in Nat : c = Given(n, Cardinality(Siblings("image", p)))
          BY <1>1, <1>2, <1>4, <1>5 DEF Given
    <3>2. PICK d \in DataOf["image"] : d = None
          BY <1>1
    <3>3. Start(w, Request("create", "image", p, d, TRUE, c))
          BY <2>1, <3>1, <3>2 DEF SellerAddProductImage
    <3> QED
        BY <1>1, <1>2, <3>3, AloneToCreate
  <2>2. ASSUME NEW p \in Ids["product"], NEW q \in Orders(Siblings("image", p)),
               SellerReorderProductImages(w, p, q)
        PROVE  AloneInv'
        BY <1>1, <1>2, <2>2, AloneToOrder DEF SellerReorderProductImages
  <2>3. ASSUME NEW i \in Ids["image"], SellerDeleteProductImage(w, i) PROVE AloneInv'
        BY <1>1, <2>3, AloneToDelete DEF SellerDeleteProductImage
  <2> QED
      BY <1>6, <2>1, <2>2, <2>3 DEF AskImage
<1>7. ASSUME NEW n \in Ranks \cup {Keep} PROVE Given(n, 0) \in Nat /\ n \in Nat \cup {Keep}
      BY <1>5 DEF Given
<1>8. ASSUME AskOption(w) PROVE AloneInv'
  <2>1. ASSUME NEW n \in Ranks \cup {Keep}, NEW p \in Ids["product"], NEW d \in DataOf["group"],
               NEW a \in BOOLEAN, SellerCreateOptionGroup(w, p, d, a, n)
        PROVE  AloneInv'
        BY <1>1, <1>2, <1>7, <2>1, AloneToCreate DEF SellerCreateOptionGroup
  <2>2. ASSUME NEW n \in Ranks \cup {Keep}, NEW g \in Ids["group"], NEW d \in Edits["group"],
               NEW a \in BOOLEAN \cup {Keep}, SellerUpdateOptionGroup(w, g, d, a, n)
        PROVE  AloneInv'
        BY <1>1, <1>7, <2>2, AloneToUpdate DEF SellerUpdateOptionGroup
  <2>3. ASSUME NEW g \in Ids["group"], SellerDeleteOptionGroup(w, g) PROVE AloneInv'
        BY <1>1, <2>3, AloneToDelete DEF SellerDeleteOptionGroup
  <2>4. ASSUME NEW n \in Ranks \cup {Keep}, NEW g \in Ids["group"], NEW a \in BOOLEAN,
               SellerCreateOptionItem(w, g, a, n)
        PROVE  AloneInv'
    <3>1. PICK d \in DataOf["item"] : d = None
          BY <1>1
    <3> QED
        BY <1>1, <1>2, <1>7, <2>4, <3>1, AloneToCreate DEF SellerCreateOptionItem
  <2>5. ASSUME NEW g \in Ids["group"], NEW q \in Orders(Siblings("item", g)),
               SellerReorderOptionItems(w, g, q)
        PROVE  AloneInv'
        BY <1>1, <1>2, <2>5, AloneToOrder DEF SellerReorderOptionItems
  <2>6. ASSUME NEW n \in Ranks \cup {Keep}, NEW o \in Ids["item"], NEW a \in BOOLEAN \cup {Keep},
               SellerUpdateOptionItem(w, o, a, n)
        PROVE  AloneInv'
    <3>1. PICK d \in Edits["item"] : d = None
          BY <1>1
    <3> QED
        BY <1>1, <1>7, <2>6, <3>1, AloneToUpdate DEF SellerUpdateOptionItem
  <2>7. ASSUME NEW o \in Ids["item"], SellerDeleteOptionItem(w, o) PROVE AloneInv'
        BY <1>1, <2>7, AloneToDelete DEF SellerDeleteOptionItem
  <2>8. ASSUME NEW p \in Ids["product"], NEW q \in Orders(Siblings("group", p)),
               SellerReorderOptionGroups(w, p, q)
        PROVE  AloneInv'
        BY <1>1, <1>2, <2>8, AloneToOrder DEF SellerReorderOptionGroups
  <2> QED
      BY <1>8, <2>1, <2>2, <2>3, <2>4, <2>5, <2>6, <2>7, <2>8 DEF AskOption
<1>9. ASSUME AskTemplate(w) PROVE AloneInv'
  <2>1. ASSUME NEW p \in Ids["product"], NEW a \in BOOLEAN,
               \/ SellerUpsertProductCustomTemplate(w, p, a)
               \/ SellerSetProductCustomTemplateActive(w, p, a)
        PROVE  AloneInv'
        BY <2>1, AloneToSwitchTemplate
           DEF SellerUpsertProductCustomTemplate, SellerSetProductCustomTemplateActive
  <2>2. ASSUME NEW p \in Ids["product"], NEW t \in Ids["token"] \cup {None},
               NEW d \in DataOf["token"], NEW n \in Ranks \cup {Keep},
               SellerUpsertProductCustomTextToken(w, p, t, d, n)
        PROVE  AloneInv'
    <3>1. CASE t = None
          BY <1>1, <1>2, <1>7, <2>2, <3>1, AloneToCreate DEF SellerUpsertProductCustomTextToken
    <3>2. CASE t # None
          BY <1>1, <1>7, <2>2, <3>2, AloneToUpdate DEF SellerUpsertProductCustomTextToken
    <3> QED
        BY <3>1, <3>2
  <2>3. ASSUME NEW p \in Ids["product"], NEW q \in Orders(Siblings("token", p)),
               SellerReorderProductCustomTextTokens(w, p, q)
        PROVE  AloneInv'
        BY <1>1, <1>2, <2>3, AloneToOrder DEF SellerReorderProductCustomTextTokens
  <2>4. ASSUME NEW t \in Ids["token"], SellerDeleteProductCustomTextToken(w, t) PROVE AloneInv'
        BY <1>1, <2>4, AloneToDelete DEF SellerDeleteProductCustomTextToken
  <2> QED
      BY <1>9, <2>1, <2>2, <2>3, <2>4 DEF AskTemplate
<1> QED
    BY <1>3, <1>6, <1>8, <1>9

(* A row written in order leaves the data in order.                         *)
LEMMA AloneWrites ==
    ASSUME NEW w \in Workers, Aside(w), AloneInv, Handle(w),
           ~(AskProduct(w) \/ AskImage(w) \/ AskOption(w) \/ AskTemplate(w)), CatalogInv'
    PROVE  AloneInv'
<1>1. PICK j : j = job[w]
      OBVIOUS
<1>2. TablesOK /\ DataSane /\ StillChecked(j) /\ RequestOK(j) /\ job \in [Workers -> Jobs]
      BY <1>1 DEF AloneInv, CatalogInv, TypeOK
<1>3. /\ End(w) => job'[w].pc # "write"
      /\ \A s : Audit(w, s) => job'[w].pc # "write"
      /\ \A r : job' = [job EXCEPT ![w] = [Idle EXCEPT !.pc = "image", !.row = r]]
              => job'[w].pc # "write"
  <2>1. \A q : job' = [job EXCEPT ![w] = q] => job'[w] = q
        BY <1>2
  <2>2. ASSUME NEW s, NEW q, q = [Idle EXCEPT !.pc = "audit", !.shown = s] PROVE q.pc # "write"
        BY <2>2 DEF Idle
  <2>3. ASSUME NEW r, NEW q, q = [Idle EXCEPT !.pc = "image", !.row = r] PROVE q.pc # "write"
        BY <2>3 DEF Idle
  <2>4. Idle.pc # "write"
        BY DEF Idle
  <2> QED
      BY <2>1, <2>2, <2>3, <2>4 DEF End, Audit
<1>4. job'[w].pc # "write"
      BY <1>3 DEF Handle, Create, CreateProduct, FirstImage, RefuseFirstImage, Update, Delete,
                  Order, WriteTemplate, Reply, Fail
<1>5. ASSUME NEW s, NEW p, NEW d, NEW a, NEW n, NEW m \in Kinds, s \in Ids[m],
             Insert(s, p, d, a, n), Sane(m, d)
      PROVE  DataSane'
  <2>1. s \in Rows
        BY <1>5 DEF Rows
  <2> SUFFICES ASSUME NEW k \in {"product", "group"}, NEW r \in Ids[k], owner'[r] # None
               PROVE  Sane(k, data'[r])
      BY DEF DataSane, Sane
  <2>2. k \in Kinds
        BY DEF Kinds
  <2>3. r \in Rows
        BY <2>2 DEF Rows
  <2>4. CASE r = s
    <3>1. k = m
          BY <1>5, <2>2, <2>4, OneKind
    <3> QED
        BY <1>2, <1>5, <2>1, <2>4, <3>1 DEF Insert, TablesOK
  <2>5. CASE r # s
        BY <1>2, <1>5, <2>1, <2>3, <2>5 DEF Insert, TablesOK, DataSane
  <2> QED
      BY <2>4, <2>5
<1>6. ASSUME UNCHANGED <<owner, data>> PROVE DataSane'
      BY <1>2, <1>6 DEF DataSane
<1>7. ASSUME Create(w) PROVE DataSane'
  <2>1. j.kind \in Kinds /\ Sane(j.kind, j.data)
        BY <1>1, <1>2, <1>7 DEF Create, Writes, RequestOK, StillChecked
  <2> QED
      BY <1>1, <1>5, <1>6, <1>7, <2>1 DEF Create, tables
<1>8. ASSUME CreateProduct(w) PROVE DataSane'
  <2>1. j.kind = "product" /\ "product" \in Kinds /\ Sane("product", j.data)
        BY <1>1, <1>2, <1>8 DEF CreateProduct, Writes, RequestOK, StillChecked, Kinds
  <2> QED
      BY <1>1, <1>5, <1>8, <2>1 DEF CreateProduct
<1>9. ASSUME FirstImage(w) PROVE DataSane'
  <2>1. "image" \in Kinds /\ Sane("image", None)
        BY DEF Kinds, Sane
  <2> QED
      BY <1>5, <1>9, <2>1 DEF FirstImage
<1>10. ASSUME Update(w) PROVE DataSane'
  <2>1. /\ j.kind \in Kinds /\ j.row \in Ids[j.kind]
        /\ Sane(j.kind, Merged(j.kind, data[j.row], j.data))
        BY <1>1, <1>2, <1>10 DEF Update, Writes, RequestOK, StillChecked
  <2>2. CASE UNCHANGED tables
        BY <1>6, <2>2 DEF tables
  <2>3. ASSUME data' = [data EXCEPT ![j.row] = Merged(j.kind, @, j.data)], UNCHANGED owner
        PROVE  DataSane'
    <3> SUFFICES ASSUME NEW k \in {"product", "group"}, NEW r \in Ids[k], owner'[r] # None
                 PROVE  Sane(k, data'[r])
        BY DEF DataSane, Sane
    <3>1. k \in Kinds
          BY DEF Kinds
    <3>2. r \in Rows
          BY <3>1 DEF Rows
    <3>3. CASE r = j.row
      <4>1. k = j.kind
            BY <2>1, <3>1, <3>3, OneKind
      <4> QED
          BY <1>2, <2>1, <2>3, <3>2, <3>3, <4>1 DEF TablesOK
    <3>4. CASE r # j.row
          BY <1>2, <2>3, <3>2, <3>4 DEF TablesOK, DataSane
    <3> QED
        BY <3>3, <3>4
  <2> QED
      BY <1>1, <1>10, <2>2, <2>3 DEF Update
<1>11. ASSUME \/ RefuseFirstImage(w) \/ Reply(w) \/ Fail(w)
              \/ Delete(w) \/ Order(w) \/ WriteTemplate(w)
       PROVE  DataSane'
       BY <1>6, <1>11 DEF RefuseFirstImage, Reply, Fail, Delete, Order, WriteTemplate, tables
<1>12. DataSane'
       BY <1>7, <1>8, <1>9, <1>10, <1>11 DEF Handle
<1>13. StillChecked(job[w])'
       BY <1>4 DEF StillChecked
<1>14. ASSUME NEW x \in Workers \ {w} PROVE StillChecked(job[x])'
  <2>1. job'[x].pc = "idle"
        BY OthersStayAside DEF AloneInv, Aside
  <2> QED
      BY <2>1 DEF StillChecked
<1> QED
    BY <1>12, <1>13, <1>14 DEF AloneInv

(* One request at a time, no step breaks the invariant.                     *)
LEMMA AloneNext ==
    ASSUME NEW w \in Workers, Aside(w), AloneInv, Handle(w) PROVE AloneInv'
<1>1. CatalogInv'
      BY NextKeepsInv DEF AloneInv, Next
<1> QED
    BY <1>1, AloneAsking, AloneWrites

(* An empty catalog is in order.                                            *)
LEMMA AloneInit == Init => AloneInv
<1> SUFFICES ASSUME Init PROVE AloneInv
    OBVIOUS
<1>1. DataSane
  <2>1. \A k \in {"product", "group"} : Ids[k] \subseteq Rows
        BY DEF Rows, Kinds
  <2> QED
      BY <2>1 DEF Init, DataSane
<1>2. \A w \in Workers : job[w].pc = "idle"
      BY AfterWrite DEF Init
<1> QED
    BY <1>1, <1>2, InitKeepsInv DEF AloneInv, StillChecked

----------------------------------------------------------------------------
(* One request at a time: images.                                           *)

(* The fields that tell what a request will do to which row.                *)
LEMMA RequestShape ==
    ASSUME NEW op, NEW k, NEW r, NEW d, NEW a, NEW n, NEW j, j = Request(op, k, r, d, a, n)
    PROVE  j.pc = "write" /\ j.op = op /\ j.kind = k /\ j.row = r
BY DEF Request, Idle

(* The images of a product are finitely many.                               *)
LEMMA SiblingsFinite ==
    ASSUME NEW k \in Kinds, NEW p
    PROVE  IsFiniteSet(Siblings(k, p)) /\ Cardinality(Siblings(k, p)) \in Nat
<1>1. IsFiniteSet(Ids[k])
      BY CatalogConstants
<1>2. IsFiniteSet(Siblings(k, p))
      BY <1>1, FS_Subset DEF Siblings
<1> QED
    BY <1>2, FS_CardinalityType

(* Starting a request whose count allows it.                                *)
LEMMA CountStart ==
    ASSUME NEW w \in Workers, Aside(w), CatalogInv, CountInv, NEW j, Start(w, j), StillCounted(j)
    PROVE  CountInv'
<1>1. NoOrphans' /\ ImagesWithinLimits'
      BY DEF CountInv, NoOrphans, ImagesWithinLimits, Siblings, Start, tables
<1>2. job'[w] = j /\ \A x \in Workers \ {w} : job'[x] = job[x]
      BY DEF CatalogInv, TypeOK, Start
<1>3. StillCounted(j)'
      BY DEF StillCounted, Siblings, Start, tables
<1>4. StillCounted(job[w])'
      BY <1>2, <1>3 DEF StillCounted
<1>5. ASSUME NEW x \in Workers \ {w} PROVE StillCounted(job[x])'
      BY <1>2 DEF Aside, StillCounted
<1> QED
    BY <1>1, <1>4, <1>5 DEF CountInv

(* A request that neither adds an image to a full product nor takes away the*)
(* last one.                                                                *)
LEMMA CountRequest ==
    ASSUME NEW w \in Workers, Aside(w), CatalogInv, CountInv,
           NEW op, NEW k, NEW r, NEW d, NEW a, NEW n, Start(w, Request(op, k, r, d, a, n)),
           op = "create" /\ k = "image" =>
             owner[r] # None /\ Cardinality(Siblings("image", r)) < MAX_PRODUCT_IMAGES,
           op = "delete" /\ r \in Ids["image"] =>
             Cardinality(Siblings("image", owner[r])) > MIN_PRODUCT_IMAGES
    PROVE  CountInv'
<1>1. PICK j : j = Request(op, k, r, d, a, n)
      OBVIOUS
<1>2. j.pc = "write" /\ j.op = op /\ j.kind = k /\ j.row = r
      BY <1>1, RequestShape
<1>3. StillCounted(j)
      BY <1>2 DEF StillCounted
<1> QED
    BY <1>1, <1>3, CountStart

(* A new order counts nothing.                                              *)
LEMMA CountReorder ==
    ASSUME NEW w \in Workers, Aside(w), CatalogInv, CountInv, NEW k, NEW p, NEW q, Reorder(w, k, p, q)
    PROVE  CountInv'
<1>1. PICK b : b = Request("order", k, p, None, Keep, Keep)
      OBVIOUS
<1>2. PICK j : j = [b EXCEPT !.seq = q] /\ Start(w, j)
      BY <1>1 DEF Reorder
<1>3. j.pc = "write" /\ j.op = "order"
      BY <1>1, <1>2 DEF Request, Idle
<1>4. StillCounted(j)
      BY <1>3 DEF StillCounted
<1> QED
    BY <1>2, <1>4, CountStart

(* What a seller asks for has been counted.                                 *)
LEMMA CountAsking ==
    ASSUME NEW w \in Workers, Aside(w), CatalogInv, CountInv,
           AskProduct(w) \/ AskImage(w) \/ AskOption(w) \/ AskTemplate(w)
    PROVE  CountInv'
<1>1. ASSUME NEW k \in {"product", "group", "item", "token"}, NEW r \in Ids[k]
      PROVE  r \notin Ids["image"]
      BY OneKind DEF Kinds
<1>2. CASE AskProduct(w)
      BY <1>1, <1>2, CountRequest
         DEF AskProduct, SellerCreateProduct, SellerUpdateProduct, SellerSetProductActive,
             SellerDeleteProduct
<1>3. CASE AskImage(w)
  <2>1. ASSUME NEW p \in Ids["product"], NEW n, SellerAddProductImage(w, p, n) PROVE CountInv'
    <3>1. owner[p] # None
      <4>1. p \in Rows
            BY DEF Rows, Kinds
      <4> QED
          BY <2>1, <4>1 DEF SellerAddProductImage, CatalogInv, TypeOK, TablesOK
    <3> QED
        BY <2>1, <3>1, CountRequest DEF SellerAddProductImage
  <2>2. ASSUME NEW i \in Ids["image"], SellerDeleteProductImage(w, i) PROVE CountInv'
        BY <2>2, CountRequest DEF SellerDeleteProductImage
  <2> QED
      BY <1>3, <2>1, <2>2, CountReorder DEF AskImage, SellerReorderProductImages
<1>4. CASE AskOption(w)
      BY <1>1, <1>4, CountRequest, CountReorder
         DEF AskOption, SellerCreateOptionGroup, SellerUpdateOptionGroup, SellerDeleteOptionGroup,
             SellerReorderOptionGroups, SellerCreateOptionItem, SellerUpdateOptionItem,
             SellerDeleteOptionItem, SellerReorderOptionItems
<1>5. CASE AskTemplate(w)
  <2>1. ASSUME NEW p, NEW t, NEW d, NEW n, SellerUpsertProductCustomTextToken(w, p, t, d, n)
        PROVE  CountInv'
    <3>1. CASE t = None
          BY <2>1, <3>1, CountRequest DEF SellerUpsertProductCustomTextToken
    <3>2. CASE t # None
          BY <2>1, <3>2, CountRequest DEF SellerUpsertProductCustomTextToken
    <3> QED
        BY <3>1, <3>2
  <2> QED
      BY <1>1, <1>5, <2>1, CountRequest, CountReorder
         DEF AskTemplate, SellerUpsertProductCustomTemplate, SellerSetProductCustomTemplateActive,
             SellerReorderProductCustomTextTokens, SellerDeleteProductCustomTextToken
<1> QED
    BY <1>2, <1>3, <1>4, <1>5

(* A row that is not an image changes no count.                             *)
LEMMA InsertOther ==
    ASSUME CatalogInv, NoOrphans, ImagesWithinLimits, NEW k \in Kinds, k # "image",
           NEW s \in Ids[k], NEW p, p # None, NEW d, NEW a, NEW n, Insert(s, p, d, a, n)
    PROVE  /\ NoOrphans' /\ ImagesWithinLimits'
           /\ owner'[s] # None /\ \A r \in Ids["image"] : owner'[r] # s
<1>1. s \in Rows /\ Ids["image"] \subseteq Rows
      BY DEF Rows, Kinds
<1>2. \A r \in Ids["image"] : r # s
      BY OneKind DEF Kinds
<1>3. \A r \in Ids["image"] : owner'[r] = owner[r] /\ live'[r] = live[r]
      BY <1>1, <1>2 DEF Insert, CatalogInv, TypeOK, TablesOK
<1>4. \A r \in Rows : owner[r] # None => owner'[r] # None
      BY <1>1 DEF Insert, CatalogInv, TypeOK, TablesOK
<1>5. NoOrphans'
      BY <1>3, <1>4 DEF NoOrphans
<1>6. \A q : Siblings("image", q)' = Siblings("image", q)
      BY <1>3 DEF Siblings
<1>7. ImagesWithinLimits'
      BY <1>3, <1>6 DEF ImagesWithinLimits
<1>8. owner'[s] # None
      BY <1>1 DEF Insert, CatalogInv, TypeOK, TablesOK
<1>9. ASSUME NEW r \in Ids["image"] PROVE owner'[r] # s
  <2>1. owner[s] = None
        BY DEF Insert
  <2>2. owner[r] # s
        BY <1>1, <2>1 DEF NoOrphans
  <2> QED
      BY <1>3, <2>2
<1> QED
    BY <1>5, <1>7, <1>8, <1>9

(* A new image of a product that has room for one.                          *)
LEMMA InsertImage ==
    ASSUME CatalogInv, NoOrphans, ImagesWithinLimits, NEW s \in Ids["image"],
           NEW p \in Rows \cup {Store}, owner[p] # None, NEW d, NEW a, NEW n, Insert(s, p, d, a, n),
           Cardinality(Siblings("image", p)) < MAX_PRODUCT_IMAGES
    PROVE  NoOrphans' /\ ImagesWithinLimits'
<1>1. s \in Rows /\ Ids["image"] \subseteq Rows /\ "image" \in Kinds
      BY DEF Rows, Kinds
<1>2. /\ owner' = [owner EXCEPT ![s] = p] /\ live' = [live EXCEPT ![s] = TRUE]
      /\ owner[s] = None /\ ~live[s] /\ p # None
      BY <1>1, CatalogConstants DEF Insert, CatalogInv, TypeOK, TablesOK
<1>3. /\ owner'[s] = p /\ live'[s]
      /\ \A r \in Rows \ {s} : owner'[r] = owner[r] /\ live'[r] = live[r]
      BY <1>1, <1>2 DEF CatalogInv, TypeOK, TablesOK
<1>4. NoOrphans'
      BY <1>1, <1>2, <1>3 DEF NoOrphans
<1>5. Siblings("image", p)' = Siblings("image", p) \cup {s} /\ s \notin Siblings("image", p)
      BY <1>1, <1>2, <1>3 DEF Siblings
<1>6. \A q : q # p => Siblings("image", q)' = Siblings("image", q)
      BY <1>1, <1>2, <1>3 DEF Siblings, CatalogInv, TypeOK, TablesOK
<1>7. Cardinality(Siblings("image", p)') = Cardinality(Siblings("image", p)) + 1
      BY <1>1, <1>5, SiblingsFinite, FS_AddElement
<1>8. ASSUME NEW q \in Ids["product"], NEW r \in Ids["image"], owner'[r] = q
      PROVE  Cardinality(Siblings("image", q)') \in MIN_PRODUCT_IMAGES .. MAX_PRODUCT_IMAGES
  <2>1. CASE q = p
    <3>1. Cardinality(Siblings("image", p)) \in Nat
          BY <1>1, SiblingsFinite
    <3> QED
        BY <1>7, <2>1, <3>1, CatalogConstants
  <2>2. CASE q # p
    <3>1. r # s
          BY <1>3, <1>8, <2>2
    <3>2. owner[r] = q
          BY <1>1, <1>3, <1>8, <3>1
    <3> QED
        BY <1>6, <2>2, <3>2 DEF ImagesWithinLimits
  <2> QED
      BY <2>1, <2>2
<1>9. ImagesWithinLimits'
      BY <1>8 DEF ImagesWithinLimits, Siblings
<1> QED
    BY <1>4, <1>9

(* A write that was counted for.                                            *)
LEMMA CountWrites ==
    ASSUME NEW w \in Workers, Aside(w), CatalogInv, CountInv, Handle(w),
           ~(AskProduct(w) \/ AskImage(w) \/ AskOption(w) \/ AskTemplate(w))
    PROVE  CountInv'
<1>1. PICK j : j = job[w]
      OBVIOUS
<1>2. /\ TablesOK /\ StillCounted(j) /\ RequestOK(j) /\ j \in Jobs
      /\ job \in [Workers -> Jobs] /\ NoOrphans /\ ImagesWithinLimits
      BY <1>1 DEF CatalogInv, CountInv, TypeOK
<1>3. Aside(w)'
      BY OthersStayAside
<1>4. ASSUME NoOrphans', ImagesWithinLimits', StillCounted(job[w])' PROVE CountInv'
  <2>1. ASSUME NEW x \in Workers \ {w} PROVE StillCounted(job[x])'
        BY <1>3 DEF Aside, StillCounted
  <2> QED
      BY <1>4, <2>1 DEF CountInv
<1>5. ASSUME End(w) \/ \E s : Audit(w, s) PROVE StillCounted(job[w])'
  <2>1. ASSUME NEW s, NEW q, q = [Idle EXCEPT !.pc = "audit", !.shown = s] PROVE q.pc = "audit"
        BY <2>1 DEF Idle
  <2>2. Idle.pc = "idle"
        BY DEF Idle
  <2>3. \A q : job' = [job EXCEPT ![w] = q] => job'[w] = q
        BY <1>2
  <2>4. CASE End(w)
        BY <2>2, <2>3, <2>4 DEF End, StillCounted
  <2>5. CASE \E s : Audit(w, s)
    <3>1. PICK s, q : q = [Idle EXCEPT !.pc = "audit", !.shown = s] /\ job' = [job EXCEPT ![w] = q]
          BY <2>5 DEF Audit
    <3>2. job'[w].pc = "audit"
          BY <2>1, <2>3, <3>1
    <3> QED
        BY <3>2 DEF StillCounted
  <2> QED
      BY <1>5, <2>4, <2>5
<1>6. ASSUME UNCHANGED <<owner, live>> PROVE NoOrphans' /\ ImagesWithinLimits'
      BY <1>2, <1>6 DEF NoOrphans, ImagesWithinLimits, Siblings
<1>7. CASE \/ RefuseFirstImage(w) \/ Update(w) \/ Order(w) \/ WriteTemplate(w)
           \/ Reply(w) \/ Fail(w)
  <2>1. UNCHANGED <<owner, live>> /\ (End(w) \/ \E s : Audit(w, s))
        BY <1>7 DEF RefuseFirstImage, Update, Order, WriteTemplate, Reply, Fail, tables
  <2> QED
      BY <1>4, <1>5, <1>6, <2>1
<1>8. CASE Create(w)
  <2>1. /\ j.pc = "write" /\ j.op = "create" /\ j.kind \in Kinds /\ j.kind # "product"
        /\ j.row \in Rows \cup {Store} /\ j.row # None
        BY <1>1, <1>2, <1>8, CatalogConstants DEF Create, Writes, RequestOK
  <2>2. CASE End(w) /\ UNCHANGED tables
        BY <1>4, <1>5, <1>6, <2>2 DEF tables
  <2>3. ASSUME NEW r \in Ids[j.kind], Insert(r, j.row, j.data, j.on, j.rank), Audit(w, {})
        PROVE  CountInv'
    <3>1. CASE j.kind = "image"
      <4>1. owner[j.row] # None /\ Cardinality(Siblings("image", j.row)) < MAX_PRODUCT_IMAGES
            BY <1>2, <2>1, <3>1 DEF StillCounted
      <4> QED
          BY <1>2, <1>4, <1>5, <2>1, <2>3, <3>1, <4>1, InsertImage
    <3>2. CASE j.kind # "image"
          BY <1>2, <1>4, <1>5, <2>1, <2>3, <3>2, InsertOther
    <3> QED
        BY <3>1, <3>2
  <2> QED
      BY <1>1, <1>8, <2>2, <2>3 DEF Create
<1>9. CASE CreateProduct(w)
  <2>1. PICK r \in Ids["product"] :
          /\ Insert(r, Store, j.data, j.on, j.rank)
          /\ job' = [job EXCEPT ![w] = [Idle EXCEPT !.pc = "image", !.row = r]]
        BY <1>1, <1>9 DEF CreateProduct
  <2>2. /\ NoOrphans' /\ ImagesWithinLimits'
        /\ owner'[r] # None /\ \A i \in Ids["image"] : owner'[i] # r
        BY <1>2, <2>1, InsertOther, CatalogConstants DEF Kinds
  <2>3. job'[w].pc = "image" /\ job'[w].row = r
    <3>1. PICK q : q = [Idle EXCEPT !.pc = "image", !.row = r]
          OBVIOUS
    <3>2. job'[w] = q
          BY <1>2, <2>1, <3>1
    <3>3. q.pc = "image" /\ q.row = r
          BY <3>1 DEF Idle
    <3> QED
        BY <3>2, <3>3
  <2>4. StillCounted(job[w])'
        BY <2>2, <2>3 DEF StillCounted
  <2> QED
      BY <1>4, <2>2, <2>4
<1>10. CASE FirstImage(w)
  <2>1. PICK r \in Ids["image"] : Insert(r, j.row, None, TRUE, 0) /\ Audit(w, {})
        BY <1>1, <1>10 DEF FirstImage
  <2>2. /\ j.row \in Rows /\ owner[j.row] # None
        /\ \A i \in Ids["image"] : owner[i] # j.row
        BY <1>1, <1>2, <1>10 DEF FirstImage, RequestOK, StillCounted
  <2>3. Siblings("image", j.row) = {}
        BY <2>2 DEF Siblings
  <2>4. Cardinality(Siblings("image", j.row)) < MAX_PRODUCT_IMAGES
    <3>1. Cardinality({}) = 0
          BY FS_EmptySet
    <3>2. MAX_PRODUCT_IMAGES > 0
          BY CatalogConstants
    <3> QED
        BY <2>3, <3>1, <3>2
  <2> QED
      BY <1>2, <1>4, <1>5, <2>1, <2>2, <2>4, InsertImage
<1>11. CASE Delete(w)
  <2>1. /\ j.pc = "write" /\ j.op = "delete" /\ j.row \in Rows /\ Audit(w, {})
        /\ live' = [live EXCEPT ![j.row] = FALSE] /\ owner' = owner
        BY <1>1, <1>2, <1>11 DEF Delete, Writes, RequestOK
  <2>2. Ids["image"] \subseteq Rows /\ "image" \in Kinds
        BY DEF Rows, Kinds
  <2>3. NoOrphans'
        BY <1>2, <2>1 DEF NoOrphans
  <2>4. ASSUME NEW p \in Ids["product"], NEW r \in Ids["image"], owner[r] = p
        PROVE  Cardinality(Siblings("image", p)') \in MIN_PRODUCT_IMAGES .. MAX_PRODUCT_IMAGES
    <3>1. Cardinality(Siblings("image", p)) \in MIN_PRODUCT_IMAGES .. MAX_PRODUCT_IMAGES
          BY <1>2, <2>4 DEF ImagesWithinLimits
    <3>2. Siblings("image", p)' = Siblings("image", p) \ {j.row}
          BY <1>2, <2>1, <2>2 DEF Siblings, TablesOK
    <3>3. CASE j.row \notin Siblings("image", p)
          BY <3>1, <3>2, <3>3
    <3>4. CASE j.row \in Siblings("image", p)
      <4>1. j.row \in Ids["image"] /\ owner[j.row] = p
            BY <3>4 DEF Siblings
      <4>2. Cardinality(Siblings("image", p)) > MIN_PRODUCT_IMAGES
            BY <1>2, <2>1, <4>1 DEF StillCounted
      <4>3. Cardinality(Siblings("image", p)') = Cardinality(Siblings("image", p)) - 1
        <5>1. PICK S : S = Siblings("image", p) /\ IsFiniteSet(S) /\ j.row \in S
              BY <2>2, <3>4, SiblingsFinite
        <5>2. Cardinality(S \ {j.row}) = Cardinality(S) - 1
              BY <5>1, FS_RemoveElement
        <5> QED
            BY <3>2, <5>1, <5>2
      <4> QED
          BY <3>1, <4>2, <4>3, CatalogConstants
    <3> QED
        BY <3>3, <3>4
  <2>5. ImagesWithinLimits'
        BY <2>1, <2>4 DEF ImagesWithinLimits, Siblings
  <2> QED
      BY <1>4, <1>5, <2>1, <2>3, <2>5
<1> QED
    BY <1>7, <1>8, <1>9, <1>10, <1>11 DEF Handle

----------------------------------------------------------------------------
(* One request at a time: the specification with crews.                     *)

(* The server starts with no rows and no requests.                          *)
LEMMA CrewStarts == CrewInit => CrewInv
<1> SUFFICES ASSUME CrewInit PROVE CrewInv
    OBVIOUS
<1>1. /\ \A r \in Rows : owner[r] = None
      /\ \A w \in Workers : job[w].pc = "idle"
      /\ Ids["image"] \subseteq Rows
      BY AfterWrite DEF CrewInit, Init, Rows, Kinds
<1>2. None \notin Rows /\ \A p \in Ids["product"] : p \in Rows
      BY CatalogConstants DEF Rows, Kinds
<1>3. NoOrphans /\ ImagesWithinLimits
      BY <1>1, <1>2 DEF NoOrphans, ImagesWithinLimits
<1>4. CountInv /\ \A w \in Workers : Aside(w)
      BY <1>1, <1>3 DEF CountInv, StillCounted, Aside
<1> QED
    BY <1>4, InitKeepsInv, AloneInit DEF CrewInit, CrewInv

(* Whoever is at work, no step breaks the invariant.                        *)
LEMMA CrewGoesOn == CrewInv /\ [CrewNext]_<<vars, crew>> => CrewInv'
<1> SUFFICES ASSUME CrewInv, [CrewNext]_<<vars, crew>> PROVE CrewInv'
    OBVIOUS
<1>1. CatalogInv /\ crew \in Crews /\ crew' = crew
      BY DEF CrewInv, CrewNext
<1>2. [Next]_vars
      BY <1>1 DEF CrewNext, Next, Crews
<1>3. CatalogInv'
      BY <1>1, <1>2, NextKeepsInv
<1>4. ASSUME NEW w \in Workers, crew = {w} PROVE Aside(w)' /\ AloneInv' /\ CountInv'
  <2>1. Aside(w) /\ AloneInv /\ CountInv
        BY <1>4 DEF CrewInv
  <2>2. CASE Handle(w)
        BY <1>1, <2>1, <2>2, OthersStayAside, AloneNext, CountAsking, CountWrites
  <2>3. CASE UNCHANGED vars
    <3>1. Aside(w)'
          BY <2>1, <2>3 DEF Aside, vars
    <3>2. DataSane' /\ \A x \in Workers : StillChecked(job[x])'
          BY <2>1, <2>3 DEF AloneInv, DataSane, StillChecked, Siblings, vars
    <3>3. NoOrphans' /\ ImagesWithinLimits' /\ \A x \in Workers : StillCounted(job[x])'
          BY <2>1, <2>3 DEF CountInv, NoOrphans, ImagesWithinLimits, StillCounted, Siblings, vars
    <3> QED
        BY <1>3, <3>1, <3>2, <3>3 DEF AloneInv, CountInv
  <2> QED
      BY <1>4, <2>2, <2>3 DEF CrewNext
<1> QED
    BY <1>1, <1>3, <1>4 DEF CrewInv

(* One request at a time, sale prices stay at most the regular ones and     *)
(* option groups let as many choices be made as they require, whichever     *)
(* fields the requests give.                                                *)
THEOREM AloneDataStaysSane == CrewSpec => []AloneDataSane
<1>1. CrewInv => AloneDataSane
      BY DEF CrewInv, AloneInv, AloneDataSane, OneAtATime
<1> QED
    BY <1>1, CrewStarts, CrewGoesOn, PTL DEF CrewSpec

(* One request at a time, a product that ever had an image keeps one and    *)
(* never has more than its limit, also when the server stops between the    *)
(* product and its first image.                                             *)
THEOREM AloneImagesStayWithinLimits == CrewSpec => []AloneImagesWithinLimits
<1>1. CrewInv => AloneImagesWithinLimits
      BY DEF CrewInv, CountInv, AloneImagesWithinLimits, OneAtATime
<1> QED
    BY <1>1, CrewStarts, CrewGoesOn, PTL DEF CrewSpec

(* What the requests are about to write is what their checks saw.           *)
LEMMA CheckedOrderSettles ==
    ASSUME AloneInv PROVE OrderSettles
<1> SUFFICES ASSUME NEW x \in Workers, Order(x),
                    NEW r \in Siblings(job[x].kind, job[x].row),
                    NEW s \in Siblings(job[x].kind, job[x].row), rank'[r] = rank'[s]
             PROVE  r = s
    BY DEF OrderSettles
<1>1. PICK j : j = job[x]
      OBVIOUS
<1>2. j \in Jobs /\ RequestOK(j) /\ StillChecked(j)
      BY <1>1 DEF AloneInv, CatalogInv, TypeOK
<1>3. j.kind \in Kinds /\ {j.seq[i] : i \in DOMAIN j.seq} = Siblings(j.kind, j.row)
      BY <1>1, <1>2 DEF Order, Writes, RequestOK, StillChecked
<1>4. PICK n \in Nat : DOMAIN j.seq = 1 .. n
  <2>1. j.seq \in Seq(Rows)
        BY <1>2 DEF Jobs
  <2> QED
      BY <2>1
<1>5. ASSUME NEW t \in Siblings(j.kind, j.row)
      PROVE  \E i \in 1 .. n : j.seq[i] = t /\ i \in Int /\ rank'[t] = i - 1
  <2>1. t \in Rows
        BY <1>3 DEF Siblings, Rows
  <2>2. \E i \in DOMAIN j.seq : j.seq[i] = t
        BY <1>3
  <2>3. PICK i \in DOMAIN j.seq : /\ i = (CHOOSE m \in DOMAIN j.seq : j.seq[m] = t)
                                  /\ j.seq[i] = t
        BY <2>2
  <2>4. rank'[t] = i - 1
        BY <1>1, <2>1, <2>2, <2>3 DEF Order
  <2>5. i \in 1 .. n /\ i \in Int
        BY <1>4
  <2> QED
      BY <2>3, <2>4, <2>5
<1>6. PICK i \in 1 .. n : j.seq[i] = r /\ i \in Int /\ rank'[r] = i - 1
      BY <1>1, <1>5
<1>7. PICK m \in 1 .. n : j.seq[m] = s /\ m \in Int /\ rank'[s] = m - 1
      BY <1>1, <1>5
<1>8. i = m
  <2>1. i \in Int /\ m \in Int /\ i - 1 = m - 1
        BY <1>4, <1>6, <1>7
  <2> QED
      BY <2>1
<1> QED
    BY <1>6, <1>7, <1>8

(* One request at a time, a new order gives every row a place of its own.   *)
THEOREM AloneOrderGivesPlaces == CrewSpec => AloneOrderSettles
<1>1. CrewInv => [OneAtATime => OrderSettles]_vars
      BY CheckedOrderSettles DEF CrewInv, OneAtATime
<1> QED
    BY <1>1, CrewStarts, CrewGoesOn, PTL DEF CrewSpec, AloneOrderSettles
=============================================================================
