--------------------------- MODULE MCProductCatalog ---------------------------
(* Instances of ProductCatalog for TLC.                                     *)
EXTENDS CatalogCrews, TLC

CONSTANTS w1, w2, p1, i1, i2, i3, g1, g2, o1, o2, t1, t2, k1

Id == [product |-> {p1}, image |-> {i1, i2, i3}, group |-> {g1, g2}, item |-> {o1, o2},
       token |-> {t1, t2}]

TwoPrices == {1, 2}
TwoMins == {0, 2}
TwoMaxes == {1, 2}
OneRank == {0}

Symmetry ==
  Permutations(Workers) \cup Permutations(Id.image) \cup Permutations(Id.group)
    \cup Permutations(Id.item) \cup Permutations(Id.token)

VARIABLE focus    \* the kinds of rows the behaviour is about, besides one product

Foci == {{"product"}, {"image"}, {"group"}, {"item"}, {"token"}}

MCInit == CrewInit /\ focus \in Foci

Plain(k) ==
  CASE k = "product" -> {[regular |-> 2, sale |-> None]}
    [] k = "group" -> {[min |-> 0, max |-> 1]}
    [] OTHER -> DataOf[k]

\* Requests of a kind read no row but its parents: what is not in focus is
\* created in one way only.  Two requests at once on options change
\* ranges of choices, order or delete.
About(w) ==
  LET j == job'[w] IN
  j.pc = "write" /\ job[w] = Idle =>
    \/ /\ j.kind \in focus
       /\ j.op = "create" /\ j.kind \in {"group", "item"} => j.on
       /\ Cardinality(crew) > 1 /\ j.kind \in {"group", "item"} =>
            /\ j.op = "create" => j.data \in Plain(j.kind)
            /\ j.op = "update" => j.on = Keep /\ j.rank = Keep
    \/ "token" \in focus /\ j.op = "template"
    \/ /\ j.op = "create" /\ j.kind \in {"product", "group"}
       /\ j.kind = "group" => "item" \in focus
       /\ j.data \in Plain(j.kind) /\ j.on
       /\ j.kind = "product" => \A v \in Workers \ {w} : job[v] = Idle

MCNext == (\E w \in crew : Handle(w) /\ About(w)) /\ UNCHANGED <<crew, focus>>

MCSpec == MCInit /\ [][MCNext]_<<vars, crew, focus>>
=============================================================================
