--------------------------- MODULE MCSellerContent ---------------------------
(* Instances of SellerContent for TLC.                                      *)
EXTENDS ContentCrews, TLC

CONSTANTS w1, w2, s1, s2, p1, p2, c1, c2, t1

Home == (p1 :> s1) @@ (p2 :> s2)
Label == [category |-> {c1, c2}, tag |-> {t1}]

VARIABLE focus    \* what the requests are about

MCInit == CrewInit /\ focus \in {"banner", "topic", "profile", "label"}

\* Profiles and labels of different stores have nothing in common: one store.
MCNext ==
  /\ \/ \E w \in crew, s \in Stores :
          \/ focus = "banner" /\ AskBanner(w, s)
          \/ focus = "topic" /\ AskTopic(w, s)
          \/ focus = "profile" /\ s = s1 /\ AskProfile(w, s)
          \/ focus = "label" /\ s = s1 /\ AskLabels(w, s)
     \/ \E w \in crew : Write(w)
     \/ focus = "banner" /\ \E p \in Products : SoftDeleteProduct(p)
  /\ UNCHANGED <<crew, focus>>

MCSpec == MCInit /\ [][MCNext]_<<contentVars, crew, focus>>

Symmetry == Permutations(Handlers)
=============================================================================
