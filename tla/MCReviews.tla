------------------------------ MODULE MCReviews ------------------------------
(* Instances of Reviews for TLC. *)
EXTENDS Reviews, FiniteSets, TLC

CONSTANTS w1, w2, w3, alice, bob, o1, o2, i1, i2

EachItsOrder == [i \in Items |-> IF i = i1 THEN o1 ELSE o2]
AliceOrderedAll == [o \in Orders |-> alice]

\* No picture, a full set, and one picture too many.
SomeMedia == {<<0, 0>>, <<10, 1>>, <<11, 0>>}

Symmetry == Permutations(Workers)

VARIABLE crew   \* the workers that serve requests: one of them, or all at once

MCInit == Init /\ crew \in {{w} : w \in Workers} \cup {Workers}

OneAtATime == Cardinality(crew) = 1

(* No write asks whether an order is deleted, so that orders are deleted   *)
(* where requests come one at a time is enough.                            *)
MCNext ==
    /\ \/ \E w \in crew : Handle(w)
       \/ \E i \in Items : DeleteReview(i) \/ Toggle(i)
       \/ OneAtATime /\ \E o \in Orders : DeleteOrder(o)
    /\ UNCHANGED crew

MCSpec == MCInit /\ [][MCNext]_<<vars, crew>>

(* One request at a time: a review that is there is never written over.    *)
AloneNotOverwritten == [][OneAtATime => ReviewKept]_vars
=============================================================================
