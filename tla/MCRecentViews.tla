---------------------------- MODULE MCRecentViews ----------------------------
(* Instances of RecentViews for TLC. *)
EXTENDS RecentViews, TLC

CONSTANTS w1, w2, p1, p2, p3

Symmetry == Permutations(Workers) \cup Permutations(Products)

VARIABLE crew   \* the workers that serve requests: one of them, or all at once

MCInit == ViewsInit /\ crew \in {{w} : w \in Workers} \cup {Workers}

MCNext == (Surroundings \/ \E w \in crew : Handle(w)) /\ UNCHANGED crew

MCSpec == MCInit /\ [][MCNext]_<<viewsVars, crew>>

OneAtATime == Cardinality(crew) = 1

(* One request at a time: a clean-up drops no view newer than one it keeps. *)
AloneTrimsOldest == [][OneAtATime => DropsOldest]_viewsVars
=============================================================================
