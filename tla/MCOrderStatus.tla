---------------------------- MODULE MCOrderStatus ----------------------------
(* Instances of OrderStatus for TLC. *)
EXTENDS OrderStatus, FiniteSets, TLC

CONSTANTS w1, w2, w3, o1, o2, s1, s2, a1, a2, a3, t1, t2

\* Two stores share the order o1; a3 is an account without a store.
MCStoreOf == [a \in Actors |-> CASE a = a1 -> s1 [] a = a2 -> s2 [] OTHER -> NoStore]
MCItemStores == [o \in Orders |-> IF o = o1 THEN {s1, s2} ELSE {s2}]

WorkerSymmetry == Permutations(Workers)

VARIABLE crew   \* the workers that serve requests: one of them, or all at once

MCInit == Init /\ crew \in {{w} : w \in Workers} \cup {Workers}

MCNext == (\E w \in crew : Handle(w)) /\ UNCHANGED crew

MCSpec == MCInit /\ [][MCNext]_<<vars, crew>>

OneAtATime == Cardinality(crew) = 1

(* The promise of the policy's tests, kept while requests come one at a    *)
(* time: a committed status is legal from the status just before.          *)
AlonePolicyHoldsFromCurrent ==
    [][OneAtATime => Lifecycle!StrictNext]_(Lifecycle!lifecycleVars)
=============================================================================
