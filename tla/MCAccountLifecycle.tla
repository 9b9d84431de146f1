-------------------------- MODULE MCAccountLifecycle --------------------------
(* Instances of AccountLifecycle for TLC. *)
EXTENDS AccountLifecycle, FiniteSets, TLC

CONSTANTS w1, w2, s1, s2, kim, lee

OneNickname == {<<"chosen", 1>>}

\* One customer wants a nickname like the one built for account 2.
InitialLookalike == {InitialNickname(2)}

Symmetry == Permutations(Workers) \cup Permutations(Subjects) \cup Permutations(RealNames)

VARIABLE crew   \* the workers that serve requests: one of them, or all at once

MCInit == Init /\ crew \in {{w} : w \in Workers} \cup {Workers}

MCNext == (\E w \in crew : Handle(w)) /\ UNCHANGED crew

MCSpec == MCInit /\ [][MCNext]_<<vars, crew>>

OneAtATime == Cardinality(crew) = 1

(* One request at a time: a withdrawn account has no e-mail and no chosen  *)
(* nickname.                                                               *)
AloneWithdrawnIsAnonymous == OneAtATime => WithdrawnIsAnonymous

(* One request at a time: a sign-in fills an e-mail or a name in only      *)
(* where there is none.                                                    *)
AloneSignInOnlyFillsBlanks == [][OneAtATime => SignInFillsBlanks]_vars
=============================================================================
