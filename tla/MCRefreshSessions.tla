-------------------------- MODULE MCRefreshSessions --------------------------
(* Instances of RefreshSessions for TLC. *)
EXTENDS RefreshSessions, FiniteSets, TLC

CONSTANTS w1, w2, u1, v1, x1, t1, t2, t3, t4

\* Tokens are drawn at random and handlers are alike.
Symmetry == Permutations(Handlers) \cup Permutations(Ids)

VARIABLE crew   \* the handlers that serve requests: one of them, or all at once

MCInit == SessionsInit /\ crew \in {{w} : w \in Handlers} \cup {Handlers}

MCNext ==
    /\ \/ \E w \in crew : Handle(w)
       \/ \E s \in Ids : Expire(s)
    /\ UNCHANGED crew

MCSpec == MCInit /\ [][MCNext]_<<sessionVars, crew>>

OneAtATime == Cardinality(crew) = 1

(* One request at a time: every rotated session is linked from the one it  *)
(* replaced.                                                               *)
AloneEveryRotationIsLinked == OneAtATime => EveryRotationIsLinked

(* One request at a time: a password change leaves no older session.       *)
AlonePasswordChangeCutsAll == OneAtATime => PasswordChangeCutsAll
=============================================================================
