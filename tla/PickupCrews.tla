------------------------------ MODULE PickupCrews ------------------------------
(***************************************************************************)
(* PickupSchedule with the workers that are at work named: one of them, the*)
(* seller who does one thing after the other, or all of them at once.      *)
(* What the replies tell is true of the first only.                        *)
(***************************************************************************)
EXTENDS PickupSchedule

VARIABLE crew   \* the workers that serve requests

Crews == {{w} : w \in Workers} \cup {Workers}

CrewInit == Init /\ crew \in Crews

CrewNext ==
  /\ \/ \E w \in crew : Handle(w)
     \/ \E d \in Days, n \in 0 .. MaxBooked : Book(d, n)
     \/ Tick
  /\ UNCHANGED crew

CrewSpec == CrewInit /\ [][CrewNext]_<<vars, crew>>

OneAtATime == \E w \in Workers : crew = {w}

(* One request at a time: the live closures and capacities are those the   *)
(* replies told the seller of.                                             *)
AloneRowsAsTold == OneAtATime => RowsAsTold
=============================================================================
