--------------------------- MODULE MCPickupSchedule ---------------------------
(* Instances of PickupSchedule for TLC: two weekdays, three days, a store  *)
(* open in the morning, and a clock seen as it opens and when the day is over.    *)
EXTENDS PickupCrews, TLC

CONSTANTS w1, w2, c1, c2, k1

Table == (c1 :> "closure") @@ (c2 :> "closure") @@ (k1 :> "capacity")

\* 09:00 and 10:00
MorningTimes == {540, 600}

\* 09:00, 19:00
ClockTimes == {540, 1140}

TwoPolicies == {[interval |-> 30, lead |-> 30, ahead |-> 1],
                [interval |-> 45, lead |-> 0, ahead |-> 2]}

Symmetry == Permutations(Workers) \cup Permutations({c1, c2})

Start0 == [day |-> 0, minute |-> 540, sub |-> FALSE]

MCInit ==
  /\ CrewInit /\ now = Start0
  /\ hours[0] # None      \* the other weekday has hours or none

\* No step of a request reads or writes the clock or the orders, so every
\* state is reached with the requests first; after three of them the clock
\* stands still.
MCNext ==
  /\ \/ now = Start0 /\ (\A d \in Days : booked[d] = 0) /\ \E w \in crew : Handle(w)
     \/ /\ changes < MaxChanges /\ \A w \in Workers : job[w] = Idle
        /\ \/ \E d \in Days, n \in 0 .. MaxBooked : Book(d, n)
           \/ Tick
  /\ UNCHANGED crew

MCSpec == MCInit /\ [][MCNext]_<<vars, crew>>
=============================================================================
