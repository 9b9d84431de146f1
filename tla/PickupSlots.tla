------------------------------ MODULE PickupSlots ------------------------------
(***************************************************************************)
(* The time arithmetic of pick-up dates: how a day's opening hours are cut *)
(* into slots, which of them are still bookable, and the fixed schedule    *)
(* the home page shows for no store in particular.                         *)
(*                                                                         *)
(* An instant is [day, minute, sub] in Korean time: sub says that seconds  *)
(* have passed since the minute began.  A time of day is in minutes.       *)
(***************************************************************************)
EXTENDS Integers

CONSTANTS None, Closed      \* no value; a weekday whose row says is_closed

Reasons == {"PAST", "OUT_OF_RANGE", "CLOSED", "CAPACITY_FULL"}

ASSUME SlotConstants == None # Closed /\ None \notin Reasons

MinutesPerDay == 1440

Times == 0 .. MinutesPerDay - 1

Later(n, m) ==
  \/ m.day > n.day
  \/ m.day = n.day /\ m.minute > n.minute
  \/ m.day = n.day /\ m.minute = n.minute /\ m.sub /\ ~n.sub

\* buildTodaySlots: [open, close) in steps of the interval; none at all when
\* the store would close before it opens.
Slots(open, close, interval) ==
  {open + k * interval : k \in 0 .. ((close - open - 1) \div interval)}

\* mutated form
NowMinutesCut(now) == now.minute

\* A begun minute counts as a whole one: rounding down would cut the lead
\* time by up to 59 seconds.
NowMinutes(now) == IF now.sub THEN now.minute + 1 ELSE now.minute

\* The lead time is counted on the day itself only.
Bookable(t, d, now, lead) == d = now.day => t >= NowMinutes(now) + lead

IsOpen(hour) == hour \notin {None, Closed}

FreeSlots(hour, policy, d, now) ==
  {t \in Slots(hour[1], hour[2], policy.interval) : Bookable(t, d, now, policy.lead)}

(***************************************************************************)
(* The home page's schedule, the same for every store.                     *)
(***************************************************************************)
PICKUP_OPEN_MINUTES == 10 * 60
PICKUP_CLOSE_MINUTES == 20 * 60
PICKUP_SLOT_INTERVAL_MINUTES == 30
PICKUP_MAX_DAYS_AHEAD == 30
PICKUP_MIN_LEAD_MINUTES == 60

\* Here seconds are cut off.
GlobalCutoff(now) == now.minute + PICKUP_MIN_LEAD_MINUTES

LastGlobalSlot == PICKUP_CLOSE_MINUTES - PICKUP_SLOT_INTERVAL_MINUTES

GlobalReason(d, now) ==
  IF d < now.day THEN "PAST"
  ELSE IF d - now.day > PICKUP_MAX_DAYS_AHEAD THEN "OUT_OF_RANGE"
  ELSE IF d = now.day /\ GlobalCutoff(now) > LastGlobalSlot THEN "CLOSED"
  ELSE None

GlobalFreeSlots(d, now) ==
  {t \in Slots(PICKUP_OPEN_MINUTES, PICKUP_CLOSE_MINUTES, PICKUP_SLOT_INTERVAL_MINUTES) :
     /\ d >= now.day /\ d - now.day <= PICKUP_MAX_DAYS_AHEAD
     /\ d = now.day => t >= GlobalCutoff(now)}
=============================================================================
