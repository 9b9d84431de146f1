----------------------------- MODULE PickupSchedule -----------------------------
(***************************************************************************)
(* When a cake can be picked up at a store.  The seller keeps weekly       *)
(* opening hours, single days off (closures), daily capacities and a       *)
(* pick-up policy; customers see a calendar of days, the time slots of a   *)
(* day, and the list of stores to pick up from today, all computed on      *)
(* request from those rows, the orders booked, and the clock.              *)
(*                                                                         *)
(* Seller requests run concurrently.  One that names a row first looks it  *)
(* up (live rows only), then writes it, then writes the audit row; nothing *)
(* is in a transaction.                                                    *)
(***************************************************************************)
EXTENDS PickupSlots, FiniteSets

CONSTANTS
  Workers,        \* request handlers of the server
  Rows,           \* row ids of the two dated tables
  TableOf,        \* the table of a row id
  LastDay,        \* bound: days 0..LastDay, day 0 a Sunday
  WeekLength,     \* 7 in the code
  Minutes,        \* bound: the minutes the clock can be seen at
  HourTimes,      \* bound: the times of day a seller opens or closes at
  Policies,       \* bound: interval, lead time and days ahead a seller may set
  Capacities,     \* bound: daily capacities a seller may set
  MaxBooked,      \* bound: cakes ordered for a day
  MaxChanges,     \* bound: seller requests
  Holiday,        \* what a closure row says: the reason's text is abstracted
  Unknown         \* the seller saw an error after the row was written

Tables == {"closure", "capacity"}
Days == 0 .. LastDay
Weekdays == 0 .. WeekLength - 1
Weekday(d) == d % WeekLength
Values == Capacities \cup {Holiday}
ValuesOf(t) == IF t = "closure" THEN {Holiday} ELSE Capacities
Hours == {None, Closed} \cup (Times \X Times)
ClockInstants == [day : Days, minute : Minutes, sub : BOOLEAN]

ASSUME ScheduleConstants ==
  /\ TableOf \in [Rows -> Tables]
  /\ LastDay \in Nat /\ WeekLength \in Nat \ {0}
  /\ Minutes \subseteq Times /\ HourTimes \subseteq Times
  /\ Policies \subseteq [interval : Nat \ {0}, lead : Nat, ahead : Nat]
  /\ Capacities \subseteq Nat /\ MaxBooked \in Nat /\ MaxChanges \in Nat
  /\ None \notin Rows /\ None \notin Days /\ None \notin Tables
  /\ None \notin Values /\ Unknown \notin Values /\ None # Unknown

VARIABLES
  now,        \* the clock
  hours,      \* store_business_hour: weekday -> opening and closing TIME
  policy,     \* the store's pick-up columns
  date,       \* row -> its date; None while the id is unused
  live,       \* row -> deleted_at IS NULL
  value,      \* row -> capacity, or Holiday
  booked,     \* day -> cakes in orders that are not cancelled
  job,        \* worker -> its request
  told,       \* history: table, day -> what the last reply told the seller
  changes     \* seller requests so far

settings == <<hours, policy>>
dated == <<date, live, value>>
vars == <<now, hours, policy, date, live, value, booked, job, told, changes>>

----------------------------------------------------------------------------
(* What customers see.                                                      *)

LiveOn(t, d) == {r \in Rows : TableOf[r] = t /\ date[r] = d /\ live[r]}

ClosureOn(d) == LiveOn("closure", d) # {}

HourOf(d) == hours[Weekday(d)]

\* No capacity row means no limit.
SoldOut(d) == \E r \in LiveOn("capacity", d) : booked[d] >= value[r]

DaySlots(d) == FreeSlots(HourOf(d), policy, d, now)

\* mutated form
DayReasonForgettingSlots(d) ==
  IF d < now.day THEN "PAST"
  ELSE IF d - now.day > policy.ahead THEN "OUT_OF_RANGE"
  ELSE IF ClosureOn(d) \/ ~IsOpen(HourOf(d)) THEN "CLOSED"
  ELSE IF SoldOut(d) THEN "CAPACITY_FULL" ELSE None

\* evaluateDay: the first reason that applies; None means selectable.
DayReason(d) ==
  IF d < now.day THEN "PAST"
  ELSE IF d - now.day > policy.ahead THEN "OUT_OF_RANGE"
  ELSE IF ClosureOn(d) THEN "CLOSED"
  ELSE IF ~IsOpen(HourOf(d)) THEN "CLOSED"
  ELSE IF SoldOut(d) THEN "CAPACITY_FULL"
  ELSE IF d = now.day /\ DaySlots(d) = {} THEN "CLOSED"
  ELSE None

Selectable(d) == DayReason(d) = None

\* storePickupTimeSlots: the slots shown as available.  A day off shows no
\* slots; any other reason shows them all as taken.
OpenSlots(d) ==
  IF IsOpen(HourOf(d)) /\ ~ClosureOn(d) /\ DayReason(d) = None THEN DaySlots(d) ELSE {}

\* findDailyCapacities and sumPickupQuantitiesInRange: today's capacity and
\* today's cakes of many stores at once.
SoldOutToday == \E r \in LiveOn("capacity", now.day) : booked[now.day] >= value[r]

\* todayPickupStores: whether the store is listed.
ListedToday ==
  /\ ~ClosureOn(now.day)
  /\ IsOpen(HourOf(now.day))
  /\ ~SoldOutToday
  /\ DaySlots(now.day) # {}

----------------------------------------------------------------------------
(* Seller requests.                                                         *)

Idle == [pc |-> "idle", table |-> None, row |-> None, was |-> None,
         date |-> None, value |-> None]

Jobs ==
  {Idle} \cup
  [pc : {"write", "audit"}, table : Tables, row : Rows \cup {None},
   was : Days \cup {None}, date : Days \cup {None}, value : Values \cup {None}] \cup
  [pc : {"audit"}, table : {None}, row : {None}, was : {None}, date : {None}, value : {None}]

Start(w, j) ==
  /\ job[w] = Idle /\ changes < MaxChanges
  /\ changes' = changes + 1
  /\ job' = [job EXCEPT ![w] = j]

SettingJob == [Idle EXCEPT !.pc = "audit"]

\* sellerUpsertStoreBusinessHour.  Opening and closing arrive as date-times and
\* are compared as such, but only their time of day is stored.
DateTimes == [day : 0 .. 1, time : HourTimes]

UpsertHours(w, wd, open, close) ==
  /\ close.day > open.day \/ (close.day = open.day /\ close.time > open.time)
  /\ Start(w, SettingJob)
  /\ hours' = [hours EXCEPT ![wd] = <<open.time, close.time>>]
  /\ UNCHANGED <<now, policy, dated, booked, told>>

CloseWeekday(w, wd) ==
  /\ Start(w, SettingJob)
  /\ hours' = [hours EXCEPT ![wd] = Closed]
  /\ UNCHANGED <<now, policy, dated, booked, told>>

\* sellerUpdatePickupPolicy.
UpdatePickupPolicy(w, p) ==
  /\ Start(w, SettingJob)
  /\ policy' = p
  /\ UNCHANGED <<now, hours, dated, booked, told>>

\* An upsert without an id: nothing to look up.
AskCreate(w, t, d, v) ==
  /\ v \in ValuesOf(t)
  /\ Start(w, [pc |-> "write", table |-> t, row |-> None, was |-> None, date |-> d, value |-> v])
  /\ UNCHANGED <<now, settings, dated, booked, told>>

\* The row as it was found, and what becomes of it.
ChangeJob(r, d, v) ==
  [pc |-> "write", table |-> TableOf[r], row |-> r, was |-> date[r], date |-> d, value |-> v]

\* An upsert with an id: the row must be live.
AskUpdate(w, r, d, v) ==
  /\ date[r] # None /\ live[r]
  /\ v \in ValuesOf(TableOf[r])
  /\ Start(w, ChangeJob(r, d, v))
  /\ UNCHANGED <<now, settings, dated, booked, told>>

AskDelete(w, r) ==
  /\ date[r] # None /\ live[r]
  /\ Start(w, ChangeJob(r, None, value[r]))
  /\ UNCHANGED <<now, settings, dated, booked, told>>

RowsOn(t, d) == {r \in Rows : TableOf[r] = t /\ date[r] = d}

WriteRow(r, d, l, v) ==
  /\ date' = [date EXCEPT ![r] = d]
  /\ live' = [live EXCEPT ![r] = l]
  /\ value' = [value EXCEPT ![r] = v]

Audit(w) == job' = [job EXCEPT ![w] = [@ EXCEPT !.pc = "audit"]]

\* mutated form
CreateRowStayingDeleted(w) ==
  LET j == job[w] IN
  /\ j.pc = "write" /\ j.row = None
  /\ \/ \E r \in RowsOn(j.table, j.date) : WriteRow(r, j.date, live[r], j.value)
     \/ /\ RowsOn(j.table, j.date) = {}
        /\ \E r \in Rows : /\ TableOf[r] = j.table /\ date[r] = None
                           /\ WriteRow(r, j.date, TRUE, j.value)
  /\ Audit(w)
  /\ UNCHANGED <<now, settings, booked, told, changes>>

\* createStoreSpecialClosure, createStoreDailyCapacity: one upsert on the
\* date, which brings a deleted row back.
CreateRow(w) ==
  LET j == job[w] IN
  /\ j.pc = "write" /\ j.row = None
  /\ \/ \E r \in RowsOn(j.table, j.date) : WriteRow(r, j.date, TRUE, j.value)
     \/ /\ RowsOn(j.table, j.date) = {}
        /\ \E r \in Rows : /\ TableOf[r] = j.table /\ date[r] = None
                           /\ WriteRow(r, j.date, TRUE, j.value)
  /\ Audit(w)
  /\ UNCHANGED <<now, settings, booked, told, changes>>

\* updateStoreSpecialClosure, updateStoreDailyCapacity: by id, deleted or not.
\* The UNIQUE index counts deleted rows too; a date taken is an error.
UpdateRow(w) ==
  LET j == job[w] IN
  /\ j.pc = "write" /\ j.row # None /\ j.date # None
  /\ IF RowsOn(j.table, j.date) \subseteq {j.row}
     THEN WriteRow(j.row, j.date, live[j.row], j.value) /\ Audit(w)
     ELSE job' = [job EXCEPT ![w] = Idle] /\ UNCHANGED dated
  /\ UNCHANGED <<now, settings, booked, told, changes>>

\* softDeleteStoreSpecialClosure, softDeleteStoreDailyCapacity.
DeleteRow(w) ==
  LET j == job[w] IN
  /\ j.pc = "write" /\ j.row # None /\ j.date = None
  /\ WriteRow(j.row, date[j.row], FALSE, value[j.row])
  /\ Audit(w)
  /\ UNCHANGED <<now, settings, booked, told, changes>>

Learn(j, new) ==
  IF j.table = None THEN told
  ELSE [told EXCEPT ![j.table] = [d \in Days |->
          IF d = j.date THEN IF new THEN j.value ELSE Unknown
          ELSE IF d = j.was THEN IF new THEN None ELSE Unknown
          ELSE @[d]]]

\* The audit row is written and the seller gets the reply.
Reply(w) ==
  /\ job[w].pc = "audit"
  /\ told' = Learn(job[w], TRUE)
  /\ job' = [job EXCEPT ![w] = Idle]
  /\ UNCHANGED <<now, settings, dated, booked, changes>>

\* A crash or a database error: before the write it changes nothing, after it
\* the seller sees an error though the row is written.
Fail(w) ==
  /\ job[w] # Idle
  /\ told' = IF job[w].pc = "audit" THEN Learn(job[w], FALSE) ELSE told
  /\ job' = [job EXCEPT ![w] = Idle]
  /\ UNCHANGED <<now, settings, dated, booked, changes>>

----------------------------------------------------------------------------
(* The surroundings.                                                        *)

\* Orders are placed and cancelled.
Book(d, n) ==
  /\ booked' = [booked EXCEPT ![d] = n]
  /\ UNCHANGED <<now, settings, dated, job, told, changes>>

Tick ==
  /\ \E n \in ClockInstants : Later(now, n) /\ now' = n
  /\ UNCHANGED <<settings, dated, booked, job, told, changes>>

Init ==
  /\ now \in {n \in ClockInstants : n.day = 0}
  /\ hours \in [Weekdays -> {None} \cup {p \in HourTimes \X HourTimes : p[1] < p[2]}]
  /\ policy \in Policies
  /\ date = [r \in Rows |-> None]
  /\ live = [r \in Rows |-> FALSE]
  /\ value = [r \in Rows |-> None]
  /\ booked = [d \in Days |-> 0]
  /\ job = [w \in Workers |-> Idle]
  /\ told = [t \in Tables |-> [d \in Days |-> None]]
  /\ changes = 0

Handle(w) ==
  \/ \E wd \in Weekdays, open, close \in DateTimes : UpsertHours(w, wd, open, close)
  \/ \E wd \in Weekdays : CloseWeekday(w, wd)
  \/ \E p \in Policies : UpdatePickupPolicy(w, p)
  \/ \E t \in Tables, d \in Days, v \in Values : AskCreate(w, t, d, v)
  \/ \E r \in Rows : \/ \E d \in Days, v \in Values : AskUpdate(w, r, d, v)
                     \/ AskDelete(w, r)
  \/ CreateRow(w) \/ UpdateRow(w) \/ DeleteRow(w) \/ Reply(w) \/ Fail(w)

Next ==
  \/ \E w \in Workers : Handle(w)
  \/ \E d \in Days, n \in 0 .. MaxBooked : Book(d, n)
  \/ Tick

Spec == Init /\ [][Next]_vars

----------------------------------------------------------------------------
(* Properties.                                                              *)

\* Clock, settings, rows and requests have their types, and a request that
\* changes a row has found that row.
TypeOK ==
  /\ now \in ClockInstants
  /\ hours \in [Weekdays -> Hours]
  /\ policy \in Policies
  /\ date \in [Rows -> Days \cup {None}]
  /\ live \in [Rows -> BOOLEAN]
  /\ value \in [Rows -> Values \cup {None}]
  /\ booked \in [Days -> 0 .. MaxBooked]
  /\ job \in [Workers -> Jobs]
  /\ told \in [Tables -> [Days -> Values \cup {None, Unknown}]]
  /\ changes \in 0 .. MaxChanges
  /\ \A w \in Workers : job[w].row # None => job[w].was # None

\* The calendar lets a day be chosen exactly when the day's own page has a
\* time to choose, unless the store's hours for that weekday end before they
\* begin (evaluateDay and storePickupTimeSlots decide separately).
CalendarMatchesSlots ==
  \A d \in Days :
    /\ OpenSlots(d) # {} => Selectable(d)
    /\ Selectable(d) => OpenSlots(d) # {} \/ HourOf(d)[1] >= HourOf(d)[2]

\* The list of stores to pick up from today agrees with the store's calendar,
\* which is computed from other queries by other code.
TodayListMatchesCalendar == ListedToday <=> Selectable(now.day)

\* A slot offered for today leaves the store its lead time in full, to the
\* second, when the customer sees it.
LeadTimeKept ==
  \A t \in OpenSlots(now.day) :
    t * 60 >= now.minute * 60 + (IF now.sub THEN 1 ELSE 0) + policy.lead * 60

\* The home page's calendar and its time slots agree.
GlobalCalendarMatchesSlots ==
  \A d \in Days : GlobalReason(d, now) = None <=> GlobalFreeSlots(d, now) # {}

\* The views agree: what a customer is offered in the store's calendar, in
\* its time slots, in the list of today's stores and on the home page is the
\* same though each is decided by other code over other queries.
ViewsAgree == CalendarMatchesSlots /\ TodayListMatchesCalendar /\ GlobalCalendarMatchesSlots

\* The passage of time closes slots and never opens one, but for the days
\* that come into the store's range: a slot taken off a page does not return.
TimeOnlyCloses ==
  [][Tick => \A d \in Days : d - now.day <= policy.ahead => OpenSlots(d)' \subseteq OpenSlots(d)]_vars

\* The live closure or capacity of a day is the one the seller was told of.
AsTold(t, d) ==
  \/ told[t][d] = Unknown
  \/ told[t][d] = None /\ LiveOn(t, d) = {}
  \/ \E r \in Rows : LiveOn(t, d) = {r} /\ told[t][d] = value[r]

\* With no requests overlapping, the live closures and capacities are those
\* the replies told the seller of: across creating, moving, deleting and
\* re-creating on a date that has a deleted row.
RowsAsTold ==
  (\A w \in Workers : job[w] = Idle) => \A t \in Tables, d \in Days : AsTold(t, d)

\* "closeTime must be after openTime."
HoursInOrder == \A wd \in Weekdays : IsOpen(hours[wd]) => hours[wd][1] < hours[wd][2]
=============================================================================
