-------------------------- MODULE PickupScheduleProofs --------------------------
(* Theorems about PickupSchedule, for every number of days, rows, workers, *)
(* policies and clock times.                                               *)
EXTENDS PickupCrews, TLAPS

(* A day that opens before it closes has a slot, at opening time.          *)
LEMMA FirstSlot ==
    ASSUME NEW open \in Times, NEW close \in Times, open < close, NEW i \in Nat \ {0}
    PROVE  open \in Slots(open, close, i)
<1>1. ASSUME NEW x \in Nat PROVE x \div i \in Nat
      OBVIOUS
<1>2. close - open - 1 \in Nat
      BY DEF Times, MinutesPerDay
<1>3. 0 \in 0 .. ((close - open - 1) \div i)
      BY <1>1, <1>2
<1>4. open = open + 0 * i
      BY DEF Times, MinutesPerDay
<1> QED
    BY <1>3, <1>4 DEF Slots

(* Slots are times in minutes.                                             *)
LEMMA SlotsAreMinutes ==
    ASSUME NEW open \in Times, NEW close \in Times, NEW i \in Nat \ {0}
    PROVE  Slots(open, close, i) \subseteq Nat
<1> SUFFICES ASSUME NEW t \in Slots(open, close, i) PROVE t \in Nat
    OBVIOUS
<1>1. (close - open - 1) \div i \in Int
      BY DEF Times, MinutesPerDay
<1>2. PICK k \in 0 .. ((close - open - 1) \div i) : t = open + k * i
      BY DEF Slots
<1>3. k \in Nat
      BY <1>1
<1>4. k * i \in Nat
      BY <1>3
<1> QED
    BY <1>2, <1>4 DEF Times, MinutesPerDay

(* The slots of the home page run from 10:00 to 19:30.                     *)
LEMMA GlobalSlots ==
    LET S == Slots(PICKUP_OPEN_MINUTES, PICKUP_CLOSE_MINUTES, PICKUP_SLOT_INTERVAL_MINUTES)
    IN  /\ LastGlobalSlot \in S
        /\ \A t \in S : t \in Nat /\ t <= LastGlobalSlot
<1>1. (1200 - 600 - 1) \div 30 = 19
      OBVIOUS
<1>2. Slots(PICKUP_OPEN_MINUTES, PICKUP_CLOSE_MINUTES, PICKUP_SLOT_INTERVAL_MINUTES)
        = {600 + k * 30 : k \in 0 .. 19}
      BY <1>1 DEF Slots, PICKUP_OPEN_MINUTES, PICKUP_CLOSE_MINUTES, PICKUP_SLOT_INTERVAL_MINUTES
<1>3. LastGlobalSlot = 600 + 19 * 30
      BY DEF LastGlobalSlot, PICKUP_CLOSE_MINUTES, PICKUP_SLOT_INTERVAL_MINUTES
<1> QED
    BY <1>2, <1>3

(* The parts of an instant.                                                *)
LEMMA ClockTyped ==
    ASSUME NEW n \in ClockInstants
    PROVE  n.day \in Days /\ n.day \in Int /\ n.minute \in Nat /\ NowMinutes(n) \in Int
<1>1. n.day \in Days /\ n.minute \in Minutes
      BY DEF ClockInstants
<1>2. Days \subseteq Int
  <2>1. LastDay \in Nat
        BY ScheduleConstants
  <2> QED
      BY <2>1 DEF Days
<1>3. Minutes \subseteq Nat
  <2>1. Minutes \subseteq Times
        BY ScheduleConstants
  <2> QED
      BY <2>1 DEF Times, MinutesPerDay
<1>4. n.minute \in Nat
      BY <1>1, <1>3
<1>5. NowMinutes(n) \in Int
      BY <1>4 DEF NowMinutes
<1> QED
    BY <1>1, <1>2, <1>4, <1>5

(* Time does not run backwards.                                            *)
LEMMA LaterClock ==
    ASSUME NEW n \in ClockInstants, NEW m \in ClockInstants, Later(n, m)
    PROVE  /\ m.day >= n.day
           /\ m.day = n.day => NowMinutes(m) >= NowMinutes(n)
<1>1. /\ n.day \in Int /\ m.day \in Int /\ n.minute \in Int /\ m.minute \in Int
      BY ClockTyped
<1>2. CASE m.day > n.day
      BY <1>1, <1>2
<1>3. CASE m.day = n.day /\ m.minute > n.minute
      BY <1>1, <1>3 DEF NowMinutes
<1>4. CASE m.day = n.day /\ m.minute = n.minute /\ m.sub /\ ~n.sub
      BY <1>1, <1>4 DEF NowMinutes
<1> QED
    BY <1>2, <1>3, <1>4 DEF Later

----------------------------------------------------------------------------

(* A request that starts gets a job of the right shape.                    *)
LEMMA StartTyped ==
    ASSUME TypeOK, NEW w \in Workers, NEW j \in Jobs, j.row # None => j.was # None,
           Start(w, j)
    PROVE  /\ job' \in [Workers -> Jobs]
           /\ changes' \in 0 .. MaxChanges
           /\ \A u \in Workers : job'[u].row # None => job'[u].was # None
BY ScheduleConstants DEF TypeOK, Start

(* A request that ends leaves its worker idle.                             *)
LEMMA EndTyped ==
    ASSUME TypeOK, NEW w \in Workers, job' = [job EXCEPT ![w] = Idle]
    PROVE  /\ job' \in [Workers -> Jobs]
           /\ \A u \in Workers : job'[u].row # None => job'[u].was # None
<1>1. Idle \in Jobs /\ Idle.row = None
      BY DEF Jobs, Idle
<1> QED
    BY <1>1 DEF TypeOK

(* After the write comes the audit row.                                    *)
LEMMA AuditTyped ==
    ASSUME TypeOK, NEW w \in Workers, job[w].pc = "write", Audit(w)
    PROVE  /\ job' \in [Workers -> Jobs]
           /\ \A u \in Workers : job'[u].row # None => job'[u].was # None
<1>1. PICK o \in Jobs : o = job[w] /\ (o.row # None => o.was # None)
      BY DEF TypeOK
<1> DEFINE r == [pc |-> "audit", table |-> o.table, row |-> o.row, was |-> o.was,
                 date |-> o.date, value |-> o.value]
<1>2. [o EXCEPT !.pc = "audit"] = r
      BY DEF Jobs, Idle
<1>3. r \in Jobs /\ (r.row # None => r.was # None)
      BY <1>1 DEF Jobs, Idle
<1>4. job' = [job EXCEPT ![w] = r]
      BY <1>1, <1>2 DEF Audit, TypeOK
<1> HIDE DEF r
<1> QED
    BY <1>3, <1>4 DEF TypeOK

(* A job under way names a table, and a write has its date and value.      *)
LEMMA WritingJob ==
    ASSUME NEW j \in Jobs, j.pc = "write"
    PROVE  /\ j.table \in Tables /\ j.row \in Rows \cup {None}
           /\ j.was \in Days \cup {None} /\ j.date \in Days \cup {None}
           /\ j.value \in Values \cup {None}
BY DEF Jobs, Idle

(* Writing a row keeps the tables typed.                                   *)
LEMMA WriteTyped ==
    ASSUME TypeOK, NEW r \in Rows, NEW d \in Days \cup {None}, NEW l \in BOOLEAN,
           NEW v \in Values \cup {None}, WriteRow(r, d, l, v)
    PROVE  /\ date' \in [Rows -> Days \cup {None}]
           /\ live' \in [Rows -> BOOLEAN]
           /\ value' \in [Rows -> Values \cup {None}]
BY DEF TypeOK, WriteRow

(* What the seller is told keeps its type.                                 *)
LEMMA LearnTyped ==
    ASSUME TypeOK, NEW j \in Jobs, NEW b \in BOOLEAN
    PROVE  Learn(j, b) \in [Tables -> [Days -> Values \cup {None, Unknown}]]
<1>1. CASE j.table = None
      BY <1>1 DEF Learn, TypeOK
<1>2. CASE j.table # None
  <2>1. j.table \in Tables /\ j.value \in Values \cup {None}
        BY <1>2 DEF Jobs, Idle
  <2> DEFINE f == [d \in Days |->
                     IF d = j.date THEN IF b THEN j.value ELSE Unknown
                     ELSE IF d = j.was THEN IF b THEN None ELSE Unknown
                     ELSE told[j.table][d]]
  <2>2. f \in [Days -> Values \cup {None, Unknown}]
        BY <2>1 DEF TypeOK
  <2>3. Learn(j, b) = [told EXCEPT ![j.table] = f]
        BY <1>2 DEF Learn
  <2> HIDE DEF f
  <2> QED
      BY <2>1, <2>2, <2>3 DEF TypeOK
<1> QED
    BY <1>1, <1>2

(* The initial state has the types...                                      *)
LEMMA InitTyped == Init => TypeOK
<1> SUFFICES ASSUME Init PROVE TypeOK
    OBVIOUS
<1>1. Idle \in Jobs /\ Idle.row = None
      BY DEF Jobs, Idle
<1>2. hours \in [Weekdays -> Hours]
      BY ScheduleConstants DEF Init, Hours
<1> QED
    BY <1>1, <1>2, ScheduleConstants DEF Init, TypeOK, ClockInstants

(* ... and every step keeps them.                                          *)
LEMMA StepTyped == TypeOK /\ [Next]_vars => TypeOK'
<1> SUFFICES ASSUME TypeOK, [Next]_vars PROVE TypeOK'
    OBVIOUS
<1>1. SettingJob \in Jobs /\ SettingJob.row = None
      BY DEF SettingJob, Idle, Jobs
<1>2. ASSUME NEW w \in Workers, NEW wd \in Weekdays, NEW open \in DateTimes,
             NEW close \in DateTimes, UpsertHours(w, wd, open, close)
      PROVE  TypeOK'
  <2>1. <<open.time, close.time>> \in Hours
        BY ScheduleConstants DEF Hours, DateTimes
  <2> QED
      BY <1>1, <1>2, <2>1, StartTyped DEF UpsertHours, TypeOK, dated
<1>3. ASSUME NEW w \in Workers, NEW wd \in Weekdays, CloseWeekday(w, wd)
      PROVE  TypeOK'
      BY <1>1, <1>3, StartTyped DEF CloseWeekday, TypeOK, dated, Hours
<1>4. ASSUME NEW w \in Workers, NEW p \in Policies, UpdatePickupPolicy(w, p)
      PROVE  TypeOK'
      BY <1>1, <1>4, StartTyped DEF UpdatePickupPolicy, TypeOK, dated
<1>5. ASSUME NEW w \in Workers, NEW t \in Tables, NEW d \in Days, NEW v \in Values,
             AskCreate(w, t, d, v)
      PROVE  TypeOK'
  <2>1. PICK j : j = [pc |-> "write", table |-> t, row |-> None, was |-> None,
                      date |-> d, value |-> v]
        OBVIOUS
  <2>2. j \in Jobs /\ j.row = None
        BY <2>1 DEF Jobs
  <2>3. Start(w, j)
        BY <1>5, <2>1 DEF AskCreate
  <2> QED
      BY <1>5, <2>2, <2>3, StartTyped DEF AskCreate, TypeOK, dated, settings
<1>6. ASSUME NEW w \in Workers, NEW r \in Rows, NEW d \in Days \cup {None},
             NEW v \in Values \cup {None}, date[r] # None, Start(w, ChangeJob(r, d, v)),
             UNCHANGED <<now, settings, dated, booked, told>>
      PROVE  TypeOK'
  <2>1. PICK was \in Days : was = date[r]
        BY <1>6 DEF TypeOK
  <2>2. PICK t \in Tables : t = TableOf[r]
        BY ScheduleConstants
  <2>3. PICK j : j = [pc |-> "write", table |-> t, row |-> r, was |-> was,
                      date |-> d, value |-> v]
        OBVIOUS
  <2>4. j \in Jobs /\ j.was # None
        BY <1>6, <2>1, <2>3 DEF Jobs
  <2>5. Start(w, j)
        BY <1>6, <2>1, <2>2, <2>3 DEF ChangeJob
  <2> QED
      BY <1>6, <2>4, <2>5, StartTyped DEF TypeOK, dated, settings
<1>6a. ASSUME NEW w \in Workers, NEW r \in Rows,
              (\E d \in Days, v \in Values : AskUpdate(w, r, d, v)) \/ AskDelete(w, r)
       PROVE  TypeOK'
  <2>1. CASE \E d \in Days, v \in Values : AskUpdate(w, r, d, v)
        BY <1>6, <2>1 DEF AskUpdate
  <2>2. CASE AskDelete(w, r)
    <3>1. PICK v \in Values \cup {None} : v = value[r]
          BY DEF TypeOK
    <3> QED
        BY <1>6, <2>2, <3>1 DEF AskDelete
  <2> QED
      BY <1>6a, <2>1, <2>2
<1>7. ASSUME NEW w \in Workers, CreateRow(w) \/ UpdateRow(w) \/ DeleteRow(w)
      PROVE  TypeOK'
  <2>1. job[w].pc = "write"
        BY <1>7 DEF CreateRow, UpdateRow, DeleteRow
  <2>2. PICK j \in Jobs : j = job[w]
        BY DEF TypeOK
  <2>3. /\ j.row \in Rows \cup {None} /\ j.date \in Days \cup {None}
        /\ j.value \in Values \cup {None}
        BY <2>1, <2>2, WritingJob
  <2>4. CASE Audit(w)
    <3>1. /\ date' \in [Rows -> Days \cup {None}]
          /\ live' \in [Rows -> BOOLEAN]
          /\ value' \in [Rows -> Values \cup {None}]
      <4>1. CASE CreateRow(w)
            BY <4>1, <2>2, <2>3, WriteTyped DEF CreateRow, RowsOn
      <4>2. CASE UpdateRow(w)
        <5>1. CASE UNCHANGED dated
              BY <5>1 DEF dated, TypeOK
        <5>2. CASE WriteRow(j.row, j.date, live[j.row], j.value)
          <6>1. j.row \in Rows
                BY <4>2, <2>2, <2>3 DEF UpdateRow
          <6>2. PICK l \in BOOLEAN : l = live[j.row]
                BY <6>1 DEF TypeOK
          <6> QED
              BY <5>2, <6>1, <6>2, <2>3, WriteTyped
        <5> QED
            BY <4>2, <5>1, <5>2, <2>2 DEF UpdateRow
      <4>3. CASE DeleteRow(w)
        <5>1. j.row \in Rows
              BY <4>3, <2>2, <2>3 DEF DeleteRow
        <5>2. PICK d \in Days \cup {None}, v \in Values \cup {None} :
                 d = date[j.row] /\ v = value[j.row]
              BY <5>1 DEF TypeOK
        <5>3. WriteRow(j.row, d, FALSE, v)
              BY <4>3, <5>2, <2>2 DEF DeleteRow
        <5> QED
            BY <5>1, <5>2, <5>3, WriteTyped
      <4> QED
          BY <1>7, <4>1, <4>2, <4>3
    <3> QED
        BY <1>7, <2>1, <2>4, <3>1, AuditTyped
           DEF TypeOK, CreateRow, UpdateRow, DeleteRow, settings
  <2>5. CASE ~Audit(w)
    <3>1. job' = [job EXCEPT ![w] = Idle] /\ UNCHANGED dated
          BY <1>7, <2>5 DEF CreateRow, UpdateRow, DeleteRow
    <3> QED
        BY <1>7, <3>1, EndTyped DEF TypeOK, CreateRow, UpdateRow, DeleteRow, settings, dated
  <2> QED
      BY <2>4, <2>5
<1>8. ASSUME NEW w \in Workers, Reply(w) \/ Fail(w)
      PROVE  TypeOK'
  <2>1. PICK j \in Jobs : j = job[w]
        BY DEF TypeOK
  <2>2. told' \in {told, Learn(j, TRUE), Learn(j, FALSE)}
        BY <1>8, <2>1 DEF Reply, Fail
  <2>3. told' \in [Tables -> [Days -> Values \cup {None, Unknown}]]
        BY <2>2, LearnTyped DEF TypeOK
  <2> QED
      BY <1>8, <2>3, EndTyped DEF Reply, Fail, TypeOK, settings, dated
<1>9. ASSUME NEW d \in Days, NEW n \in 0 .. MaxBooked, Book(d, n)
      PROVE  TypeOK'
      BY <1>9 DEF Book, TypeOK, settings, dated
<1>10. CASE Tick
       BY <1>10 DEF Tick, TypeOK, settings, dated
<1>11. CASE UNCHANGED vars
       BY <1>11 DEF vars, TypeOK
<1> QED
    BY <1>2, <1>3, <1>4, <1>5, <1>6a, <1>7, <1>8, <1>9, <1>10, <1>11 DEF Next, Handle

(* Clock, settings, rows and requests always have their types.             *)
THEOREM PickupTypeCorrect == Spec => []TypeOK
BY InitTyped, StepTyped, PTL DEF Spec

----------------------------------------------------------------------------

(* What the schedule's views read, for a day and its weekday's hours.      *)
LEMMA ViewTypes ==
    ASSUME TypeOK, NEW d \in Days
    PROVE  /\ Weekday(d) \in Weekdays
           /\ HourOf(d) \in Hours
           /\ IsOpen(HourOf(d)) => HourOf(d)[1] \in Times /\ HourOf(d)[2] \in Times
           /\ policy.interval \in Nat \ {0} /\ policy.lead \in Nat /\ policy.ahead \in Nat
           /\ now.day \in Days /\ d \in Int
<1>1. d \in Nat /\ WeekLength \in Nat \ {0}
      BY ScheduleConstants DEF Days
<1>2. Weekday(d) \in Weekdays
      BY <1>1 DEF Weekday, Weekdays
<1>3. HourOf(d) \in Hours
      BY <1>2 DEF TypeOK, HourOf
<1>4. IsOpen(HourOf(d)) => HourOf(d)[1] \in Times /\ HourOf(d)[2] \in Times
      BY <1>3 DEF Hours, IsOpen
<1>5. policy \in [interval : Nat \ {0}, lead : Nat, ahead : Nat]
      BY ScheduleConstants DEF TypeOK
<1>6. now.day \in Days
      BY DEF TypeOK, ClockInstants
<1> QED
    BY <1>1, <1>2, <1>3, <1>4, <1>5, <1>6

(* A day whose hours begin before they end and which is not today has its  *)
(* first slot free.                                                        *)
LEMMA LaterDayHasSlot ==
    ASSUME TypeOK, NEW d \in Days, d # now.day, IsOpen(HourOf(d)),
           HourOf(d)[1] < HourOf(d)[2]
    PROVE  DaySlots(d) # {}
<1>1. PICK open \in Times, close \in Times, i \in Nat \ {0} :
         open = HourOf(d)[1] /\ close = HourOf(d)[2] /\ i = policy.interval
      BY ViewTypes
<1>2. open \in Slots(open, close, i)
      BY <1>1, FirstSlot
<1>3. open \in DaySlots(d)
      BY <1>1, <1>2 DEF DaySlots, FreeSlots, Bookable
<1> QED
    BY <1>3

(* The calendar offers a day exactly when the day's page has a free time.  *)
THEOREM CalendarAgrees == Spec => []CalendarMatchesSlots
<1>1. TypeOK => CalendarMatchesSlots
  <2> SUFFICES ASSUME TypeOK, NEW d \in Days
               PROVE  /\ OpenSlots(d) # {} => Selectable(d)
                      /\ Selectable(d) => OpenSlots(d) # {} \/ HourOf(d)[1] >= HourOf(d)[2]
      BY DEF CalendarMatchesSlots
  <2>1. OpenSlots(d) # {} => Selectable(d)
        BY DEF OpenSlots, Selectable
  <2>2. ASSUME Selectable(d), ~(HourOf(d)[1] >= HourOf(d)[2])
        PROVE  OpenSlots(d) # {}
    <3>1. /\ ~ClosureOn(d) /\ IsOpen(HourOf(d))
          /\ ~(d = now.day /\ DaySlots(d) = {})
          BY <2>2, SlotConstants DEF Selectable, DayReason, Reasons
    <3>2. HourOf(d)[1] < HourOf(d)[2]
          BY <2>2, <3>1, ViewTypes DEF Times
    <3>3. DaySlots(d) # {}
          BY <3>1, <3>2, LaterDayHasSlot
    <3> QED
        BY <2>2, <3>1, <3>3 DEF OpenSlots, Selectable
  <2> QED
      BY <2>1, <2>2
<1> QED
    BY <1>1, PickupTypeCorrect, PTL

(* The list of today's stores agrees with the store's calendar.            *)
THEOREM TodayListAgrees == Spec => []TodayListMatchesCalendar
<1>1. TypeOK => TodayListMatchesCalendar
  <2> SUFFICES ASSUME TypeOK PROVE TodayListMatchesCalendar
      OBVIOUS
  <2>1. now.day \in Int /\ policy.ahead \in Nat
        BY ViewTypes, ScheduleConstants DEF TypeOK, ClockInstants, Days
  <2>2. ~(now.day < now.day) /\ ~(now.day - now.day > policy.ahead)
        BY <2>1
  <2> QED
      BY <2>2, SlotConstants
         DEF TodayListMatchesCalendar, ListedToday, SoldOutToday, SoldOut, Selectable, DayReason, Reasons
<1> QED
    BY <1>1, PickupTypeCorrect, PTL

(* A slot offered for today is at least the lead time away, to the second. *)
THEOREM LeadTimeAlwaysKept == Spec => []LeadTimeKept
<1>1. TypeOK => LeadTimeKept
  <2> SUFFICES ASSUME TypeOK, NEW t \in OpenSlots(now.day)
               PROVE  t * 60 >= now.minute * 60 + (IF now.sub THEN 1 ELSE 0) + policy.lead * 60
      BY DEF LeadTimeKept
  <2>1. now.day \in Days /\ now.minute \in Nat
        BY ClockTyped DEF TypeOK
  <2>2. t \in DaySlots(now.day) /\ IsOpen(HourOf(now.day))
        BY DEF OpenSlots
  <2>3. PICK open \in Times, close \in Times, i \in Nat \ {0}, lead \in Nat :
           /\ open = HourOf(now.day)[1] /\ close = HourOf(now.day)[2]
           /\ i = policy.interval /\ lead = policy.lead
        BY <2>1, <2>2, ViewTypes
  <2>4. t \in Slots(open, close, i) /\ t >= NowMinutes(now) + lead
        BY <2>2, <2>3 DEF DaySlots, FreeSlots, Bookable
  <2>5. t \in Nat
        BY <2>4, SlotsAreMinutes
  <2> QED
      BY <2>1, <2>3, <2>4, <2>5 DEF NowMinutes
<1> QED
    BY <1>1, PickupTypeCorrect, PTL

(* The home page's calendar and time slots agree.                          *)
THEOREM GlobalCalendarAgrees == Spec => []GlobalCalendarMatchesSlots
<1>1. TypeOK => GlobalCalendarMatchesSlots
  <2> SUFFICES ASSUME TypeOK, NEW d \in Days
               PROVE  GlobalReason(d, now) = None <=> GlobalFreeSlots(d, now) # {}
      BY DEF GlobalCalendarMatchesSlots
  <2>1. d \in Int /\ now.day \in Int /\ GlobalCutoff(now) \in Int /\ LastGlobalSlot \in Nat
    <3>1. now.day \in Int /\ now.minute \in Nat
          BY ClockTyped DEF TypeOK
    <3>2. d \in Int
          BY ViewTypes
    <3>3. GlobalCutoff(now) \in Int
          BY <3>1 DEF GlobalCutoff, PICKUP_MIN_LEAD_MINUTES
    <3>4. LastGlobalSlot \in Nat
          BY DEF LastGlobalSlot, PICKUP_CLOSE_MINUTES, PICKUP_SLOT_INTERVAL_MINUTES
    <3> QED
        BY <3>1, <3>2, <3>3, <3>4
  <2>2. ASSUME GlobalReason(d, now) = None
        PROVE  LastGlobalSlot \in GlobalFreeSlots(d, now)
        BY <2>1, <2>2, GlobalSlots, SlotConstants
           DEF GlobalReason, GlobalFreeSlots, Reasons, PICKUP_MAX_DAYS_AHEAD
  <2>3. ASSUME NEW t \in GlobalFreeSlots(d, now)
        PROVE  GlobalReason(d, now) = None
        BY <2>1, <2>3, GlobalSlots DEF GlobalReason, GlobalFreeSlots, PICKUP_MAX_DAYS_AHEAD
  <2> QED
      BY <2>2, <2>3
<1> QED
    BY <1>1, PickupTypeCorrect, PTL

(* The four views of the schedule agree.                                   *)
THEOREM ViewsAlwaysAgree == Spec => []ViewsAgree
<1>1. CalendarMatchesSlots /\ TodayListMatchesCalendar /\ GlobalCalendarMatchesSlots => ViewsAgree
      BY DEF ViewsAgree
<1> QED
    BY <1>1, CalendarAgrees, TodayListAgrees, GlobalCalendarAgrees, PTL

(* As time passes, a slot in range that was not free does not become free. *)
THEOREM TimeCloses == Spec => TimeOnlyCloses
<1>1. TypeOK /\ TypeOK' /\ [Next]_vars =>
        [Tick => \A d \in Days : d - now.day <= policy.ahead => OpenSlots(d)' \subseteq OpenSlots(d)]_vars
  <2> SUFFICES ASSUME TypeOK, TypeOK', Tick, NEW d \in Days, d - now.day <= policy.ahead,
                      NEW t, t \in OpenSlots(d)'
               PROVE  t \in OpenSlots(d)
      OBVIOUS
  <2>1. PICK n \in ClockInstants, m \in ClockInstants : n = now /\ m = now' /\ Later(n, m)
        BY DEF Tick, TypeOK
  <2>2. m.day >= n.day /\ (m.day = n.day => NowMinutes(m) >= NowMinutes(n))
        BY <2>1, LaterClock
  <2>3. /\ HourOf(d)' = HourOf(d) /\ ClosureOn(d)' = ClosureOn(d)
        /\ SoldOut(d)' = SoldOut(d) /\ policy' = policy
        BY DEF Tick, settings, dated, HourOf, ClosureOn, SoldOut, LiveOn
  <2>4. /\ IsOpen(HourOf(d)) /\ ~ClosureOn(d) /\ DayReason(d)' = None
        /\ t \in FreeSlots(HourOf(d), policy, d, m)
        BY <2>1, <2>3 DEF OpenSlots, DaySlots
  <2>5. ~(d < m.day) /\ ~SoldOut(d)
        BY <2>1, <2>3, <2>4, SlotConstants DEF DayReason, Reasons
  <2>6. /\ d \in Int /\ n.day \in Int /\ m.day \in Int /\ policy.ahead \in Int
        /\ policy.lead \in Nat /\ NowMinutes(n) \in Int /\ NowMinutes(m) \in Int
        BY ViewTypes, ClockTyped
  <2>7. t \in FreeSlots(HourOf(d), policy, d, n)
    <3>1. PICK open \in Times, close \in Times, i \in Nat \ {0}, lead \in Nat :
             /\ open = HourOf(d)[1] /\ close = HourOf(d)[2]
             /\ i = policy.interval /\ lead = policy.lead
          BY <2>4, ViewTypes
    <3>2. t \in Slots(open, close, i) /\ (d = m.day => t >= NowMinutes(m) + lead)
          BY <2>4, <3>1 DEF FreeSlots, Bookable
    <3>3. t \in Nat
          BY <3>2, SlotsAreMinutes
    <3>4. d = n.day => t >= NowMinutes(n) + lead
          BY <2>2, <2>5, <2>6, <3>2, <3>3
    <3> QED
        BY <3>1, <3>2, <3>4 DEF FreeSlots, Bookable
  <2>8. ~(d < n.day) /\ ~(d - n.day > policy.ahead)
        BY <2>1, <2>2, <2>5, <2>6
  <2>9. t \in DaySlots(d) /\ DayReason(d) = None
        BY <2>1, <2>4, <2>5, <2>7, <2>8 DEF DaySlots, DayReason
  <2> QED
      BY <2>4, <2>9 DEF OpenSlots
<1> QED
    BY <1>1, PickupTypeCorrect, PTL DEF Spec, TimeOnlyCloses

----------------------------------------------------------------------------
(* One request at a time.                                                   *)

\* UNIQUE (store_id, date), deleted rows included.
OneRowPerDate ==
  \A r, q \in Rows : TableOf[r] = TableOf[q] /\ date[r] = date[q] /\ date[r] # None => r = q

\* What the request of worker w has found, and what it has written.
FoundRow(w) ==
  job[w].pc = "write" =>
    /\ job[w].row = None => job[w].was = None /\ job[w].date # None
    /\ job[w].row # None => /\ TableOf[job[w].row] = job[w].table
                            /\ date[job[w].row] = job[w].was
                            /\ live[job[w].row]

WroteRow(w) ==
  job[w].pc = "audit" /\ job[w].table # None =>
    /\ job[w].date # None =>
         \E r \in Rows : LiveOn(job[w].table, job[w].date) = {r} /\ value[r] = job[w].value
    /\ job[w].was # None /\ job[w].was # job[w].date => LiveOn(job[w].table, job[w].was) = {}

Untold(w, t, d) ==
  job[w].pc = "audit" /\ t = job[w].table /\ d \in {job[w].date, job[w].was}

ToldInv(w) ==
  /\ TypeOK /\ OneRowPerDate
  /\ FoundRow(w) /\ WroteRow(w)
  /\ \A t \in Tables, d \in Days : AsTold(t, d) \/ Untold(w, t, d)

(* What was told and is untouched stays as told.                           *)
LEMMA StillAsTold ==
    ASSUME TypeOK, NEW t \in Tables, NEW d \in Days, AsTold(t, d),
           told'[t][d] = told[t][d], LiveOn(t, d)' = LiveOn(t, d),
           \A q \in LiveOn(t, d) : value'[q] = value[q]
    PROVE  AsTold(t, d)'
BY DEF AsTold

(* A request that starts, or ends without having written.                  *)
LEMMA NothingTold ==
    ASSUME NEW w \in Workers, ToldInv(w), TypeOK', UNCHANGED <<dated, told>>,
           \A t \in Tables, d \in Days : AsTold(t, d), FoundRow(w)', WroteRow(w)'
    PROVE  ToldInv(w)'
<1>1. ASSUME NEW t \in Tables, NEW d \in Days PROVE AsTold(t, d)'
  <2>1. LiveOn(t, d)' = LiveOn(t, d)
        BY DEF LiveOn, dated
  <2> QED
      BY <2>1, StillAsTold DEF ToldInv, dated
<1>2. OneRowPerDate'
      BY DEF ToldInv, OneRowPerDate, dated
<1> QED
    BY <1>1, <1>2 DEF ToldInv

(* A write that does what the request is about leaves the rest as told.    *)
LEMMA WriteLeavesRest ==
    ASSUME NEW w \in Workers, ToldInv(w), TypeOK', job[w].pc = "write",
           NEW r \in Rows, NEW d \in Days, NEW l \in BOOLEAN, NEW v \in Values \cup {None},
           TableOf[r] = job[w].table, RowsOn(TableOf[r], d) \subseteq {r},
           WriteRow(r, d, l, v), Audit(w), told' = told,
           d \in {job[w].date, job[w].was}, date[r] \in {job[w].date, job[w].was, None},
           job[w].date # None => d = job[w].date /\ l /\ v = job[w].value,
           job[w].was # None /\ job[w].was # job[w].date =>
             (job[w].was = d /\ ~l) \/ (job[w].was = date[r] /\ job[w].was # d)
    PROVE  ToldInv(w)'
<1>00. PICK j, was, T : j = job[w] /\ was = date[r] /\ T = TableOf[r]
      OBVIOUS
<1>0. /\ j \in Jobs /\ j = job[w] /\ j.pc = "write" /\ was = date[r] /\ T = TableOf[r]
      /\ T = j.table /\ T \in Tables /\ RowsOn(T, d) \subseteq {r}
      /\ d \in {j.date, j.was} /\ was \in {j.date, j.was, None}
      /\ j.date # None => d = j.date /\ l /\ v = j.value
      /\ j.was # None /\ j.was # j.date => (j.was = d /\ ~l) \/ (j.was = was /\ j.was # d)
      BY <1>00, ScheduleConstants DEF ToldInv, TypeOK
<1>1. /\ TypeOK /\ OneRowPerDate /\ \A t \in Tables, e \in Days : AsTold(t, e)
      BY <1>0 DEF ToldInv, Untold
<1>1a. OneRowPerDate /\ None \notin Days
      BY <1>0, <1>1, ScheduleConstants
<1>2. /\ date'[r] = d /\ live'[r] = l /\ value'[r] = v
      /\ \A q \in Rows : q # r => date'[q] = date[q] /\ live'[q] = live[q] /\ value'[q] = value[q]
      BY <1>0, <1>1 DEF WriteRow, TypeOK
<1>3a. OneRowPerDate'
  <2> SUFFICES ASSUME NEW p \in Rows, NEW q \in Rows,
                      TableOf[p] = TableOf[q], date'[p] = date'[q], date'[p] # None
               PROVE  p = q
      BY <1>0 DEF OneRowPerDate
  <2>1. \A s \in Rows : TableOf[s] = T /\ date[s] = d => s = r
        BY <1>0 DEF RowsOn
  <2>2. CASE p # r /\ q # r
        BY <1>0, <1>1a, <1>2, <2>2 DEF OneRowPerDate
  <2>3. CASE p = r \/ q = r
    <3>1. TableOf[p] = T /\ TableOf[q] = T /\ date'[p] = d /\ date'[q] = d
          BY <1>0, <1>2, <2>3
    <3>2. \A s \in Rows : TableOf[s] = T /\ s # r => date'[s] # d
          BY <1>0, <1>2, <2>1
    <3> QED
        BY <1>0, <3>1, <3>2
  <2> QED
      BY <1>0, <2>2, <2>3
<1>3b. LiveOn(T, d)' = (IF l THEN {r} ELSE {})
  <2>1. \A q \in Rows : TableOf[q] = T /\ date'[q] = d => q = r
        BY <1>0, <1>2 DEF RowsOn
  <2>2. LiveOn(T, d)' = {q \in Rows : TableOf[q] = T /\ date'[q] = d /\ live'[q]}
        BY <1>0 DEF LiveOn
  <2>3. CASE l
        BY <1>0, <1>2, <2>1, <2>2, <2>3
  <2>4. CASE ~l
        BY <1>0, <1>2, <2>1, <2>2, <2>4
  <2> QED
      BY <1>0, <2>3, <2>4
<1>3c. ASSUME NEW e \in Days, e = was, e # d
       PROVE  LiveOn(T, e)' = {}
  <2> SUFFICES ASSUME NEW q \in Rows, TableOf[q] = T, date'[q] = e
               PROVE  FALSE
      BY <1>0 DEF LiveOn
  <2>1. q # r /\ date[q] = date[r] /\ date[q] # None
        BY <1>0, <1>1a, <1>2, <1>3c
  <2> QED
      BY <1>0, <1>1a, <2>1 DEF OneRowPerDate
<1>3d. ASSUME NEW t \in Tables, NEW e \in Days, t # T \/ e \notin {d, was}
       PROVE  /\ LiveOn(t, e)' = LiveOn(t, e)
              /\ \A q \in LiveOn(t, e) : value'[q] = value[q]
  <2>1. \A q \in Rows : TableOf[q] = t /\ (date'[q] = e \/ date[q] = e) => q # r
        BY <1>0, <1>2, <1>3d
  <2> QED
      BY <1>0, <1>2, <2>1 DEF LiveOn
<1>4. /\ job'[w].pc = "audit" /\ job'[w].table = j.table
      /\ job'[w].date = j.date /\ job'[w].was = j.was /\ job'[w].value = j.value
  <2>1. job' = [job EXCEPT ![w] = [j EXCEPT !.pc = "audit"]]
        BY <1>0 DEF Audit
  <2>2. j \in [pc : {"write"}, table : Tables, row : Rows \cup {None}, was : Days \cup {None},
                date : Days \cup {None}, value : Values \cup {None}]
        BY <1>0 DEF Jobs, Idle
  <2>3. job'[w] = [j EXCEPT !.pc = "audit"]
        BY <1>0, <1>1, <2>1 DEF TypeOK
  <2> QED
      BY <1>0, <2>2, <2>3
<1>5. FoundRow(w)'
      BY <1>0, <1>4 DEF FoundRow
<1>6. WroteRow(w)'
  <2>1. ASSUME j.date # None
        PROVE  LiveOn(T, j.date)' = {r} /\ value'[r] = j.value
        BY <1>0, <1>2, <1>3b, <2>1
  <2>2. ASSUME j.was # None, j.was # j.date
        PROVE  LiveOn(T, j.was)' = {}
        BY <1>0, <1>3b, <1>3c, <2>2 DEF Jobs, Idle
  <2>3. PICK dd, ww, vv : dd = j.date /\ ww = j.was /\ vv = j.value
        OBVIOUS
  <2> QED
      BY <1>0, <1>4, <2>1, <2>2, <2>3 DEF WroteRow
<1>7. ASSUME NEW t \in Tables, NEW e \in Days, ~(t = T /\ e \in {j.date, j.was})
      PROVE  AsTold(t, e)'
  <2>1. t # T \/ e \notin {d, was}
        BY <1>0, <1>7, ScheduleConstants
  <2>2. LiveOn(t, e)' = LiveOn(t, e) /\ \A q \in LiveOn(t, e) : value'[q] = value[q]
        BY <1>0, <1>3d, <2>1
  <2> QED
      BY <1>0, <1>1, <2>2, StillAsTold
<1>8. \A t \in Tables, e \in Days : AsTold(t, e)' \/ Untold(w, t, e)'
      BY <1>0, <1>4, <1>7 DEF Untold
<1> QED
    BY <1>0, <1>3a, <1>5, <1>6, <1>8 DEF ToldInv

(* CreateRow, UpdateRow and DeleteRow write what the request is about.     *)
LEMMA WritersLeaveRest ==
    ASSUME NEW w \in Workers, ToldInv(w), TypeOK',
           CreateRow(w) \/ UpdateRow(w) \/ DeleteRow(w)
    PROVE  ToldInv(w)'
<1>1. job[w].pc = "write" /\ told' = told
      BY DEF CreateRow, UpdateRow, DeleteRow
<1>2. PICK j \in Jobs : j = job[w]
      BY DEF ToldInv, TypeOK
<1>3. /\ j.pc = "write" /\ j.table \in Tables /\ j.row \in Rows \cup {None}
      /\ j.was \in Days \cup {None} /\ j.date \in Days \cup {None}
      /\ j.value \in Values \cup {None}
      BY <1>1, <1>2, WritingJob
<1>4. TypeOK /\ OneRowPerDate /\ \A t \in Tables, d \in Days : AsTold(t, d)
      BY <1>1 DEF ToldInv, Untold
<1>5. /\ j.row = None => j.was = None /\ j.date # None
      /\ j.row # None => TableOf[j.row] = j.table /\ date[j.row] = j.was /\ live[j.row]
      BY <1>1, <1>2 DEF ToldInv, FoundRow
<1>6. None \notin Days /\ None \notin Rows
      BY ScheduleConstants
<1>7. CASE CreateRow(w)
  <2>1. j.row = None /\ j.was = None /\ j.date \in Days /\ Audit(w)
        BY <1>2, <1>3, <1>5, <1>7 DEF CreateRow
  <2>2. PICK r \in Rows : /\ TableOf[r] = j.table /\ date[r] \in {j.date, None}
                          /\ RowsOn(j.table, j.date) \subseteq {r}
                          /\ WriteRow(r, j.date, TRUE, j.value)
    <3>1. CASE \E r \in RowsOn(j.table, j.date) : WriteRow(r, j.date, TRUE, j.value)
      <4>1. PICK r \in Rows : /\ TableOf[r] = j.table /\ date[r] = j.date
                              /\ WriteRow(r, j.date, TRUE, j.value)
            BY <3>1 DEF RowsOn
      <4>2. RowsOn(j.table, j.date) \subseteq {r}
            BY <1>4, <1>6, <2>1, <4>1 DEF RowsOn, OneRowPerDate
      <4> QED
          BY <4>1, <4>2
    <3>2. CASE /\ RowsOn(j.table, j.date) = {}
               /\ \E r \in Rows : /\ TableOf[r] = j.table /\ date[r] = None
                                  /\ WriteRow(r, j.date, TRUE, j.value)
          BY <3>2
    <3> QED
        BY <1>2, <1>7, <3>1, <3>2 DEF CreateRow
  <2>3. PICK d, v, l : d = j.date /\ v = j.value /\ l = TRUE
        OBVIOUS
  <2>4. /\ d \in Days /\ v \in Values \cup {None} /\ l \in BOOLEAN
        /\ TableOf[r] = job[w].table /\ d \in {job[w].date, job[w].was}
        /\ date[r] \in {job[w].date, job[w].was, None}
        /\ job[w].date # None => d = job[w].date /\ l /\ v = job[w].value
        /\ job[w].was = None
        BY <1>2, <1>3, <2>1, <2>2, <2>3
  <2>5. RowsOn(TableOf[r], d) \subseteq {r} /\ WriteRow(r, d, l, v)
        BY <2>2, <2>3
  <2> QED
      BY <1>1, <2>1, <2>2, <2>4, <2>5, WriteLeavesRest
<1>8. CASE /\ UpdateRow(w) /\ RowsOn(j.table, j.date) \subseteq {j.row}
           /\ WriteRow(j.row, j.date, live[j.row], j.value) /\ Audit(w)
  <2>1. j.row \in Rows /\ j.date \in Days
        BY <1>2, <1>3, <1>8 DEF UpdateRow
  <2>2. PICK r, d, v : r = j.row /\ d = j.date /\ v = j.value
        OBVIOUS
  <2>3. /\ r \in Rows /\ d \in Days /\ v \in Values \cup {None}
        /\ TableOf[r] = j.table /\ date[r] = j.was /\ live[r]
        BY <1>3, <1>5, <1>6, <2>1, <2>2
  <2>4. PICK l \in BOOLEAN : l = live[r] /\ l
        BY <1>4, <2>3 DEF TypeOK
  <2>5. RowsOn(TableOf[r], d) \subseteq {r} /\ WriteRow(r, d, l, v) /\ Audit(w)
        BY <1>8, <2>2, <2>3, <2>4
  <2>6. /\ TableOf[r] = job[w].table /\ d \in {job[w].date, job[w].was}
        /\ date[r] \in {job[w].date, job[w].was, None}
        /\ job[w].date # None => d = job[w].date /\ l /\ v = job[w].value
        /\ job[w].was # None /\ job[w].was # job[w].date =>
             (job[w].was = d /\ ~l) \/ (job[w].was = date[r] /\ job[w].was # d)
        BY <1>2, <2>2, <2>3, <2>4
  <2> QED
      BY <1>1, <2>3, <2>4, <2>5, <2>6, WriteLeavesRest
<1>9. CASE UpdateRow(w) /\ job' = [job EXCEPT ![w] = Idle] /\ UNCHANGED dated
  <2>1. job'[w] = Idle
        BY <1>4, <1>9 DEF TypeOK
  <2> QED
      BY <1>1, <1>4, <1>9, <2>1, NothingTold DEF FoundRow, WroteRow, Idle
<1>10. CASE DeleteRow(w)
  <2>1. j.row \in Rows /\ j.date = None /\ Audit(w)
        BY <1>2, <1>3, <1>10 DEF DeleteRow
  <2>2. PICK r, d, v, l : r = j.row /\ d = date[r] /\ v = value[r] /\ l = FALSE
        OBVIOUS
  <2>3. /\ r \in Rows /\ d \in Days /\ v \in Values \cup {None} /\ l \in BOOLEAN
        /\ TableOf[r] = j.table /\ date[r] = j.was
        BY <1>2, <1>3, <1>4, <1>5, <1>6, <2>1, <2>2 DEF TypeOK
  <2>4. RowsOn(TableOf[r], d) \subseteq {r}
        BY <1>4, <1>6, <2>2, <2>3 DEF RowsOn, OneRowPerDate
  <2>5. WriteRow(r, d, l, v)
        BY <1>2, <1>10, <2>2 DEF DeleteRow
  <2>6. /\ TableOf[r] = job[w].table /\ d \in {job[w].date, job[w].was}
        /\ date[r] \in {job[w].date, job[w].was, None}
        /\ job[w].date # None => d = job[w].date /\ l /\ v = job[w].value
        /\ job[w].was # None /\ job[w].was # job[w].date =>
             (job[w].was = d /\ ~l) \/ (job[w].was = date[r] /\ job[w].was # d)
        BY <1>2, <2>1, <2>2, <2>3
  <2> QED
      BY <1>1, <2>1, <2>3, <2>4, <2>5, <2>6, WriteLeavesRest
<1> QED
    BY <1>2, <1>7, <1>8, <1>9, <1>10 DEF UpdateRow

(* The reply tells the seller what was written.                            *)
LEMMA ReplyTells ==
    ASSUME NEW w \in Workers, ToldInv(w), TypeOK', Reply(w) \/ Fail(w)
    PROVE  ToldInv(w)'
<1>1. PICK j, tab, d0, d1, v : /\ j \in Jobs /\ j = job[w] /\ tab = j.table /\ d0 = j.date
                                       /\ d1 = j.was /\ v = j.value
      BY DEF ToldInv, TypeOK
<1>2. /\ TypeOK /\ OneRowPerDate /\ UNCHANGED dated
      /\ \A t \in Tables, d \in Days : AsTold(t, d) \/ Untold(w, t, d)
      BY DEF ToldInv, Reply, Fail
<1>3. job'[w] = Idle
      BY <1>2 DEF TypeOK, Reply, Fail
<1>4. OneRowPerDate' /\ FoundRow(w)' /\ WroteRow(w)'
      BY <1>2, <1>3 DEF OneRowPerDate, FoundRow, WroteRow, Idle, dated
<1>5. ASSUME NEW t \in Tables, NEW d \in Days
      PROVE  AsTold(t, d)'
  <2>1. LiveOn(t, d)' = LiveOn(t, d) /\ value' = value
        BY <1>2 DEF LiveOn, dated
  <2>2. CASE Untold(w, t, d)
    <3>1. /\ j.pc = "audit" /\ t = tab /\ d \in {d0, d1} /\ tab # None
          BY <1>1, <2>2, ScheduleConstants DEF Untold
    <3>2. PICK b \in BOOLEAN : told' = Learn(j, b)
          BY <1>1, <3>1 DEF Reply, Fail
    <3>3. told'[t][d] = IF d = d0 THEN IF b THEN v ELSE Unknown
                        ELSE IF b THEN None ELSE Unknown
          BY <1>1, <1>2, <3>1, <3>2 DEF Learn, TypeOK
    <3>4. d = d0 => \E r \in Rows : LiveOn(t, d) = {r} /\ value[r] = v
          BY <1>1, <3>1, ScheduleConstants DEF ToldInv, WroteRow
    <3>5. d # d0 => LiveOn(t, d) = {}
          BY <1>1, <3>1, ScheduleConstants DEF ToldInv, WroteRow
    <3> QED
        BY <2>1, <3>3, <3>4, <3>5 DEF AsTold
  <2>3. CASE ~Untold(w, t, d)
    <3>1. told'[t][d] = told[t][d]
      <4>1. CASE told' = told
            BY <4>1
      <4>2. CASE j.pc = "audit"
        <5>1. t # tab \/ d \notin {d0, d1}
              BY <1>1, <2>3, <4>2 DEF Untold
        <5>2. told' = Learn(j, TRUE) \/ told' = Learn(j, FALSE)
              BY <1>1, <4>2 DEF Reply, Fail
        <5> QED
            BY <1>1, <1>2, <5>1, <5>2 DEF Learn, TypeOK
      <4> QED
          BY <1>1, <4>1, <4>2 DEF Reply, Fail
    <3> QED
        BY <1>2, <2>1, <2>3, <3>1, StillAsTold
  <2> QED
      BY <2>2, <2>3
<1> QED
    BY <1>4, <1>5 DEF ToldInv

(* A request that starts has seen what it will change.                     *)
LEMMA StartTells ==
    ASSUME NEW w \in Workers, ToldInv(w), TypeOK', NEW j, Start(w, j),
           UNCHANGED <<dated, told>>,
           \/ j.pc = "audit" /\ j.table = None
           \/ /\ j.pc = "write"
              /\ j.row = None => j.was = None /\ j.date # None
              /\ j.row # None => TableOf[j.row] = j.table /\ date[j.row] = j.was /\ live[j.row]
    PROVE  ToldInv(w)'
<1>1. TypeOK /\ \A t \in Tables, d \in Days : AsTold(t, d)
      BY DEF ToldInv, Untold, Start, Idle
<1>2. job'[w] = j
      BY <1>1 DEF Start, TypeOK
<1>3. FoundRow(w)' /\ WroteRow(w)'
      BY <1>2 DEF FoundRow, WroteRow, dated
<1> QED
    BY <1>1, <1>3, NothingTold

(* With one worker at work, every step keeps the invariant.                *)
LEMMA ToldStep ==
    ASSUME NEW w \in Workers, crew = {w}, ToldInv(w), [CrewNext]_<<vars, crew>>
    PROVE  ToldInv(w)'
<1>0. [Next]_vars
      BY DEF CrewNext, Next
<1>1. TypeOK /\ TypeOK'
      BY <1>0, StepTyped DEF ToldInv
<1>2. SettingJob.pc = "audit" /\ SettingJob.table = None
      BY DEF SettingJob, Idle
<1>3. ASSUME Start(w, SettingJob), UNCHANGED <<dated, told>>
      PROVE  ToldInv(w)'
      BY <1>1, <1>2, <1>3, StartTells
<1>4. ASSUME NEW t \in Tables, NEW d \in Days, NEW v \in Values, AskCreate(w, t, d, v)
      PROVE  ToldInv(w)'
  <2>1. PICK j : j = [pc |-> "write", table |-> t, row |-> None, was |-> None,
                      date |-> d, value |-> v]
        OBVIOUS
  <2>2. /\ j.pc = "write" /\ j.row = None /\ j.was = None /\ j.date # None
        BY <2>1, ScheduleConstants
  <2>3. Start(w, j) /\ UNCHANGED <<dated, told>>
        BY <1>4, <2>1 DEF AskCreate
  <2> QED
      BY <1>1, <2>2, <2>3, StartTells
<1>5. ASSUME NEW r \in Rows, NEW d, NEW v, date[r] # None, live[r],
             Start(w, ChangeJob(r, d, v)), UNCHANGED <<dated, told>>
      PROVE  ToldInv(w)'
  <2>1. PICK j, was, t : /\ was = date[r] /\ t = TableOf[r]
                         /\ j = [pc |-> "write", table |-> t, row |-> r, was |-> was,
                                 date |-> d, value |-> v]
        OBVIOUS
  <2>2. /\ j.pc = "write" /\ j.row = r /\ j.was = was /\ j.table = t /\ r # None /\ live[r]
        BY <1>5, <2>1, ScheduleConstants
  <2>3. Start(w, j) /\ UNCHANGED <<dated, told>>
        BY <1>5, <2>1 DEF ChangeJob
  <2> QED
      BY <1>1, <1>5, <2>1, <2>2, <2>3, StartTells
<1>5a. ASSUME NEW r \in Rows,
              (\E d \in Days, v \in Values : AskUpdate(w, r, d, v)) \/ AskDelete(w, r)
       PROVE  ToldInv(w)'
       BY <1>5, <1>5a DEF AskUpdate, AskDelete
<1>6. ASSUME UNCHANGED <<dated, told, job>>
      PROVE  ToldInv(w)'
      BY <1>1, <1>6
         DEF ToldInv, OneRowPerDate, FoundRow, WroteRow, Untold, AsTold, LiveOn, dated
<1>7. CASE Handle(w)
  <2>1. CASE CreateRow(w) \/ UpdateRow(w) \/ DeleteRow(w)
        BY <1>1, <2>1, WritersLeaveRest
  <2>2. CASE Reply(w) \/ Fail(w)
        BY <1>1, <2>2, ReplyTells
  <2>3. ASSUME NEW wd \in Weekdays, NEW open \in DateTimes, NEW close \in DateTimes,
               UpsertHours(w, wd, open, close)
        PROVE  ToldInv(w)'
        BY <1>3, <2>3 DEF UpsertHours
  <2>4. ASSUME NEW wd \in Weekdays, CloseWeekday(w, wd)
        PROVE  ToldInv(w)'
        BY <1>3, <2>4 DEF CloseWeekday
  <2>5. ASSUME NEW p \in Policies, UpdatePickupPolicy(w, p)
        PROVE  ToldInv(w)'
        BY <1>3, <2>5 DEF UpdatePickupPolicy
  <2> QED
      BY <1>4, <1>5a, <1>7, <2>1, <2>2, <2>3, <2>4, <2>5 DEF Handle
<1>8. ASSUME NEW d \in Days, NEW n \in 0 .. MaxBooked, Book(d, n)
      PROVE  ToldInv(w)'
      BY <1>6, <1>8 DEF Book
<1>9. CASE Tick
      BY <1>6, <1>9 DEF Tick
<1>10. CASE UNCHANGED vars
       BY <1>6, <1>10 DEF vars, dated
<1> QED
    BY <1>7, <1>8, <1>9, <1>10 DEF CrewNext

(* One request at a time, the store's live closures and capacities are     *)
(* those the replies told the seller of.                                   *)
THEOREM AloneAsTold == CrewSpec => []AloneRowsAsTold
<1> DEFINE AloneTold == \A w \in Workers : crew = {w} => ToldInv(w)
<1>1. CrewInit => AloneTold
  <2> SUFFICES ASSUME CrewInit, NEW w \in Workers PROVE ToldInv(w)
      OBVIOUS
  <2>1. TypeOK
        BY InitTyped DEF CrewInit
  <2>2. job[w] = Idle /\ \A r \in Rows : date[r] = None
        BY DEF CrewInit, Init
  <2>3. OneRowPerDate /\ FoundRow(w) /\ WroteRow(w)
        BY <2>2 DEF OneRowPerDate, FoundRow, WroteRow, Idle
  <2>4. ASSUME NEW t \in Tables, NEW d \in Days
        PROVE  AsTold(t, d)
    <3>1. None \notin Days
          BY ScheduleConstants
    <3> QED
        BY <2>2, <3>1 DEF AsTold, LiveOn, CrewInit, Init
  <2> QED
      BY <2>1, <2>3, <2>4 DEF ToldInv
<1>2. AloneTold /\ [CrewNext]_<<vars, crew>> => AloneTold'
  <2> SUFFICES ASSUME AloneTold, [CrewNext]_<<vars, crew>>, NEW w \in Workers, crew' = {w}
               PROVE  ToldInv(w)'
      OBVIOUS
  <2>1. crew = {w}
        BY DEF CrewNext
  <2> QED
      BY <2>1, ToldStep
<1>3. AloneTold => AloneRowsAsTold
      BY DEF ToldInv, AloneRowsAsTold, OneAtATime, RowsAsTold, Untold, Idle
<1> QED
    BY <1>1, <1>2, <1>3, PTL DEF CrewSpec
=============================================================================
