------------------------------ MODULE RecentViews ------------------------------
(***************************************************************************)
(* The products one customer has looked at lately, at most MAX_RECENT_VIEWS *)
(* of them.  Recording a view is four database calls outside a transaction: *)
(* find the product, upsert the view, read the ids of the views beyond the  *)
(* limit, delete those ids.  Requests of one customer run concurrently, and *)
(* any of them can fail between two calls.                                  *)
(***************************************************************************)
EXTENDS Integers, FiniteSets

CONSTANTS
  Workers,            \* request handlers of the server
  Products,
  MAX_RECENT_VIEWS,   \* 50 in the code
  MaxTime,            \* bound: the time
  NoProduct           \* no value

ASSUME ViewConstants ==
  /\ MAX_RECENT_VIEWS \in Nat /\ MaxTime \in Nat \ {0}
  /\ NoProduct \notin Products /\ IsFiniteSet(Products)

VARIABLES
  active,     \* products that are on sale and not deleted
  viewed,     \* product -> viewed_at of its row, 0 while it has none
  live,       \* the products whose row has no deleted_at
  time,       \* what the clock says
  job,        \* worker -> its request
  leaked      \* history: a request failed between its upsert and the end of
              \* its clean-up, and no clean-up has looked since

viewsVars == <<active, viewed, live, time, job, leaked>>

Idle == [pc |-> "idle", product |-> NoProduct, at |-> 0, ids |-> {}]

Jobs ==
  {Idle} \cup
  [pc : {"upsert", "read"}, product : Products, at : 1 .. MaxTime, ids : {{}}] \cup
  [pc : {"delete"}, product : Products, at : 1 .. MaxTime, ids : (SUBSET Products) \ {{}}]

End(w) == job' = [job EXCEPT ![w] = Idle]

Goto(w, pc, ids) ==
  job' = [job EXCEPT ![w] = [pc |-> pc, product |-> job[w].product, at |-> job[w].at, ids |-> ids]]

----------------------------------------------------------------------------

\* record: the time is taken first, then the product must be on sale.
Record(w, p) ==
  /\ job[w] = Idle /\ p \in active
  /\ job' = [job EXCEPT ![w] = [pc |-> "upsert", product |-> p, at |-> time, ids |-> {}]]
  /\ UNCHANGED <<active, viewed, live, time, leaked>>

\* upsertView: a deleted row comes back.
Upsert(w) ==
  /\ job[w].pc = "upsert"
  /\ viewed' = [viewed EXCEPT ![job[w].product] = job[w].at]
  /\ live' = live \cup {job[w].product}
  /\ Goto(w, "read", {})
  /\ UNCHANGED <<active, time, leaked>>

\* The n newest of the live views; which, among equally new ones, is open.
Newest(n) ==
  {keep \in SUBSET live :
     /\ Cardinality(keep) = n
     /\ \A x \in keep, y \in live \ keep : viewed[x] >= viewed[y]}

\* mutated form
OverLimitByOne ==
  IF Cardinality(live) <= MAX_RECENT_VIEWS + 1 THEN {{}}
  ELSE {live \ keep : keep \in Newest(MAX_RECENT_VIEWS + 1)}

\* What skipping the MAX_RECENT_VIEWS newest rows can leave.
OverLimit ==
  IF Cardinality(live) <= MAX_RECENT_VIEWS THEN {{}}
  ELSE {live \ keep : keep \in Newest(MAX_RECENT_VIEWS)}

\* deleteOldestOverLimit, first call: the ids are read...
TrimRead(w) ==
  /\ job[w].pc = "read"
  /\ \E ids \in OverLimit : IF ids = {} THEN End(w) ELSE Goto(w, "delete", ids)
  /\ leaked' = FALSE
  /\ UNCHANGED <<active, viewed, live, time>>

\* ... and its second: deleted, whatever happened to those rows since.
TrimDelete(w) ==
  /\ job[w].pc = "delete"
  /\ live' = live \ job[w].ids
  /\ End(w)
  /\ UNCHANGED <<active, viewed, time, leaked>>

\* deleteOne and clearAll are one call each.
DeleteOne(w, p) ==
  /\ job[w] = Idle
  /\ live' = live \ {p}
  /\ UNCHANGED <<active, viewed, time, job, leaked>>

ClearAll(w) ==
  /\ job[w] = Idle
  /\ live' = {}
  /\ UNCHANGED <<active, viewed, time, job, leaked>>

\* A crash or a database error ends the request where it stands.
Fail(w) ==
  /\ job[w] # Idle
  /\ End(w)
  /\ leaked' = (leaked \/ job[w].pc \in {"read", "delete"})
  /\ UNCHANGED <<active, viewed, live, time>>

\* The seller takes a product off sale or puts it back.
SetActive(p) ==
  /\ active' = IF p \in active THEN active \ {p} ELSE active \cup {p}
  /\ UNCHANGED <<viewed, live, time, job, leaked>>

TimePasses ==
  /\ time < MaxTime
  /\ time' = time + 1
  /\ UNCHANGED <<active, viewed, live, job, leaked>>

ViewsInit ==
  /\ active = Products
  /\ viewed = [p \in Products |-> 0]
  /\ live = {}
  /\ time = 1
  /\ job = [w \in Workers |-> Idle]
  /\ leaked = FALSE

Handle(w) ==
  \/ \E p \in Products : Record(w, p) \/ DeleteOne(w, p)
  \/ Upsert(w) \/ TrimRead(w) \/ TrimDelete(w) \/ ClearAll(w) \/ Fail(w)

Surroundings == TimePasses \/ \E p \in Products : SetActive(p)

ViewsNext == Surroundings \/ \E w \in Workers : Handle(w)

ViewsSpec == ViewsInit /\ [][ViewsNext]_viewsVars

----------------------------------------------------------------------------
(* Properties.                                                              *)

\* Rows and requests have their types, and every live view has its time.
ViewsTypeOK ==
  /\ active \subseteq Products
  /\ viewed \in [Products -> 0 .. MaxTime]
  /\ live \subseteq {p \in Products : viewed[p] > 0}
  /\ time \in 1 .. MaxTime
  /\ job \in [Workers -> Jobs]
  /\ leaked \in BOOLEAN

AtRest == \A w \in Workers : job[w] = Idle

\* However the requests overlap, once none is under way the customer has at
\* most MAX_RECENT_VIEWS views, unless one failed before it cleaned up.
AtMostMax == AtRest /\ ~leaked => Cardinality(live) <= MAX_RECENT_VIEWS

Doomed == UNION {job[w].ids : w \in Workers}

\* Why: some request has still to look at the list, or what is not about to
\* be deleted fits.
WillFit ==
  \/ leaked
  \/ \E w \in Workers : job[w].pc = "read"
  \/ Cardinality(live \ Doomed) <= MAX_RECENT_VIEWS

\* A clean-up drops no view that is newer than one it keeps.
DropsOldest ==
  \A w \in Workers, x \in live \ live', y \in live' : TrimDelete(w) => viewed[x] <= viewed[y]
TrimsOldest == [][DropsOldest]_viewsVars
=============================================================================
