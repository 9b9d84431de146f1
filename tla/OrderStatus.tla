----------------------------- MODULE OrderStatus -----------------------------
(***************************************************************************)
(* sellerUpdateOrderStatus: a seller moves an order through its life.      *)
(*                                                                         *)
(* The service reads the order, checks the transition against that read    *)
(* and only then opens a transaction, which reads the order again (for     *)
(* the "from" of the history row) but does not check it again.  Several    *)
(* requests run at once, for the sellers of every store that has an item   *)
(* in the order.  A transaction runs under MySQL's REPEATABLE READ: its    *)
(* first read fixes a snapshot, its UPDATE locks the row until commit, so  *)
(* everything from the UPDATE to the commit is one atomic step, and a      *)
(* request that dies before the commit leaves nothing behind.              *)
(***************************************************************************)
EXTENDS Naturals, Sequences, FiniteSets, OrderPolicy

CONSTANTS
    Workers,      \* slots for requests in flight
    Orders,
    Stores,
    Actors,       \* authenticated accounts that call the mutation
    Times,        \* instants `new Date()` may return on some server
    StoreOf,      \* Actors -> store of the seller account, or NoStore
    ItemStores,   \* Orders -> the stores that have an item in the order
    NoStore,      \* not a seller account, or a seller without a store
    NoTime,       \* a stage timestamp that is still NULL
    MaxChanges    \* model bound: no new request once an order has had as many

ASSUME ConstantsAssumption ==
    /\ NoStore \notin Stores
    /\ StoreOf \in [Actors -> Stores \cup {NoStore}]
    /\ ItemStores \in [Orders -> SUBSET Stores]
    /\ NoTime \notin Times
    /\ MaxChanges \in Nat

(* What the seller typed as a note, by what the code tells apart. *)
RawNotes == {"absent", "blank", "text", "overlong"}

VARIABLES
    status,     \* order.status
    stamp,      \* order.confirmed_at, made_at, picked_up_at, canceled_at
    history,    \* order_status_history rows of the order, in commit order
    notices,    \* ORDER_STATUS notifications of the order, in commit order
    audit,      \* audit_log rows of the order, in commit order
    req         \* what each worker is doing

vars == <<status, stamp, history, notices, audit, req>>

Stamped == {"CONFIRMED", "MADE", "PICKED_UP", "CANCELED"}
Noted == {"CONFIRMED", "MADE", "PICKED_UP"}

(* requiresCancellationNote, and the service's test of the note. *)
NoteAccepted(to, note) ==
    RequiresCancellationNote(to) => note \in {"text", "overlong"}

(* cleanNullableText(note, 500): throws on "overlong", else text or null. *)
CleanNote(note) == IF note = "text" THEN "text" ELSE "null"

(* The stage timestamps after a change: a stage entered again is restamped. *)
StampFirstOnly(old, to, now) ==          \* mutated form: keeps the first time
    [s \in Stamped |-> IF s = to /\ old[s] = NoTime THEN now ELSE old[s]]

StampStage(old, to, now) ==
    [s \in Stamped |-> IF s = to THEN now ELSE old[s]]

NotifyConfirmationOnly(to) ==            \* mutated form
    IF to = "CONFIRMED" THEN <<[event |-> to]>> ELSE <<>>

(* orderStatusToNotificationEvent: a cancellation produces none. *)
NotificationEvents(to) ==
    IF to \in Noted THEN <<[event |-> to]>> ELSE <<>>

Idle == [pc |-> "idle"]

Call == [actor: Actors, order: Orders, to: OrderStatuses, note: {"text", "null"},
         now: Times]

Checked == [pc: {"checked"}, call: Call]
InTx == [pc: {"inTx"}, call: Call, from: OrderStatuses]

HistoryRow == [from: OrderStatuses, to: OrderStatuses, at: Times, note: {"text", "null"}]
AuditRow == [actor: Actors, store: Stores, before: OrderStatuses, after: OrderStatuses,
             note: {"text", "null"}]

TypeOK ==
    /\ status \in [Orders -> OrderStatuses]
    /\ stamp \in [Orders -> [Stamped -> Times \cup {NoTime}]]
    /\ history \in [Orders -> Seq(HistoryRow)]
    /\ notices \in [Orders -> Seq([event: Noted])]
    /\ audit \in [Orders -> Seq(AuditRow)]
    /\ req \in [Workers -> {Idle} \cup Checked \cup InTx]

Init ==
    /\ status = [o \in Orders |-> "SUBMITTED"]
    /\ stamp = [o \in Orders |-> [s \in Stamped |-> NoTime]]
    /\ history = [o \in Orders |-> <<>>]
    /\ notices = [o \in Orders |-> <<>>]
    /\ audit = [o \in Orders |-> <<>>]
    /\ req = [w \in Workers |-> Idle]

-----------------------------------------------------------------------------

(* The service's assertSellerTransition on the status it just read. *)
AssertChangedOnly(order, to) == to # status[order]      \* mutated form

AssertTransition(order, to) == LegalTransition(status[order], to)

(* Whether the seller finds the order: some item of it is of their store.   *)
FindOrderDetailByStore(order, store) == store \in ItemStores[order]

(***************************************************************************)
(* The service up to the transaction: requireSellerContext, parse,         *)
(* findOrderDetailByStore, assertSellerTransition, the cancellation note,  *)
(* cleanNullableText and `new Date()`.  A request that fails any of these  *)
(* throws and changes nothing: it is not a step.                           *)
(***************************************************************************)
Check(w, actor, order, to, note, now) ==
    /\ req[w] = Idle
    /\ Len(history[order]) < MaxChanges
    /\ StoreOf[actor] # NoStore
    /\ FindOrderDetailByStore(order, StoreOf[actor])
    /\ AssertTransition(order, to)
    /\ NoteAccepted(to, note)
    /\ note # "overlong"
    /\ req' = [req EXCEPT ![w] =
                  [pc |-> "checked",
                   call |-> [actor |-> actor, order |-> order, to |-> to,
                             note |-> CleanNote(note), now |-> now]]]
    /\ UNCHANGED <<status, stamp, history, notices, audit>>

(* The transaction's findFirst: the snapshot read that yields fromStatus. *)
TxRead(w) ==
    /\ req[w].pc = "checked"
    /\ req' = [req EXCEPT ![w] =
                  [pc |-> "inTx", call |-> req[w].call,
                   from |-> status[req[w].call.order]]]
    /\ UNCHANGED <<status, stamp, history, notices, audit>>

(* order.update, the history, notification and audit inserts, and COMMIT. *)
TxCommit(w) ==
    /\ req[w].pc = "inTx"
    /\ LET c == req[w].call
       IN  /\ status' = [status EXCEPT ![c.order] = c.to]
           /\ stamp' = [stamp EXCEPT ![c.order] = StampStage(@, c.to, c.now)]
           /\ history' = [history EXCEPT ![c.order] =
                  Append(@, [from |-> req[w].from, to |-> c.to,
                             at |-> c.now, note |-> c.note])]
           /\ notices' = [notices EXCEPT ![c.order] = @ \o NotificationEvents(c.to)]
           /\ audit' = [audit EXCEPT ![c.order] =
                  Append(@, [actor |-> c.actor, store |-> StoreOf[c.actor],
                             before |-> req[w].from, after |-> c.to,
                             note |-> c.note])]
    /\ req' = [req EXCEPT ![w] = Idle]

(* The process dies, or a statement fails: the transaction rolls back. *)
Fail(w) ==
    /\ req[w] # Idle
    /\ req' = [req EXCEPT ![w] = Idle]
    /\ UNCHANGED <<status, stamp, history, notices, audit>>

Handle(w) ==
    \/ \E actor \in Actors, order \in Orders, to \in OrderStatuses,
          note \in RawNotes, now \in Times :
          Check(w, actor, order, to, note, now)
    \/ TxRead(w)
    \/ TxCommit(w)
    \/ Fail(w)

Next == \E w \in Workers : Handle(w)

Spec == Init /\ [][Next]_vars

-----------------------------------------------------------------------------
(* Properties *)

ToStatuses(o) == {history[o][i].to : i \in DOMAIN history[o]}

(* The statuses an order has had, as its history tells them. *)
Visited == [o \in Orders |-> {"SUBMITTED"} \cup ToStatuses(o)]

Lifecycle == INSTANCE OrderLifecycle WITH visited <- Visited

(* For every interleaving of check and transaction, and every crash, a     *)
(* committed status is one the policy allows from some status the order    *)
(* really had: the unvalidated transaction of updateOrderStatusBySeller    *)
(* cannot invent a stage.                                                  *)
PolicyHoldsFromSomePast == Lifecycle!Spec

(* The promise of the policy's tests: a committed status is legal from the *)
(* status the order had just before.                                       *)
PolicyHoldsFromCurrent == Lifecycle!StrictSpec

(* The status is the target of the last committed history row. *)
StatusIsLast(o) ==
    status[o] = IF history[o] = <<>> THEN "SUBMITTED"
                ELSE history[o][Len(history[o])].to

(* A stage timestamp is that of the last row that entered the stage. *)
StampIsLast(o, s) ==
    \/ stamp[o][s] = NoTime /\ s \notin ToStatuses(o)
    \/ \E i \in DOMAIN history[o] :
          /\ history[o][i].to = s
          /\ history[o][i].at = stamp[o][s]
          /\ \A j \in DOMAIN history[o] : j > i => history[o][j].to # s

(* Every change has one audit row, with the same statuses and note. *)
AuditMatches(o) ==
    /\ Len(audit[o]) = Len(history[o])
    /\ \A i \in DOMAIN history[o] :
          /\ audit[o][i].before = history[o][i].from
          /\ audit[o][i].after = history[o][i].to
          /\ audit[o][i].note = history[o][i].note

(* The order row, its stage timestamps, its history and its audit rows     *)
(* tell the same story, although each request works on its own snapshot.   *)
TrailAgrees ==
    \A o \in Orders :
        /\ StatusIsLast(o)
        /\ \A s \in Stamped : StampIsLast(o, s)
        /\ AuditMatches(o)

(* The rows among the first i that the customer is told of. *)
NotedUpTo(o, i) == {j \in 1..i : history[o][j].to \in Noted}

(* The customer is told of every committed confirmation, completion and    *)
(* pick-up exactly once, in commit order, and of nothing that was rolled   *)
(* back.                                                                   *)
CustomerToldOfEveryStage ==
    \A o \in Orders :
        /\ Len(notices[o]) = Cardinality(NotedUpTo(o, Len(history[o])))
        /\ \A i \in DOMAIN history[o] : history[o][i].to \in Noted =>
              notices[o][Cardinality(NotedUpTo(o, i))].event = history[o][i].to

(* No stage is skipped, however requests race: an order was CONFIRMED      *)
(* before any row makes it MADE, MADE before any row makes it PICKED_UP,   *)
(* and the "from" a row records is a status the order had before that row. *)
NoStageSkipped ==
    \A o \in Orders : \A i \in DOMAIN history[o] :
        LET row == history[o][i]
            Before(s) == \E j \in 1..(i - 1) : history[o][j].to = s
        IN  /\ row.to = "MADE" => Before("CONFIRMED")
            /\ row.to = "PICKED_UP" => Before("MADE")
            /\ row.from # "SUBMITTED" => Before(row.from)

(* What a request in flight still knows to be true when it commits: its    *)
(* target is legal from a status the order has had, and the status its     *)
(* transaction read is one the order has had.                              *)
InFlightJustified ==
    \A w \in Workers : req[w] # Idle =>
        /\ StoreOf[req[w].call.actor] \in Stores
        /\ \E from \in Visited[req[w].call.order] :
              LegalTransition(from, req[w].call.to)
        /\ req[w].pc = "inTx" => req[w].from \in Visited[req[w].call.order]

(* The inductive invariant behind the theorems of OrderStatusProofs. *)
OrderInv ==
    /\ TypeOK
    /\ TrailAgrees
    /\ NoStageSkipped
    /\ InFlightJustified

(* An order nobody has a request in flight for and that is picked up or    *)
(* canceled stays so forever: a final status only ever gives way to a      *)
(* request that was checked before the order became final.                 *)
Settled(o) ==
    /\ status[o] \in {"PICKED_UP", "CANCELED"}
    /\ \A w \in Workers : req[w] # Idle => req[w].call.order # o

SettledForGood ==
    [][\A o \in Orders : Settled(o) => Settled(o)' /\ status'[o] = status[o]]_vars
=============================================================================
