-------------------------- MODULE OrderStatusProofs --------------------------
(***************************************************************************)
(* The theorems of OrderStatus, for any number of workers, orders, stores  *)
(* and instants.                                                           *)
(***************************************************************************)
EXTENDS OrderStatus, SequenceTheorems, FiniteSetTheorems, TLAPS

(* A request record is one of three shapes, told apart by its pc. *)
LEMMA RequestShapes ==
    ASSUME TypeOK, NEW w \in Workers
    PROVE  /\ req[w] = Idle \/ req[w] \in Checked \/ req[w] \in InTx
           /\ req[w] # Idle <=> req[w].pc \in {"checked", "inTx"}
           /\ req[w].pc = "checked" => req[w] \in Checked
           /\ req[w].pc = "inTx" => req[w] \in InTx
           /\ req[w] # Idle => req[w].call \in Call
           /\ req[w].pc = "inTx" => req[w].from \in OrderStatuses
BY DEF TypeOK, Idle, Checked, InTx

(* A commit leaves every other order alone. *)
LEMMA CommitIsLocal ==
    ASSUME TypeOK, NEW w \in Workers, TxCommit(w),
           NEW o \in Orders \ {req[w].call.order}
    PROVE  /\ history'[o] = history[o] /\ audit'[o] = audit[o]
           /\ stamp'[o] = stamp[o] /\ status'[o] = status[o]
BY DEF TypeOK, TxCommit

(* What a commit does to its own order: one history row, one audit row, the *)
(* status and the stage timestamp.                                          *)
LEMMA CommitEffect ==
    ASSUME TypeOK, InFlightJustified, NEW w \in Workers, TxCommit(w)
    PROVE  LET c == req[w].call
               row == [from |-> req[w].from, to |-> c.to,
                       at |-> c.now, note |-> c.note]
               arow == [actor |-> c.actor, store |-> StoreOf[c.actor],
                        before |-> req[w].from, after |-> c.to,
                        note |-> c.note]
           IN  /\ c \in Call
               /\ row \in HistoryRow
               /\ arow \in AuditRow
               /\ c.to \in Stamped
               /\ status' = [status EXCEPT ![c.order] = c.to]
               /\ history'[c.order] = Append(history[c.order], row)
               /\ audit'[c.order] = Append(audit[c.order], arow)
               /\ \A s \in Stamped : stamp'[c.order][s] =
                     IF s = c.to THEN c.now ELSE stamp[c.order][s]
               /\ \A o \in Orders \ {c.order} :
                     /\ history'[o] = history[o]
                     /\ audit'[o] = audit[o]
                     /\ stamp'[o] = stamp[o]
                     /\ status'[o] = status[o]
               /\ DOMAIN history' = Orders
  <1> DEFINE c == req[w].call
             row == [from |-> req[w].from, to |-> c.to,
                     at |-> c.now, note |-> c.note]
             arow == [actor |-> c.actor, store |-> StoreOf[c.actor],
                      before |-> req[w].from, after |-> c.to,
                      note |-> c.note]
  <1>1. req[w].pc = "inTx" /\ req[w] # Idle
    BY RequestShapes DEF TxCommit
  <1>2. c \in Call /\ req[w].from \in OrderStatuses
    BY <1>1, RequestShapes
  <1>3. /\ c.actor \in Actors /\ c.order \in Orders /\ c.to \in OrderStatuses
        /\ c.note \in {"text", "null"} /\ c.now \in Times
    BY <1>2 DEF Call
  <1>4. StoreOf[c.actor] \in Stores
    BY <1>1 DEF InFlightJustified
  <1>5. c.to \in Stamped
    BY <1>1, <1>3 DEF InFlightJustified, LegalTransition, OrderStatuses, Stamped
  <1>6. row \in HistoryRow /\ arow \in AuditRow
    BY <1>2, <1>3, <1>4 DEF HistoryRow, AuditRow
  <1>7. /\ status' = [status EXCEPT ![c.order] = c.to]
        /\ history' = [history EXCEPT ![c.order] = Append(@, row)]
        /\ audit' = [audit EXCEPT ![c.order] = Append(@, arow)]
        /\ stamp' = [stamp EXCEPT ![c.order] =
                        [s \in Stamped |-> IF s = c.to THEN c.now ELSE @[s]]]
    BY DEF TxCommit, StampStage
  <1>8. QED
    BY <1>2, <1>3, <1>5, <1>6, <1>7 DEF TypeOK

(* Steps other than a commit leave the tables alone and only move a        *)
(* request: what the tables say about themselves stays true.               *)
TablesUnchanged == UNCHANGED <<status, stamp, history, notices, audit>>

LEMMA QuietStepKeepsTables ==
    ASSUME OrderInv, TablesUnchanged, req' \in [Workers -> {Idle} \cup Checked \cup InTx]
    PROVE  TypeOK' /\ TrailAgrees' /\ NoStageSkipped' /\ Visited' = Visited
  <1>1. /\ status' = status /\ stamp' = stamp /\ history' = history
        /\ notices' = notices /\ audit' = audit
    BY DEF TablesUnchanged
  <1>2. TypeOK'
    BY <1>1 DEF OrderInv, TypeOK
  <1>3. \A o : ToStatuses(o)' = ToStatuses(o)
    BY <1>1 DEF ToStatuses
  <1>4. Visited' = Visited
    BY <1>3 DEF Visited
  <1>5. TrailAgrees'
    <2>1. \A o \in Orders : StatusIsLast(o)' = StatusIsLast(o)
      BY <1>1 DEF StatusIsLast
    <2>2. \A o \in Orders, s \in Stamped : StampIsLast(o, s)' = StampIsLast(o, s)
      BY <1>1, <1>3 DEF StampIsLast
    <2>3. \A o \in Orders : AuditMatches(o)' = AuditMatches(o)
      BY <1>1 DEF AuditMatches
    <2>4. QED
      BY <2>1, <2>2, <2>3 DEF OrderInv, TrailAgrees
  <1>6. NoStageSkipped'
    BY <1>1 DEF OrderInv, NoStageSkipped
  <1>7. QED
    BY <1>2, <1>4, <1>5, <1>6

(* The current status of an order is one of those it has visited. *)
LEMMA StatusIsVisited ==
    ASSUME TypeOK, TrailAgrees, NEW o \in Orders
    PROVE  status[o] \in Visited[o]
  <1>1. CASE history[o] = <<>>
    BY <1>1 DEF TrailAgrees, StatusIsLast, Visited
  <1>2. CASE history[o] # <<>>
    <2>1. Len(history[o]) \in DOMAIN history[o]
      BY <1>2 DEF TypeOK
    <2>2. QED
      BY <1>2, <2>1 DEF TrailAgrees, StatusIsLast, Visited, ToStatuses
  <1>3. QED
    BY <1>1, <1>2

(* The service part of a request keeps the invariant. *)
LEMMA CheckKeepsInv ==
    ASSUME OrderInv, NEW w \in Workers, NEW actor \in Actors,
           NEW order \in Orders, NEW to \in OrderStatuses, NEW note \in RawNotes,
           NEW now \in Times, Check(w, actor, order, to, note, now)
    PROVE  OrderInv'
  <1> DEFINE r == [pc |-> "checked",
                   call |-> [actor |-> actor, order |-> order, to |-> to,
                             note |-> CleanNote(note), now |-> now]]
  <1>1. r \in Checked
    BY DEF Checked, Call, CleanNote
  <1>2. req' = [req EXCEPT ![w] = r] /\ TablesUnchanged
    BY DEF Check, TablesUnchanged
  <1>3. req' \in [Workers -> {Idle} \cup Checked \cup InTx]
    BY <1>1, <1>2 DEF OrderInv, TypeOK
  <1>4. TypeOK' /\ TrailAgrees' /\ NoStageSkipped' /\ Visited' = Visited
    BY <1>2, <1>3, QuietStepKeepsTables
  <1>5. InFlightJustified'
    <2>1. StoreOf[actor] \in Stores
      BY ConstantsAssumption DEF Check
    <2>2. status[order] \in Visited[order] /\ LegalTransition(status[order], to)
      BY StatusIsVisited DEF Check, AssertTransition, OrderInv
    <2>3. \A v \in Workers \ {w} : req'[v] = req[v]
      BY <1>2
    <2>4. req'[w] = r
      BY <1>2 DEF OrderInv, TypeOK
    <2>5. QED
      BY <1>4, <2>1, <2>2, <2>3, <2>4 DEF InFlightJustified, OrderInv
  <1>6. QED
    BY <1>4, <1>5 DEF OrderInv

(* The snapshot read keeps it: it reads a status the order has had. *)
LEMMA TxReadKeepsInv ==
    ASSUME OrderInv, NEW w \in Workers, TxRead(w)
    PROVE  OrderInv'
  <1> DEFINE r == [pc |-> "inTx", call |-> req[w].call,
                   from |-> status[req[w].call.order]]
  <1>0. req[w].call \in Call /\ req[w] # Idle
    BY RequestShapes DEF TxRead, OrderInv
  <1>1. req[w].call.order \in Orders
    BY <1>0 DEF Call
  <1>2. status[req[w].call.order] \in OrderStatuses
    BY <1>1 DEF OrderInv, TypeOK
  <1>3. r \in InTx
    BY <1>0, <1>2 DEF InTx
  <1>4. req' = [req EXCEPT ![w] = r] /\ TablesUnchanged
    BY DEF TxRead, TablesUnchanged
  <1>5. req' \in [Workers -> {Idle} \cup Checked \cup InTx]
    BY <1>3, <1>4 DEF OrderInv, TypeOK
  <1>6. TypeOK' /\ TrailAgrees' /\ NoStageSkipped' /\ Visited' = Visited
    BY <1>4, <1>5, QuietStepKeepsTables
  <1>7. InFlightJustified'
    <2>1. status[req[w].call.order] \in Visited[req[w].call.order]
      BY <1>1, StatusIsVisited DEF OrderInv
    <2>2. req'[w] = r /\ \A v \in Workers \ {w} : req'[v] = req[v]
      BY <1>4 DEF OrderInv, TypeOK
    <2>3. QED
      BY <1>0, <1>6, <2>1, <2>2 DEF InFlightJustified, OrderInv
  <1>8. QED
    BY <1>6, <1>7 DEF OrderInv

(* A request that dies keeps it. *)
LEMMA FailKeepsInv ==
    ASSUME OrderInv, NEW w \in Workers, Fail(w)
    PROVE  OrderInv'
  <1>1. req' = [req EXCEPT ![w] = Idle] /\ TablesUnchanged
    BY DEF Fail, TablesUnchanged
  <1>2. req' \in [Workers -> {Idle} \cup Checked \cup InTx]
    BY <1>1 DEF OrderInv, TypeOK
  <1>3. TypeOK' /\ TrailAgrees' /\ NoStageSkipped' /\ Visited' = Visited
    BY <1>1, <1>2, QuietStepKeepsTables
  <1>4. req'[w] = Idle /\ \A v \in Workers \ {w} : req'[v] = req[v]
    BY <1>1 DEF OrderInv, TypeOK
  <1>5. QED
    BY <1>3, <1>4 DEF OrderInv, InFlightJustified

(* The commit adds its target to the statuses its order has visited. *)
LEMMA CommitVisits ==
    ASSUME OrderInv, NEW w \in Workers, TxCommit(w)
    PROVE  Visited' = [Visited EXCEPT ![req[w].call.order] = @ \cup {req[w].call.to}]
  <1>0. PICK c, from : c = req[w].call /\ from = req[w].from
    OBVIOUS
  <1> DEFINE row == [from |-> from, to |-> c.to, at |-> c.now, note |-> c.note]
  <1>1. /\ c.order \in Orders /\ row \in HistoryRow
        /\ history'[c.order] = Append(history[c.order], row)
        /\ \A o \in Orders \ {c.order} : history'[o] = history[o]
    BY <1>0, CommitEffect DEF OrderInv, Call
  <1>2. history[c.order] \in Seq(HistoryRow)
    BY <1>1 DEF OrderInv, TypeOK
  <1>3. ToStatuses(c.order)' = ToStatuses(c.order) \cup {c.to}
    <2>1. DOMAIN history'[c.order] = DOMAIN history[c.order] \cup {Len(history[c.order]) + 1}
      BY <1>1, <1>2
    <2>2. /\ \A i \in DOMAIN history[c.order] : history'[c.order][i] = history[c.order][i]
          /\ history'[c.order][Len(history[c.order]) + 1].to = c.to
      BY <1>1, <1>2
    <2>3. QED
      BY <2>1, <2>2 DEF ToStatuses
  <1>4. \A o \in Orders \ {c.order} : ToStatuses(o)' = ToStatuses(o)
    BY <1>1 DEF ToStatuses
  <1>5. QED
    BY <1>0, <1>1, <1>3, <1>4 DEF Visited

(* A commit writes rows of the right type. *)
LEMMA CommitKeepsTypeOK ==
    ASSUME OrderInv, NEW w \in Workers, TxCommit(w)
    PROVE  TypeOK'
  <1>0. PICK c, from : c = req[w].call /\ from = req[w].from
    OBVIOUS
  <1> DEFINE row == [from |-> from, to |-> c.to, at |-> c.now, note |-> c.note]
             arow == [actor |-> c.actor, store |-> StoreOf[c.actor],
                      before |-> from, after |-> c.to, note |-> c.note]
  <1>1. /\ c.order \in Orders /\ c.to \in OrderStatuses /\ c.now \in Times
        /\ row \in HistoryRow /\ arow \in AuditRow
    BY <1>0, CommitEffect DEF OrderInv, Call
  <1>2. status' \in [Orders -> OrderStatuses]
    BY <1>0, <1>1 DEF TxCommit, OrderInv, TypeOK
  <1>3. stamp' \in [Orders -> [Stamped -> Times \cup {NoTime}]]
    <2>1. [s \in Stamped |-> IF s = c.to THEN c.now ELSE stamp[c.order][s]]
            \in [Stamped -> Times \cup {NoTime}]
      BY <1>1 DEF OrderInv, TypeOK
    <2>2. stamp' = [stamp EXCEPT ![c.order] =
                      [s \in Stamped |-> IF s = c.to THEN c.now ELSE stamp[c.order][s]]]
      BY <1>0, <1>1 DEF TxCommit, StampStage, OrderInv, TypeOK
    <2>3. QED
      BY <1>1, <2>1, <2>2 DEF OrderInv, TypeOK
  <1>4. history' \in [Orders -> Seq(HistoryRow)]
    <2>1. Append(history[c.order], row) \in Seq(HistoryRow)
      BY <1>1 DEF OrderInv, TypeOK
    <2>2. history' = [history EXCEPT ![c.order] = Append(history[c.order], row)]
      BY <1>0, <1>1 DEF TxCommit
    <2>3. QED
      BY <1>1, <2>1, <2>2 DEF OrderInv, TypeOK
  <1>5. audit' \in [Orders -> Seq(AuditRow)]
    <2>1. Append(audit[c.order], arow) \in Seq(AuditRow)
      BY <1>1 DEF OrderInv, TypeOK
    <2>2. audit' = [audit EXCEPT ![c.order] = Append(audit[c.order], arow)]
      BY <1>0, <1>1 DEF TxCommit
    <2>3. QED
      BY <1>1, <2>1, <2>2 DEF OrderInv, TypeOK
  <1>6. notices' \in [Orders -> Seq([event: Noted])]
    <2>1. NotificationEvents(c.to) \in Seq([event: Noted])
      <3>1. CASE c.to \in Noted
        <4>1. [event |-> c.to] \in [event: Noted]
          BY <3>1
        <4>2. <<[event |-> c.to]>> \in Seq([event: Noted])
          BY <4>1
        <4>3. QED
          BY <3>1, <4>2 DEF NotificationEvents
      <3>2. CASE c.to \notin Noted
        BY <3>2 DEF NotificationEvents
      <3>3. QED
        BY <3>1, <3>2
    <2>2. notices[c.order] \o NotificationEvents(c.to) \in Seq([event: Noted])
      <3>1. notices[c.order] \in Seq([event: Noted])
        BY <1>1 DEF OrderInv, TypeOK
      <3>2. QED
        BY <2>1, <3>1, ConcatProperties
    <2>3. notices' = [notices EXCEPT ![c.order] = notices[c.order] \o NotificationEvents(c.to)]
      BY <1>0, <1>1 DEF TxCommit
    <2>4. QED
      BY <1>1, <2>2, <2>3 DEF OrderInv, TypeOK
  <1>7. req' \in [Workers -> {Idle} \cup Checked \cup InTx]
    BY DEF TxCommit, OrderInv, TypeOK
  <1>8. QED
    BY <1>2, <1>3, <1>4, <1>5, <1>6, <1>7 DEF TypeOK

(* A commit keeps the row, its timestamps, history and audit in agreement. *)
LEMMA CommitKeepsTrail ==
    ASSUME OrderInv, NEW w \in Workers, TxCommit(w)
    PROVE  TrailAgrees'
  <1>0. PICK c, from : c = req[w].call /\ from = req[w].from
    OBVIOUS
  <1> DEFINE row == [from |-> from, to |-> c.to, at |-> c.now, note |-> c.note]
             arow == [actor |-> c.actor, store |-> StoreOf[c.actor],
                      before |-> from, after |-> c.to, note |-> c.note]
             n == Len(history[c.order])
  <1>1. /\ c.order \in Orders /\ c.to \in Stamped
        /\ row \in HistoryRow /\ arow \in AuditRow
        /\ status' = [status EXCEPT ![c.order] = c.to]
        /\ history'[c.order] = Append(history[c.order], row)
        /\ audit'[c.order] = Append(audit[c.order], arow)
        /\ \A s \in Stamped : stamp'[c.order][s] =
              IF s = c.to THEN c.now ELSE stamp[c.order][s]
    BY <1>0, CommitEffect DEF OrderInv, Call
  <1>2. \A o \in Orders \ {c.order} :
          /\ history'[o] = history[o] /\ audit'[o] = audit[o]
          /\ stamp'[o] = stamp[o] /\ status'[o] = status[o]
    BY <1>0, CommitIsLocal DEF OrderInv
  <1>3. /\ history[c.order] \in Seq(HistoryRow) /\ audit[c.order] \in Seq(AuditRow)
        /\ n \in Nat /\ DOMAIN history[c.order] = 1..n
        /\ Len(audit[c.order]) = n
    BY <1>1 DEF OrderInv, TypeOK, TrailAgrees, AuditMatches
  <1>4. /\ Len(history'[c.order]) = n + 1 /\ Len(audit'[c.order]) = n + 1
        /\ DOMAIN history'[c.order] = 1..(n + 1)
        /\ \A i \in 1..n : /\ history'[c.order][i] = history[c.order][i]
                            /\ audit'[c.order][i] = audit[c.order][i]
        /\ history'[c.order][n + 1] = row /\ audit'[c.order][n + 1] = arow
    BY <1>1, <1>3
  <1>5. TrailAgrees
    BY DEF OrderInv
  <1>6. ASSUME NEW o \in Orders \ {c.order}
        PROVE  StatusIsLast(o)' /\ AuditMatches(o)' /\ \A s \in Stamped : StampIsLast(o, s)'
    <2>1. ToStatuses(o)' = ToStatuses(o)
      BY <1>2 DEF ToStatuses
    <2>2. StatusIsLast(o)'
      BY <1>2, <1>5 DEF TrailAgrees, StatusIsLast
    <2>3. AuditMatches(o)'
      BY <1>2, <1>5 DEF TrailAgrees, AuditMatches
    <2>4. ASSUME NEW s \in Stamped PROVE StampIsLast(o, s)'
      <3>1. StampIsLast(o, s)
        BY <1>5 DEF TrailAgrees
      <3>2. QED
        BY <1>2, <2>1, <3>1 DEF StampIsLast
    <2>5. QED
      BY <2>2, <2>3, <2>4
  <1>7. StatusIsLast(c.order)'
    <2>1. status'[c.order] = c.to
      BY <1>1 DEF OrderInv, TypeOK
    <2>2. history'[c.order][n + 1].to = c.to
      BY <1>4
    <2>3. Len(history'[c.order]) # 0
      BY <1>3, <1>4
    <2>4. history'[c.order] # <<>>
      BY <2>3
    <2>5. QED
      BY <1>4, <2>1, <2>2, <2>4 DEF StatusIsLast
  <1>8. ASSUME NEW s \in Stamped
        PROVE  StampIsLast(c.order, s)'
    <2>1. CASE s = c.to
      <3>1. /\ n + 1 \in DOMAIN history'[c.order]
            /\ history'[c.order][n + 1].to = s
            /\ history'[c.order][n + 1].at = stamp'[c.order][s]
            /\ \A j \in DOMAIN history'[c.order] : ~(j > n + 1)
        BY <1>1, <1>3, <1>4, <2>1
      <3>2. QED
        BY <3>1 DEF StampIsLast
    <2>2. CASE s # c.to
      <3>1. stamp'[c.order][s] = stamp[c.order][s] /\ history'[c.order][n + 1].to # s
        BY <1>1, <1>4, <2>2
      <3>2. CASE stamp[c.order][s] = NoTime /\ s \notin ToStatuses(c.order)
        <4>1. \A i \in 1..n : history[c.order][i].to # s
          BY <1>3, <3>2 DEF ToStatuses
        <4>2. ASSUME NEW i \in 1..(n + 1) PROVE history'[c.order][i].to # s
          <5>1. CASE i = n + 1
            BY <3>1, <5>1
          <5>2. CASE i \in 1..n
            BY <1>4, <4>1, <5>2
          <5>3. QED
            BY <1>3, <5>1, <5>2
        <4>3. s \notin ToStatuses(c.order)'
          BY <1>4, <4>2 DEF ToStatuses
        <4>4. QED
          BY <3>1, <3>2, <4>3 DEF StampIsLast
      <3>3. CASE \E i \in DOMAIN history[c.order] :
                     /\ history[c.order][i].to = s
                     /\ history[c.order][i].at = stamp[c.order][s]
                     /\ \A j \in DOMAIN history[c.order] :
                           j > i => history[c.order][j].to # s
        <4>1. PICK i \in 1..n :
                /\ history[c.order][i].to = s
                /\ history[c.order][i].at = stamp[c.order][s]
                /\ \A j \in 1..n : j > i => history[c.order][j].to # s
          BY <1>3, <3>3
        <4>2. i \in 1..(n + 1) /\ \A j \in 1..(n + 1) : j \in 1..n \/ j = n + 1
          BY <1>3
        <4>3. /\ history'[c.order][i].to = s
              /\ history'[c.order][i].at = stamp'[c.order][s]
          BY <1>4, <3>1, <4>1
        <4>4. \A j \in 1..(n + 1) : j > i => history'[c.order][j].to # s
          BY <1>4, <3>1, <4>1, <4>2
        <4>5. QED
          BY <1>4, <4>2, <4>3, <4>4 DEF StampIsLast
      <3>4. StampIsLast(c.order, s)
        BY <1>1, <1>5 DEF TrailAgrees
      <3>5. QED
        BY <3>2, <3>3, <3>4 DEF StampIsLast
    <2>3. QED
      BY <2>1, <2>2
  <1>9. AuditMatches(c.order)'
    <2>1. \A i \in 1..n : /\ audit[c.order][i].before = history[c.order][i].from
                          /\ audit[c.order][i].after = history[c.order][i].to
                          /\ audit[c.order][i].note = history[c.order][i].note
      BY <1>1, <1>3, <1>5 DEF TrailAgrees, AuditMatches
    <2>2. ASSUME NEW i \in 1..(n + 1)
          PROVE  /\ audit'[c.order][i].before = history'[c.order][i].from
                 /\ audit'[c.order][i].after = history'[c.order][i].to
                 /\ audit'[c.order][i].note = history'[c.order][i].note
      <3>1. CASE i \in 1..n
        BY <1>4, <2>1, <3>1
      <3>2. CASE i = n + 1
        <4>1. history'[c.order][i] = row /\ audit'[c.order][i] = arow
          BY <1>4, <3>2
        <4>2. QED
          BY <4>1
      <3>3. QED
        BY <1>3, <3>1, <3>2
    <2>3. QED
      BY <1>4, <2>2 DEF AuditMatches
  <1>10. QED
    BY <1>6, <1>7, <1>8, <1>9 DEF TrailAgrees

(* A commit skips no stage, because its check did not. *)
LEMMA CommitKeepsStages ==
    ASSUME OrderInv, NEW w \in Workers, TxCommit(w)
    PROVE  NoStageSkipped'
  <1>0. PICK c, from : c = req[w].call /\ from = req[w].from
    OBVIOUS
  <1> DEFINE row == [from |-> from, to |-> c.to, at |-> c.now, note |-> c.note]
             n == Len(history[c.order])
             Earlier(i, s) == \E j \in 1..(i - 1) : history'[c.order][j].to = s
  <1>1. /\ c.order \in Orders /\ row \in HistoryRow
        /\ history'[c.order] = Append(history[c.order], row)
        /\ \A o \in Orders \ {c.order} : history'[o] = history[o]
    BY <1>0, CommitEffect DEF OrderInv, Call
  <1>2. /\ history[c.order] \in Seq(HistoryRow) /\ n \in Nat
        /\ DOMAIN history[c.order] = 1..n
    BY <1>1 DEF OrderInv, TypeOK
  <1>3. /\ DOMAIN history'[c.order] = 1..(n + 1)
        /\ \A i \in 1..n : history'[c.order][i] = history[c.order][i]
        /\ history'[c.order][n + 1] = row
    BY <1>1, <1>2
  <1>4. \A s \in Visited[c.order] : s = "SUBMITTED" \/ Earlier(n + 1, s)
    BY <1>1, <1>2, <1>3 DEF Visited, ToStatuses
  <1>5. from \in Visited[c.order] /\ \E f \in Visited[c.order] : LegalTransition(f, c.to)
    <2>1. req[w] # Idle /\ req[w].pc = "inTx"
      BY RequestShapes DEF TxCommit, OrderInv
    <2>2. QED
      BY <1>0, <2>1 DEF OrderInv, InFlightJustified
  <1>6. /\ c.to = "MADE" => Earlier(n + 1, "CONFIRMED")
        /\ c.to = "PICKED_UP" => Earlier(n + 1, "MADE")
        /\ from # "SUBMITTED" => Earlier(n + 1, from)
    BY <1>4, <1>5 DEF LegalTransition
  <1>7. ASSUME NEW i \in DOMAIN history'[c.order]
        PROVE  /\ history'[c.order][i].to = "MADE" => Earlier(i, "CONFIRMED")
               /\ history'[c.order][i].to = "PICKED_UP" => Earlier(i, "MADE")
               /\ history'[c.order][i].from # "SUBMITTED"
                     => Earlier(i, history'[c.order][i].from)
    <2>1. CASE i = n + 1
      <3>1. history'[c.order][i].to = c.to /\ history'[c.order][i].from = from
        BY <1>3, <2>1
      <3>2. QED
        BY <1>6, <2>1, <3>1
    <2>2. CASE i \in 1..n
      <3>1. \A j \in 1..(i - 1) : history'[c.order][j] = history[c.order][j]
        BY <1>2, <1>3, <2>2
      <3>2. history'[c.order][i] = history[c.order][i]
        BY <1>3, <2>2
      <3>3. LET r == history[c.order][i]
                Before(s) == \E j \in 1..(i - 1) : history[c.order][j].to = s
            IN  /\ r.to = "MADE" => Before("CONFIRMED")
                /\ r.to = "PICKED_UP" => Before("MADE")
                /\ r.from # "SUBMITTED" => Before(r.from)
        BY <1>1, <1>2, <2>2 DEF OrderInv, NoStageSkipped
      <3>4. QED
        BY <3>1, <3>2, <3>3
    <2>3. QED
      BY <1>2, <1>3, <2>1, <2>2
  <1>8. ASSUME NEW o \in Orders \ {c.order}, NEW i \in DOMAIN history'[o]
        PROVE  LET r == history'[o][i]
                   Before(s) == \E j \in 1..(i - 1) : history'[o][j].to = s
               IN  /\ r.to = "MADE" => Before("CONFIRMED")
                   /\ r.to = "PICKED_UP" => Before("MADE")
                   /\ r.from # "SUBMITTED" => Before(r.from)
    BY <1>1 DEF OrderInv, NoStageSkipped
  <1>9. QED
    BY <1>7, <1>8 DEF NoStageSkipped

(* What other requests know stays true: an order only gains statuses. *)
LEMMA CommitKeepsInFlight ==
    ASSUME OrderInv, NEW w \in Workers, TxCommit(w)
    PROVE  InFlightJustified'
  <1>1. \A o \in Orders : Visited[o] \subseteq Visited'[o]
    <2>1. PICK c : c = req[w].call
      OBVIOUS
    <2>2. Visited' = [Visited EXCEPT ![c.order] = @ \cup {c.to}]
      BY <2>1, CommitVisits
    <2>3. DOMAIN Visited = Orders
      BY DEF Visited
    <2>4. QED
      BY <2>2, <2>3
  <1>2. req'[w] = Idle /\ \A v \in Workers \ {w} : req'[v] = req[v]
    BY DEF TxCommit, OrderInv, TypeOK
  <1>3. \A v \in Workers : req[v] # Idle => req[v].call.order \in Orders
    BY RequestShapes DEF OrderInv, Call
  <1>4. QED
    BY <1>1, <1>2, <1>3 DEF OrderInv, InFlightJustified

(* The invariant holds before the first request. *)
LEMMA InvInit == Init => OrderInv
  <1> SUFFICES ASSUME Init PROVE OrderInv
    OBVIOUS
  <1>1. TypeOK
    BY DEF Init, TypeOK, OrderStatuses
  <1>2. TrailAgrees
    BY DEF Init, TrailAgrees, StatusIsLast, StampIsLast, AuditMatches, ToStatuses
  <1>3. NoStageSkipped
    BY DEF Init, NoStageSkipped
  <1>4. InFlightJustified
    BY DEF Init, InFlightJustified
  <1>5. QED
    BY <1>1, <1>2, <1>3, <1>4 DEF OrderInv

(* Every step keeps the invariant. *)
LEMMA InvStep == OrderInv /\ [Next]_vars => OrderInv'
  <1> SUFFICES ASSUME OrderInv, [Next]_vars PROVE OrderInv'
    OBVIOUS
  <1>1. ASSUME NEW w \in Workers,
               \E actor \in Actors, order \in Orders, to \in OrderStatuses,
                  note \in RawNotes, now \in Times :
                  Check(w, actor, order, to, note, now)
        PROVE  OrderInv'
    BY <1>1, CheckKeepsInv
  <1>2. ASSUME NEW w \in Workers, TxRead(w)
        PROVE  OrderInv'
    BY <1>2, TxReadKeepsInv
  <1>3. ASSUME NEW w \in Workers, TxCommit(w)
        PROVE  OrderInv'
    BY <1>3, CommitKeepsTypeOK, CommitKeepsTrail, CommitKeepsStages,
       CommitKeepsInFlight DEF OrderInv
  <1>4. ASSUME NEW w \in Workers, Fail(w)
        PROVE  OrderInv'
    BY <1>4, FailKeepsInv
  <1>5. CASE UNCHANGED vars
    <2>1. TablesUnchanged /\ req' = req
      BY <1>5 DEF vars, TablesUnchanged
    <2>2. TypeOK' /\ TrailAgrees' /\ NoStageSkipped' /\ Visited' = Visited
      BY <2>1, QuietStepKeepsTables DEF OrderInv, TypeOK
    <2>3. InFlightJustified'
      BY <2>1, <2>2 DEF OrderInv, InFlightJustified
    <2>4. QED
      BY <2>2, <2>3 DEF OrderInv
  <1>6. QED
    BY <1>1, <1>2, <1>3, <1>4, <1>5 DEF Next, Handle

(* The order row, stage timestamps, history and audit rows agree, and no   *)
(* stage is skipped, in every reachable state of sellerUpdateOrderStatus.  *)
THEOREM OrderInvHolds == Spec => []OrderInv
BY InvInit, InvStep, PTL DEF Spec

(* Every row the mutation writes, and every request record, has its type. *)
THEOREM OrderTypeCorrect == Spec => []TypeOK
BY OrderInvHolds, PTL DEF OrderInv

(* Whatever stale check a request commits on, the status row, the stage    *)
(* timestamps, the history and the audit rows never disagree.              *)
THEOREM TrailAlwaysAgrees == Spec => []TrailAgrees
BY OrderInvHolds, PTL DEF OrderInv

(* The seller's transaction cannot make an order MADE that was never       *)
(* CONFIRMED, nor PICKED_UP that was never MADE.                           *)
THEOREM StagesInOrder == Spec => []NoStageSkipped
BY OrderInvHolds, PTL DEF OrderInv

(* updateOrderStatusBySeller implements the relaxed policy machine: every  *)
(* commit is a move legal from some status the order has had.              *)
THEOREM ImplementsRelaxedPolicy == Spec => PolicyHoldsFromSomePast
  <1>1. Init => Lifecycle!Init
    BY DEF Init, Lifecycle!Init, Visited, ToStatuses
  <1>2. OrderInv /\ OrderInv' /\ [Next]_vars => [Lifecycle!Next]_(Lifecycle!lifecycleVars)
    <2> SUFFICES ASSUME OrderInv, [Next]_vars
                 PROVE  [Lifecycle!Next]_(Lifecycle!lifecycleVars)
      OBVIOUS
    <2>1. ASSUME NEW w \in Workers, TxCommit(w)
          PROVE  Lifecycle!Next
      <3>0. PICK c : c = req[w].call
        OBVIOUS
      <3>1. c.order \in Orders /\ c.to \in OrderStatuses
            /\ \E f \in Visited[c.order] : LegalTransition(f, c.to)
        <4>1. req[w] # Idle /\ c \in Call
          BY <2>1, <3>0, RequestShapes DEF TxCommit, OrderInv
        <4>2. QED
          BY <3>0, <4>1 DEF OrderInv, InFlightJustified, Call
      <3>2. status' = [status EXCEPT ![c.order] = c.to]
        BY <2>1, <3>0 DEF TxCommit
      <3>3. Visited' = [Visited EXCEPT ![c.order] = @ \cup {c.to}]
        BY <2>1, <3>0, CommitVisits
      <3>4. QED
        BY <3>1, <3>2, <3>3 DEF Lifecycle!Next, Lifecycle!Move, Lifecycle!MoveTo,
           Lifecycle!LegalTransition, LegalTransition,
           Lifecycle!OrderStatuses, OrderStatuses
    <2>2. CASE TablesUnchanged
      <3>1. status' = status /\ history' = history
        BY <2>2 DEF TablesUnchanged
      <3>2. Visited' = Visited
        BY <3>1 DEF Visited, ToStatuses
      <3>3. QED
        BY <3>1, <3>2 DEF Lifecycle!lifecycleVars
    <2>3. QED
      BY <2>1, <2>2 DEF Next, Handle, Check, TxRead, Fail, vars, TablesUnchanged
  <1>3. QED
    BY <1>1, <1>2, OrderInvHolds, PTL DEF Spec, PolicyHoldsFromSomePast, Lifecycle!Spec

(* Once an order is picked up or canceled and nothing is in flight for it, *)
(* no call the seller can make changes it.                                 *)
THEOREM FinalOrdersStaySettled == Spec => SettledForGood
  <1>1. OrderInv /\ [Next]_vars
          => [\A o \in Orders : Settled(o) => Settled(o)' /\ status'[o] = status[o]]_vars
    <2> SUFFICES ASSUME OrderInv, Next, NEW o \in Orders, Settled(o)
                 PROVE  Settled(o)' /\ status'[o] = status[o]
      OBVIOUS
    <2>1. ASSUME NEW w \in Workers, NEW actor \in Actors, NEW order \in Orders,
                 NEW to \in OrderStatuses, NEW note \in RawNotes, NEW now \in Times,
                 Check(w, actor, order, to, note, now)
          PROVE  Settled(o)' /\ status'[o] = status[o]
      <3>1. order # o
        BY <2>1 DEF Check, AssertTransition, Settled, LegalTransition, OrderStatuses
      <3>2. /\ status' = status
            /\ req'[w].call.order = order
            /\ \A v \in Workers \ {w} : req'[v] = req[v]
        BY <2>1 DEF Check, OrderInv, TypeOK
      <3>3. QED
        BY <3>1, <3>2 DEF Settled
    <2>2. ASSUME NEW w \in Workers, TxRead(w)
          PROVE  Settled(o)' /\ status'[o] = status[o]
      <3>1. req[w] # Idle
        BY <2>2, RequestShapes DEF TxRead, OrderInv
      <3>2. /\ status' = status
            /\ req'[w].call = req[w].call
            /\ \A v \in Workers \ {w} : req'[v] = req[v]
        BY <2>2 DEF TxRead, OrderInv, TypeOK
      <3>3. QED
        BY <3>1, <3>2 DEF Settled
    <2>3. ASSUME NEW w \in Workers, TxCommit(w)
          PROVE  Settled(o)' /\ status'[o] = status[o]
      <3>1. req[w] # Idle
        BY <2>3, RequestShapes DEF TxCommit, OrderInv
      <3>2. req[w].call.order # o
        BY <3>1 DEF Settled
      <3>3. /\ status'[o] = status[o]
            /\ req'[w] = Idle
            /\ \A v \in Workers \ {w} : req'[v] = req[v]
        BY <2>3, <3>2 DEF TxCommit, OrderInv, TypeOK
      <3>4. QED
        BY <3>3 DEF Settled
    <2>4. ASSUME NEW w \in Workers, Fail(w)
          PROVE  Settled(o)' /\ status'[o] = status[o]
      <3>1. /\ status' = status
            /\ req'[w] = Idle
            /\ \A v \in Workers \ {w} : req'[v] = req[v]
        BY <2>4 DEF Fail, OrderInv, TypeOK
      <3>2. QED
        BY <3>1 DEF Settled
    <2>5. QED
      BY <2>1, <2>2, <2>3, <2>4 DEF Next, Handle
  <1>2. QED
    BY <1>1, OrderInvHolds, PTL DEF Spec, SettledForGood

(* The rows the customer is told of are counted by a natural number; those  *)
(* up to a row that is one of them, by the place of its notice.             *)
LEMMA NotedCount ==
    ASSUME TypeOK, NEW o \in Orders, NEW i \in 0..Len(history[o])
    PROVE  /\ IsFiniteSet(NotedUpTo(o, i)) /\ Cardinality(NotedUpTo(o, i)) \in Nat
           /\ \A j \in 1..i : history[o][j].to \in Noted =>
                Cardinality(NotedUpTo(o, j)) \in 1..Cardinality(NotedUpTo(o, i))
  <1>1. Len(history[o]) \in Nat /\ i \in Nat
    BY DEF TypeOK
  <1>2. IsFiniteSet(1..i)
    BY <1>1, FS_Interval
  <1>3. IsFiniteSet(NotedUpTo(o, i))
    BY <1>2, FS_Subset DEF NotedUpTo
  <1>4. ASSUME NEW j \in 1..i, history[o][j].to \in Noted
        PROVE  Cardinality(NotedUpTo(o, j)) \in 1..Cardinality(NotedUpTo(o, i))
    <2>1. NotedUpTo(o, j) \subseteq NotedUpTo(o, i) /\ j \in NotedUpTo(o, j)
      BY <1>1, <1>4 DEF NotedUpTo
    <2>2. IsFiniteSet(NotedUpTo(o, j)) /\ Cardinality(NotedUpTo(o, j)) <= Cardinality(NotedUpTo(o, i))
      BY <1>3, <2>1, FS_Subset
    <2>3. Cardinality(NotedUpTo(o, j)) \in Nat /\ Cardinality(NotedUpTo(o, i)) \in Nat
      BY <1>3, <2>2, FS_CardinalityType
    <2>4. Cardinality(NotedUpTo(o, j)) # 0
      BY <2>1, <2>2, FS_EmptySet
    <2>5. QED
      BY <2>2, <2>3, <2>4
  <1>5. QED
    BY <1>3, <1>4, FS_CardinalityType

(* A sequence with one more element at its end.                             *)
LEMMA OneLonger ==
    ASSUME NEW S, NEW s \in Seq(S), NEW e \in S
    PROVE  /\ Len(s \o <<e>>) = Len(s) + 1 /\ (s \o <<e>>)[Len(s) + 1] = e
           /\ \A i \in 1..Len(s) : (s \o <<e>>)[i] = s[i]
  <1>1. <<e>> \in Seq(S) /\ Len(<<e>>) = 1 /\ <<e>>[1] = e
    OBVIOUS
  <1>2. QED
    BY <1>1

(* A commit tells the customer of its row, after all that went before.      *)
LEMMA CommitTells ==
    ASSUME OrderInv, CustomerToldOfEveryStage, NEW w \in Workers, TxCommit(w)
    PROVE  CustomerToldOfEveryStage'
  <1>0. PICK c, from, n, k : /\ c = req[w].call /\ from = req[w].from
                             /\ n = Len(history[c.order]) /\ k = Len(notices[c.order])
    OBVIOUS
  <1> DEFINE row == [from |-> from, to |-> c.to, at |-> c.now, note |-> c.note]
  <1>1. /\ TypeOK /\ TypeOK' /\ c.order \in Orders /\ row \in HistoryRow
        /\ history'[c.order] = Append(history[c.order], row)
        /\ \A o \in Orders \ {c.order} : history'[o] = history[o]
    BY <1>0, CommitEffect, CommitKeepsTypeOK DEF OrderInv, Call
  <1>2. notices' = [notices EXCEPT ![c.order] = @ \o NotificationEvents(c.to)]
    BY <1>0 DEF TxCommit
  <1>3. ASSUME NEW o \in Orders \ {c.order}
        PROVE  /\ Len(notices'[o]) = Cardinality(NotedUpTo(o, Len(history[o])))'
               /\ \A i \in DOMAIN history'[o] : history'[o][i].to \in Noted =>
                    notices'[o][Cardinality(NotedUpTo(o, i))'].event = history'[o][i].to
    <2>1. notices'[o] = notices[o] /\ history'[o] = history[o]
      BY <1>1, <1>2 DEF TypeOK
    <2>2. \A i : NotedUpTo(o, i)' = NotedUpTo(o, i)
      BY <2>1 DEF NotedUpTo
    <2>3. QED
      BY <2>1, <2>2 DEF CustomerToldOfEveryStage
  <1>4. /\ history[c.order] \in Seq(HistoryRow) /\ n \in Nat /\ DOMAIN history[c.order] = 1..n
        /\ notices[c.order] \in Seq([event: Noted]) /\ k \in Nat
    <2>1. history[c.order] \in Seq(HistoryRow) /\ notices[c.order] \in Seq([event: Noted])
      BY <1>1 DEF TypeOK
    <2>2. QED
      BY <1>0, <2>1, SMTT(30)
  <1>5. /\ Len(history'[c.order]) = n + 1 /\ DOMAIN history'[c.order] = 1..(n + 1)
        /\ \A i \in 1..n : history'[c.order][i] = history[c.order][i]
        /\ history'[c.order][n + 1].to = c.to
    BY <1>1, <1>4
  <1>6. \A i \in 0..n : NotedUpTo(c.order, i)' = NotedUpTo(c.order, i)
    BY <1>4, <1>5 DEF NotedUpTo
  <1>7. k = Cardinality(NotedUpTo(c.order, n)) /\ IsFiniteSet(NotedUpTo(c.order, n))
    <2>1. n \in 0..Len(history[c.order])
      BY <1>0, <1>4
    <2>2. QED
      BY <1>0, <1>1, <2>1, NotedCount DEF CustomerToldOfEveryStage
  <1>8. \A i \in 1..n : history[c.order][i].to \in Noted =>
          /\ Cardinality(NotedUpTo(c.order, i)) \in 1..k
          /\ notices[c.order][Cardinality(NotedUpTo(c.order, i))].event = history[c.order][i].to
    <2>1. n \in 0..Len(history[c.order])
      BY <1>0, <1>4
    <2>2. QED
      BY <1>1, <1>4, <1>7, <2>1, NotedCount DEF CustomerToldOfEveryStage
  <1>9. CASE c.to \in Noted
    <2>1. NotedUpTo(c.order, n + 1)' = NotedUpTo(c.order, n) \cup {n + 1}
      BY <1>4, <1>5, <1>9 DEF NotedUpTo
    <2>2. n + 1 \notin NotedUpTo(c.order, n)
      BY <1>4 DEF NotedUpTo
    <2>3. Cardinality(NotedUpTo(c.order, n + 1)') = k + 1
      BY <1>7, <2>1, <2>2, FS_AddElement
    <2>4. PICK e : e = [event |-> c.to] /\ e.event = c.to /\ e \in [event: Noted]
      <3>1. PICK e : e = [event |-> c.to]
        OBVIOUS
      <3>2. QED
        BY <1>9, <3>1
    <2>5. notices'[c.order] = notices[c.order] \o <<e>>
      BY <1>1, <1>2, <1>9, <2>4 DEF NotificationEvents, TypeOK
    <2>6. /\ Len(notices'[c.order]) = k + 1 /\ notices'[c.order][k + 1] = e
          /\ \A i \in 1..k : notices'[c.order][i] = notices[c.order][i]
      <3>1. PICK t \in Seq([event: Noted]) : t = notices[c.order] /\ Len(t) = k
        BY <1>0, <1>4
      <3>2. e \in [event: Noted] /\ notices'[c.order] = t \o <<e>>
        BY <2>4, <2>5, <3>1
      <3>3. QED
        BY <3>1, <3>2, OneLonger
    <2>7. ASSUME NEW i \in 1..(n + 1), history'[c.order][i].to \in Noted
          PROVE  notices'[c.order][Cardinality(NotedUpTo(c.order, i))'].event = history'[c.order][i].to
      <3>1. CASE i = n + 1
        BY <1>5, <2>3, <2>4, <2>6, <3>1
      <3>2. CASE i \in 1..n
        <4>1. history'[c.order][i] = history[c.order][i] /\ NotedUpTo(c.order, i)' = NotedUpTo(c.order, i)
          BY <1>4, <1>5, <1>6, <3>2
        <4>2. QED
          BY <1>8, <2>6, <2>7, <3>2, <4>1
      <3>3. QED
        BY <1>4, <3>1, <3>2
    <2>8. QED
      BY <1>3, <1>5, <2>3, <2>6, <2>7 DEF CustomerToldOfEveryStage
  <1>10. CASE c.to \notin Noted
    <2>1. NotedUpTo(c.order, n + 1)' = NotedUpTo(c.order, n)
      BY <1>4, <1>5, <1>10 DEF NotedUpTo
    <2>2. notices'[c.order] = notices[c.order]
      BY <1>1, <1>2, <1>4, <1>10 DEF NotificationEvents, TypeOK
    <2>3. ASSUME NEW i \in 1..(n + 1), history'[c.order][i].to \in Noted
          PROVE  notices'[c.order][Cardinality(NotedUpTo(c.order, i))'].event = history'[c.order][i].to
      <3>1. i \in 1..n
        BY <1>4, <1>5, <1>10, <2>3
      <3>2. history'[c.order][i] = history[c.order][i] /\ NotedUpTo(c.order, i)' = NotedUpTo(c.order, i)
        BY <1>4, <1>5, <1>6, <3>1
      <3>3. QED
        BY <1>8, <2>2, <2>3, <3>1, <3>2
    <2>4. Len(notices'[c.order]) = Cardinality(NotedUpTo(c.order, Len(history[c.order])))'
      BY <1>0, <1>5, <1>7, <2>1, <2>2
    <2>5. \A o \in Orders : o = c.order \/ o \in Orders \ {c.order}
      OBVIOUS
    <2>6. QED
      BY <1>3, <1>5, <2>3, <2>4, <2>5 DEF CustomerToldOfEveryStage
  <1>11. QED
    BY <1>9, <1>10

(* The customer is told of every confirmation, completion and pick-up that  *)
(* is committed, once and in the order of the commits, whatever requests    *)
(* overlap and die.                                                         *)
THEOREM EveryStageIsTold == Spec => []CustomerToldOfEveryStage
  <1>1. Init => CustomerToldOfEveryStage
    <2> SUFFICES ASSUME Init, NEW o \in Orders
                 PROVE  /\ Len(notices[o]) = Cardinality(NotedUpTo(o, Len(history[o])))
                        /\ DOMAIN history[o] = {}
      BY DEF CustomerToldOfEveryStage
    <2>1. history[o] = <<>> /\ notices[o] = <<>>
      BY DEF Init
    <2>2. NotedUpTo(o, Len(history[o])) = {}
      BY <2>1 DEF NotedUpTo
    <2>3. Len(notices[o]) = 0 /\ DOMAIN history[o] = {}
      BY <2>1
    <2>4. Cardinality({}) = 0
      BY FS_EmptySet
    <2>5. QED
      BY <2>2, <2>3, <2>4
  <1>2. OrderInv /\ CustomerToldOfEveryStage /\ [Next]_vars => CustomerToldOfEveryStage'
    <2> SUFFICES ASSUME OrderInv, CustomerToldOfEveryStage, [Next]_vars
                 PROVE  CustomerToldOfEveryStage'
      OBVIOUS
    <2>1. CASE UNCHANGED <<history, notices>>
      BY <2>1 DEF CustomerToldOfEveryStage, NotedUpTo
    <2>2. QED
      BY <2>1, CommitTells DEF Next, Handle, Check, TxRead, Fail, vars
  <1>3. QED
    BY <1>1, <1>2, OrderInvHolds, PTL DEF Spec

(* While requests come one at a time, what the service checked still holds *)
(* when its transaction commits.                                           *)
CheckedStill ==
    \A w \in Workers : req[w] # Idle =>
        LegalTransition(status[req[w].call.order], req[w].call.to)

LEMMA AloneStaysChecked ==
    ASSUME NEW w, Workers = {w}, OrderInv, CheckedStill, [Next]_vars
    PROVE  CheckedStill'
  <1>1. CASE TablesUnchanged /\ req'[w] = req[w]
    BY <1>1 DEF CheckedStill, TablesUnchanged
  <1>2. CASE req'[w] = Idle
    BY <1>2 DEF CheckedStill
  <1>3. ASSUME NEW actor \in Actors, NEW order \in Orders, NEW to \in OrderStatuses,
               NEW note \in RawNotes, NEW now \in Times, Check(w, actor, order, to, note, now)
        PROVE  CheckedStill'
    <2>1. status' = status /\ req'[w].call.order = order /\ req'[w].call.to = to
      BY <1>3 DEF Check, OrderInv, TypeOK
    <2>2. LegalTransition(status[order], to)
      BY <1>3 DEF Check, AssertTransition
    <2>3. QED
      BY <2>1, <2>2 DEF CheckedStill
  <1>4. CASE TxRead(w)
    <2>1. req[w] # Idle /\ status' = status /\ req'[w].call = req[w].call
      BY <1>4, RequestShapes DEF TxRead, OrderInv, TypeOK
    <2>2. QED
      BY <2>1 DEF CheckedStill
  <1>5. CASE TxCommit(w) \/ Fail(w)
    BY <1>2, <1>5 DEF TxCommit, Fail, OrderInv, TypeOK
  <1>6. CASE UNCHANGED vars
    BY <1>1, <1>6 DEF vars, TablesUnchanged
  <1>7. QED
    BY <1>3, <1>4, <1>5, <1>6 DEF Next, Handle

(* The promise of the policy's tests is kept by sellers who ask one after  *)
(* the other, also when requests die: updateOrderStatusBySeller then       *)
(* implements the machine whose every move is legal from the status the    *)
(* order has.                                                              *)
THEOREM AloneImplementsStrictPolicy ==
    ASSUME NEW w, Workers = {w}
    PROVE  Spec => PolicyHoldsFromCurrent
  <1>1. Init => Lifecycle!Init /\ CheckedStill
    BY DEF Init, Lifecycle!Init, Visited, ToStatuses, CheckedStill
  <1>2. OrderInv /\ CheckedStill /\ [Next]_vars => CheckedStill'
    BY AloneStaysChecked
  <1>3. OrderInv /\ CheckedStill /\ [Next]_vars => [Lifecycle!StrictNext]_(Lifecycle!lifecycleVars)
    <2> SUFFICES ASSUME OrderInv, CheckedStill, [Next]_vars
                 PROVE  [Lifecycle!StrictNext]_(Lifecycle!lifecycleVars)
      OBVIOUS
    <2>1. CASE TxCommit(w)
      <3>1. PICK c : c = req[w].call
        OBVIOUS
      <3>2. req[w] # Idle /\ c.order \in Orders /\ c.to \in OrderStatuses
        BY <2>1, <3>1, RequestShapes DEF TxCommit, OrderInv, Call
      <3>3. LegalTransition(status[c.order], c.to)
        BY <3>1, <3>2 DEF CheckedStill
      <3>4. status' = [status EXCEPT ![c.order] = c.to]
        BY <2>1, <3>1 DEF TxCommit
      <3>5. Visited' = [Visited EXCEPT ![c.order] = @ \cup {c.to}]
        BY <2>1, <3>1, CommitVisits
      <3>6. QED
        BY <3>2, <3>3, <3>4, <3>5 DEF Lifecycle!StrictNext, Lifecycle!StrictMove, Lifecycle!MoveTo,
           Lifecycle!LegalTransition, LegalTransition, Lifecycle!OrderStatuses, OrderStatuses
    <2>2. CASE TablesUnchanged
      <3>1. status' = status /\ Visited' = Visited
        BY <2>2 DEF TablesUnchanged, Visited, ToStatuses
      <3>2. QED
        BY <3>1 DEF Lifecycle!lifecycleVars
    <2>3. QED
      BY <2>1, <2>2 DEF Next, Handle, Check, TxRead, Fail, vars, TablesUnchanged
  <1>4. QED
    BY <1>1, <1>2, <1>3, OrderInvHolds, PTL DEF Spec, PolicyHoldsFromCurrent, Lifecycle!StrictSpec
=============================================================================
