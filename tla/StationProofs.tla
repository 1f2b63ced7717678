---------------------------- MODULE StationProofs ----------------------------
(***************************************************************************)
(* Theorems about Station, for any number of users, orders, piles, request *)
(* slots and any set of endpoints called: the books balance under every    *)
(* interleaving of the handlers, with the process dying, Redis failing and *)
(* locks expiring at any moment.                                           *)
(*                                                                         *)
(* Only three kinds of step write the tables of the books: BeginCharging   *)
(* (opens a session), Settle (bills one) and Deliver (the meter runs).     *)
(* Nothing is assumed of todo: a handler may hold stale values, and the    *)
(* proofs use only what a transaction itself checks or writes.             *)
(***************************************************************************)
EXTENDS StationProperties, FiniteSetTheorems, TLAPS

books == <<sessions, details, totals>>

\* The ids of orders are a finite range: a table of them can be counted.
LEMMA OrderIdsFinite == IsFiniteSet(OrderIds)
<1>1. MaxOrders \in Int
  BY BoundsAssumption
<1> QED
  BY <1>1, FS_Interval DEF OrderIds

\* The bills of a pile can be counted: each is an order's.
LEMMA BillsOfFinite ==
    ASSUME BooksInv, NEW p
    PROVE  IsFiniteSet(BillsOf(p))
<1>1. BillsOf(p) \subseteq OrderIds
  BY DEF BooksInv, ClosedSessionBilled, RowsLinked, BillsOf
<1> QED
  BY <1>1, OrderIdsFinite, FS_Subset

-----------------------------------------------------------------------------
(* Steps that leave the books alone, and orders where they are *)

\* Taking an order off the line or writing its row adds no row.
LEMMA OrdersKept ==
    ASSUME NEW o, NEW row, DOMAIN orders \subseteq OrderIds,
           EnterLine(o, row) \/ LeaveLine(o, row)
    PROVE  DOMAIN orders' = DOMAIN orders
BY DEF EnterLine, LeaveLine

\* createRequest adds one row, under an id that is free, and removes none.
LEMMA OrderAdded ==
    ASSUME NEW u, NEW mode, NEW amount, NEW no, DOMAIN orders \subseteq OrderIds,
           NewOrder(u, mode, amount, no)
    PROVE  DOMAIN orders \subseteq DOMAIN orders' /\ DOMAIN orders' \subseteq OrderIds
<1>1. PICK o \in NextId(orders, OrderIds) :
          orders' = Insert(orders, o, [user |-> u, mode |-> mode, amount |-> amount, no |-> no,
                                       status |-> "WAITING", pile |-> None])
  BY DEF NewOrder
<1>2. DOMAIN orders' = DOMAIN orders \cup {o}
  BY <1>1 DEF Insert
<1> QED
  BY <1>2 DEF NextId

\* A step that leaves sessions, bills and pile totals alone keeps the books, even if
\* it adds an order.
LEMMA QuietStep ==
    ASSUME BooksInv, UNCHANGED books,
           DOMAIN orders \subseteq DOMAIN orders', DOMAIN orders' \subseteq OrderIds
    PROVE  BooksInv'
BY DEF BooksInv, RowsLinked, ClosedSessionBilled, PileCountsMatchBills, BillsOf, books

\* The meter running changes what a session was given, not whose it is or its state.
LEMMA DeliverStep ==
    ASSUME BooksInv, NEW x \in DOMAIN sessions, Deliver(x)
    PROVE  BooksInv'
<1>1. /\ DOMAIN sessions' = DOMAIN sessions
      /\ \A y \in DOMAIN sessions : /\ sessions'[y].order = sessions[y].order
                                    /\ sessions'[y].pile = sessions[y].pile
                                    /\ sessions'[y].state = sessions[y].state
  BY DEF Deliver, Session
<1>2. UNCHANGED <<orders, details, totals>>
  BY DEF Deliver
<1>3. RowsLinked'
  BY <1>1, <1>2 DEF BooksInv, RowsLinked
<1>4. ClosedSessionBilled'
  BY <1>1, <1>2 DEF BooksInv, ClosedSessionBilled
<1>5. \A p : BillsOf(p)' = BillsOf(p)
  BY <1>1, <1>2 DEF BooksInv, ClosedSessionBilled, BillsOf
<1>6. PileCountsMatchBills'
  BY <1>2, <1>5 DEF BooksInv, PileCountsMatchBills
<1> QED
  BY <1>3, <1>4, <1>6 DEF BooksInv

\* startCharging opens a session that has no bill yet.
LEMMA BeginChargingStep ==
    ASSUME BooksInv, NEW o, NEW row, NEW p, BeginCharging(o, row, p)
    PROVE  BooksInv'
<1>1. PICK x \in NextId(sessions, SessionIds) :
          sessions' = Insert(sessions, x, Session(o, p, "ACTIVE", 0, None))
  BY DEF BeginCharging
<1>2. x \in SessionIds /\ x \notin DOMAIN sessions
  BY <1>1 DEF NextId
<1>3. /\ DOMAIN sessions' = DOMAIN sessions \cup {x}
      /\ sessions'[x] = Session(o, p, "ACTIVE", 0, None)
      /\ \A y \in DOMAIN sessions : sessions'[y] = sessions[y]
  BY <1>1, <1>2 DEF Insert
<1>4. DOMAIN orders' = DOMAIN orders
  BY OrdersKept DEF BeginCharging, BooksInv, RowsLinked
<1>5. UNCHANGED <<details, totals>> /\ o \in DOMAIN orders /\ p \in Piles
  BY DEF BeginCharging
<1>6. RowsLinked'
  BY <1>2, <1>3, <1>4, <1>5 DEF BooksInv, RowsLinked, Session
<1>7. ClosedSessionBilled'
  BY <1>2, <1>3, <1>5 DEF BooksInv, ClosedSessionBilled, Session
<1>8. \A q : BillsOf(q)' = BillsOf(q)
  BY <1>2, <1>3, <1>5 DEF BooksInv, ClosedSessionBilled, BillsOf
<1>9. PileCountsMatchBills'
  BY <1>5, <1>8 DEF BooksInv, PileCountsMatchBills
<1> QED
  BY <1>6, <1>7, <1>9 DEF BooksInv

(* What a Settle that does not fail writes. *)
Issues(x, ended, given, billed, reason) ==
    LET o == sessions[x].order
        p == sessions[x].pile
    IN  /\ ~Billed(o, x)
        /\ sessions' = [sessions EXCEPT ![x] = Session(o, p, ended, given, reason)]
        /\ totals' = [totals EXCEPT ![p] = [count |-> @.count + 1, amount |-> @.amount + given]]
        /\ details' = Insert(details, o, [session |-> x, amount |-> billed])
        /\ DOMAIN orders' = DOMAIN orders

\* A Settle either fails, and writes nothing, or issues the bill of its session: the
\* transaction checks that there is none, whatever the handler read before.
LEMMA SettleIssues ==
    ASSUME BooksInv, NEW s, Settle(s)
    PROVE  \/ UNCHANGED tables
           \/ \E x \in DOMAIN sessions, ended \in {"CLOSED", "ABORTED"} :
                 \E given, billed, reason : Issues(x, ended, given, billed, reason)
<1> DEFINE step == Head(todo[s])
           x == step.session
           o == sessions[x].order
           p == sessions[x].pile
           ended == Ended(step.target)
<1>1. SUFFICES ASSUME ~UNCHANGED tables
               PROVE  \E y \in DOMAIN sessions, e \in {"CLOSED", "ABORTED"} :
                         \E given, billed, reason : Issues(y, e, given, billed, reason)
  OBVIOUS
<1>2. /\ x \in DOMAIN sessions
      /\ ~Billed(o, x)
      /\ sessions' = [sessions EXCEPT ![x] = Session(o, p, ended, step.amount, step.reason)]
      /\ LeaveLine(o, [orders[o] EXCEPT !.status = step.target])
      /\ totals' = [totals EXCEPT
             ![p] = [count |-> @.count + 1, amount |-> @.amount + step.amount]]
      /\ details' = Insert(details, o, [session |-> x, amount |-> step.previous + step.amount])
  BY <1>1 DEF Settle
<1>3. DOMAIN orders' = DOMAIN orders
  BY <1>2 DEF LeaveLine
<1>4. Issues(x, ended, step.amount, step.previous + step.amount, step.reason)
  BY <1>2, <1>3 DEF Issues
<1>5. ended \in {"CLOSED", "ABORTED"}
  BY DEF Ended
<1> QED
  BY <1>2, <1>4, <1>5

\* Issuing a bill ends its session, bills its order and counts it for its pile.
LEMMA IssueStep ==
    ASSUME BooksInv, NEW x \in DOMAIN sessions, NEW ended \in {"CLOSED", "ABORTED"},
           NEW given, NEW billed, NEW reason, Issues(x, ended, given, billed, reason)
    PROVE  BooksInv'
<1> DEFINE o == sessions[x].order
           p == sessions[x].pile
<1>1. /\ DOMAIN sessions' = DOMAIN sessions
      /\ sessions'[x] = Session(o, p, ended, given, reason)
      /\ \A y \in DOMAIN sessions \ {x} : sessions'[y] = sessions[y]
  BY DEF Issues
<1>2. /\ o \notin DOMAIN details
      /\ \A other \in DOMAIN details : details[other].session # x
  BY DEF Issues, Billed
<1>3. /\ DOMAIN details' = DOMAIN details \cup {o}
      /\ details'[o] = [session |-> x, amount |-> billed]
      /\ \A other \in DOMAIN details : details'[other] = details[other]
  BY <1>2 DEF Issues, Insert
<1>4. o \in DOMAIN orders /\ p \in Piles /\ DOMAIN orders' = DOMAIN orders
  BY DEF BooksInv, RowsLinked, Issues
<1>5. DOMAIN totals = Piles
  BY DEF BooksInv, RowsLinked
<1>6. /\ DOMAIN totals' = Piles
      /\ totals'[p].count = totals[p].count + 1
      /\ \A q \in Piles \ {p} : totals'[q] = totals[q]
  BY <1>4, <1>5 DEF Issues
<1>7. \A y \in DOMAIN sessions : /\ sessions'[y].order = sessions[y].order
                                 /\ sessions'[y].pile = sessions[y].pile
  BY <1>1 DEF Session
<1>8. RowsLinked'
  BY <1>1, <1>4, <1>6, <1>7 DEF BooksInv, RowsLinked
<1>9. ClosedSessionBilled'
  BY <1>1, <1>2, <1>3 DEF BooksInv, ClosedSessionBilled, Session
<1>10. PileCountsMatchBills'
  <2>1. SUFFICES ASSUME NEW q \in Piles
                 PROVE  totals'[q].count = Cardinality(BillsOf(q)')
    BY DEF PileCountsMatchBills
  <2>2. totals[q].count = Cardinality(BillsOf(q))
    BY DEF BooksInv, PileCountsMatchBills
  <2>3. CASE q = p
    <3>1. BillsOf(q)' = BillsOf(q) \cup {o} /\ o \notin BillsOf(q)
      BY <1>1, <1>2, <1>3, <1>7, <2>3 DEF BooksInv, ClosedSessionBilled, BillsOf
    <3>2. Cardinality(BillsOf(q)') = Cardinality(BillsOf(q)) + 1
      BY <3>1, BillsOfFinite, FS_AddElement
    <3> QED
      BY <1>6, <2>2, <2>3, <3>2
  <2>4. CASE q # p
    <3>1. BillsOf(q)' = BillsOf(q)
      BY <1>1, <1>2, <1>3, <1>7, <2>4 DEF BooksInv, ClosedSessionBilled, BillsOf
    <3> QED
      BY <1>6, <2>2, <2>4, <3>1
  <2> QED
    BY <2>3, <2>4
<1> QED
  BY <1>8, <1>9, <1>10 DEF BooksInv

-----------------------------------------------------------------------------
(* Every step is one of four kinds *)

OrdersGrow == DOMAIN orders \subseteq DOMAIN orders' /\ DOMAIN orders' \subseteq OrderIds

\* Reading a request writes no table of the books and no order.
LEMMA RequestIsQuiet ==
    ASSUME NEW s, DriverRequest(s) \/ AdminRequest(s)
    PROVE  UNCHANGED <<orders, books>>
<1>1. CASE DriverRequest(s)
  BY <1>1 DEF DriverRequest, SubmitRequest, ModifyMode, ModifyAmount, CancelQueued,
      CancelCharging, Start, Stop, QueueStatus, tables, books
<1>2. CASE AdminRequest(s)
  BY <1>2 DEF AdminRequest, PowerOn, PowerOff, ReportFault, Recover, Reschedule, BasicAll,
      Basic, SingleOptimization, BatchOptimization, tables, books
<1> QED
  BY <1>1, <1>2

\* Orders that stay are orders that grow.
LEMMA OrdersGrowKept == ASSUME BooksInv, DOMAIN orders' = DOMAIN orders PROVE OrdersGrow
BY DEF BooksInv, RowsLinked, OrdersGrow

\* Of ChargingService only startCharging opens a session; nothing in it bills.
LEMMA ChargingIsQuiet ==
    ASSUME BooksInv, NEW s, ServeCharging(s)
    PROVE  \/ OrdersGrow /\ UNCHANGED books
           \/ \E o, row, p : BeginCharging(o, row, p)
<1>1. CASE Create(s)
  BY <1>1, OrderAdded, OrdersGrowKept DEF Create, BooksInv, RowsLinked, OrdersGrow, books
<1>2. CASE Retry(s)
  BY <1>2, OrdersGrowKept DEF Retry, tables, books
<1>3. CASE SetMode(s)
  BY <1>3, OrdersGrowKept DEF SetMode, books
<1>4. CASE SetAmount(s)
  BY <1>4, OrdersGrowKept DEF SetAmount, books
<1>5. CASE SetCanceled(s)
  BY <1>5, OrdersGrowKept DEF SetCanceled, LeaveLine, books
<1>6. CASE StartTransaction(s)
  BY <1>6, OrdersGrowKept DEF StartTransaction, tables, books
<1> QED
  BY <1>1, <1>2, <1>3, <1>4, <1>5, <1>6 DEF ServeCharging

\* Of DispatchService only waking a pile opens a session; nothing in it bills.
LEMMA DispatchIsQuiet ==
    ASSUME BooksInv, NEW s, ServeDispatch(s)
    PROVE  \/ OrdersGrow /\ UNCHANGED books
           \/ \E o, row, p : BeginCharging(o, row, p)
<1>1. CASE AutoCompleteCharging(s) \/ PlanBasic(s) \/ PlanFault(s) \/ PlanRecovery(s)
           \/ PlanWake(s) \/ ReadAssignment(s)
  BY <1>1, OrdersGrowKept DEF AutoCompleteCharging, PlanBasic, PlanFault, PlanRecovery,
      PlanWake, ReadAssignment, tables, books
<1>2. CASE Wake(s)
  BY <1>2 DEF Wake
<1>3. CASE Assign(s)
  BY <1>3, OrdersGrowKept DEF Assign, EnterLine, books
<1> QED
  BY <1>1, <1>2, <1>3 DEF ServeDispatch

\* PileService adds a continuation order at most; its bill is a Settle of its own.
LEMMA PileIsQuiet ==
    ASSUME BooksInv, NEW s, ServePile(s)
    PROVE  OrdersGrow /\ UNCHANGED books
<1>1. CASE SetPower(s) \/ Remainder(s) \/ SetFault(s) \/ Affected(s)
  BY <1>1, OrdersGrowKept DEF SetPower, Remainder, SetFault, Affected, tables, books
<1>2. CASE Rename(s)
  BY <1>2, OrdersGrowKept DEF Rename, books
<1>3. CASE Continue(s)
  BY <1>3, OrderAdded, OrdersGrowKept DEF Continue, BooksInv, RowsLinked, OrdersGrow, books
<1> QED
  BY <1>1, <1>2, <1>3 DEF ServePile

\* Three kinds of step write the tables of the books.
LEMMA StepWrites ==
    ASSUME BooksInv, [Next]_vars
    PROVE  \/ OrdersGrow /\ UNCHANGED books
           \/ \E o, row, p : BeginCharging(o, row, p)
           \/ \E s \in Slots : Settle(s) /\ ~UNCHANGED tables
           \/ \E x \in DOMAIN sessions : Deliver(x)
<1>1. CASE UNCHANGED vars
  BY <1>1, OrdersGrowKept DEF vars, tables, books
<1>2. CASE \E s \in Slots : DriverRequest(s) \/ AdminRequest(s)
  BY <1>2, RequestIsQuiet, OrdersGrowKept
<1>3. CASE \E s \in Slots : Serve(s)
  <2>1. PICK s \in Slots : Serve(s)
    BY <1>3
  <2>2. CASE Settle(s)
    BY <2>2, OrdersGrowKept DEF tables, books
  <2>3. CASE ServeDispatch(s) \/ ServeCharging(s) \/ ServePile(s)
    BY <2>3, DispatchIsQuiet, ChargingIsQuiet, PileIsQuiet
  <2>4. CASE ReadForBill(s) \/ Lock(s) \/ Unlock(s) \/ ReadPayload(s) \/ SetJson(s)
    BY <2>4, OrdersGrowKept DEF ReadForBill, Lock, Unlock, ReadPayload, SetJson, tables, books
  <2> QED
    BY <2>1, <2>2, <2>3, <2>4 DEF Serve
<1>4. CASE (\E key \in locks : Expire(key)) \/ Restart \/ RedisDown
  BY <1>4, OrdersGrowKept DEF Expire, Restart, RedisDown, tables, books
<1>5. CASE \E x \in DOMAIN sessions : Deliver(x)
  BY <1>5
<1> QED
  BY <1>1, <1>2, <1>3, <1>4, <1>5 DEF Next, Environment

\* A Settle among them issues a bill.
LEMMA StepKinds ==
    ASSUME BooksInv, [Next]_vars
    PROVE  \/ OrdersGrow /\ UNCHANGED books
           \/ \E o, row, p : BeginCharging(o, row, p)
           \/ \E x \in DOMAIN sessions, ended \in {"CLOSED", "ABORTED"} :
                 \E given, billed, reason : Issues(x, ended, given, billed, reason)
           \/ \E x \in DOMAIN sessions : Deliver(x)
BY StepWrites, SettleIssues

\* Every step of the station keeps the books.
LEMMA BooksNext == BooksInv /\ [Next]_vars => BooksInv'
<1> SUFFICES ASSUME BooksInv, [Next]_vars
             PROVE  BooksInv'
  OBVIOUS
<1>1. CASE OrdersGrow /\ UNCHANGED books
  BY <1>1, QuietStep DEF OrdersGrow
<1>2. CASE \E o, row, p : BeginCharging(o, row, p)
  BY <1>2, BeginChargingStep
<1>3. CASE \E x \in DOMAIN sessions, ended \in {"CLOSED", "ABORTED"} :
              \E given, billed, reason : Issues(x, ended, given, billed, reason)
  BY <1>3, IssueStep
<1>4. CASE \E x \in DOMAIN sessions : Deliver(x)
  BY <1>4, DeliverStep
<1> QED
  BY <1>1, <1>2, <1>3, <1>4, StepKinds

\* A station without orders has its books in order.
LEMMA BooksInit == Init => BooksInv
<1> SUFFICES ASSUME Init PROVE BooksInv
  OBVIOUS
<1>1. DOMAIN orders = {} /\ DOMAIN sessions = {} /\ DOMAIN details = {}
  BY DEF Init
<1>2. DOMAIN totals = Piles /\ \A p \in Piles : totals[p].count = 0
  BY DEF Init
<1>3. \A p : BillsOf(p) = {}
  BY <1>1 DEF BillsOf
<1> QED
  BY <1>1, <1>2, <1>3, FS_EmptySet
  DEF BooksInv, RowsLinked, ClosedSessionBilled, PileCountsMatchBills

-----------------------------------------------------------------------------
(* Theorems *)

\* The inductive invariant of the books: the tables' links, every session that
\* is not active billed once and to its own order, every pile's counter equal to
\* the number of its bills.
THEOREM BooksHold == Spec => []BooksInv
BY BooksInit, BooksNext, PTL DEF Spec

\* closeAndBill writes the end of a session and its bill both or neither.
THEOREM ClosedSessionBilledHolds == Spec => []ClosedSessionBilled
<1>1. BooksInv => ClosedSessionBilled
  BY DEF BooksInv
<1> QED
  BY <1>1, BooksHold, PTL

\* totalChargeCount of a pile is the number of bills for sessions on it.
THEOREM PileCountsMatchBillsHolds == Spec => []PileCountsMatchBills
<1>1. BooksInv => PileCountsMatchBills
  BY DEF BooksInv
<1> QED
  BY <1>1, BooksHold, PTL

\* A step leaves every bill as it is.
LEMMA BillsStay ==
  ASSUME BooksInv, [Next]_vars
  PROVE  \A o \in DOMAIN details : o \in DOMAIN details' /\ details'[o] = details[o]
<1>1. CASE OrdersGrow /\ UNCHANGED books
  BY <1>1 DEF books
<1>2. CASE \E o, row, p : BeginCharging(o, row, p)
  BY <1>2 DEF BeginCharging
<1>3. CASE \E x \in DOMAIN sessions, ended \in {"CLOSED", "ABORTED"} :
              \E given, billed, reason : Issues(x, ended, given, billed, reason)
  BY <1>3 DEF Issues, Billed, Insert
<1>4. CASE \E x \in DOMAIN sessions : Deliver(x)
  BY <1>4 DEF Deliver
<1> QED
  BY <1>1, <1>2, <1>3, <1>4, StepKinds

\* No bill changes or disappears once issued.
THEOREM BillsFrozenHolds == Spec => BillsFrozen
<1>1. BooksInv /\ [Next]_vars
        => [\A o \in DOMAIN details : o \in DOMAIN details' /\ details'[o] = details[o]]_vars
  BY BillsStay
<1> QED
  BY <1>1, BooksHold, PTL DEF Spec, BillsFrozen

-----------------------------------------------------------------------------
(* The station implements BillingLedger *)

Meters == [x \in DOMAIN sessions |->
    [order |-> sessions[x].order, pile |-> sessions[x].pile, state |-> sessions[x].state]]
BillLedger == [o \in DOMAIN details |-> details[o].session]
Counts == [p \in Piles |-> totals[p].count]

\* The initial station is an empty ledger.
LEMMA LedgerInit == Init => Ledger!Init
<1> SUFFICES ASSUME Init PROVE Ledger!Init
  OBVIOUS
<1>1. Meters = [x \in {} |-> {}]
  BY DEF Init, Meters
<1>2. BillLedger = [o \in {} |-> {}]
  BY DEF Init, BillLedger
<1>3. Counts = [p \in Piles |-> 0]
  BY DEF Init, Counts
<1> QED
  BY <1>1, <1>2, <1>3 DEF Ledger!Init, Meters, BillLedger, Counts

\* A step that leaves the books alone is no step of the ledger.
LEMMA LedgerQuiet ==
    ASSUME UNCHANGED books
    PROVE  UNCHANGED Ledger!book
BY DEF books, Ledger!book

\* The meter is not in the ledger.
LEMMA LedgerDeliver ==
    ASSUME BooksInv, NEW x \in DOMAIN sessions, Deliver(x)
    PROVE  UNCHANGED Ledger!book
<1>1. /\ DOMAIN sessions' = DOMAIN sessions
      /\ \A y \in DOMAIN sessions : /\ sessions'[y].order = sessions[y].order
                                    /\ sessions'[y].pile = sessions[y].pile
                                    /\ sessions'[y].state = sessions[y].state
  BY DEF Deliver, Session
<1>2. Meters' = Meters
  BY <1>1 DEF Meters
<1> QED
  BY <1>2 DEF Deliver, Ledger!book, Meters

\* startCharging is Open of the ledger.
LEMMA LedgerOpen ==
    ASSUME BooksInv, NEW o, NEW row, NEW p, BeginCharging(o, row, p)
    PROVE  Ledger!Next
<1>1. PICK x \in NextId(sessions, SessionIds) :
          sessions' = Insert(sessions, x, Session(o, p, "ACTIVE", 0, None))
  BY DEF BeginCharging
<1>2. x \in SessionIds /\ x \notin DOMAIN sessions
  BY <1>1 DEF NextId
<1>3. o \in OrderIds /\ p \in Piles
  BY DEF BeginCharging, BooksInv, RowsLinked
<1>4. Meters' = Ledger!With(Meters, x, [order |-> o, pile |-> p, state |-> "ACTIVE"])
  BY <1>1, <1>2 DEF Insert, Session, Meters, Ledger!With
<1>5. BillLedger' = BillLedger /\ Counts' = Counts
  BY DEF BeginCharging, BillLedger, Counts
<1>6. Ledger!Open(x, o, p)
  BY <1>2, <1>4, <1>5 DEF Ledger!Open, Meters, BillLedger, Counts
<1> QED
  BY <1>2, <1>3, <1>6 DEF Ledger!Next

\* closeAndBill is Issue of the ledger.
LEMMA LedgerIssue ==
    ASSUME BooksInv, NEW x \in DOMAIN sessions, NEW ended \in {"CLOSED", "ABORTED"},
           NEW given, NEW billed, NEW reason, Issues(x, ended, given, billed, reason)
    PROVE  Ledger!Next
<1> DEFINE o == sessions[x].order
           p == sessions[x].pile
<1>1. sessions[x].state = "ACTIVE" /\ o \notin DOMAIN details
  BY DEF Issues, Billed, BooksInv, ClosedSessionBilled
<1>2. Meters' = [Meters EXCEPT ![x] = [order |-> o, pile |-> p, state |-> ended]]
  BY DEF Issues, Session, Meters
<1>3. BillLedger' = Ledger!With(BillLedger, o, x)
  BY <1>1 DEF Issues, Insert, BillLedger, Ledger!With
<1>4. Counts' = [Counts EXCEPT ![p] = @ + 1]
  BY DEF Issues, BooksInv, RowsLinked, Counts
<1>5. Meters[x].order = o /\ Meters[x].pile = p /\ Meters[x].state = "ACTIVE"
  BY <1>1 DEF Meters
<1>6. Ledger!Issue(x, ended)
  BY <1>1, <1>2, <1>3, <1>4, <1>5 DEF Ledger!Issue, Meters, BillLedger, Counts
<1> QED
  BY <1>6 DEF Ledger!Next

\* Whatever the handlers do to each other, the tables are the books of
\* BillingLedger: sessions are opened, and each ends by being billed once.
THEOREM LedgerRefined == Spec => LedgerHolds
<1>1. BooksInv /\ [Next]_vars => [Ledger!Next]_Ledger!book
  <2> SUFFICES ASSUME BooksInv, [Next]_vars
               PROVE  [Ledger!Next]_Ledger!book
    OBVIOUS
  <2>1. CASE OrdersGrow /\ UNCHANGED books
    BY <2>1, LedgerQuiet
  <2>2. CASE \E o, row, p : BeginCharging(o, row, p)
    BY <2>2, LedgerOpen
  <2>3. CASE \E x \in DOMAIN sessions, ended \in {"CLOSED", "ABORTED"} :
                \E given, billed, reason : Issues(x, ended, given, billed, reason)
    BY <2>3, LedgerIssue
  <2>4. CASE \E x \in DOMAIN sessions : Deliver(x)
    BY <2>4, LedgerDeliver
  <2> QED
    BY <2>1, <2>2, <2>3, <2>4, StepKinds
<1> QED
  BY <1>1, LedgerInit, BooksHold, PTL DEF Spec, LedgerHolds, Ledger!Spec
=============================================================================
