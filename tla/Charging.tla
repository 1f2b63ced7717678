------------------------------ MODULE Charging ------------------------------
(***************************************************************************)
(* ChargingService: what a driver may ask for.  The action that starts a   *)
(* request is the handler's first read with the checks made on it (a       *)
(* request they refuse changes nothing and is no step); the writes follow  *)
(* as steps of the slot, on what was read.                                 *)
(***************************************************************************)
EXTENDS Dispatch

-----------------------------------------------------------------------------
(* submitRequest *)

(* nextQueueNo: one more than the largest number under the mode's letter. *)
NextQueueNo(mode) ==
    LET used == {orders[o].no.number :
                    o \in {o \in OrdersIn(Open \cup Terminal) :
                              orders[o].mode = mode /\ orders[o].no.prefix = mode}}
    IN  [prefix |-> mode, number |-> Max(used \cup {0}) + 1, suffixes |-> 0]

(* Mutant of Unfinished: a driver whose order charges may submit another. *)
UnfinishedNotCharging(u) == {o \in OrdersIn({"WAITING", "IN_PILE_QUEUE"}) : orders[o].user = u}

Unfinished(u) == {o \in OrdersIn(Open) : orders[o].user = u}

(* Mutant of WaitingRoom: off by one. *)
WaitingRoomForOneMore == Cardinality(OrdersIn({"WAITING"})) <= WaitingAreaSize

WaitingRoom == Cardinality(OrdersIn({"WAITING"})) < WaitingAreaSize

(* Bound: every request in progress may still create one order. *)
RowToSpare == Cardinality(DOMAIN orders) + Cardinality(Busy) < MaxOrders

CreateCall(u, mode, amount, attempt) ==
    <<[op |-> "create", user |-> u, mode |-> mode, amount |-> amount,
       attempt |-> attempt, no |-> NextQueueNo(mode)]>>

SubmitRequest(s, u, mode, amount) ==
    /\ Idle(s)
    /\ Unfinished(u) = {}
    /\ WaitingRoom
    /\ RowToSpare
    /\ Begin(s, CreateCall(u, mode, amount, 0))
    /\ UNCHANGED <<tables, redis>>

(* A queueNo that is taken means another attempt, three in all. *)
Retry(s) ==
    /\ At(s, "retry")
    /\ LET step == Head(todo[s])
       IN  Goto(s, CreateCall(step.user, step.mode, step.amount, step.attempt))
    /\ UNCHANGED <<tables, redis>>

NewOrder(u, mode, amount, no) ==
    \E o \in NextId(orders, OrderIds) :
        orders' = Insert(orders, o, [user |-> u, mode |-> mode, amount |-> amount, no |-> no,
                                     status |-> "WAITING", pile |-> None])

Create(s) ==
    /\ At(s, "create")
    /\ LET step == Head(todo[s])
           again == [op |-> "retry", user |-> step.user, mode |-> step.mode,
                     amount |-> step.amount, attempt |-> step.attempt + 1]
       IN  \/ /\ QueueNoTaken(step.no, None)
              /\ IF step.attempt = 2 THEN Throw(s) ELSE Goto(s, <<again>>)
              /\ UNCHANGED orders
           \/ /\ ~QueueNoTaken(step.no, None)
              /\ NewOrder(step.user, step.mode, step.amount, step.no)
              /\ Goto(s, RefreshMode(step.mode) \o AutoComplete)
    /\ UNCHANGED <<line, sessions, details, piles, totals, redis>>

-----------------------------------------------------------------------------
(* modifyMode and modifyAmount: WAITING is checked on the read only.        *)
(* A call that asks for what the order has already changes nothing.         *)

ModifyMode(s, o, mode) ==
    /\ Idle(s)
    /\ o \in OrdersIn({"WAITING"})
    /\ orders[o].mode # mode
    /\ NextQueueNo(mode).number <= MaxNumber
    /\ Begin(s, <<[op |-> "setMode", order |-> o, from |-> orders[o].mode, mode |-> mode,
                   no |-> NextQueueNo(mode)]>>)
    /\ UNCHANGED <<tables, redis>>

SetMode(s) ==
    /\ At(s, "setMode")
    /\ LET step == Head(todo[s])
           o == step.order
       IN  \/ QueueNoTaken(step.no, o) /\ Throw(s) /\ UNCHANGED orders
           \/ /\ ~QueueNoTaken(step.no, o)
              /\ orders' = [orders EXCEPT ![o].mode = step.mode, ![o].no = step.no]
              /\ Goto(s, RefreshMode(step.from) \o RefreshMode(step.mode) \o AutoComplete)
    /\ UNCHANGED <<line, sessions, details, piles, totals, redis>>

ModifyAmount(s, o, amount) ==
    /\ Idle(s)
    /\ o \in OrdersIn({"WAITING"})
    /\ orders[o].amount # amount
    /\ Begin(s, <<[op |-> "setAmount", order |-> o, amount |-> amount]>>)
    /\ UNCHANGED <<tables, redis>>

SetAmount(s) ==
    /\ At(s, "setAmount")
    /\ LET step == Head(todo[s])
       IN  /\ orders' = [orders EXCEPT ![step.order].amount = step.amount]
           /\ Goto(s, RefreshMode(orders[step.order].mode) \o AutoComplete)
    /\ UNCHANGED <<line, sessions, details, piles, totals, redis>>

-----------------------------------------------------------------------------
(* cancel and stop *)

CancelQueued(s, o) ==
    /\ Idle(s)
    /\ o \in OrdersIn({"WAITING", "IN_PILE_QUEUE"})
    /\ LET mode == orders[o].mode
           refresh == IF orders[o].status = "WAITING" THEN RefreshMode(mode)
                      ELSE RefreshPile(orders[o].pile)
       IN  Begin(s, <<[op |-> "setCanceled", order |-> o]>> \o refresh \o TriggerBasic(mode))
    /\ UNCHANGED <<tables, redis>>

SetCanceled(s) ==
    /\ At(s, "setCanceled")
    /\ LET o == Head(todo[s]).order
       IN  LeaveLine(o, [orders[o] EXCEPT !.status = "CANCELED", !.pile = None])
    /\ Goto(s, <<>>)
    /\ UNCHANGED <<sessions, details, piles, totals, redis>>

(* A request body without a reason is recorded as a fault. *)
CancelCharging(s, o, reason) ==
    /\ Idle(s)
    /\ o \in OrdersIn({"CHARGING"})
    /\ LET target == IF reason = "USER_STOP" THEN "FINISHED" ELSE "ABORTED"
           recorded == IF reason = None THEN "FAULT" ELSE reason
       IN  Begin(s, <<CloseAndBill(o, recorded, target, "IDLE")>> \o TriggerBasic(orders[o].mode))
    /\ UNCHANGED <<tables, redis>>

Stop(s, o) ==
    /\ Idle(s)
    /\ o \in OrdersIn({"CHARGING"})
    /\ Begin(s, <<CloseAndBill(o, "USER_STOP", "FINISHED", "IDLE")>> \o TriggerBasic(orders[o].mode))
    /\ UNCHANGED <<tables, redis>>

-----------------------------------------------------------------------------
(* start: order and pile are read before the transaction, the head of the   *)
(* queue inside it, by the pileQueueEnteredAt that was read before.         *)

Precedes(o, other) ==
    \E i, j \in DOMAIN line : i < j /\ line[i] = other /\ line[j] = o

AheadOf(o, p) == {other \in OnPile(p, {"IN_PILE_QUEUE"}) : Precedes(o, other)}

Start(s, o) ==
    /\ Idle(s)
    /\ o \in OrdersIn({"IN_PILE_QUEUE"})
    /\ LET p == orders[o].pile
       IN  /\ p # None
           /\ piles[p].phys = "ON"
           /\ piles[p].work = "IDLE"
           /\ Begin(s, <<[op |-> "start", order |-> o, pile |-> p, ahead |-> AheadOf(o, p)]>>)
    /\ UNCHANGED <<tables, redis>>

(* Still earlier: queued here ahead of the order at the read, and not moved *)
(* behind it since.                                                         *)
Earlier(step) ==
    {other \in step.ahead \cap OnPile(step.pile, {"IN_PILE_QUEUE"}) :
        ~Precedes(other, step.order)}

StartTransaction(s) ==
    /\ At(s, "start")
    /\ LET step == Head(todo[s])
           o == step.order
       IN  \/ Earlier(step) # {} /\ Throw(s) /\ UNCHANGED tables
           \/ /\ Earlier(step) = {}
              /\ BeginCharging(o, [orders[o] EXCEPT !.status = "CHARGING"], step.pile)
              /\ Goto(s, RefreshPile(step.pile))
    /\ UNCHANGED redis

-----------------------------------------------------------------------------
(* queueStatus, and every other read that first completes charged orders    *)
(* (the admin's pile list among them).  Without one due it changes nothing. *)
QueueStatus(s) ==
    /\ Idle(s)
    /\ Due # {}
    /\ Begin(s, Completions)
    /\ UNCHANGED <<tables, redis>>

ServeCharging(s) ==
    \/ Create(s) \/ Retry(s) \/ SetMode(s) \/ SetAmount(s) \/ SetCanceled(s)
    \/ StartTransaction(s)
=============================================================================
