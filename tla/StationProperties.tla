-------------------------- MODULE StationProperties --------------------------
(***************************************************************************)
(* What the server promises, as invariants, action properties and liveness *)
(* properties of Station.                                                  *)
(***************************************************************************)
EXTENDS Station

\* The tables hold rows of the declared shapes, and the line lists each
\* IN_PILE_QUEUE order once (schema.prisma, and the writes of status).
TypeOK ==
    /\ \A o \in DOMAIN orders : o \in OrderIds /\ orders[o] \in OrderRow
    /\ \A x \in DOMAIN sessions : x \in SessionIds /\ sessions[x] \in SessionRow
    /\ \A o \in DOMAIN details : o \in DOMAIN orders /\ details[o] \in DetailRow
    /\ piles \in [Piles -> PileRow]
    /\ totals \in [Piles -> TotalsRow]
    /\ ToSet(line) = OrdersIn({"IN_PILE_QUEUE"})
    /\ Cardinality(ToSet(line)) = Len(line)
    /\ redisUp \in BOOLEAN
    /\ DOMAIN cache = CacheKeys
    /\ DOMAIN todo = Slots

-----------------------------------------------------------------------------
(* Billing *)

\* A session is closed or aborted exactly when it is the session of a bill, and
\* the bill is its own order's: closeAndBill writes both or neither, whoever
\* interleaves with it and wherever the process dies.
ClosedSessionBilled ==
    /\ \A x \in DOMAIN sessions :
          sessions[x].state # "ACTIVE" => /\ sessions[x].order \in DOMAIN details
                                          /\ details[sessions[x].order].session = x
    /\ \A o \in DOMAIN details :
          LET x == details[o].session
          IN  x \in DOMAIN sessions /\ sessions[x].order = o /\ sessions[x].state # "ACTIVE"

BillsOf(p) == {o \in DOMAIN details : sessions[details[o].session].pile = p}

\* The pile list counts what the reports count: totalChargeCount of a pile is the
\* number of bills issued for sessions on it.
PileCountsMatchBills == \A p \in Piles : totals[p].count = Cardinality(BillsOf(p))

\* What makes the two provable: sessions name an order and a pile that exist, and
\* every pile has its counter (the foreign keys of schema.prisma).
RowsLinked ==
    /\ DOMAIN orders \subseteq OrderIds
    /\ DOMAIN sessions \subseteq SessionIds
    /\ \A x \in DOMAIN sessions : sessions[x].order \in DOMAIN orders /\ sessions[x].pile \in Piles
    /\ DOMAIN totals = Piles

\* The books of the station: the inductive invariant behind the billing theorems.
BooksInv == RowsLinked /\ ClosedSessionBilled /\ PileCountsMatchBills

\* And it adds up to the same energy, although the pile is credited with the
\* session's amount and the bill with all the sessions of the order.
PileEnergyMatchesBills ==
    \A p \in Piles :
        totals[p].amount = SumFunction([o \in BillsOf(p) |-> details[o].amount])

\* A bill, once issued, never changes and is never withdrawn.
BillsFrozen ==
    [][\A o \in DOMAIN details : o \in DOMAIN details' /\ details'[o] = details[o]]_vars

\* The books as BillingLedger describes them, under every interleaving.
Ledger == INSTANCE BillingLedger WITH
    Orders <- OrderIds,
    Sessions <- SessionIds,
    meters <- [x \in DOMAIN sessions |->
        [order |-> sessions[x].order, pile |-> sessions[x].pile, state |-> sessions[x].state]],
    ledger <- [o \in DOMAIN details |-> details[o].session],
    counts <- [p \in Piles |-> totals[p].count]
LedgerHolds == Ledger!Spec

-----------------------------------------------------------------------------
(* The life of an order, while requests are served one at a time *)

\* A driver never has two unfinished orders, a continuation after a fault
\* included (ensureUserCanSubmit, reportFault).  It is what the server's own checks
\* say; scripts/acceptance-test.ts:250-262 expects a driver with an open slow order
\* to be given a fast one beside it, which they refuse.
OneUnfinishedOrder ==
    \A u \in Users : Cardinality({o \in OrdersIn(Open) : orders[o].user = u}) <= 1

ActiveOn(p) == {x \in DOMAIN sessions : sessions[x].pile = p /\ sessions[x].state = "ACTIVE"}

\* The three tables tell the same story of every pile: workingState is CHARGING
\* exactly when one order charges there, and that order, and no other, has an
\* active session there.
PileStoryAgrees ==
    \A p \in Piles :
        LET charging == OnPile(p, {"CHARGING"})
        IN  /\ Cardinality(charging) <= 1
            /\ (piles[p].work = "CHARGING") <=> (charging # {})
            /\ Cardinality(ActiveOn(p)) = Cardinality(charging)
            /\ {sessions[x].order : x \in ActiveOn(p)} = charging

\* FINISHED, CANCELED and ABORTED are final: nothing that read the order before
\* it ended (a plan being applied, a start, a cancellation) brings it back.
TerminalIsFinal ==
    [][\A o \in OrdersIn(Terminal) : orders'[o].status = orders[o].status]_vars

\* The station as the drivers see it: every step of the handlers is a step of
\* OrderLifecycle or changes nothing in it.
Lifecycle == INSTANCE OrderLifecycle WITH
    Orders <- OrderIds,
    status <- [o \in OrderIds |-> IF o \in DOMAIN orders THEN orders[o].status ELSE "ABSENT"],
    place <- [o \in OrderIds |-> IF o \in OrdersIn(Occupying) THEN orders[o].pile ELSE None],
    bills <- DOMAIN details
LifecycleHolds == Lifecycle!Spec

\* After a fault nothing is lost and nothing is charged twice, but for the rounding:
\* an order that takes over the number of one a fault interrupted is of the same
\* driver, and together with the bill of the old one it comes to what the driver
\* had asked for, give or take half a grain (0.005 kWh), however often the order was
\* interrupted before (reportFault).
InterruptedBy(o) == orders[o].status = "ABORTED" /\ orders[o].no.suffixes > 0

AddsUp(billed, continued, asked) == 2 * (billed + continued - asked) \in (-Grain)..Grain

RemainderWithinRounding ==
    [][\A o \in DOMAIN orders' \ DOMAIN orders :
          \A old \in DOMAIN orders :
              /\ InterruptedBy(old)
              /\ orders'[o].no = [orders[old].no EXCEPT !.suffixes = @ - 1]
              => /\ orders'[o].user = orders[old].user
                 /\ AddsUp(details[old].amount, orders'[o].amount, orders[old].amount)]_vars

\* An order the fault of its pile interrupted early, with half a grain or more to
\* go, is continued by a later order of the same driver, once nothing is in
\* progress any more.
RemainderContinued ==
    Quiet => \A o \in DOMAIN details :
        /\ sessions[details[o].session].reason = "FAULT"
        /\ 2 * (orders[o].amount - details[o].amount) >= Grain
        => \E next \in DOMAIN orders :
              /\ next > o
              /\ orders[next].user = orders[o].user
              /\ orders[next].no.number = orders[o].no.number

\* Submissions never overfill the waiting area (ensureWaitingCapacity).  Only
\* what a fault interrupted returns to it without being counted.
WaitingWithinArea ==
    Cardinality(OrdersIn({"WAITING"}))
        <= WaitingAreaSize + Cardinality({o \in DOMAIN orders : InterruptedBy(o)})

-----------------------------------------------------------------------------
(* Pile queues *)

\* The orders at a pile, charging or queued there, are at most
\* CHARGING_QUEUE_LEN (pileQueueCapacity in applyAssignments).
QueueWithinCapacity == \A p \in Piles : Cardinality(OnPile(p, Occupying)) <= ChargingQueueLen

\* Only the order at the head of its pile's queue starts charging there: what start
\* demands of a driver, of every way an order starts ('Only orders at the head of a
\* pile queue can start charging.').
StartsFromHead ==
    [][\A o \in DOMAIN orders :
          orders[o].status # "CHARGING" /\ orders'[o].status = "CHARGING"
          => \A other \in OnPile(orders'[o].pile, {"IN_PILE_QUEUE"}) \ {o} : Precedes(other, o)]_vars

(* An order stands in the queue of p although other piles of its type work, *)
(* and each of them has room.  The planner does not look at the capacity:   *)
(* it may plan the order on a full pile while another has room.             *)
Movable(p) ==
    LET others == OfferedPiles({PileType[p]}, {p})
    IN  /\ QueuedOn(p) # <<>>
        /\ others # {}
        /\ \A q \in others : Cardinality(OnPile(q, Occupying)) < ChargingQueueLen

\* triggerFaultReschedule does not finish with a pile while an order in its queue
\* could be at any of the others: an order stays only where one of them is full.
FaultQueueMoved ==
    \A s \in Slots, p \in Piles :
        At(s, "unlock") /\ Head(todo[s]).key = <<"fault", p>> => ~Movable(p)

\* No two handlers are between lock and unlock of one key (RedisService.lock),
\* as long as each finishes within the TTL.
InSection(s, key) ==
    \E i \in DOMAIN todo[s] : todo[s][i].op = "unlock" /\ todo[s][i].key = key
LockExclusive ==
    \A key \in LockKeys : Cardinality({s \in Slots : InSection(s, key)}) <= 1

-----------------------------------------------------------------------------
(* Cache *)

\* With no request in progress, every key that was ever written to Redis holds
\* what the tables say, as long as no order was placed on a pile of the other mode
\* (batch optimization): autoCompleteCharging refreshes by the order's mode only.
NoMixedPlacement ==
    \A x \in DOMAIN sessions : PileType[sessions[x].pile] = orders[sessions[x].order].mode

CacheMatches ==
    Quiet /\ NoMixedPlacement => \A key \in CacheKeys : cache[key] \in {None, Payload(key)}

-----------------------------------------------------------------------------
(* Liveness.  A slot's handler keeps running (the event loop and the        *)
(* database answer); nobody is obliged to send a request, nor the process   *)
(* to die, nor Redis to drop a lock.                                        *)
Fairness == \A s \in Slots : WF_vars(Serve(s))

FairSpec == Spec /\ Fairness

\* Every handler comes to an end, by finishing or by failing.
HandlersFinish == \A s \in Slots : ~Idle(s) ~> Idle(s)
=============================================================================
