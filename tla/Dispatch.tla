------------------------------ MODULE Dispatch ------------------------------
(***************************************************************************)
(* DispatchService: take a snapshot, let the scheduler plan on it, apply   *)
(* the plan one assignment at a time.  The read half of an assignment and  *)
(* its transaction are two steps, and nothing in the transaction repeats   *)
(* the checks of the read.                                                 *)
(***************************************************************************)
EXTENDS Billing

-----------------------------------------------------------------------------
(* autoCompleteCharging: bill every charging order that has received what   *)
(* it asked for; a failure to bill one is caught and the loop goes on.      *)

AutoComplete == <<[op |-> "autoComplete"]>>

FullyCharged(o) ==
    /\ orders[o].pile # None
    /\ ActiveSessions(o) # {}
    /\ sessions[Min(ActiveSessions(o))].delivered >= orders[o].amount

Due == {o \in OrdersIn({"CHARGING"}) : FullyCharged(o)}

(* Mutant of CompletionOf: the pile is not freed. *)
CompletionKeepsPile(o) ==
    [CloseAndBill(o, "CHARGE_COMPLETE", "FINISHED", "CHARGING") EXCEPT !.swallow = TRUE]

CompletionOf(o) ==
    [CloseAndBill(o, "CHARGE_COMPLETE", "FINISHED", "IDLE") EXCEPT
        !.swallow = TRUE,
        !.after = RefreshPile(orders[o].pile) \o RefreshMode(orders[o].mode)]

Completions == [i \in 1..Cardinality(Due) |-> CompletionOf(ById(Due)[i])]

AutoCompleteCharging(s) ==
    /\ At(s, "autoComplete")
    /\ Goto(s, Completions)
    /\ UNCHANGED <<tables, redis>>

-----------------------------------------------------------------------------
(* Snapshots for the scheduler *)

Candidate(o) == [order |-> o, amount |-> orders[o].amount, number |-> orders[o].no.number]
Candidates(seq) == [i \in DOMAIN seq |-> Candidate(seq[i])]

WaitingOrders(modes) == Candidates(ById({o \in OrdersIn({"WAITING"}) : orders[o].mode \in modes}))
AssignedOrders(p) == Candidates(QueuedOn(p))
AssignedOrdersByMode(mode, excluded) ==
    Candidates(ById({o \in OrdersIn({"IN_PILE_QUEUE"}) :
                        orders[o].mode = mode /\ orders[o].pile \notin excluded \cup {None}}))

(* pileQueues: the piles on offer, and the energy queued on each. *)
OfferedPiles(modes, excluded) ==
    {p \in Piles \ excluded : /\ piles[p].phys = "ON"
                              /\ piles[p].work # "FAULT"
                              /\ PileType[p] \in modes}
QueuedEnergy(statuses) ==
    [p \in Piles |-> SumFunction([o \in OnPile(p, statuses) |-> orders[o].amount])]

Occupying == {"CHARGING", "IN_PILE_QUEUE"}

-----------------------------------------------------------------------------
(* applyAssignments *)

(* "applied" counts the assignments made to each pile in this batch,        *)
(* "started" is autoStartedPiles, "touched" the piles to refresh at the end. *)
(* Mutant of Remaining: the batch ends without its refreshes. *)
RemainingUnrefreshed(step) == IF step.plan = <<>> THEN <<>> ELSE <<step>>

Remaining(step) == IF step.plan = <<>> THEN RefreshPiles(step.touched) ELSE <<step>>

ApplyAssignments(plan, mode, movable) ==
    Remaining([op |-> "apply", plan |-> plan, mode |-> mode, movable |-> movable,
               applied |-> [p \in Piles |-> 0], started |-> {}, touched |-> {}])

(* Mutant of HasRoom: the capacity off by one. *)
HasRoomForOneMore(step, o, p) ==
    Cardinality(OnPile(p, Occupying) \ ({o} \cup step.movable)) + step.applied[p]
        <= ChargingQueueLen

(* The queue, less the orders the batch may move, has room beside what the  *)
(* batch already put there.                                                 *)
HasRoom(step, o, p) ==
    Cardinality(OnPile(p, Occupying) \ ({o} \cup step.movable)) + step.applied[p]
        < ChargingQueueLen

(* Mutant of CanPlace: only waiting orders are placed. *)
CanPlaceWaiting(step, o, p) ==
    /\ o \in OrdersIn({"WAITING"})
    /\ p \in Piles
    /\ piles[p].phys = "ON"
    /\ piles[p].work # "FAULT"
    /\ step.mode \in {None, PileType[p]}
    /\ HasRoom(step, o, p)

(* The checks: the order is there and has not started or ended, the pile is *)
(* there, works, is of the batch's type and has room.                       *)
CanPlace(step, o, p) ==
    /\ o \in DOMAIN orders /\ orders[o].status \notin {"CHARGING"} \cup Terminal
    /\ p \in Piles
    /\ piles[p].phys = "ON"
    /\ piles[p].work # "FAULT"
    /\ step.mode \in {None, PileType[p]}
    /\ HasRoom(step, o, p)

(* Mutant of AutoStarts: the pile may be charging already. *)
AutoStartsBusy(step, p) == p \notin step.started

(* autoStart: the pile is idle, and nothing was started there in this batch. *)
AutoStarts(step, p) == piles[p].work = "IDLE" /\ p \notin step.started

ReadAssignment(s) ==
    /\ At(s, "apply")
    /\ LET step == Head(todo[s])
           next == Head(step.plan)
           rest == [step EXCEPT !.plan = Tail(@)]
       IN  IF CanPlace(step, next.order, next.pile)
           THEN Goto(s, <<[op |-> "assign", order |-> next.order, pile |-> next.pile,
                           autoStart |-> AutoStarts(step, next.pile),
                           from |-> orders[next.order].pile, rest |-> rest]>>)
           ELSE Goto(s, Remaining(rest))
    /\ UNCHANGED <<tables, redis>>

(* An order enters the line when it is written.  The code stamps it with the *)
(* moment its batch began, plus its index: two batches at once may therefore *)
(* order the orders they queue at one pile differently from their writes.    *)
Assign(s) ==
    /\ At(s, "assign")
    /\ LET step == Head(todo[s])
           o == step.order
           p == step.pile
           rest == [step.rest EXCEPT
                        !.applied[p] = @ + 1,
                        !.started = IF step.autoStart THEN @ \cup {p} ELSE @,
                        !.touched = @ \cup ({p, step.from} \ {None})]
       IN  /\ \/ /\ step.autoStart
                 /\ BeginCharging(o, [orders[o] EXCEPT !.status = "CHARGING", !.pile = p], p)
              \/ /\ ~step.autoStart
                 /\ EnterLine(o, [orders[o] EXCEPT !.status = "IN_PILE_QUEUE", !.pile = p])
                 /\ UNCHANGED <<sessions, details, piles, totals>>
           /\ Goto(s, Remaining(rest))
    /\ UNCHANGED redis

-----------------------------------------------------------------------------
(* triggerBasic *)

TriggerBasic(mode) == AutoComplete \o <<[op |-> "basic", mode |-> mode]>>

PlanBasic(s) ==
    /\ At(s, "basic")
    /\ LET mode == Head(todo[s]).mode
           plan == ShortestDispatch(WaitingOrders({mode}), QueuedEnergy(Occupying),
                                    OfferedPiles({mode}, {}))
       IN  Goto(s, ApplyAssignments(plan, mode, {}) \o RefreshMode(mode))
    /\ UNCHANGED <<tables, redis>>

-----------------------------------------------------------------------------
(* triggerFaultReschedule: the queue of the pile (PRIORITY), or it and the  *)
(* queues of the other piles of its type (TIME_ORDER).                      *)

FaultReschedule(p, strategy) ==
    Locked(<<"fault", p>>, <<[op |-> "fault", pile |-> p, strategy |-> strategy]>>)

PlanFault(s) ==
    /\ At(s, "fault")
    /\ LET p == Head(todo[s]).pile
           mode == PileType[p]
           affected == AssignedOrders(p)
           all == affected \o AssignedOrdersByMode(mode, {p})
           offered == OfferedPiles({mode}, {p})
           apply(plan, moved) ==
               ApplyAssignments(plan, mode, {moved[i].order : i \in DOMAIN moved})
       IN  Goto(s, (IF Head(todo[s]).strategy = "TIME_ORDER"
                    THEN apply(TimeOrderDispatch(all, QueuedEnergy({"CHARGING"}), offered), all)
                    ELSE apply(ShortestDispatch(affected, QueuedEnergy(Occupying), offered), affected))
                   \o RefreshPile(p))
    /\ UNCHANGED <<tables, redis>>

(* triggerRecoveryReschedule: every queue of the type, the pile included. *)
RecoveryReschedule(p) ==
    Locked(<<"recovery", p>>, <<[op |-> "recovery", pile |-> p]>>)

PlanRecovery(s) ==
    /\ At(s, "recovery")
    /\ LET mode == PileType[Head(todo[s]).pile]
           all == AssignedOrdersByMode(mode, {})
           plan == TimeOrderDispatch(all, QueuedEnergy({"CHARGING"}), OfferedPiles({mode}, {}))
       IN  Goto(s, ApplyAssignments(plan, mode, {all[i].order : i \in DOMAIN all}))
    /\ UNCHANGED <<tables, redis>>

-----------------------------------------------------------------------------
(* wakeIdlePiles: start the first queued order of every idle pile, under a  *)
(* lock of the pile; the snapshot is not read again under the lock.         *)

WakeCall(p) ==
    LockStep(<<"wake", p>>, <<[op |-> "wake", order |-> Head(QueuedOn(p)), pile |-> p]>>)

(* Mutant of Wakeable: the pile may be charging already. *)
WakeableBusy(p) == piles[p].phys = "ON" /\ QueuedOn(p) # <<>>

Wakeable(p) == piles[p].phys = "ON" /\ piles[p].work = "IDLE" /\ QueuedOn(p) # <<>>

PlanWake(s) ==
    /\ At(s, "wakeIdlePiles")
    /\ LET idle == {p \in Piles : Wakeable(p)}
       IN  Goto(s, [i \in 1..Cardinality(idle) |-> WakeCall(ById(idle)[i])])
    /\ UNCHANGED <<tables, redis>>

Wake(s) ==
    /\ At(s, "wake")
    /\ LET step == Head(todo[s])
       IN  /\ BeginCharging(step.order, [orders[step.order] EXCEPT !.status = "CHARGING"], step.pile)
           /\ Goto(s, RefreshPile(step.pile))
    /\ UNCHANGED redis

-----------------------------------------------------------------------------
(* The endpoints of DispatchController *)

BasicAll(s) ==
    /\ Idle(s)
    /\ Begin(s, Locked(<<"basic">>, AutoComplete \o <<[op |-> "wakeIdlePiles"]>>
                                    \o TriggerBasic("FAST") \o TriggerBasic("SLOW")))
    /\ UNCHANGED <<tables, redis>>

Basic(s, mode) ==
    /\ Idle(s)
    /\ Begin(s, TriggerBasic(mode))
    /\ UNCHANGED <<tables, redis>>

Reschedule(s, p, strategy) ==
    /\ Idle(s)
    /\ Begin(s, FaultReschedule(p, strategy))
    /\ UNCHANGED <<tables, redis>>

FirstOf(seq, n) == SubSeq(seq, 1, Min({n, Len(seq)}))

SingleOptimization(s, mode, spots) ==
    /\ Idle(s)
    /\ LET plan == ShortestDispatch(FirstOf(WaitingOrders({mode}), spots),
                                    QueuedEnergy(Occupying), OfferedPiles({mode}, {}))
       IN  plan # <<>> /\ Begin(s, ApplyAssignments(plan, mode, {}) \o RefreshMode(mode))
    /\ UNCHANGED <<tables, redis>>

(* Ignores the charge mode: any order may be planned on any pile. *)
BatchOptimization(s, spots) ==
    /\ Idle(s)
    /\ LET plan == BatchDispatch(FirstOf(WaitingOrders(Modes), spots),
                                 QueuedEnergy(Occupying), OfferedPiles(Modes, {}))
       IN  plan # <<>> /\ Begin(s, ApplyAssignments(plan, None, {}) \o RefreshAll)
    /\ UNCHANGED <<tables, redis>>

ServeDispatch(s) ==
    \/ AutoCompleteCharging(s) \/ PlanBasic(s) \/ PlanFault(s) \/ PlanRecovery(s)
    \/ PlanWake(s) \/ Wake(s) \/ ReadAssignment(s) \/ Assign(s)
=============================================================================
