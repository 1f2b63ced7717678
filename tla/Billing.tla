------------------------------- MODULE Billing -------------------------------
(***************************************************************************)
(* BillingService.closeAndBill: one read of the order with its detail and  *)
(* sessions, then one transaction that closes the session, ends the order, *)
(* frees (or faults) the pile, adds to its totals and creates the detail.  *)
(* Money is left out: the fees are functions of the times and the amount   *)
(* that are fixed here.                                                    *)
(***************************************************************************)
EXTENDS StationData

(***************************************************************************)
(* A call of closeAndBill.  "swallow" is set where the caller catches what *)
(* it throws and goes on; "after" is what the caller does only when it     *)
(* returns.                                                                *)
(***************************************************************************)
CloseAndBill(o, reason, target, work) ==
    [op |-> "closeAndBill", order |-> o, reason |-> reason, target |-> target,
     work |-> work, swallow |-> FALSE, after |-> <<>>]

(* Mutant of Fail: what failed is tried again, for ever. *)
FailAndRetry(s) == Goto(s, <<Head(todo[s])>>)

Fail(s) == IF Head(todo[s]).swallow THEN Goto(s, <<>>) ELSE Throw(s)

(* actualAmount: what was delivered, at most what was asked for. *)
ActualAmount(o, x) == Min({orders[o].amount, sessions[x].delivered})

(* Mutant of PreviousAmount: the session being billed is not left out. *)
PreviousAmountWithOwn(o, x) ==
    SumFunction([y \in {y \in DOMAIN sessions : sessions[y].order = o} |-> sessions[y].delivered])

(* previousAmount: what earlier, already closed sessions of the order gave. *)
PreviousAmount(o, x) ==
    LET earlier == {y \in DOMAIN sessions \ {x} : /\ sessions[y].order = o
                                                  /\ sessions[y].state # "ACTIVE"}
    IN  SumFunction([y \in earlier |-> sessions[y].delivered])

ReadForBill(s) ==
    /\ At(s, "closeAndBill")
    /\ LET step == Head(todo[s])
           o == step.order
       IN  \/ o \in DOMAIN details /\ Goto(s, step.after)
           \/ o \notin DOMAIN details /\ ActiveSessions(o) = {} /\ Fail(s)
           \/ /\ o \notin DOMAIN details
              /\ ActiveSessions(o) # {}
              /\ LET x == Min(ActiveSessions(o))
                 IN  Goto(s, <<[op |-> "settle", session |-> x,
                                amount |-> ActualAmount(o, x),
                                previous |-> PreviousAmount(o, x),
                                mode |-> orders[o].mode, reason |-> step.reason,
                                target |-> step.target, work |-> step.work,
                                swallow |-> step.swallow, after |-> step.after]>>)
    /\ UNCHANGED <<tables, redis>>

(* Mutant of Ended: only an aborted session is ended. *)
EndedIfAborted(target) == IF target = "ABORTED" THEN "ABORTED" ELSE "ACTIVE"

(* sessionStatus of a session whose order ends as target. *)
Ended(target) == IF target = "ABORTED" THEN "ABORTED" ELSE "CLOSED"

(***************************************************************************)
(* The transaction, on the session's own order and pile.                   *)
(* billingDetail.create comes last and rolls everything back when the      *)
(* order or the session is billed already.                                 *)
(***************************************************************************)
(* Mutant of Billed: the schema without its unique columns. *)
NeverBilled(o, x) == FALSE

Billed(o, x) == o \in DOMAIN details \/ \E other \in DOMAIN details : details[other].session = x

Settle(s) ==
    /\ At(s, "settle")
    /\ LET step == Head(todo[s])
           x == step.session
           o == sessions[x].order
           p == sessions[x].pile
       IN  /\ x \in DOMAIN sessions
           /\ \/ Billed(o, x) /\ Fail(s) /\ UNCHANGED tables
              \/ /\ ~Billed(o, x)
                 /\ sessions' = [sessions EXCEPT
                        ![x] = Session(o, p, Ended(step.target), step.amount, step.reason)]
                 /\ LeaveLine(o, [orders[o] EXCEPT !.status = step.target])
                 /\ piles' = [piles EXCEPT ![p].work = step.work]
                 /\ totals' = [totals EXCEPT
                        ![p] = [count |-> @.count + 1, amount |-> @.amount + step.amount]]
                 /\ details' = Insert(details, o,
                        [session |-> x, amount |-> step.previous + step.amount])
                 /\ Goto(s, RefreshMode(step.mode) \o RefreshPile(p) \o step.after)
    /\ UNCHANGED redis
=============================================================================
