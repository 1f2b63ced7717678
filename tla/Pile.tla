-------------------------------- MODULE Pile --------------------------------
(***************************************************************************)
(* PileService: what an administrator does to a pile.                      *)
(***************************************************************************)
EXTENDS Charging

(* powerOn and powerOff keep FAULT and write IDLE over anything else, as it *)
(* was when the handler read the pile.                                      *)
WorkAfterSwitch(p) == IF piles[p].work = "FAULT" THEN "FAULT" ELSE "IDLE"

SetPower(s) ==
    /\ At(s, "setPower")
    /\ LET step == Head(todo[s])
       IN  piles' = [piles EXCEPT ![step.pile].phys = step.phys, ![step.pile].work = step.work]
    /\ Goto(s, <<>>)
    /\ UNCHANGED <<orders, line, sessions, details, totals, redis>>

PowerOn(s, p) ==
    /\ Idle(s)
    /\ LET work == WorkAfterSwitch(p)
       IN  Begin(s, <<[op |-> "setPower", pile |-> p, phys |-> "ON", work |-> work]>>
                    \o RefreshPile(p)
                    \o (IF work = "FAULT" THEN <<>> ELSE TriggerBasic(PileType[p])))
    /\ UNCHANGED <<tables, redis>>

PowerOff(s, p) ==
    /\ Idle(s)
    /\ OnPile(p, {"CHARGING"}) = {}
    /\ Begin(s, <<[op |-> "setPower", pile |-> p, phys |-> "OFF", work |-> WorkAfterSwitch(p)]>>
                \o RefreshPile(p))
    /\ UNCHANGED <<tables, redis>>

-----------------------------------------------------------------------------
(* reportFault: bill and abort the charging order (findFirst names no order *)
(* among several), give what it did not receive to a continuation order     *)
(* under the old queueNo, mark the pile, move its queue.                    *)

ReportFault(s, p) ==
    /\ Idle(s)
    /\ \/ /\ OnPile(p, {"CHARGING"}) = {}
          /\ Begin(s, <<[op |-> "setFault", pile |-> p, continued |-> FALSE]>>)
       \/ \E o \in OnPile(p, {"CHARGING"}) :
             /\ RowToSpare /\ orders[o].no.suffixes < MaxSuffixes
             /\ Begin(s, <<CloseAndBill(o, "FAULT", "ABORTED", "FAULT"),
                           [op |-> "remaining", pile |-> p, order |-> o, active |-> orders[o]]>>)
    /\ UNCHANGED <<tables, redis>>

(* Mutant of Uncovered: what was asked for, the bill not subtracted. *)
UncoveredAll(step) == step.active.amount

(* Math.round(100 * amount) / 100: to the nearest grain, half a grain up.    *)
Rounded(amount) == Grain * ((2 * amount + Grain) \div (2 * Grain))

(* What the detail does not cover; all of it when there is no detail.  The  *)
(* bill is finer than what continues it: the remainder is rounded, and less *)
(* than half a grain is not continued.                                      *)
Uncovered(step) ==
    LET covered == IF step.order \in DOMAIN details THEN details[step.order].amount ELSE 0
    IN  Rounded(step.active.amount - covered)

Remainder(s) ==
    /\ At(s, "remaining")
    /\ LET step == Head(todo[s])
           fault(continued) == <<[op |-> "setFault", pile |-> step.pile, continued |-> continued]>>
           rename == [op |-> "rename", order |-> step.order, no |-> step.active.no]
           continue == [op |-> "continue", active |-> step.active, amount |-> Uncovered(step)]
       IN  Goto(s, IF Uncovered(step) > 0
                   THEN <<rename, continue>> \o fault(TRUE)
                   ELSE fault(FALSE))
    /\ UNCHANGED <<tables, redis>>

Rename(s) ==
    /\ At(s, "rename")
    /\ LET step == Head(todo[s])
           renamed == [step.no EXCEPT !.suffixes = @ + 1]
       IN  \/ QueueNoTaken(renamed, step.order) /\ Throw(s) /\ UNCHANGED orders
           \/ /\ ~QueueNoTaken(renamed, step.order)
              /\ orders' = [orders EXCEPT ![step.order].no = renamed]
              /\ Goto(s, <<>>)
    /\ UNCHANGED <<line, sessions, details, piles, totals, redis>>

Continue(s) ==
    /\ At(s, "continue")
    /\ LET step == Head(todo[s])
           old == step.active
       IN  \/ QueueNoTaken(old.no, None) /\ Throw(s) /\ UNCHANGED orders
           \/ /\ ~QueueNoTaken(old.no, None)
              /\ NewOrder(old.user, old.mode, step.amount, old.no)
              /\ Goto(s, <<>>)
    /\ UNCHANGED <<line, sessions, details, piles, totals, redis>>

SetFault(s) ==
    /\ At(s, "setFault")
    /\ LET step == Head(todo[s])
       IN  /\ piles' = [piles EXCEPT ![step.pile].work = "FAULT"]
           /\ Goto(s, <<[op |-> "affected", pile |-> step.pile, continued |-> step.continued]>>)
    /\ UNCHANGED <<orders, line, sessions, details, totals, redis>>

Affected(s) ==
    /\ At(s, "affected")
    /\ LET step == Head(todo[s])
           p == step.pile
           queued == QueuedOn(p) # <<>>
       IN  Goto(s, RefreshPile(p)
                   \o (IF queued THEN FaultReschedule(p, "PRIORITY") ELSE <<>>)
                   \o (IF queued \/ step.continued THEN TriggerBasic(PileType[p]) ELSE <<>>))
    /\ UNCHANGED <<tables, redis>>

-----------------------------------------------------------------------------
(* recover writes IDLE before it reads anything. *)
Recover(s, p) ==
    /\ Idle(s)
    /\ piles' = [piles EXCEPT ![p].work = "IDLE"]
    /\ Begin(s, RefreshPile(p)
                \o (IF piles[p].phys = "ON"
                    THEN RecoveryReschedule(p) \o TriggerBasic(PileType[p])
                    ELSE <<>>))
    /\ UNCHANGED <<orders, line, sessions, details, totals, redis>>

ServePile(s) ==
    \/ SetPower(s) \/ Remainder(s) \/ Rename(s) \/ Continue(s) \/ SetFault(s) \/ Affected(s)
=============================================================================
