------------------------------ MODULE Station ------------------------------
(***************************************************************************)
(* The whole server: requests arrive at free slots, slots run their        *)
(* handlers step by step, and around them time passes, Redis expires locks *)
(* or goes away, and the process restarts.                                 *)
(***************************************************************************)
EXTENDS Pile

CONSTANTS Ops,           \* the endpoints called in a run
          Wishes,        \* the <<mode, amount>> pairs drivers submit
          Spots,         \* spotsCount values of the optimization endpoints
          UiDiscipline,  \* only the calls the pages offer a button for: of the
                         \* administrator, and no cancel of a charging order
          Mishaps        \* what may happen: "restart", "expiry", "redisDown"

Endpoints == {"submit", "modifyMode", "modifyAmount", "cancel", "start", "stop",
              "queueStatus", "powerOn", "powerOff", "fault", "recover",
              "reschedulePriority", "rescheduleTimeOrder", "basicAll", "basic",
              "single", "batch"}

ASSUME OpsAssumption == Ops \subseteq Endpoints
ASSUME WishesAssumption == Wishes \subseteq Modes \X Amounts
ASSUME SpotsAssumption == Spots \subseteq Nat
ASSUME SwitchesAssumption == {UiDiscipline, TrackCache} \subseteq BOOLEAN
ASSUME MishapsAssumption == Mishaps \subseteq {"restart", "expiry", "redisDown"}

DriverRequest(s) ==
    \/ "submit" \in Ops /\ \E u \in Users, w \in Wishes : SubmitRequest(s, u, w[1], w[2])
    \/ "modifyMode" \in Ops /\ \E o \in DOMAIN orders, mode \in Modes : ModifyMode(s, o, mode)
    \/ "modifyAmount" \in Ops /\ \E o \in DOMAIN orders, amount \in Amounts : ModifyAmount(s, o, amount)
    \/ "cancel" \in Ops /\ \E o \in DOMAIN orders : CancelQueued(s, o)
    \/ /\ "cancel" \in Ops
       /\ ~UiDiscipline
       /\ \E o \in DOMAIN orders, reason \in {"USER_STOP", "USER_CANCEL", None} :
             CancelCharging(s, o, reason)
    \/ "start" \in Ops /\ \E o \in DOMAIN orders : Start(s, o)
    \/ "stop" \in Ops /\ \E o \in DOMAIN orders : Stop(s, o)
    \/ "queueStatus" \in Ops /\ QueueStatus(s)

(* MonitorView offers fault reporting on a working pile, recovery on a      *)
(* faulty one and rescheduling while its queue is not empty; AdminLayout    *)
(* offers the opposite of the power state it shows.                         *)
Offered(p, op) ==
    UiDiscipline => CASE op = "powerOn" -> piles[p].phys = "OFF"
                      [] op = "powerOff" -> piles[p].phys = "ON"
                      [] op = "fault" -> piles[p].phys = "ON" /\ piles[p].work # "FAULT"
                      [] op = "recover" -> piles[p].work = "FAULT"
                      [] op = "reschedule" -> piles[p].work = "FAULT" /\ QueuedOn(p) # <<>>

AdminRequest(s) ==
    \/ \E p \in Piles :
          \/ "powerOn" \in Ops /\ Offered(p, "powerOn") /\ PowerOn(s, p)
          \/ "powerOff" \in Ops /\ Offered(p, "powerOff") /\ PowerOff(s, p)
          \/ "fault" \in Ops /\ Offered(p, "fault") /\ ReportFault(s, p)
          \/ "recover" \in Ops /\ Offered(p, "recover") /\ Recover(s, p)
          \/ "reschedulePriority" \in Ops /\ Offered(p, "reschedule") /\ Reschedule(s, p, "PRIORITY")
          \/ "rescheduleTimeOrder" \in Ops /\ Offered(p, "reschedule") /\ Reschedule(s, p, "TIME_ORDER")
    \/ "basicAll" \in Ops /\ BasicAll(s)
    \/ "basic" \in Ops /\ \E mode \in {w[1] : w \in Wishes} : Basic(s, mode)
    \/ "single" \in Ops /\ \E mode \in Modes, n \in Spots : SingleOptimization(s, mode, n)
    \/ "batch" \in Ops /\ \E n \in Spots : BatchOptimization(s, n)

Serve(s) ==
    \/ ReadForBill(s) \/ Settle(s)
    \/ ServeDispatch(s) \/ ServeCharging(s) \/ ServePile(s)
    \/ Lock(s) \/ Unlock(s) \/ ReadPayload(s) \/ SetJson(s)

-----------------------------------------------------------------------------
(* Around the handlers *)

(* Time: an active session receives more energy.  Bound: up to the amount   *)
(* asked for; every use of the meter stops there.                           *)
Deliver(x) ==
    /\ sessions[x].state = "ACTIVE"
    /\ sessions[x].delivered < orders[sessions[x].order].amount
    /\ sessions' = [sessions EXCEPT
            ![x] = Session(@.order, @.pile, "ACTIVE", @.delivered + 1, None)]
    /\ UNCHANGED <<orders, line, details, piles, totals, redis, todo>>

(* The TTL of a lock runs out, its holder may still be at work. *)
Expire(key) ==
    /\ "expiry" \in Mishaps
    /\ key \in locks
    /\ locks' = locks \ {key}
    /\ UNCHANGED <<tables, redisUp, cache, todo>>

(* The process dies and starts again: the handlers are gone, the tables and *)
(* the Redis keys stay.                                                     *)
Restart ==
    /\ "restart" \in Mishaps
    /\ ~Quiet
    /\ todo' = [s \in Slots |-> <<>>]
    /\ redisUp' = TRUE
    /\ UNCHANGED <<tables, locks, cache>>

(* markUnavailable: one failed command and the server does without Redis.   *)
RedisDown ==
    /\ "redisDown" \in Mishaps
    /\ redisUp
    /\ redisUp' = FALSE
    /\ UNCHANGED <<tables, locks, cache, todo>>

Environment ==
    \/ \E x \in DOMAIN sessions : Deliver(x)
    \/ \E key \in locks : Expire(key)
    \/ Restart
    \/ RedisDown

Next ==
    \/ \E s \in Slots : DriverRequest(s) \/ AdminRequest(s) \/ Serve(s)
    \/ Environment

Spec == Init /\ [][Next]_vars
=============================================================================
