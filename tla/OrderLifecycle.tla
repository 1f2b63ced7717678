--------------------------- MODULE OrderLifecycle ---------------------------
(***************************************************************************)
(* What the station promises a driver, without a word of how: the life of  *)
(* an order from submission to its end, one order charging on a pile at a  *)
(* time, and a bill for exactly the orders whose charging ended.           *)
(***************************************************************************)
CONSTANTS Orders, Piles, None

VARIABLES status, place, bills

lifecycle == <<status, place, bills>>

ChargingAt(p) == {o \in Orders : status[o] = "CHARGING" /\ place[o] = p}

Become(o, st, p) ==
    /\ status' = [status EXCEPT ![o] = st]
    /\ place' = [place EXCEPT ![o] = p]

Init ==
    /\ status = [o \in Orders |-> "ABSENT"]
    /\ place = [o \in Orders |-> None]
    /\ bills = {}

Submit(o) == status[o] = "ABSENT" /\ Become(o, "WAITING", None) /\ UNCHANGED bills

Pending(o) == status[o] \in {"WAITING", "IN_PILE_QUEUE"}

Enqueue(o, p) == Pending(o) /\ Become(o, "IN_PILE_QUEUE", p) /\ UNCHANGED bills

Charge(o, p) ==
    /\ Pending(o)
    /\ ChargingAt(p) = {}
    /\ Become(o, "CHARGING", p)
    /\ UNCHANGED bills

Cancel(o) == Pending(o) /\ Become(o, "CANCELED", None) /\ UNCHANGED bills

End(o, st) == status[o] = "CHARGING" /\ Become(o, st, None) /\ bills' = bills \cup {o}

Next ==
    \E o \in Orders :
        \/ Submit(o) \/ Cancel(o)
        \/ \E p \in Piles : Enqueue(o, p) \/ Charge(o, p)
        \/ \E st \in {"FINISHED", "ABORTED"} : End(o, st)

Spec == Init /\ [][Next]_lifecycle
=============================================================================
