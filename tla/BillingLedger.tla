---------------------------- MODULE BillingLedger ----------------------------
(***************************************************************************)
(* What closeAndBill promises whatever else is going on: a charging        *)
(* session ends by being billed, once, to its own order, and the pile's    *)
(* counter moves with the bill.                                            *)
(***************************************************************************)
EXTENDS Naturals

CONSTANTS Orders, Sessions, Piles

VARIABLES meters,   \* session -> its order, its pile and its state
          ledger,   \* billed order -> the session billed
          counts    \* pile -> bills issued for it

book == <<meters, ledger, counts>>

With(f, key, value) == [k \in DOMAIN f \cup {key} |-> IF k = key THEN value ELSE f[k]]

Init ==
    /\ meters = [x \in {} |-> {}]
    /\ ledger = [o \in {} |-> {}]
    /\ counts = [p \in Piles |-> 0]

Open(x, o, p) ==
    /\ x \notin DOMAIN meters
    /\ meters' = With(meters, x, [order |-> o, pile |-> p, state |-> "ACTIVE"])
    /\ UNCHANGED <<ledger, counts>>

Issue(x, st) ==
    LET o == meters[x].order
        p == meters[x].pile
    IN  /\ meters[x].state = "ACTIVE"
        /\ o \notin DOMAIN ledger
        /\ meters' = [meters EXCEPT ![x] = [order |-> o, pile |-> p, state |-> st]]
        /\ ledger' = With(ledger, o, x)
        /\ counts' = [counts EXCEPT ![p] = @ + 1]

Next ==
    \/ \E x \in Sessions, o \in Orders, p \in Piles : Open(x, o, p)
    \/ \E x \in DOMAIN meters, st \in {"CLOSED", "ABORTED"} : Issue(x, st)

Spec == Init /\ [][Next]_book
=============================================================================
