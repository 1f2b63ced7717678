----------------------------- MODULE DriverPage -----------------------------
(***************************************************************************)
(* UserDashboard.vue: the page of one driver, its list of orders, and its  *)
(* clicks, each an asynchronous handler that nothing keeps from running    *)
(* beside the others.  At the server the check of a submission and the     *)
(* making of its order are two steps, as are the end of an interrupted     *)
(* order and the making of the one that continues it; every other request  *)
(* is served in one.  The network delays, reorders what belongs to         *)
(* different clicks, and loses.  Around it the station moves the driver's  *)
(* orders on.  What the page shows of a queue, its messages and its        *)
(* loading flag do not influence anything and are left out.                *)
(***************************************************************************)
EXTENDS Naturals, FiniteSetsExt

CONSTANTS Orders,     \* ids in the order of submitTime; bound: orders of the driver
          Clicks,     \* handlers at once
          MaxUnattended, \* bound: orders being made that no click waits for
          None

ASSUME OrdersAssumption == Orders \subseteq Nat
ASSUME UnattendedAssumption == MaxUnattended \in Nat
ASSUME NoneAssumption ==
    None \notin [op : {"act"}, order : Orders \cup {None}, seen : {None},
                 step : {"list", "failed", "unlisted"}, list : {None}]

VARIABLES
    status, bills,     \* the server: the driver's orders, and which have a bill
    unattended,        \* the server: how many orders of the driver are being made
                       \* that no click waits for
    overlapped,        \* history: a submission was let pass while another order of
                       \* the driver was being made
    shown,             \* orders: what the page lists, order -> row
    selected,          \* selectedOrderId
    calls              \* click -> the request its handler awaits, or None

server == <<status, bills, unattended, overlapped>>
page == <<shown, selected>>
vars == <<server, page, calls>>

Open == {"WAITING", "IN_PILE_QUEUE", "CHARGING"}
Ended == {"FINISHED", "CANCELED", "ABORTED"}

Present == {o \in Orders : status[o] # "ABSENT"}

(* The order the next submission creates, if the bound leaves one. *)
Fresh == {o \in Orders \ Present : \A other \in Orders \ Present : o <= other}

-----------------------------------------------------------------------------
(* What the page computes from its list, the newest order first *)

ShownIn(statuses) == {o \in DOMAIN shown : shown[o].status \in statuses}

Newest(ids) == IF ids = {} THEN None ELSE Max(ids)

(* orders.find(open) ?? orders[0] ?? null *)
FirstChoice(list) ==
    LET active == {o \in DOMAIN list : list[o].status \in Open}
    IN  Newest(IF active # {} THEN active ELSE DOMAIN list)

SelectedOrder == IF selected \in DOMAIN shown THEN selected ELSE FirstChoice(shown)

(* The buttons: canModify, canStop, canCancel, and the check of queryQueue. *)
Needed == [modify |-> {"WAITING"}, stop |-> {"CHARGING"},
           cancel |-> {"WAITING", "IN_PILE_QUEUE"}, query |-> Open]

(* Mutant of Offered: the buttons are never disabled. *)
OfferedAlways(op) == SelectedOrder # None

Offered(op) == SelectedOrder # None /\ shown[SelectedOrder].status \in Needed[op]

-----------------------------------------------------------------------------
(* Clicks.  A handler first asks the server for what it is about, then for  *)
(* the list (loadOrders); "seen" is the status its order was shown with.    *)
(* Only a submission uses its answer for more than that there was one, and  *)
(* keeps the order it was told of.                                          *)

Call(op, o, seen, step, list) ==
    [op |-> op, order |-> o, seen |-> seen, step |-> step, list |-> list]
Request(op, o, seen) == Call(op, o, seen, "ask", None)
Loading == Call("act", None, None, "list", None)
Accept(o) == Call("act", o, None, "done", None)

(* Mutant of Refusal: the page submits again until it succeeds. *)
RefusalAskedAgain == Request("submit", None, None)

Failure(step) == Call("act", None, None, step, None)
Refusal == Failure("refused")

Submit(c) ==
    /\ calls[c] = None
    /\ calls' = [calls EXCEPT ![c] = Request("submit", None, None)]
    /\ UNCHANGED <<server, page>>

Act(c, op) ==
    /\ calls[c] = None
    /\ Offered(op)
    /\ calls' = [calls EXCEPT ![c] = Request(op, SelectedOrder, shown[SelectedOrder].status)]
    /\ UNCHANGED <<server, page>>

Refresh(c) ==
    /\ calls[c] = None
    /\ calls' = [calls EXCEPT ![c] = Loading]
    /\ UNCHANGED <<server, page>>

SelectOrder(o) ==
    /\ o \in DOMAIN shown
    /\ selected' = o
    /\ UNCHANGED <<server, shown, calls>>

-----------------------------------------------------------------------------
(* The server *)

Become(o, st) == status' = [status EXCEPT ![o] = st]
Close(o, st) == Become(o, st) /\ bills' = bills \cup {o}
NothingMade == UNCHANGED <<unattended, overlapped>>

Answer(c, answer) == calls' = [calls EXCEPT ![c] = answer]
Refuse(c) == Answer(c, Refusal) /\ UNCHANGED server

(* Mutant of MaySubmit: ensureUserCanSubmit is not called. *)
MaySubmitAgain == TRUE

(* ensureUserCanSubmit *)
MaySubmit == \A o \in Orders : status[o] \notin Open

(* A submission past the check. *)
Passed == Call("submit", None, None, "checked", None)
Checked(c) == calls[c] # None /\ calls[c].step = "checked"
BeingMade == unattended > 0 \/ \E c \in Clicks : Checked(c)

(* submitRequest, as far as the check *)
HandleSubmit(c) ==
    /\ calls[c].op = "submit"
    /\ IF MaySubmit
       THEN /\ Answer(c, Passed)
            /\ overlapped' = (overlapped \/ BeingMade)
            /\ UNCHANGED <<status, bills, unattended>>
       ELSE Refuse(c)

(* submitRequest from there: the waiting area may be full of other drivers'   *)
(* orders, and every number tried may be taken.  Bound: so it is when all     *)
(* Orders exist.                                                              *)
HandleCreate(c) ==
    /\ Checked(c)
    /\ \/ /\ \E o \in Fresh : Become(o, "WAITING") /\ Answer(c, Accept(o))
          /\ UNCHANGED bills /\ NothingMade
       \/ Refuse(c)
    /\ UNCHANGED page

(* An order nobody waits for: of a submission whose request failed meanwhile, *)
(* or the continuation of an interrupted order.                               *)
CreateUnattended ==
    /\ unattended > 0
    /\ unattended' = unattended - 1
    /\ UNCHANGED status \/ \E o \in Fresh : Become(o, "WAITING")
    /\ UNCHANGED <<bills, overlapped, page, calls>>

(* cancel, with the reason USER_CANCEL the page sends. *)
CancelEffect(o) ==
    \/ status[o] \in {"WAITING", "IN_PILE_QUEUE"} /\ Become(o, "CANCELED") /\ UNCHANGED bills
    \/ status[o] = "CHARGING" /\ Close(o, "ABORTED")

(* Mutant of Accepted: the status is not looked at. *)
AcceptedAny == [op \in {"modify", "stop", "cancel", "query"} |-> Open \cup Ended]

(* What the server asks of the order's status. *)
Accepted == [modify |-> {"WAITING"}, stop |-> {"CHARGING"},
             cancel |-> Open, query |-> Open \cup Ended]

HandleAct(c) ==
    LET op == calls[c].op
        o == calls[c].order
    IN  /\ op \in DOMAIN Accepted
        /\ IF status[o] \in Accepted[op]
           THEN /\ \/ op = "stop" /\ Close(o, "FINISHED")
                   \/ op = "cancel" /\ CancelEffect(o)
                   \/ op \in {"modify", "query"} /\ UNCHANGED server
                /\ Answer(c, Accept(None)) /\ NothingMade
           ELSE Refuse(c)

Handle(c) ==
    /\ calls[c] # None
    /\ calls[c].step = "ask"
    /\ HandleSubmit(c) \/ HandleAct(c)
    /\ UNCHANGED page

(* listOrders: every order of the driver; an order that ended without a     *)
(* bill is listed with an empty detail.                                     *)
Detail(o) ==
    IF o \in bills THEN "bill"
    ELSE IF status[o] \in {"CANCELED", "ABORTED"} THEN "empty" ELSE "none"

List == [o \in Present |-> [status |-> status[o], detail |-> Detail(o)]]

HandleList(c) ==
    /\ calls[c] # None
    /\ calls[c].step = "list"
    /\ calls' = [calls EXCEPT ![c] = Call("act", @.order, None, "listed", List)]
    /\ UNCHANGED <<server, page>>

-----------------------------------------------------------------------------
(* Answers *)

(* Mutant of AfterDone: the list is not loaded again. *)
AfterDoneNothing(call) == None

(* await loadOrders(true) *)
AfterDone(call) == [Loading EXCEPT !.order = call.order]

Receive(c) ==
    LET call == calls[c]
    IN  /\ call # None
        /\ call.step = "done"
        /\ selected' = IF call.order # None THEN call.order ELSE selected
        /\ calls' = [calls EXCEPT ![c] = AfterDone(call)]
        /\ UNCHANGED <<server, shown>>

(* showError: the server refused, or a request failed.  When it is the list *)
(* that failed, and another handler awaited it, that handler goes on to     *)
(* report success, and its message replaces the error.                      *)
ShowError(c) ==
    /\ calls[c] # None
    /\ calls[c].step \in {"refused", "failed", "unlisted"}
    /\ calls' = [calls EXCEPT ![c] = None]
    /\ UNCHANGED <<server, page>>

(* The selection stays while its order is listed. *)
ReceiveList(c) ==
    LET call == calls[c]
    IN  /\ call # None
        /\ call.step = "listed"
        /\ shown' = call.list
        /\ selected' = IF selected \in DOMAIN call.list THEN selected ELSE FirstChoice(call.list)
        /\ calls' = [calls EXCEPT ![c] = None]
        /\ UNCHANGED server

(* A request fails, before the server handled it, after, or while its order *)
(* is being made: the server does not notice, and goes on.                  *)
LoseAsk(c) ==
    /\ calls[c] # None
    /\ \/ calls[c].step \in {"ask", "done"} /\ UNCHANGED server
       \/ /\ Checked(c)
          /\ unattended < MaxUnattended
          /\ unattended' = unattended + 1
          /\ UNCHANGED <<status, bills, overlapped>>
    /\ calls' = [calls EXCEPT ![c] = Failure("failed")]
    /\ UNCHANGED page

LoseList(c) ==
    /\ calls[c] # None
    /\ calls[c].step \in {"list", "listed"}
    /\ calls' = [calls EXCEPT ![c] = Failure("unlisted")]
    /\ UNCHANGED <<server, page>>

-----------------------------------------------------------------------------
(* The station: dispatch, a start, completion, a fault.  reportFault bills   *)
(* the order first and makes what continues it afterwards, if anything is    *)
(* left of it.                                                               *)

Enqueue(o) == status[o] = "WAITING" /\ Become(o, "IN_PILE_QUEUE") /\ UNCHANGED bills
Charge(o) == status[o] \in {"WAITING", "IN_PILE_QUEUE"} /\ Become(o, "CHARGING") /\ UNCHANGED bills
Complete(o) == status[o] = "CHARGING" /\ Close(o, "FINISHED")
Interrupt(o) ==
    /\ status[o] = "CHARGING"
    /\ Close(o, "ABORTED")
    /\ unattended' \in {unattended, unattended + 1} \cap (0 .. MaxUnattended)
    /\ UNCHANGED overlapped

Station ==
    /\ \E o \in Orders : \/ (Enqueue(o) \/ Charge(o) \/ Complete(o)) /\ NothingMade
                         \/ Interrupt(o)
    /\ UNCHANGED <<page, calls>>

-----------------------------------------------------------------------------

(* onMounted: loadOrders.  The driver may have an order already. *)
Init ==
    /\ \E first \in {"ABSENT"} \cup Open :
          status = [o \in Orders |-> IF o = Min(Orders) THEN first ELSE "ABSENT"]
    /\ bills = {}
    /\ unattended = 0
    /\ overlapped = FALSE
    /\ shown = <<>>
    /\ selected = None
    /\ \E c \in Clicks : calls = [k \in Clicks |-> IF k = c THEN Loading ELSE None]

Click(c) == Submit(c) \/ Refresh(c) \/ \E op \in DOMAIN Needed : Act(c, op)

Network(c) ==
    Handle(c) \/ HandleCreate(c) \/ HandleList(c) \/ Receive(c) \/ ShowError(c) \/ ReceiveList(c)

Next ==
    \/ \E c \in Clicks : Click(c) \/ Network(c) \/ LoseAsk(c) \/ LoseList(c)
    \/ \E o \in Orders : SelectOrder(o)
    \/ CreateUnattended
    \/ Station

Spec == Init /\ [][Next]_vars

-----------------------------------------------------------------------------
(* Properties *)

\* The end of an order that the page shows is its end, and the bill shown with it
\* is there, however old the list and in whatever order lists arrived.
EndShownIsEnd ==
    \A o \in ShownIn(Ended) :
        /\ status[o] = shown[o].status
        /\ shown[o].detail = "bill" <=> o \in bills

\* What a button offers, the server refuses only when the order has moved on from
\* the status it was shown with: the checks of the page are those of the server.
RefusedOnlyIfStale ==
    [][\A c \in Clicks :
          /\ calls[c] # None /\ calls'[c] # None
          /\ calls[c].step = "ask" /\ calls'[c].step = "refused"
          /\ calls[c].op # "submit"
          => status[calls[c].order] # calls[c].seen]_vars

\* A driver who clicks twice, or again because no answer came, gets a second order
\* only if the check of one submission fell into the making of another order: of
\* another click, of one given up, or of a continuation after a fault.  Whatever
\* the driver and the station do one after the other, one order is open.
OneOpenUnlessOverlap ==
    ~overlapped =>
        \A o, other \in Orders : status[o] \in Open /\ status[other] \in Open => o = other

\* A click that ends without having shown an error, after its submission was accepted,
\* leaves the page with that order in its list, whichever lists arrived meanwhile.
SubmissionShown ==
    [][\A c \in Clicks :
          /\ calls[c] # None /\ calls[c].step \in {"done", "listed"}
          /\ calls'[c] = None
          => calls[c].order \in {None} \cup DOMAIN shown']_vars

\* No click goes round in circles or waits for what cannot come: whatever is refused or
\* lost, something can happen to it next, and whatever happens leads it on to its end.
Stage == [ask |-> 1, checked |-> 2, done |-> 3, list |-> 4, listed |-> 5,
          refused |-> 6, failed |-> 6, unlisted |-> 6]

ClicksAdvance ==
    /\ [](\A c \in Clicks : calls[c] # None => ENABLED Network(c))
    /\ [][\A c \in Clicks :
             calls[c] # None /\ calls'[c] \notin {None, calls[c]}
             => Stage[calls'[c].step] > Stage[calls[c].step]]_vars
=============================================================================
