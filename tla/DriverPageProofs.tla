-------------------------- MODULE DriverPageProofs --------------------------
(***************************************************************************)
(* The page of a driver with any number of orders and of clicks at once.   *)
(***************************************************************************)
EXTENDS DriverPage, TLAPS

\* A list that tells the truth about what ended: what the page shows, and every
\* list on its way to it.
Truthful(list, st, bl) ==
    \A o \in DOMAIN list :
        /\ o \in Orders
        /\ list[o].status \in Ended => /\ st[o] = list[o].status
                                       /\ list[o].detail = "bill" <=> o \in bl

\* EndShownIsEnd holds of the page because it holds of the lists in flight, and no
\* order that ended is touched again.
InFlightOK ==
    \A c \in Clicks :
        calls[c] # None /\ calls[c].step = "listed" => Truthful(calls[c].list, status, bills)

PageInv ==
    /\ DOMAIN status = Orders
    /\ DOMAIN calls = Clicks
    /\ Truthful(shown, status, bills)
    /\ InFlightOK

\* The end of an order is final, and its bill neither comes later nor goes.
Settled ==
    /\ DOMAIN status' = DOMAIN status
    /\ \A o \in Orders : status[o] \in Ended =>
          status'[o] = status[o] /\ (o \in bills' <=> o \in bills)

\* What a list said truthfully of ended orders stays true when ends are final.
LEMMA TruthStays ==
    ASSUME NEW list, Truthful(list, status, bills), Settled
    PROVE  Truthful(list, status', bills')
BY DEF Truthful, Settled, Ended

\* No step of the station on its own changes an order that has ended, or its bill.
LEMMA StationSettles == ASSUME DOMAIN status = Orders, Station PROVE Settled
<1>1. PICK o \in Orders : Enqueue(o) \/ Charge(o) \/ Complete(o) \/ Interrupt(o)
    BY DEF Station
<1> QED
    BY <1>1 DEF Enqueue, Charge, Complete, Interrupt, Become, Close, Settled, Ended

\* Nor does the making of an order.
LEMMA CreationSettles ==
    ASSUME DOMAIN status = Orders, NEW o \in Fresh, Become(o, "WAITING"), UNCHANGED bills
    PROVE  Settled
BY DEF Fresh, Present, Become, Settled, Ended

\* No request of the page does either: the server checks the status once more.
LEMMA HandleSettles ==
    ASSUME DOMAIN status = Orders, NEW c \in Clicks, Handle(c)
    PROVE  Settled
<1>1. CASE UNCHANGED server
    BY <1>1 DEF server, Settled
<1>2. CASE UNCHANGED <<status, bills>>
    BY <1>2 DEF Settled
<1>3. CASE HandleAct(c) /\ ~UNCHANGED server
    <2> DEFINE o == calls[c].order
    <2>1. \/ calls[c].op = "stop" /\ status[o] = "CHARGING" /\ Close(o, "FINISHED")
          \/ CancelEffect(o)
        BY <1>3 DEF HandleAct, Refuse, Accepted
    <2> QED
        BY <2>1 DEF CancelEffect, Close, Become, Settled, Ended
<1>4. CASE HandleSubmit(c)
    BY <1>1, <1>2, <1>4 DEF HandleSubmit, Refuse
<1> QED
    BY <1>1, <1>3, <1>4 DEF Handle

\* Whatever happens, what ended stays as it is.
LEMMA StepSettles == ASSUME PageInv, [Next]_vars PROVE Settled
<1>1. CASE UNCHANGED server
    BY <1>1 DEF server, Settled
<1>2. CASE Station
    BY <1>2, StationSettles DEF PageInv
<1>3. ASSUME NEW c \in Clicks, Handle(c)
      PROVE  Settled
    BY <1>3, HandleSettles DEF PageInv
<1>4. CASE CreateUnattended \/ \E c \in Clicks : HandleCreate(c)
    <2>1. UNCHANGED <<status, bills>> \/ \E o \in Fresh : Become(o, "WAITING") /\ UNCHANGED bills
        BY <1>4 DEF CreateUnattended, HandleCreate, Refuse, server
    <2> QED
        BY <2>1, CreationSettles DEF PageInv, Settled
<1>5. ASSUME NEW c \in Clicks, Click(c) \/ Network(c) \/ LoseAsk(c) \/ LoseList(c),
             ~Handle(c), ~HandleCreate(c)
      PROVE  UNCHANGED <<status, bills>>
    BY <1>5 DEF Click, Network, Submit, Act, Refresh, HandleList, Receive, ShowError,
                ReceiveList, LoseAsk, LoseList, server
<1>6. ASSUME NEW o \in Orders, SelectOrder(o)
      PROVE  UNCHANGED server
    BY <1>6 DEF SelectOrder
<1>7. CASE UNCHANGED <<status, bills>>
    BY <1>7 DEF Settled
<1> QED
    BY <1>1, <1>2, <1>3, <1>4, <1>5, <1>6, <1>7 DEF Next, vars

\* The list that the server makes tells the truth.
LEMMA ListTruthful == DOMAIN status = Orders => Truthful(List, status, bills)
BY DEF Truthful, List, Detail, Present, Ended

\* A step that puts one call forward leaves the lists in flight truthful, if the
\* new one is.
LEMMA CallsStep ==
    ASSUME PageInv, Settled, NEW c \in Clicks, NEW new,
           calls' = [calls EXCEPT ![c] = new],
           new # None /\ new.step = "listed" => Truthful(new.list, status', bills')
    PROVE  InFlightOK' /\ DOMAIN calls' = Clicks
<1>1. DOMAIN calls' = Clicks
    BY DEF PageInv
<1>2. ASSUME NEW k \in Clicks, calls'[k] # None, calls'[k].step = "listed"
      PROVE  Truthful(calls'[k].list, status', bills')
    <2>1. CASE k = c
        BY <1>2, <2>1 DEF PageInv
    <2>2. CASE k # c
        <3>1. calls'[k] = calls[k]
            BY <2>2 DEF PageInv
        <3>2. Truthful(calls[k].list, status, bills)
            BY <1>2, <3>1 DEF PageInv, InFlightOK
        <3>3. Truthful(calls[k].list, status', bills')
            BY <3>2, TruthStays
        <3> QED
            BY <3>1, <3>3
    <2> QED
        BY <2>1, <2>2
<1> QED
    BY <1>1, <1>2 DEF InFlightOK

\* The page opens with an empty list, which is truthful.
LEMMA PageInvInit == Init => PageInv
<1> SUFFICES ASSUME Init PROVE PageInv
    OBVIOUS
<1>1. DOMAIN status = Orders /\ DOMAIN calls = Clicks /\ Truthful(shown, status, bills)
    BY DEF Init, Truthful
<1>2. ASSUME NEW c \in Clicks, calls[c] # None
      PROVE  calls[c].step = "list"
    BY <1>2 DEF Init, Loading, Call
<1> QED
    BY <1>1, <1>2 DEF PageInv, InFlightOK

\* The inductive step: by what a step does to the calls.
LEMMA PageInvStep == PageInv /\ [Next]_vars => PageInv'
<1> SUFFICES ASSUME PageInv, [Next]_vars PROVE PageInv'
    OBVIOUS
<1>1. Settled
    BY StepSettles
<1>2. DOMAIN status' = Orders
    BY <1>1 DEF Settled, PageInv
<1>3. CASE UNCHANGED <<calls, shown>>
    <2>1. Truthful(shown', status', bills')
        BY <1>1, <1>3, TruthStays DEF PageInv
    <2>2. ASSUME NEW c \in Clicks, calls[c] # None, calls[c].step = "listed"
          PROVE  Truthful(calls[c].list, status', bills')
        BY <1>1, <2>2, TruthStays DEF PageInv, InFlightOK
    <2> QED
        BY <1>2, <1>3, <2>1, <2>2 DEF PageInv, InFlightOK
<1>4. ASSUME NEW c \in Clicks, ReceiveList(c)
      PROVE  PageInv'
    <2>1. Truthful(shown', status', bills')
        <3>1. Truthful(calls[c].list, status, bills)
            BY <1>4 DEF ReceiveList, PageInv, InFlightOK
        <3> QED
            BY <1>1, <1>4, <3>1, TruthStays DEF ReceiveList
    <2>2. calls' = [calls EXCEPT ![c] = None]
        BY <1>4 DEF ReceiveList
    <2> QED
        BY <1>1, <1>2, <2>1, <2>2, CallsStep DEF PageInv
<1>5. ASSUME NEW c \in Clicks, HandleList(c)
      PROVE  PageInv'
    <2> DEFINE new == Call("act", calls[c].order, None, "listed", List)
    <2>1. calls' = [calls EXCEPT ![c] = new] /\ shown' = shown /\ UNCHANGED server
        BY <1>5 DEF HandleList, page, PageInv
    <2>2. Truthful(List, status', bills')
        BY <2>1, ListTruthful DEF PageInv, server
    <2>3. new.list = List
        BY DEF Call
    <2>4. Truthful(shown', status', bills')
        BY <1>1, <2>1, TruthStays DEF PageInv
    <2> HIDE DEF new
    <2>5. InFlightOK' /\ DOMAIN calls' = Clicks
        BY <1>1, <2>1, <2>2, <2>3, CallsStep
    <2> QED
        BY <1>2, <2>4, <2>5 DEF PageInv
<1>6. ASSUME NEW c \in Clicks, NEW new, calls' = [calls EXCEPT ![c] = new],
             new = None \/ new.step # "listed", shown' = shown
      PROVE  PageInv'
    <2>1. Truthful(shown', status', bills')
        BY <1>1, <1>6, TruthStays DEF PageInv
    <2>2. InFlightOK' /\ DOMAIN calls' = Clicks
        BY <1>1, <1>6, CallsStep
    <2> QED
        BY <1>2, <2>1, <2>2 DEF PageInv
<1>7. ASSUME NEW c \in Clicks, Click(c) \/ LoseAsk(c) \/ LoseList(c)
      PROVE  PageInv'
    <2>1. \E new : /\ calls' = [calls EXCEPT ![c] = new]
                   /\ new = None \/ new.step # "listed"
                   /\ shown' = shown
        BY <1>7 DEF Click, Submit, Act, Refresh, LoseAsk, LoseList, Failure, page, Loading, Request, Call
    <2> QED
        BY <2>1, <1>6
<1>8. ASSUME NEW c \in Clicks, Handle(c) \/ HandleCreate(c) \/ Receive(c) \/ ShowError(c)
      PROVE  PageInv'
    <2>1. \E new : /\ calls' = [calls EXCEPT ![c] = new]
                   /\ new = None \/ new.step # "listed"
                   /\ shown' = shown
        BY <1>8 DEF Handle, HandleSubmit, HandleCreate, HandleAct, Refuse, Answer, Accept, Refusal,
                    Failure, Passed, Receive, ShowError, AfterDone, page, Loading, Call
    <2> QED
        BY <2>1, <1>6
<1>9. CASE CreateUnattended \/ Station \/ (\E o \in Orders : SelectOrder(o)) \/ UNCHANGED vars
    BY <1>3, <1>9 DEF CreateUnattended, Station, SelectOrder, vars, page
<1> QED
    BY <1>4, <1>5, <1>7, <1>8, <1>9 DEF Next, Network

\* What the page shows as ended has ended, and so, with the bill shown with it.
THEOREM EndShownHolds == Spec => []EndShownIsEnd
<1>1. PageInv => EndShownIsEnd
    BY DEF PageInv, Truthful, EndShownIsEnd, ShownIn
<1> QED
    BY <1>1, PageInvInit, PageInvStep, PTL DEF Spec

-----------------------------------------------------------------------------

\* A driver without an unfinished order.
Idle == \A o \in Orders : status[o] \notin Open

\* OneOpenUnlessOverlap with what it rests on: as long as no submission was let pass
\* in the making of another order, at most one order is being made, and while one
\* is, none is open.
AtMostOneOpen ==
    \A o, other \in Orders : status[o] \in Open /\ status[other] \in Open => o = other
AtMostOneMade ==
    /\ unattended > 0 => Idle /\ unattended = 1
    /\ \A c \in Clicks : Checked(c) => Idle /\ unattended = 0
    /\ \A c, d \in Clicks : Checked(c) /\ Checked(d) => c = d

OverlapInv ==
    /\ DOMAIN status = Orders /\ DOMAIN calls = Clicks
    /\ unattended \in Nat
    /\ overlapped \in BOOLEAN
    /\ ~overlapped => AtMostOneOpen /\ AtMostOneMade

\* What a step does to the calls: it puts at most one forward, past the check only
\* when the server lets a submission pass.
LEMMA CallsOfStep ==
    ASSUME DOMAIN calls = Clicks, [Next]_vars
    PROVE  /\ DOMAIN calls' = Clicks
           /\ \A c \in Clicks : Checked(c)' =>
                 Checked(c) \/ (Handle(c) /\ HandleSubmit(c) /\ MaySubmit)
<1>1. ASSUME NEW c \in Clicks, NEW new, calls' = [calls EXCEPT ![c] = new],
             new = None \/ new.step # "checked"
      PROVE  DOMAIN calls' = Clicks /\ \A d \in Clicks : Checked(d)' => Checked(d)
    BY <1>1 DEF Checked
<1>2. ASSUME NEW c \in Clicks, Click(c) \/ LoseAsk(c) \/ LoseList(c)
      PROVE  \E new : calls' = [calls EXCEPT ![c] = new] /\ (new = None \/ new.step # "checked")
    BY <1>2 DEF Click, Submit, Act, Refresh, LoseAsk, LoseList, Failure, Loading, Request, Call
<1>3. ASSUME NEW c \in Clicks, HandleCreate(c) \/ HandleList(c) \/ Receive(c) \/ ShowError(c) \/ ReceiveList(c)
      PROVE  \E new : calls' = [calls EXCEPT ![c] = new] /\ (new = None \/ new.step # "checked")
    BY <1>3 DEF HandleCreate, Refuse, Answer, Accept, Refusal, Failure, HandleList, Receive,
                ShowError, ReceiveList, AfterDone, Loading, Call
<1>4. ASSUME NEW c \in Clicks, Handle(c), ~(HandleSubmit(c) /\ MaySubmit)
      PROVE  \E new : calls' = [calls EXCEPT ![c] = new] /\ (new = None \/ new.step # "checked")
    BY <1>4 DEF Handle, HandleSubmit, HandleAct, Refuse, Answer, Accept, Refusal, Failure, Call
<1>5. ASSUME NEW c \in Clicks, Handle(c), HandleSubmit(c), MaySubmit
      PROVE  /\ DOMAIN calls' = Clicks
             /\ \A d \in Clicks : Checked(d)' => Checked(d) \/ d = c
    BY <1>5 DEF HandleSubmit, Answer, Checked
<1>6. CASE UNCHANGED calls
    BY <1>6 DEF Checked
<1> QED
    <2>1. CASE \E c \in Clicks : Click(c) \/ LoseAsk(c) \/ LoseList(c)
        BY <2>1, <1>1, <1>2
    <2>2. CASE \E c \in Clicks :
                  HandleCreate(c) \/ HandleList(c) \/ Receive(c) \/ ShowError(c) \/ ReceiveList(c)
        BY <2>2, <1>1, <1>3
    <2>3. CASE \E c \in Clicks : Handle(c)
        BY <2>3, <1>1, <1>4, <1>5
    <2>4. CASE CreateUnattended \/ Station \/ (\E o \in Orders : SelectOrder(o)) \/ UNCHANGED vars
        BY <2>4, <1>6 DEF CreateUnattended, Station, SelectOrder, vars
    <2> QED
        BY <2>1, <2>2, <2>3, <2>4 DEF Next, Network

\* An order that is open may change; no other order opens thereby.
LEMMA OneMovesOn ==
    ASSUME DOMAIN status = Orders, AtMostOneOpen, NEW o, NEW st,
           o \in Orders => status[o] \in Open, Become(o, st)
    PROVE  DOMAIN status' = Orders /\ AtMostOneOpen'
BY DEF AtMostOneOpen, Become

\* An order made while none is open is the only one.
LEMMA OneIsMade ==
    ASSUME DOMAIN status = Orders, Idle, NEW o \in Fresh, Become(o, "WAITING")
    PROVE  DOMAIN status' = Orders /\ AtMostOneOpen'
BY DEF AtMostOneOpen, Idle, Become, Fresh

\* The step of the station.
LEMMA OverlapStation ==
    ASSUME OverlapInv, Station
    PROVE  OverlapInv'
<1>1. PICK o \in Orders : \/ (Enqueue(o) \/ Charge(o) \/ Complete(o)) /\ NothingMade
                          \/ Interrupt(o)
    BY DEF Station
<1>2. /\ calls' = calls /\ overlapped' = overlapped
      /\ status[o] \in Open
      /\ \E st : Become(o, st)
      /\ unattended' = unattended \/ Interrupt(o)
    BY <1>1 DEF Station, NothingMade, Enqueue, Charge, Complete, Interrupt, Close, Open
<1>3. DOMAIN status' = Orders
    BY <1>2 DEF Become, OverlapInv
<1>4. unattended' \in Nat /\ (unattended' = unattended \/ unattended' = unattended + 1)
    BY <1>2 DEF Interrupt, OverlapInv
<1>5. ASSUME ~overlapped
      PROVE  AtMostOneOpen' /\ AtMostOneMade'
    <2>1. AtMostOneOpen /\ AtMostOneMade
        BY <1>5 DEF OverlapInv
    <2>2. ~Idle
        BY <1>2 DEF Idle
    <2>3. unattended = 0 /\ \A c \in Clicks : ~Checked(c)
        BY <2>1, <2>2 DEF AtMostOneMade, OverlapInv
    <2>4. AtMostOneOpen'
        BY <1>2, <2>1, OneMovesOn DEF OverlapInv
    <2>5. \A c \in Clicks : ~Checked(c)'
        BY <1>2, <2>3 DEF Checked
    <2>6. unattended' > 0 => Idle' /\ unattended' = 1
        <3>1. ASSUME unattended' > 0
              PROVE  Interrupt(o)
            BY <1>2, <2>3, <3>1
        <3>2. ASSUME Interrupt(o)
              PROVE  Idle'
            BY <1>2, <3>2, <2>1 DEF Interrupt, Close, Become, Idle, AtMostOneOpen, Open, OverlapInv
        <3> QED
            BY <3>1, <3>2, <1>4, <2>3
    <2> QED
        BY <2>4, <2>5, <2>6 DEF AtMostOneMade
<1> QED
    BY <1>2, <1>3, <1>4, <1>5 DEF OverlapInv

\* The steps that make an order.
LEMMA OverlapCreation ==
    ASSUME OverlapInv, [Next]_vars,
           CreateUnattended \/ \E c \in Clicks : HandleCreate(c)
    PROVE  OverlapInv'
<1>1. /\ DOMAIN calls' = Clicks
      /\ overlapped' = overlapped
      /\ \/ status' = status
         \/ \E o \in Fresh : Become(o, "WAITING")
    BY CallsOfStep DEF OverlapInv, CreateUnattended, HandleCreate, Refuse, server, NothingMade
<1>2. /\ DOMAIN status' = Orders
      /\ unattended' \in Nat
      /\ unattended' <= unattended
    BY <1>1 DEF OverlapInv, Become, CreateUnattended, HandleCreate, Refuse, server, NothingMade
<1>3. ASSUME ~overlapped
      PROVE  AtMostOneOpen' /\ AtMostOneMade'
    <2>1. AtMostOneMade /\ AtMostOneOpen /\ unattended \in Nat
        BY <1>3 DEF OverlapInv
    <2>2. Idle
        BY <2>1 DEF AtMostOneMade, CreateUnattended, HandleCreate
    <2>3. AtMostOneOpen'
        BY <1>1, <2>1, <2>2, OneIsMade DEF OverlapInv, AtMostOneOpen
    <2>4. unattended' = 0 /\ \A c \in Clicks : ~Checked(c)'
        <3>1. CASE CreateUnattended
            <4>1. unattended = 1 /\ unattended' = 0
                BY <3>1, <2>1 DEF CreateUnattended, AtMostOneMade
            <4>2. \A c \in Clicks : ~Checked(c)
                BY <4>1, <2>1 DEF AtMostOneMade
            <4> QED
                BY <3>1, <4>1, <4>2 DEF CreateUnattended, Checked
        <3>2. ASSUME NEW c \in Clicks, HandleCreate(c)
              PROVE  unattended' = 0 /\ \A d \in Clicks : ~Checked(d)'
            <4>1. unattended = 0 /\ \A d \in Clicks \ {c} : ~Checked(d)
                BY <3>2, <2>1 DEF HandleCreate, AtMostOneMade
            <4>2. PICK new : calls' = [calls EXCEPT ![c] = new] /\ (new = None \/ new.step # "checked")
                BY <3>2 DEF HandleCreate, Refuse, Answer, Accept, Refusal, Failure, Call
            <4>3. unattended' = 0
                BY <3>2, <4>1 DEF HandleCreate, Refuse, server, NothingMade
            <4> QED
                BY <4>1, <4>2, <4>3 DEF Checked, OverlapInv
        <3> QED
            BY <3>1, <3>2
    <2> QED
        BY <2>3, <2>4 DEF AtMostOneMade
<1> QED
    BY <1>1, <1>2, <1>3 DEF OverlapInv

\* The step of a request: of a submission up to the check, and of all others.
LEMMA OverlapHandle ==
    ASSUME OverlapInv, [Next]_vars, NEW c \in Clicks, Handle(c)
    PROVE  OverlapInv'
<1>1. DOMAIN calls' = Clicks
    BY CallsOfStep DEF OverlapInv
<1>2. CASE HandleSubmit(c) /\ MaySubmit
    <2>1. /\ UNCHANGED <<status, unattended>>
          /\ overlapped' = (overlapped \/ BeingMade)
          /\ calls' = [calls EXCEPT ![c] = Passed]
        BY <1>2 DEF HandleSubmit, Answer
    <2>2. ASSUME ~overlapped'
          PROVE  AtMostOneOpen' /\ AtMostOneMade'
        <3>1. unattended = 0 /\ (\A d \in Clicks : ~Checked(d)) /\ ~overlapped
            <4>1. ~BeingMade /\ ~overlapped
                BY <2>1, <2>2
            <4> QED
                BY <4>1 DEF BeingMade, OverlapInv
        <3>2. Idle' /\ unattended' = 0
            BY <1>2, <2>1, <3>1 DEF MaySubmit, Idle
        <3>3. \A d \in Clicks : Checked(d)' => d = c
            BY <2>1, <3>1 DEF Checked, OverlapInv
        <3> QED
            BY <2>1, <3>1, <3>2, <3>3 DEF OverlapInv, AtMostOneOpen, AtMostOneMade, Idle
    <2> QED
        BY <1>1, <2>1, <2>2 DEF OverlapInv, BeingMade
<1>3. CASE ~(HandleSubmit(c) /\ MaySubmit)
    <2>1. /\ UNCHANGED <<unattended, overlapped>>
          /\ \/ UNCHANGED status
             \/ \E o, st : /\ o \in Orders => status[o] \in Open
                           /\ st \notin Open
                           /\ Become(o, st)
        <3>1. CASE HandleSubmit(c)
            BY <1>3, <3>1 DEF HandleSubmit, Refuse, server
        <3>2. CASE HandleAct(c) /\ ~UNCHANGED server
            BY <3>2 DEF HandleAct, Refuse, Accepted, CancelEffect, Close, Open, NothingMade
        <3>3. CASE UNCHANGED server
            BY <3>3 DEF server
        <3> QED
            BY <3>1, <3>2, <3>3 DEF Handle
    <2>2. \A d \in Clicks : Checked(d)' => Checked(d)
        <3>1. \A d \in Clicks : Checked(d)' => Checked(d) \/ (Handle(d) /\ HandleSubmit(d) /\ MaySubmit)
            BY CallsOfStep DEF OverlapInv
        <3>2. PICK new : calls' = [calls EXCEPT ![c] = new]
            BY DEF Handle, HandleSubmit, HandleAct, Refuse, Answer
        <3> QED
            BY <1>3, <3>1, <3>2 DEF Checked, OverlapInv
    <2>3. DOMAIN status' = Orders
        BY <2>1 DEF Become, OverlapInv
    <2>4. Idle => Idle'
        BY <2>1, <2>3 DEF Idle, Become, OverlapInv
    <2>5. AtMostOneOpen => AtMostOneOpen'
        BY <2>1, OneMovesOn DEF OverlapInv, AtMostOneOpen
    <2> QED
        BY <1>1, <2>1, <2>2, <2>3, <2>4, <2>5 DEF OverlapInv, AtMostOneMade
<1> QED
    BY <1>2, <1>3

\* The step of a failing request: an order being made goes on being made.
LEMMA OverlapLose ==
    ASSUME OverlapInv, [Next]_vars, NEW c \in Clicks, LoseAsk(c)
    PROVE  OverlapInv'
<1>1. /\ UNCHANGED <<status, overlapped>>
      /\ DOMAIN calls' = Clicks
      /\ UNCHANGED unattended \/ (Checked(c) /\ unattended' = unattended + 1)
      /\ \A d \in Clicks : Checked(d)' => Checked(d) /\ d # c
    BY DEF LoseAsk, server, Checked, Failure, Call, OverlapInv
<1> QED
    BY <1>1 DEF OverlapInv, AtMostOneOpen, AtMostOneMade, Idle

\* The inductive step.
LEMMA OverlapStep == OverlapInv /\ [Next]_vars => OverlapInv'
<1> SUFFICES ASSUME OverlapInv, [Next]_vars PROVE OverlapInv'
    OBVIOUS
<1>1. ASSUME UNCHANGED server, \A d \in Clicks : Checked(d)' => Checked(d)
      PROVE  OverlapInv'
    <2>1. DOMAIN calls' = Clicks
        BY CallsOfStep DEF OverlapInv
    <2> QED
        BY <1>1, <2>1 DEF server, OverlapInv, AtMostOneOpen, AtMostOneMade, Idle
<1>2. ASSUME UNCHANGED server, ~\E c \in Clicks : Handle(c)
      PROVE  OverlapInv'
    BY <1>1, <1>2, CallsOfStep DEF OverlapInv
<1>3. ASSUME NEW c \in Clicks, Click(c) \/ LoseList(c) \/ HandleList(c) \/ Receive(c) \/ ShowError(c) \/ ReceiveList(c)
      PROVE  UNCHANGED server
    BY <1>3 DEF Click, Submit, Act, Refresh, LoseList, HandleList, Receive, ShowError, ReceiveList
<1>4. CASE UNCHANGED vars \/ \E o \in Orders : SelectOrder(o)
    BY <1>4, <1>2, OverlapHandle DEF vars, SelectOrder
<1> QED
    BY <1>2, <1>3, <1>4, OverlapStation, OverlapCreation, OverlapHandle, OverlapLose DEF Next, Network

\* Two orders of a driver are open only after a submission passed the check in the
\* making of another order, however many orders and clicks there are.
THEOREM OneOpenHolds == Spec => []OneOpenUnlessOverlap
<1>1. Init => OverlapInv
    <2> SUFFICES ASSUME Init PROVE OverlapInv
        OBVIOUS
    <2>1. /\ DOMAIN status = Orders /\ DOMAIN calls = Clicks
          /\ unattended = 0 /\ overlapped = FALSE
        BY DEF Init
    <2>2. AtMostOneOpen
        BY DEF Init, AtMostOneOpen, Open
    <2>3. \A c \in Clicks : ~Checked(c)
        BY DEF Init, Checked, Loading, Call
    <2>4. AtMostOneMade /\ unattended \in Nat
        BY <2>1, <2>3 DEF AtMostOneMade
    <2> QED
        BY <2>1, <2>2, <2>4 DEF OverlapInv
<1>2. OverlapInv => OneOpenUnlessOverlap
    BY DEF OverlapInv, AtMostOneOpen, OneOpenUnlessOverlap
<1> QED
    BY <1>1, <1>2, OverlapStep, PTL DEF Spec

-----------------------------------------------------------------------------

\* What a click asked for was offered for the status its order was shown with.
AskedAsShown ==
    \A c \in Clicks :
        calls[c] # None /\ calls[c].step = "ask" /\ calls[c].op # "submit" =>
            calls[c].op \in DOMAIN Needed /\ calls[c].seen \in Needed[calls[c].op]

\* The server accepts every status that a button is offered for.
LEMMA OfferedIsAccepted == \A op \in DOMAIN Needed : Needed[op] \subseteq Accepted[op]
BY DEF Needed, Accepted, Open, Ended

\* A step that puts one call forward keeps what was asked, if the new call is no
\* question of a button.
LEMMA AskedStep ==
    ASSUME AskedAsShown, DOMAIN calls = Clicks, NEW c \in Clicks, NEW new,
           calls' = [calls EXCEPT ![c] = new],
           \/ new = None
           \/ new.step # "ask"
           \/ new.op = "submit"
           \/ new.op \in DOMAIN Needed /\ new.seen \in Needed[new.op]
    PROVE  AskedAsShown'
<1>1. \A k \in Clicks : calls'[k] = IF k = c THEN new ELSE calls[k]
    OBVIOUS
<1> QED
    BY <1>1 DEF AskedAsShown

\* Every button asks with a status that the page showed and that its action needs.
LEMMA AskedInductive == AskedAsShown /\ DOMAIN calls = Clicks /\ [Next]_vars => AskedAsShown'
<1> SUFFICES ASSUME AskedAsShown, DOMAIN calls = Clicks, [Next]_vars PROVE AskedAsShown'
    OBVIOUS
<1>1. ASSUME NEW c \in Clicks, NEW op \in DOMAIN Needed, Act(c, op)
      PROVE  AskedAsShown'
    <2> DEFINE new == Request(op, SelectedOrder, shown[SelectedOrder].status)
    <2>1. new.op = op /\ new.seen \in Needed[op]
        BY <1>1 DEF Act, Offered, Request, Call
    <2>2. calls' = [calls EXCEPT ![c] = new]
        BY <1>1 DEF Act
    <2> HIDE DEF new
    <2> QED
        BY <2>1, <2>2, AskedStep
<1>2. ASSUME NEW c \in Clicks, Submit(c) \/ Refresh(c) \/ Network(c) \/ LoseAsk(c) \/ LoseList(c)
      PROVE  AskedAsShown'
    <2>1. \E new : /\ calls' = [calls EXCEPT ![c] = new]
                   /\ new = None \/ new.step # "ask" \/ new.op = "submit"
        <3>1. CASE Submit(c) \/ Refresh(c) \/ LoseAsk(c) \/ LoseList(c)
            BY <3>1 DEF Submit, Refresh, LoseAsk, LoseList, Failure, Loading, Request, Call
        <3>2. CASE Handle(c) \/ HandleCreate(c)
            BY <3>2 DEF Handle, HandleSubmit, HandleCreate, HandleAct, Refuse, Answer, Accept, Refusal,
                        Failure, Passed, Call
        <3>3. CASE Network(c) /\ ~Handle(c) /\ ~HandleCreate(c)
            BY <3>3 DEF Network, HandleList, Receive, ShowError, ReceiveList, AfterDone, Loading, Call
        <3> QED
            BY <1>2, <3>1, <3>2, <3>3
    <2> QED
        BY <2>1, AskedStep
<1>3. CASE UNCHANGED calls
    BY <1>3 DEF AskedAsShown
<1> QED
    BY <1>1, <1>2, <1>3 DEF Next, Click, CreateUnattended, Station, SelectOrder, vars

\* A request that was asked, and is now refused, was refused by HandleAct: nothing
\* else makes a refusal of one.
LEMMA RefusedByServer ==
    ASSUME DOMAIN calls = Clicks, [Next]_vars, NEW c \in Clicks,
           calls[c] # None, calls'[c] # None,
           calls[c].step = "ask", calls'[c].step = "refused", calls[c].op # "submit"
    PROVE  status[calls[c].order] \notin Accepted[calls[c].op]
<1>1. ASSUME NEW k \in Clicks, NEW new, calls' = [calls EXCEPT ![k] = new],
             new = None \/ new.step # "refused"
      PROVE  FALSE
    BY <1>1
<1>2. calls' # calls
    OBVIOUS
<1>3. PICK k \in Clicks : Click(k) \/ Network(k) \/ LoseAsk(k) \/ LoseList(k)
    BY <1>2 DEF Next, CreateUnattended, Station, SelectOrder, vars
<1>4. CASE Click(k) \/ LoseAsk(k) \/ LoseList(k)
    <2>1. \E new : calls' = [calls EXCEPT ![k] = new] /\ (new = None \/ new.step # "refused")
        BY <1>4 DEF Click, Submit, Act, Refresh, LoseAsk, LoseList, Failure, Loading, Request, Call
    <2> QED
        BY <2>1, <1>1
<1>5. CASE Network(k) /\ ~Handle(k) /\ ~HandleCreate(k)
    <2>1. \E new : calls' = [calls EXCEPT ![k] = new] /\ (new = None \/ new.step # "refused")
        BY <1>5 DEF Network, HandleList, Receive, ShowError, ReceiveList, AfterDone, Loading, Call
    <2> QED
        BY <2>1, <1>1
<1>6. CASE Handle(k)
    <2>1. k = c
        <3>1. \E new : calls' = [calls EXCEPT ![k] = new]
            BY <1>6 DEF Handle, HandleSubmit, HandleAct, Refuse, Answer
        <3> QED
            BY <3>1
    <2>2. HandleAct(c)
        BY <1>6, <2>1 DEF Handle, HandleSubmit
    <2>3. CASE status[calls[c].order] \in Accepted[calls[c].op]
        <3>1. calls' = [calls EXCEPT ![c] = Accept(None)] /\ Accept(None).step = "done"
            BY <2>2, <2>3 DEF HandleAct, Answer, Accept, Call
        <3> QED
            BY <3>1
    <2> QED
        BY <2>3
<1>7. CASE HandleCreate(k)
    <2>1. k = c
        <3>1. \E new : calls' = [calls EXCEPT ![k] = new]
            BY <1>7 DEF HandleCreate, Refuse, Answer
        <3> QED
            BY <3>1
    <2> QED
        BY <1>7, <2>1 DEF HandleCreate, Checked
<1> QED
    BY <1>3, <1>4, <1>5, <1>6, <1>7

\* What a button offered, the server refuses only when the order has moved on: canStop,
\* canCancel and canModify ask no less than charging.service does.
THEOREM RefusedHolds == Spec => RefusedOnlyIfStale
<1> DEFINE Refused(c) == /\ calls[c] # None /\ calls'[c] # None
                         /\ calls[c].step = "ask" /\ calls'[c].step = "refused"
                         /\ calls[c].op # "submit"
           Stale == \A c \in Clicks : Refused(c) => status[calls[c].order] # calls[c].seen
<1>1. Init => AskedAsShown
    BY DEF Init, AskedAsShown, Loading, Call
<1>2. AskedAsShown /\ PageInv /\ [Next]_vars => [Stale]_vars
    <2> SUFFICES ASSUME AskedAsShown, PageInv, [Next]_vars, NEW c \in Clicks, Refused(c)
                 PROVE  status[calls[c].order] # calls[c].seen
        OBVIOUS
    <2>1. calls[c].op \in DOMAIN Needed /\ calls[c].seen \in Needed[calls[c].op]
        BY DEF AskedAsShown
    <2>2. status[calls[c].order] \notin Accepted[calls[c].op]
        BY RefusedByServer DEF PageInv
    <2> QED
        BY <2>1, <2>2, OfferedIsAccepted
<1>3. AskedAsShown /\ PageInv /\ [Next]_vars => AskedAsShown'
    BY AskedInductive DEF PageInv
<1> QED
    BY <1>1, <1>2, <1>3, PageInvInit, PageInvStep, PTL DEF Spec, RefusedOnlyIfStale

-----------------------------------------------------------------------------

\* An order a handler keeps is one the server made, and a list that came after its
\* making has it.
KeptOrders ==
    \A c \in Clicks :
        calls[c] # None =>
            /\ calls[c].step \in {"done", "list"} => calls[c].order \in {None} \cup Present
            /\ calls[c].step = "listed" => calls[c].order \in {None} \cup DOMAIN calls[c].list

\* Orders are made, and never unmade.
LEMMA PresentGrows ==
    ASSUME DOMAIN status = Orders, [Next]_vars
    PROVE  Present \subseteq Present'
<1>1. CASE UNCHANGED status
    BY <1>1 DEF Present
<1>2. ASSUME NEW o, NEW st \in Open \cup Ended, Become(o, st)
      PROVE  Present \subseteq Present'
    BY <1>2 DEF Become, Present, Open, Ended
<1>3. CASE Station
    BY <1>2, <1>3 DEF Station, Enqueue, Charge, Complete, Interrupt, Close, Open, Ended
<1>4. ASSUME NEW c \in Clicks, Handle(c)
      PROVE  Present \subseteq Present'
    BY <1>1, <1>2, <1>4 DEF Handle, HandleSubmit, HandleAct, Refuse, CancelEffect, Close, server, Open, Ended
<1>5. CASE CreateUnattended \/ \E c \in Clicks : HandleCreate(c)
    BY <1>1, <1>2, <1>5 DEF CreateUnattended, HandleCreate, Refuse, server, Open
<1>6. ASSUME NEW c \in Clicks, Click(c) \/ Network(c) \/ LoseAsk(c) \/ LoseList(c),
             ~Handle(c), ~HandleCreate(c)
      PROVE  UNCHANGED status
    BY <1>6 DEF Click, Network, Submit, Act, Refresh, HandleList, Receive, ShowError,
                ReceiveList, LoseAsk, LoseList, server
<1>7. CASE UNCHANGED vars \/ \E o \in Orders : SelectOrder(o)
    BY <1>1, <1>7 DEF vars, SelectOrder, server
<1> QED
    BY <1>1, <1>3, <1>4, <1>5, <1>6, <1>7 DEF Next

\* A step that puts one call forward keeps what the others keep.
LEMMA KeptStep ==
    ASSUME KeptOrders, DOMAIN calls = Clicks, Present \subseteq Present', NEW c \in Clicks, NEW new,
           calls' = [calls EXCEPT ![c] = new],
           new # None =>
               /\ new.step \in {"done", "list"} => new.order \in {None} \cup Present'
               /\ new.step = "listed" => new.order \in {None} \cup DOMAIN new.list
    PROVE  KeptOrders'
<1>1. \A k \in Clicks : calls'[k] = IF k = c THEN new ELSE calls[k]
    OBVIOUS
<1> QED
    BY <1>1 DEF KeptOrders

\* The inductive step.
LEMMA KeptInductive == KeptOrders /\ PageInv /\ [Next]_vars => KeptOrders'
<1> SUFFICES ASSUME KeptOrders, PageInv, [Next]_vars PROVE KeptOrders'
    OBVIOUS
<1>1. DOMAIN calls = Clicks /\ DOMAIN status = Orders /\ Present \subseteq Present'
    BY PresentGrows DEF PageInv
<1>2. ASSUME NEW c \in Clicks, NEW new, calls' = [calls EXCEPT ![c] = new],
             \/ new = None
             \/ new.step \notin {"done", "list", "listed"}
             \/ new.step \in {"done", "list"} /\ new.order \in {None} \cup Present'
      PROVE  KeptOrders'
    BY <1>1, <1>2, KeptStep
<1>3. ASSUME NEW c \in Clicks, Click(c) \/ LoseAsk(c) \/ LoseList(c) \/ ShowError(c) \/ ReceiveList(c)
      PROVE  KeptOrders'
    <2>1. \E new : /\ calls' = [calls EXCEPT ![c] = new]
                   /\ \/ new = None
                      \/ new.step \notin {"done", "list", "listed"}
                      \/ new.step = "list" /\ new.order = None
        BY <1>3 DEF Click, Submit, Act, Refresh, LoseAsk, LoseList, ShowError, ReceiveList, Failure,
                    Loading, Request, Call
    <2> QED
        BY <1>2, <2>1
<1>4. ASSUME NEW c \in Clicks, Handle(c)
      PROVE  KeptOrders'
    <2>1. \E new : /\ calls' = [calls EXCEPT ![c] = new]
                   /\ \/ new.step \notin {"done", "list", "listed"}
                      \/ new.step = "done" /\ new.order = None
        BY <1>4 DEF Handle, HandleSubmit, HandleAct, Refuse, Answer, Accept, Refusal, Failure, Passed, Call
    <2> QED
        BY <1>2, <2>1
<1>5. ASSUME NEW c \in Clicks, HandleCreate(c)
      PROVE  KeptOrders'
    <2>1. CASE Refuse(c)
        <3>1. calls' = [calls EXCEPT ![c] = Refusal] /\ Refusal.step = "refused"
            BY <2>1 DEF Refuse, Answer, Refusal, Failure, Call
        <3> QED
            BY <1>2, <3>1
    <2>2. ASSUME NEW o \in Fresh, Become(o, "WAITING"), Answer(c, Accept(o))
          PROVE  KeptOrders'
        <3>1. o \in Present'
            BY <1>1, <2>2 DEF Fresh, Present, Become
        <3>2. calls' = [calls EXCEPT ![c] = Accept(o)] /\ Accept(o).step = "done" /\ Accept(o).order = o
            BY <2>2 DEF Answer, Accept, Call
        <3> QED
            BY <1>2, <3>1, <3>2
    <2> QED
        BY <1>5, <2>1, <2>2 DEF HandleCreate
<1>6. ASSUME NEW c \in Clicks, HandleList(c)
      PROVE  KeptOrders'
    <2> DEFINE new == Call("act", calls[c].order, None, "listed", List)
    <2>1. calls' = [calls EXCEPT ![c] = new] /\ calls[c].order \in {None} \cup Present
        BY <1>6 DEF HandleList, KeptOrders
    <2>2. new.step = "listed" /\ new.order = calls[c].order /\ DOMAIN new.list = Present
        BY DEF Call, List
    <2> HIDE DEF new
    <2> QED
        BY <1>1, <2>1, <2>2, KeptStep
<1>7. ASSUME NEW c \in Clicks, Receive(c)
      PROVE  KeptOrders'
    <2> DEFINE new == AfterDone(calls[c])
    <2>1. calls' = [calls EXCEPT ![c] = new] /\ calls[c].order \in {None} \cup Present
        BY <1>7 DEF Receive, KeptOrders
    <2>2. new.step = "list" /\ new.order = calls[c].order
        BY DEF AfterDone, Loading, Call
    <2> HIDE DEF new
    <2> QED
        BY <1>1, <1>2, <2>1, <2>2
<1>8. CASE UNCHANGED calls
    BY <1>1, <1>8 DEF KeptOrders
<1> QED
    BY <1>3, <1>4, <1>5, <1>6, <1>7, <1>8 DEF Next, Network, CreateUnattended, Station, SelectOrder, vars

\* A call that has had an answer ends only by receiving its list: the question after an
\* answer is a call, and so is a failure.
LEMMA CallEnds ==
    ASSUME KeptOrders, DOMAIN calls = Clicks, [Next]_vars, NEW c \in Clicks,
           calls[c] # None, calls[c].step \in {"done", "listed"}, calls'[c] = None
    PROVE  ReceiveList(c)
<1>1. ASSUME NEW k \in Clicks, NEW new, calls' = [calls EXCEPT ![k] = new], new # None
      PROVE  FALSE
    BY <1>1
<1>2. PICK k \in Clicks : Click(k) \/ Network(k) \/ LoseAsk(k) \/ LoseList(k)
    BY DEF Next, CreateUnattended, Station, SelectOrder, vars
<1>3. k = c
    <2>1. \E new : calls' = [calls EXCEPT ![k] = new]
        BY <1>2 DEF Click, Network, Submit, Act, Refresh, LoseAsk, LoseList, Handle, HandleSubmit,
                    HandleCreate, HandleAct, HandleList, Receive, ShowError, ReceiveList, Refuse, Answer
    <2> QED
        BY <2>1
<1>4. CASE Receive(c)
    <2> DEFINE new == AfterDone(calls[c])
    <2>1. calls[c].order \in {None} \cup Orders
        BY <1>4 DEF Receive, KeptOrders, Present
    <2>2. new # None
        BY <2>1, NoneAssumption DEF AfterDone, Loading, Call
    <2>3. calls' = [calls EXCEPT ![c] = new]
        BY <1>4 DEF Receive
    <2> HIDE DEF new
    <2> QED
        BY <1>1, <2>2, <2>3
<1>5. CASE LoseAsk(c) \/ LoseList(c)
    <2>1. Failure("failed") # None /\ Failure("unlisted") # None
        BY NoneAssumption DEF Failure, Call
    <2>2. calls' = [calls EXCEPT ![c] = Failure("failed")] \/ calls' = [calls EXCEPT ![c] = Failure("unlisted")]
        BY <1>5 DEF LoseAsk, LoseList
    <2> QED
        BY <1>1, <2>1, <2>2
<1> QED
    BY <1>2, <1>3, <1>4, <1>5 DEF Click, Network, Submit, Act, Refresh, Handle, HandleCreate, Checked,
                                  HandleList, ShowError

\* A click that ends without an error has its order in the list the page shows.
THEOREM SubmissionShownHolds == Spec => SubmissionShown
<1> DEFINE Done(c) == /\ calls[c] # None /\ calls[c].step \in {"done", "listed"}
                      /\ calls'[c] = None
           Listed == \A c \in Clicks : Done(c) => calls[c].order \in {None} \cup DOMAIN shown'
<1>1. Init => KeptOrders
    BY DEF Init, KeptOrders, Loading, Call
<1>2. KeptOrders /\ PageInv /\ [Next]_vars => [Listed]_vars
    <2> SUFFICES ASSUME KeptOrders, PageInv, [Next]_vars, NEW c \in Clicks, Done(c)
                 PROVE  calls[c].order \in {None} \cup DOMAIN shown'
        OBVIOUS
    <2>1. ReceiveList(c)
        BY CallEnds DEF PageInv
    <2> QED
        BY <2>1 DEF ReceiveList, KeptOrders
<1> QED
    BY <1>1, <1>2, KeptInductive, PageInvInit, PageInvStep, PTL DEF Spec, SubmissionShown
=============================================================================
