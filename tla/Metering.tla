------------------------------ MODULE Metering ------------------------------
(***************************************************************************)
(* Time and money: charging sessions that start and stop by the virtual    *)
(* clock, the meter the pages show meanwhile, the bills, and the reports   *)
(* that count the bills by the real date.  Station keeps the energy of a   *)
(* session as a number that grows; here it is what the clock makes of it.  *)
(***************************************************************************)
EXTENDS VirtualClock, Tariff, SequencesExt

CONSTANTS Power,       \* pile -> kW
          Requests,    \* requestedAmount, in tenths of a kWh
          Tariffs,     \* the rules activeRules may find
          MaxBills,    \* bound: bills of a run
          None

ASSUME MeteringAssumption ==
    /\ \A p \in DOMAIN Power : Power[p] \in Nat \ {0}
    /\ IsFiniteSet(DOMAIN Power)
    /\ Requests \subseteq Nat \ {0}
    /\ Tariffs \subseteq Seq(PriceRule)
    /\ MaxBills \in Nat

VARIABLES
    rules,      \* activeRules: nothing changes them while the server runs
    session,    \* the active session, or None
    bills       \* BillingDetail, in the order they were generated

metering == <<clock, rules, session, bills>>

Piles == DOMAIN Power

MeteringInit ==
    /\ ClockInit
    /\ rules \in Tariffs
    /\ session = None
    /\ bills = <<>>

(* Charging begins: the session is stamped with the virtual time. *)
Plug(p, requested) ==
    /\ session = None
    /\ Len(bills) < MaxBills
    /\ session' = [pile |-> p, start |-> VirtualNow, requested |-> requested, boot |-> boot]
    /\ UNCHANGED <<clock, rules, bills>>

(* Mutant of DeliveredAmount: the meter runs by the real time. *)
DeliveredAmountReal ==
    IF session = None THEN 0 ELSE Max({0, RealTime * real - session.start}) * Power[session.pile]

(* deliveredAmount: what the pages show; it is not capped by the request.  *)
DeliveredAmount ==
    IF session = None THEN 0 ELSE VirtualElapsed(session.start) * Power[session.pile]

(* Mutant of FullyDelivered: how far apart start and now are, in any order. *)
FullyDeliveredApart ==
    Max({VirtualNow - session.start, session.start - VirtualNow}) * Power[session.pile]
        >= session.requested

(* autoCompleteCharging: the session has put out what was asked for. *)
FullyDelivered ==
    Max({0, VirtualNow - session.start}) * Power[session.pile] >= session.requested

(* closeAndBill, for an order with one session.  start, power and requested *)
(* are what the bill was made from; boot tells whether the process survived. *)
Bill(reason) ==
    LET s == session
        amount == MeteredAmount(s.start, VirtualNow, Power[s.pile], s.requested)
        charge == ChargeFee(s.start, VirtualNow, amount, rules)
    IN  [pile |-> s.pile, start |-> s.start, stop |-> VirtualNow, requested |-> s.requested,
         generatedAt |-> real, amount |-> amount, duration |-> VirtualNow - s.start,
         chargeFee |-> charge, serviceFee |-> ServiceFee(amount),
         totalFee |-> TotalFee(charge, amount), reason |-> reason, survived |-> s.boot = boot]

CloseAndBill(reason) ==
    /\ session # None
    /\ bills' = Append(bills, Bill(reason))
    /\ session' = None
    /\ UNCHANGED <<clock, rules>>

(* A driver, a cancellation or a fault ends the session at any moment. *)
StopCharging == CloseAndBill("USER_STOP")

(* A request that auto-completes finds the session due.  It comes when it   *)
(* comes: the session may have been full for long.                          *)
AutoComplete == session # None /\ FullyDelivered /\ CloseAndBill("CHARGE_COMPLETE")

MeteringNext ==
    \/ ClockNext /\ UNCHANGED <<rules, session, bills>>
    \/ \E p \in Piles, r \in Requests : Plug(p, r)
    \/ StopCharging
    \/ AutoComplete

MeteringSpec == MeteringInit /\ [][MeteringNext]_metering

-----------------------------------------------------------------------------
(* ReportService.list, and what ReportView makes of it *)

Counted(type) ==
    {i \in DOMAIN bills : DayOf(bills[i].generatedAt) >= FirstDay(type, DayOf(real))}

(* The row of one pile; a pile without bills in the range has zeroes. *)
ReportRow(type, p) ==
    LET mine == {i \in Counted(type) : bills[i].pile = p}
        total(field) == SumFunction([i \in mine |-> bills[i][field]])
    IN  [pileId |-> p,
         count |-> Cardinality(mine),
         duration |-> total("duration"),
         amount |-> total("amount"),
         chargeFee |-> total("chargeFee"),
         serviceFee |-> total("serviceFee"),
         totalFee |-> total("totalFee")]

Report(type) == [p \in Piles |-> ReportRow(type, p)]

(* aggregatedStats: the totals above the table. *)
Revenue(type) ==
    SumFunction([p \in Piles |-> Report(type)[p].chargeFee])
        + SumFunction([p \in Piles |-> Report(type)[p].serviceFee])

(* pileStats: the totals in the table. *)
PileTotal(type, p) == Report(type)[p].totalFee

-----------------------------------------------------------------------------
(* Properties *)

TimeTypes == {"DAY", "WEEK", "MONTH"}

\* While a session lasts its meter, as the pages show it, does not run backwards:
\* not when the speed of the clock changes, only when the process restarts.
MeterNeverShrinks ==
    [][session' = session /\ boot' = boot => DeliveredAmount' >= DeliveredAmount]_metering

\* The driver pays for what the pages showed, but for what exceeds the request:
\* billing.service and common/charging compute it apart from each other.
BillAgreesWithMeter ==
    [][\A i \in DOMAIN bills' \ DOMAIN bills :
          bills'[i].amount = Min({session.requested, DeliveredAmount})]_metering

\* The price of a moment by the calendar: the first rule of which the moment is in
\* some day's occurrence, a rule that ends before it begins ending the day after.
CalendarPrice(t) ==
    LET length(r) == IF r.from < r.to THEN r.to - r.from ELSE r.to + Day - r.from
        holds(r) == \E day \in (t \div Day) - 1..t \div Day :
                        t >= day * Day + r.from /\ t < day * Day + r.from + length(r)
        found == {i \in DOMAIN rules : holds(rules[i])}
    IN  IF found = {} THEN Flat ELSE rules[Min(found)].price

\* A bill charges every tenth of an hour at the price of that moment, midnight and
\* hours without a rule included: the slices of calculateChargeFee lose no time
\* and count none twice.
BilledByTheCalendar ==
    \A i \in DOMAIN bills :
        LET b == bills[i]
            priced == SumFunction([t \in b.start..(b.stop - 1) |-> CalendarPrice(t)])
        IN  b.start < b.stop => b.chargeFee = Rounded(b.amount * priced, b.stop - b.start)

\* A session that auto-completion found due is billed for the whole request.
CompletedInFull ==
    \A i \in DOMAIN bills :
        bills[i].reason = "CHARGE_COMPLETE" => bills[i].amount = bills[i].requested

\* Nobody is ever credited: amounts and fees are not negative, even when a restart
\* puts the clock back to before the session began.  The duration of such a bill
\* is negative, and of no other.
NothingOwedBack ==
    \A i \in DOMAIN bills :
        LET b == bills[i]
        IN  /\ b.amount >= 0 /\ b.chargeFee >= 0 /\ b.totalFee >= b.chargeFee
            /\ b.survived => b.duration >= 0

\* The revenue above the report, summed from the fees, is what the piles' totals
\* below it add up to.
RevenueAddsUp ==
    \A type \in TimeTypes : Revenue(type) = SumFunction([p \in Piles |-> PileTotal(type, p)])

\* The report of the day is part of the week's and of the month's, on whatever
\* weekday and day of the month it is asked for.
DayWithinWeekAndMonth == Counted("DAY") \subseteq Counted("WEEK") \cap Counted("MONTH")
=============================================================================
