------------------------------- MODULE Tariff -------------------------------
(***************************************************************************)
(* BillingService's arithmetic: what a session costs, from its start, its  *)
(* stop, the energy and the price rules, as pure operators.                *)
(*                                                                         *)
(* Times are in tenths of an hour from a midnight, energy in tenths of a   *)
(* kWh, prices and rates in tenths of a yuan per kWh, so that energy times *)
(* price is in cents and every rounding of the code is visible.  All rules *)
(* begin and end on the hour, as those of the code and of its tests do.    *)
(***************************************************************************)
EXTENDS Integers, FiniteSets, FiniteSetsExt, Sequences

Day == 240
Hour(h) == 10 * h

Rule(from, to, price) == [from |-> Hour(from), to |-> Hour(to), price |-> price]

(* What a row of the rules holds: minutes of a day, and a price. *)
PriceRule == [from : 0..Day, to : 0..Day, price : Nat]

Flat == 7
Peak == 10
Valley == 4
ServiceRate == 8

(* defaultRules, and what seed.ts inserts. *)
DefaultRules == <<Rule(7, 10, Flat), Rule(10, 15, Peak), Rule(15, 18, Flat),
                  Rule(18, 21, Peak), Rule(21, 23, Flat), Rule(23, 7, Valley)>>

TimeOfDay(t) == t % Day

(* Mutant of InRule: no rule may cross midnight. *)
InRuleSameDay(m, rule) == m >= rule.from /\ m < rule.to

(* A rule that does not begin before it ends crosses midnight. *)
InRule(m, rule) ==
    \/ rule.from < rule.to /\ m >= rule.from /\ m < rule.to
    \/ rule.from >= rule.to /\ (m >= rule.from \/ m < rule.to)

(* The first rule that covers the moment; 0.7 when none does. *)
PriceAt(t, rules) ==
    LET covering == {i \in DOMAIN rules : InRule(TimeOfDay(t), rules[i])}
    IN  IF covering = {} THEN Flat ELSE rules[Min(covering)].price

Boundaries(rules) == {rules[i].from : i \in DOMAIN rules} \cup {rules[i].to : i \in DOMAIN rules}

(* Mutant of NextBoundary: a boundary of earlier today is not put off. *)
NextBoundaryToday(t, rules) ==
    LET left == {b \in Boundaries(rules) : b > TimeOfDay(t)}
    IN  IF left = {} THEN t + Hour(24) ELSE t - TimeOfDay(t) + Min(left)

(* The next moment, today or tomorrow, a rule begins or ends at. *)
NextBoundary(t, rules) ==
    LET midnight == t - TimeOfDay(t)
        next(b) == IF midnight + b > t THEN midnight + b ELSE midnight + b + Day
    IN  IF rules = <<>> THEN t + Hour(1) ELSE Min({next(b) : b \in Boundaries(rules)})

(* The loop of calculateChargeFee, without the constant factor amount /     *)
(* duration of every slice: the prices of the time from start to stop.      *)
PricedTime(start, stop, rules) ==
    LET from[cursor \in start..stop] ==
            IF cursor = stop THEN 0
            ELSE LET next == Min({stop, NextBoundary(cursor, rules)})
                 IN  (next - cursor) * PriceAt(cursor, rules) + from[next]
    IN  from[start]

(* Math.round, of a quotient. *)
Rounded(n, d) == (2 * n + d) \div (2 * d)

ChargeFee(start, stop, amount, rules) ==
    IF start < stop
    THEN Rounded(amount * PricedTime(start, stop, rules), stop - start)
    ELSE amount * PriceAt(start, rules)

(* Mutant of MeteredAmount: the elapsed time may be negative. *)
MeteredAmountSigned(start, stop, power, requested) ==
    Min({requested, (stop - start) * power})

(* actualAmount: power times elapsed time, at most what was asked for. *)
MeteredAmount(start, stop, power, requested) ==
    Min({requested, Max({0, stop - start}) * power})

ServiceFee(amount) == amount * ServiceRate

(* Mutant of TotalFee: the service fee is left out. *)
TotalFeeOfCharge(charge, amount) == charge

TotalFee(charge, amount) == charge + ServiceFee(amount)

-----------------------------------------------------------------------------
(* Reports: the first day a report counts.  A real time is in hours; day 0  *)
(* is the first of a month, and months have MonthLength days.               *)

MonthLength == 30
DayOf(hours) == hours \div 24

(* Mutant of FirstDay: the week begins on a Sunday, reached by getDay(). *)
FirstDayNaive(type, day) ==
    CASE type = "DAY" -> day
      [] type = "WEEK" -> day + 1 - ((day + 1) % 7)
      [] type = "MONTH" -> day - (day % MonthLength)

(* rangeStartFor.  getDay() of day 0 is Monday's: (getDay() + 6) % 7 is the *)
(* number of days since Monday.                                             *)
FirstDay(type, day) ==
    CASE type = "DAY" -> day
      [] type = "WEEK" -> day - (day % 7)
      [] type = "MONTH" -> day - (day % MonthLength)
=============================================================================
