--------------------------- MODULE MeteringProofs ---------------------------
(***************************************************************************)
(* BillingService's arithmetic, for any price rules and any session: the   *)
(* slices of calculateChargeFee cost what each of their moments costs.     *)
(* Then the clock, the meter, the bills and the reports, for any speeds,   *)
(* any piles and any number of settings and restarts.                      *)
(***************************************************************************)
EXTENDS Metering, Collections

-----------------------------------------------------------------------------
(* What a bill is made of *)

\* The amount of a bill is a natural number, at most what was asked for.
LEMMA AmountIsNat ==
    ASSUME NEW start \in Int, NEW stop \in Int, NEW power \in Nat, NEW requested \in Nat
    PROVE  /\ MeteredAmount(start, stop, power, requested) \in Nat
           /\ MeteredAmount(start, stop, power, requested) <= requested
<1> DEFINE elapsed == Max({0, stop - start})
<1>1. elapsed \in Nat
    BY MaxOfTwo
<1>2. elapsed * power \in Nat
    BY <1>1
<1>3. MeteredAmount(start, stop, power, requested) = Min({requested, elapsed * power})
    BY DEF MeteredAmount
<1> HIDE DEF elapsed
<1> QED
    BY <1>2, <1>3, MinOfTwo

\* Rounding does not make a natural number negative.
LEMMA RoundedIsNat ==
    ASSUME NEW n \in Nat, NEW d \in Nat \ {0}
    PROVE  Rounded(n, d) \in Nat
<1>1. 2 * n + d \in Nat /\ 2 * d \in Nat \ {0}
    OBVIOUS
<1>2. ASSUME NEW a \in Nat, NEW b \in Nat \ {0}
      PROVE  a \div b \in Nat
    BY <1>2
<1> QED
    BY <1>1, <1>2 DEF Rounded

-----------------------------------------------------------------------------
(* Prices *)

\* A price is a natural number.
LEMMA PriceIsNat ==
    ASSUME NEW prices \in Seq(PriceRule), NEW t \in Nat
    PROVE  PriceAt(t, prices) \in Nat
<1> DEFINE covering == {i \in DOMAIN prices : InRule(TimeOfDay(t), prices[i])}
<1>1. CASE covering = {}
    BY <1>1 DEF PriceAt, Flat
<1>2. CASE covering # {}
    <2>1. covering \in SUBSET Nat
        OBVIOUS
    <2>2. Min(covering) \in DOMAIN prices
        BY <1>2, <2>1, MinOfSet
    <2>3. prices[Min(covering)] \in PriceRule
        BY <2>2
    <2>4. PriceAt(t, prices) = prices[Min(covering)].price
        BY <1>2 DEF PriceAt
    <2> QED
        BY <2>3, <2>4 DEF PriceRule
<1> QED
    BY <1>1, <1>2

\* A rule begins or ends to hold only at its own boundaries, midnight included.
LEMMA RuleStays ==
    ASSUME NEW rule \in PriceRule, NEW t \in Nat,
           rule.from % Day # (t + 1) % Day, rule.to % Day # (t + 1) % Day
    PROVE  InRule(TimeOfDay(t + 1), rule) <=> InRule(TimeOfDay(t), rule)
<1> DEFINE f == rule.from
           g == rule.to
           now == t % 240
           next == (t + 1) % 240
<1>1. f \in 0..240 /\ g \in 0..240
    BY DEF PriceRule, Day
<1>2. now \in 0..239 /\ next = IF now = 239 THEN 0 ELSE now + 1
    OBVIOUS
<1>3. f % 240 # next /\ g % 240 # next
    BY DEF Day
<1>4. /\ InRule(TimeOfDay(t + 1), rule)
          <=> (f < g /\ next >= f /\ next < g) \/ (f >= g /\ (next >= f \/ next < g))
      /\ InRule(TimeOfDay(t), rule)
          <=> (f < g /\ now >= f /\ now < g) \/ (f >= g /\ (now >= f \/ now < g))
    BY DEF InRule, TimeOfDay, Day
<1> HIDE DEF f, g, now, next
<1>5. /\ f % 240 = IF f = 240 THEN 0 ELSE f
      /\ g % 240 = IF g = 240 THEN 0 ELSE g
    BY <1>1
<1>6. (IF f = 240 THEN 0 ELSE f) # next /\ (IF g = 240 THEN 0 ELSE g) # next
    BY <1>3, <1>5
<1>7. CASE now = 239
    BY <1>1, <1>2, <1>4, <1>6, <1>7
<1>8. CASE now # 239
    BY <1>1, <1>2, <1>4, <1>6, <1>8
<1> QED
    BY <1>7, <1>8

\* The price changes only at a boundary of some rule.
LEMMA PriceStays ==
    ASSUME NEW prices \in Seq(PriceRule), NEW t \in Nat,
           \A b \in Boundaries(prices) : b % Day # (t + 1) % Day
    PROVE  PriceAt(t + 1, prices) = PriceAt(t, prices)
<1>1. ASSUME NEW i \in DOMAIN prices
      PROVE  InRule(TimeOfDay(t + 1), prices[i]) <=> InRule(TimeOfDay(t), prices[i])
    <2>1. prices[i] \in PriceRule
        OBVIOUS
    <2>2. prices[i].from \in Boundaries(prices) /\ prices[i].to \in Boundaries(prices)
        BY DEF Boundaries
    <2> QED
        BY <2>1, <2>2, RuleStays
<1>2. {i \in DOMAIN prices : InRule(TimeOfDay(t + 1), prices[i])}
        = {i \in DOMAIN prices : InRule(TimeOfDay(t), prices[i])}
    BY <1>1
<1> QED
    BY <1>2 DEF PriceAt

\* The loop gets ahead, and stops at no boundary later than the next.
LEMMA NextBoundaryAhead ==
    ASSUME NEW prices \in Seq(PriceRule), NEW cursor \in Nat
    PROVE  /\ NextBoundary(cursor, prices) \in Nat
           /\ NextBoundary(cursor, prices) > cursor
           /\ \A t \in Nat : cursor < t /\ t < NextBoundary(cursor, prices) =>
                 \A b \in Boundaries(prices) : b % Day # t % Day
<1> DEFINE midnight == cursor - TimeOfDay(cursor)
           next(b) == IF midnight + b > cursor THEN midnight + b ELSE midnight + b + Day
           all == {next(b) : b \in Boundaries(prices)}
<1>0. \A b \in Boundaries(prices) : b \in 0..240
    <2>1. ASSUME NEW i \in DOMAIN prices
          PROVE  prices[i].from \in 0..240 /\ prices[i].to \in 0..240
        <3> DEFINE rule == prices[i]
        <3>1. rule \in PriceRule
            OBVIOUS
        <3> HIDE DEF rule
        <3>2. rule.from \in 0..240 /\ rule.to \in 0..240
            BY <3>1 DEF PriceRule, Day
        <3> QED
            BY <3>2 DEF rule
    <2> SUFFICES ASSUME NEW b \in Boundaries(prices) PROVE b \in 0..240
        OBVIOUS
    <2>2. PICK i \in DOMAIN prices : b = prices[i].from \/ b = prices[i].to
        BY DEF Boundaries
    <2>3. prices[i].from \in 0..240 /\ prices[i].to \in 0..240
        BY <2>1
    <2> QED
        BY <2>2, <2>3
<1>1. CASE prices = <<>>
    <2>1. NextBoundary(cursor, prices) = cursor + 10 /\ Boundaries(prices) = {}
        BY <1>1 DEF NextBoundary, Hour, Boundaries
    <2>2. \A t \in Nat : \A b \in Boundaries(prices) : b % Day # t % Day
        BY <2>1
    <2>3. cursor + 10 \in Nat /\ cursor + 10 > cursor
        OBVIOUS
    <2> QED
        BY <2>1, <2>2, <2>3
<1>2. CASE prices # <<>>
    <2>1. PICK k \in Nat : midnight = 240 * k /\ cursor - midnight \in 0..239
        <3>1. cursor = 240 * (cursor \div 240) + (cursor % 240) /\ cursor % 240 \in 0..239
            OBVIOUS
        <3>2. cursor \div 240 \in Nat
            OBVIOUS
        <3> QED
            BY <3>1, <3>2 DEF TimeOfDay, Day
    <2> HIDE DEF midnight
    <2>2. \A b \in Boundaries(prices) : next(b) \in Nat /\ next(b) > cursor
        <3> SUFFICES ASSUME NEW b \in Boundaries(prices)
                     PROVE  next(b) \in Nat /\ next(b) > cursor
            OBVIOUS
        <3>1. b \in 0..240 /\ 240 * k \in Nat
            BY <1>0
        <3>2. next(b) = IF 240 * k + b > cursor THEN 240 * k + b ELSE 240 * k + b + 240
            BY <2>1 DEF Day
        <3>3. cursor - 240 * k \in 0..239
            BY <2>1
        <3> HIDE DEF next
        <3> QED
            BY <3>1, <3>2, <3>3
    <2>3. all \in SUBSET Nat
        BY <2>2
    <2>4. all # {}
        <3>1. 1 \in DOMAIN prices
            BY <1>2
        <3>2. prices[1].from \in Boundaries(prices)
            BY <3>1 DEF Boundaries
        <3> QED
            BY <3>2
    <2>5. NextBoundary(cursor, prices) = Min(all)
        BY <1>2 DEF NextBoundary, midnight
    <2> HIDE DEF all, next
    <2>6. Min(all) \in all /\ \A n \in all : Min(all) <= n
        BY <2>3, <2>4, MinOfSet
    <2>7. Min(all) \in Nat /\ Min(all) > cursor
        BY <2>2, <2>6 DEF all
    <2>8. ASSUME NEW t \in Nat, cursor < t, t < Min(all), NEW b \in Boundaries(prices)
          PROVE  b % Day # t % Day
        <3>1. Min(all) <= next(b) /\ next(b) \in Nat
            BY <2>2, <2>6 DEF all
        <3>2. t < next(b)
            BY <2>7, <2>8, <3>1
        <3>3. b \in 0..240
            BY <1>0
        <3>4. next(b) = IF 240 * k + b > cursor THEN 240 * k + b ELSE 240 * k + b + 240
            BY <2>1 DEF next, Day
        <3>5. t = 240 * (t \div 240) + (t % 240) /\ t % 240 \in 0..239 /\ t \div 240 \in Nat
            OBVIOUS
        <3>6. b % 240 = IF b = 240 THEN 0 ELSE b
            BY <3>3
        <3> QED
            BY <2>1, <2>8, <3>2, <3>3, <3>4, <3>5, <3>6 DEF Day
    <2> QED
        BY <2>5, <2>7, <2>8
<1> QED
    BY <1>1, <1>2

\* Up to the next boundary every moment has the price of the first.
LEMMA SlicePrice ==
    ASSUME NEW prices \in Seq(PriceRule), NEW cursor \in Nat, NEW t \in Nat,
           cursor <= t, t < NextBoundary(cursor, prices)
    PROVE  PriceAt(t, prices) = PriceAt(cursor, prices)
<1> DEFINE G == {n \in Nat : cursor + n < NextBoundary(cursor, prices) =>
                               PriceAt(cursor + n, prices) = PriceAt(cursor, prices)}
<1>1. 0 \in G
    OBVIOUS
<1>2. ASSUME NEW n \in Nat, n \in G
      PROVE  n + 1 \in G
    <2> SUFFICES ASSUME cursor + (n + 1) < NextBoundary(cursor, prices)
                 PROVE  PriceAt(cursor + (n + 1), prices) = PriceAt(cursor, prices)
        OBVIOUS
    <2>1. NextBoundary(cursor, prices) \in Nat
        BY NextBoundaryAhead
    <2>2. PriceAt(cursor + n, prices) = PriceAt(cursor, prices)
        BY <1>2, <2>1
    <2> DEFINE u == cursor + n
    <2>3. u \in Nat /\ u + 1 = cursor + (n + 1) /\ cursor < u + 1
        OBVIOUS
    <2>4. \A b \in Boundaries(prices) : b % Day # (u + 1) % Day
        BY <2>3, NextBoundaryAhead
    <2> HIDE DEF u
    <2>5. PriceAt(u + 1, prices) = PriceAt(u, prices)
        BY <2>3, <2>4, PriceStays
    <2> QED
        BY <2>2, <2>3, <2>5 DEF u
<1> HIDE DEF G
<1>3. t - cursor \in G
    BY <1>1, <1>2, NatSetInduction
<1>4. cursor + (t - cursor) = t
    OBVIOUS
<1> QED
    BY <1>3, <1>4 DEF G

\* A rule holds at a moment of some day's occurrence, today's or yesterday's, and at
\* no other: isTimeInRule looks only at the time of the day.
LEMMA RuleOccurs ==
    ASSUME NEW rule \in PriceRule, NEW t \in Nat, NEW length,
           length = IF rule.from < rule.to THEN rule.to - rule.from ELSE rule.to + Day - rule.from
    PROVE  InRule(TimeOfDay(t), rule)
             <=> \E day \in (t \div Day) - 1..t \div Day :
                    t >= day * Day + rule.from /\ t < day * Day + rule.from + length
<1> DEFINE f == rule.from
           g == rule.to
           k == t \div 240
           m == t % 240
           In == \/ f < g /\ m >= f /\ m < g
                 \/ f >= g /\ (m >= f \/ m < g)
<1>1. f \in 0..240 /\ g \in 0..240
    BY DEF PriceRule, Day
<1>2. t = 240 * k + m /\ m \in 0..239 /\ k \in Nat
    OBVIOUS
<1>3. length = IF f < g THEN g - f ELSE g + 240 - f
    BY DEF Day
<1>4. InRule(TimeOfDay(t), rule) <=> In
    BY DEF InRule, TimeOfDay, Day
<1> HIDE DEF f, g, k, m
<1>5. In <=> \/ t >= (k - 1) * 240 + f /\ t < (k - 1) * 240 + f + length
             \/ t >= k * 240 + f /\ t < k * 240 + f + length
    <2>1. k * 240 \in Int /\ (k - 1) * 240 = k * 240 - 240 /\ 240 * k = k * 240
        BY <1>2
    <2>2. CASE f < g
        BY <1>1, <1>2, <1>3, <2>1, <2>2
    <2>3. CASE f >= g
        BY <1>1, <1>2, <1>3, <2>1, <2>3
    <2> QED
        BY <1>1, <2>2, <2>3
<1>6. (k - 1)..k = {k - 1, k}
    BY <1>2
<1> HIDE DEF In
<1>7. In <=> \E day \in (k - 1)..k : t >= day * 240 + f /\ t < day * 240 + f + length
    BY <1>5, <1>6
<1> QED
    BY <1>4, <1>7 DEF f, k, Day

-----------------------------------------------------------------------------
(* The loop of calculateChargeFee *)

(* What every moment costs. *)
Prices(prices) == [t \in Nat |-> PriceAt(t, prices)]

SliceAdds(f, a, b, stop) ==
    Total(f, a..(stop - 1)) = (b - a) * f[a] + Total(f, b..(stop - 1))

\* A slice of one price, and the rest.
LEMMA TotalOfSlice ==
    ASSUME NEW f, NEW a \in Nat, NEW b \in Nat, NEW stop \in Nat, a < b, b <= stop,
           \A t \in a..(b - 1) : f[t] = f[a], \A t \in a..(stop - 1) : f[t] \in Int
    PROVE  SliceAdds(f, a, b, stop)
<1> DEFINE v == f[a]
<1>0. v \in Int /\ \A t \in a..(b - 1) : f[t] = v
    OBVIOUS
<1> HIDE DEF v
<1> DEFINE G == {n \in Nat : a + n <= b =>
                    Total(f, a..(stop - 1)) = n * v + Total(f, (a + n)..(stop - 1))}
<1>1. 0 \in G
    <2>1. IsFiniteSet(a..(stop - 1))
        BY FS_Interval
    <2>2. Total(f, a..(stop - 1)) \in Int
        BY <2>1, TotalTakes
    <2>3. a + 0 = a /\ 0 * v = 0
        BY <1>0
    <2> QED
        BY <1>0, <2>2, <2>3
<1>2. ASSUME NEW n \in Nat, n \in G
      PROVE  n + 1 \in G
    <2> SUFFICES ASSUME a + (n + 1) <= b
                 PROVE  Total(f, a..(stop - 1))
                          = (n + 1) * v + Total(f, (a + (n + 1))..(stop - 1))
        OBVIOUS
    <2> DEFINE S == (a + n)..(stop - 1)
               rest == (a + (n + 1))..(stop - 1)
    <2>1. IsFiniteSet(S) /\ IsFiniteSet(rest)
        BY FS_Interval
    <2>2. a + n \in S /\ f[a + n] = v /\ S \ {a + n} = rest
        BY <1>0
    <2>3. \A t \in S : f[t] \in Int
        OBVIOUS
    <2>3a. \A t \in rest : f[t] \in Int
        OBVIOUS
    <2>4. Total(f, a..(stop - 1)) = n * v + Total(f, S)
        BY <1>2
    <2> HIDE DEF S, rest
    <2>5. Total(f, S) = v + Total(f, rest) /\ Total(f, rest) \in Int
        BY <1>0, <2>1, <2>2, <2>3, <2>3a, TotalTakes
    <2>6. (n + 1) * v = n * v + v /\ n * v \in Int
        BY <1>0
    <2>7. Total(f, a..(stop - 1)) = (n + 1) * v + Total(f, rest)
        BY <1>0, <2>4, <2>5, <2>6
    <2> QED
        BY <2>7 DEF rest
<1> HIDE DEF G
<1>3. b - a \in G
    BY <1>1, <1>2, NatSetInduction
<1>4. a + (b - a) = b
    OBVIOUS
<1> QED
    BY <1>3, <1>4 DEF G, v, SliceAdds

\* The loop costs the sum of what its moments cost: no time is lost between two
\* slices, and none is counted twice (calculateChargeFee, nextRuleBoundary).
THEOREM PricedTimeIsTotal ==
    ASSUME NEW prices \in Seq(PriceRule), NEW start \in Nat, NEW stop \in Nat, start <= stop
    PROVE  PricedTime(start, stop, prices) = Total(Prices(prices), start..(stop - 1))
<1> DEFINE Next(cursor) == Min({stop, NextBoundary(cursor, prices)})
           Loop(f, cursor) ==
              IF cursor = stop THEN 0
              ELSE (Next(cursor) - cursor) * PriceAt(cursor, prices) + f[Next(cursor)]
           from == CHOOSE f : f = [cursor \in start..stop |-> Loop(f, cursor)]
           cost(cursor) == Total(Prices(prices), cursor..(stop - 1))
           right == [cursor \in start..stop |-> cost(cursor)]
<1>1. PricedTime(start, stop, prices) = from[start]
    BY DEF PricedTime
<1>2. ASSUME NEW cursor \in start..stop, cursor # stop
      PROVE  /\ Next(cursor) \in start..stop
             /\ Next(cursor) > cursor
             /\ Next(cursor) <= NextBoundary(cursor, prices)
    <2>1. NextBoundary(cursor, prices) \in Nat /\ NextBoundary(cursor, prices) > cursor
        BY NextBoundaryAhead
    <2>2. Next(cursor) = IF stop <= NextBoundary(cursor, prices) THEN stop
                         ELSE NextBoundary(cursor, prices)
        BY <2>1, MinOfTwo
    <2> HIDE DEF Next
    <2> QED
        BY <1>2, <2>1, <2>2
<1>3. ASSUME NEW cursor \in start..stop
      PROVE  right[cursor] = Loop(right, cursor)
    <2>1. CASE cursor = stop
        <3>1. cursor..(stop - 1) = {}
            BY <2>1
        <3>2. cost(cursor) = 0
            BY <3>1, TotalOfNone
        <3> QED
            BY <2>1, <3>2
    <2>2. CASE cursor # stop
        <3> DEFINE next == Next(cursor)
        <3>1. next \in start..stop /\ next > cursor /\ next <= NextBoundary(cursor, prices)
            BY <1>2, <2>2
        <3>0. cursor \in Nat /\ next \in Nat /\ cursor <= next /\ next <= stop
            <4> HIDE DEF next
            <4> QED
                BY <3>1
        <3>2. NextBoundary(cursor, prices) \in Nat /\ PriceAt(cursor, prices) \in Int
            BY <3>0, NextBoundaryAhead, PriceIsNat
        <3>3. ASSUME NEW t \in cursor..(next - 1)
              PROVE  Prices(prices)[t] = PriceAt(cursor, prices)
            <4> HIDE DEF next
            <4>1. t \in Nat /\ cursor <= t /\ t < NextBoundary(cursor, prices)
                BY <3>1, <3>2
            <4> QED
                BY <4>1, SlicePrice DEF Prices
        <3>4. \A t \in cursor..(stop - 1) : Prices(prices)[t] \in Int
            BY PriceIsNat DEF Prices
        <3> HIDE DEF next
        <3>5. Total(Prices(prices), cursor..(stop - 1))
                = (next - cursor) * PriceAt(cursor, prices) + Total(Prices(prices), next..(stop - 1))
            <4> DEFINE f == Prices(prices)
            <4>1. /\ f[cursor] = PriceAt(cursor, prices)
                  /\ \A t \in cursor..(next - 1) : f[t] = f[cursor]
                  /\ \A t \in cursor..(stop - 1) : f[t] \in Int
                BY <3>0, <3>3, <3>4 DEF Prices
            <4>2. cursor < next
                BY <3>1
            <4> HIDE DEF f
            <4>3. SliceAdds(f, cursor, next, stop)
                BY <3>0, <4>1, <4>2, TotalOfSlice
            <4> QED
                BY <4>1, <4>3 DEF f, SliceAdds
        <3>6. right[next] = Total(Prices(prices), next..(stop - 1))
            BY <3>1
        <3>7. right[cursor] = Total(Prices(prices), cursor..(stop - 1))
            OBVIOUS
        <3>8. Loop(right, cursor) = (next - cursor) * PriceAt(cursor, prices) + right[next]
            BY <2>2 DEF next
        <3> HIDE DEF Loop, right
        <3> QED
            BY <3>5, <3>6, <3>7, <3>8
    <2> QED
        BY <2>1, <2>2
<1>4. right = [cursor \in start..stop |-> Loop(right, cursor)]
    <2>1. right = [cursor \in start..stop |-> right[cursor]]
        OBVIOUS
    <2> HIDE DEF right, Loop
    <2> QED
        BY <1>3, <2>1
<1>5. from = [cursor \in start..stop |-> Loop(from, cursor)]
    <2> HIDE DEF right
    <2> QED
        BY <1>4
<1> DEFINE Bad == {n \in Nat : n <= stop - start /\ from[stop - n] # right[stop - n]}
<1>6. Bad = {}
    <2> SUFFICES ASSUME Bad # {} PROVE FALSE
        OBVIOUS
    <2>1. PICK n \in Bad : \A m \in Bad : n <= m
        BY LeastOf
    <2> DEFINE cursor == stop - n
    <2>2. cursor \in start..stop /\ from[cursor] # right[cursor]
        BY <2>1
    <2> HIDE DEF from, right, Loop, cursor
    <2>3. from[cursor] = Loop(from, cursor) /\ right[cursor] = Loop(right, cursor)
        BY <1>3, <1>5, <2>2
    <2>4. cursor # stop
        BY <2>2, <2>3 DEF Loop
    <2> DEFINE next == Next(cursor)
    <2>5. next \in start..stop /\ next > cursor
        BY <1>2, <2>2, <2>4
    <2> HIDE DEF next
    <2>6. stop - next \in Nat /\ stop - next < n /\ stop - next <= stop - start /\ stop - (stop - next) = next
        BY <2>1, <2>5 DEF cursor
    <2>7. stop - next \notin Bad
        BY <2>1, <2>6
    <2>8. from[next] = right[next]
        BY <2>6, <2>7
    <2> QED
        BY <2>2, <2>3, <2>4, <2>8 DEF Loop, next
<1>7. from[start] = right[start]
    <2> DEFINE n == stop - start
    <2>1. n \in Nat /\ n <= stop - start /\ stop - n = start
        OBVIOUS
    <2> HIDE DEF from, right, n
    <2>2. from[stop - n] = right[stop - n]
        BY <1>6, <2>1
    <2> QED
        BY <2>1, <2>2
<1>8. right[start] = Total(Prices(prices), start..(stop - 1))
    OBVIOUS
<1> HIDE DEF from, right
<1> QED
    BY <1>1, <1>7, <1>8

\* A session of any length, at prices that are not negative, has a cost that is not.
LEMMA PricedTimeIsNat ==
    ASSUME NEW prices \in Seq(PriceRule), NEW start \in Nat, NEW stop \in Nat, start <= stop
    PROVE  PricedTime(start, stop, prices) \in Nat
<1> DEFINE S == start..(stop - 1)
<1>1. IsFiniteSet(S)
    BY FS_Interval
<1>2. \A t \in S : Prices(prices)[t] \in Nat
    BY PriceIsNat DEF Prices
<1>3. PricedTime(start, stop, prices) = Total(Prices(prices), S)
    BY PricedTimeIsTotal
<1> HIDE DEF S
<1> QED
    BY <1>1, <1>2, <1>3, TotalNat

\* So is the fee, of a session that lasted and of one that did not.
LEMMA ChargeFeeIsNat ==
    ASSUME NEW prices \in Seq(PriceRule), NEW start \in Nat, NEW stop \in Nat, NEW amount \in Nat
    PROVE  ChargeFee(start, stop, amount, prices) \in Nat
<1>1. CASE start < stop
    <2>0. PricedTime(start, stop, prices) \in Nat
        <3>1. start <= stop
            BY <1>1
        <3> QED
            BY <3>1, PricedTimeIsNat
    <2>1. amount * PricedTime(start, stop, prices) \in Nat
        BY <2>0
    <2>2. stop - start \in Nat \ {0}
        BY <1>1
    <2>3. Rounded(amount * PricedTime(start, stop, prices), stop - start) \in Nat
        BY <2>1, <2>2, RoundedIsNat
    <2> QED
        BY <1>1, <2>3 DEF ChargeFee
<1>2. CASE ~(start < stop)
    <2>1. PICK price : price = PriceAt(start, prices)
        OBVIOUS
    <2>2. price \in Nat
        BY <2>1, PriceIsNat
    <2>3. ChargeFee(start, stop, amount, prices) = amount * price
        BY <1>2, <2>1 DEF ChargeFee
    <2>4. amount * price \in Nat
        BY <2>2
    <2> QED
        BY <2>3, <2>4
<1> QED
    BY <1>1, <1>2

-----------------------------------------------------------------------------
(* The clock *)

\* setClockSpeed keeps the speed between 0.1 and 100, whatever it was sent.
LEMMA ClampedInRange ==
    ASSUME NEW v \in Int
    PROVE  Clamped(v) \in Slowest..Fastest
BY DEF Clamped, Slowest, Fastest, RealTime

\* Time that passes at a speed is not negative.
LEMMA Passed ==
    ASSUME NEW t \in Nat, NEW s \in Slowest..Fastest
    PROVE  t * s \in Nat
BY SMT DEF Slowest, Fastest

\* The clock of a started server runs in real time, which is within the limits.
LEMMA ClockInitOK == ClockInit => ClockTypeOK
BY ClockAssumption DEF ClockInit, ClockTypeOK, RealTime, Slowest, Fastest

\* The virtual time is a natural number: its bases are, and the real time does not
\* fall behind them.
LEMMA VirtualNowIsNat == ClockTypeOK => VirtualNow \in Nat
<1> SUFFICES ASSUME ClockTypeOK PROVE VirtualNow \in Nat
    OBVIOUS
<1>1. real - baseReal \in Nat /\ speed \in Slowest..Fastest /\ baseVirtual \in Nat
    BY DEF ClockTypeOK
<1>2. (real - baseReal) * speed \in Nat
    BY <1>1, Passed
<1> QED
    BY <1>1, <1>2 DEF VirtualNow

\* The variables of the clock keep their types: the inductive step.
LEMMA ClockTypeStep ==
    ASSUME ClockTypeOK, [ClockNext]_clock
    PROVE  ClockTypeOK'
<1>1. CASE Advance
    BY <1>1 DEF Advance, ClockTypeOK
<1>2. ASSUME NEW v \in Speeds, SetClockSpeed(v)
      PROVE  ClockTypeOK'
    <2>1. Clamped(v) \in Slowest..Fastest
        BY ClockAssumption, ClampedInRange
    <2>2. VirtualNow \in Nat
        BY VirtualNowIsNat
    <2> QED
        BY <1>2, <2>1, <2>2 DEF SetClockSpeed, RebasedVirtual, ClockTypeOK
<1>3. CASE Reboot
    BY <1>3 DEF Reboot, ClockTypeOK, RealTime, Slowest, Fastest
<1>4. CASE UNCHANGED clock
    BY <1>4 DEF clock, ClockTypeOK
<1> QED
    BY <1>1, <1>2, <1>3, <1>4 DEF ClockNext

\* Without a restart no step puts the clock back, and no setting moves it.
LEMMA ClockStep ==
    ASSUME ClockTypeOK, [ClockNext]_clock, boot' = boot
    PROVE  VirtualNow' >= VirtualNow /\ (real' = real => VirtualNow' = VirtualNow)
<1>0. /\ {real, baseReal, baseVirtual, boot} \subseteq Nat
      /\ speed \in Nat
      /\ baseReal <= real
      /\ speed \in Slowest..Fastest
    BY DEF ClockTypeOK, Slowest, Fastest
<1>5. VirtualNow \in Nat
    BY VirtualNowIsNat
<1>1. CASE Advance
    <2>1. VirtualNow' = baseVirtual + ((real + 1) - baseReal) * speed
        BY <1>1 DEF Advance, VirtualNow
    <2>2. ((real + 1) - baseReal) * speed = (real - baseReal) * speed + speed
        BY <1>0, SMT
    <2>3. (real - baseReal) * speed \in Int
        BY <1>0
    <2> QED
        BY <1>0, <1>1, <2>1, <2>2, <2>3 DEF Advance, VirtualNow
<1>2. ASSUME NEW v \in Speeds, SetClockSpeed(v)
      PROVE  VirtualNow' = VirtualNow
    <2>0. Clamped(v) \in Slowest..Fastest
        BY ClockAssumption, ClampedInRange
    <2>1. Clamped(v) \in Int
        BY <2>0 DEF Slowest, Fastest
    <2>2. VirtualNow \in Nat
        BY VirtualNowIsNat
    <2>3. VirtualNow' = VirtualNow + (real - real) * Clamped(v)
        BY <1>2 DEF SetClockSpeed, RebasedVirtual, VirtualNow
    <2>4. (real - real) * Clamped(v) = 0
        BY <1>0, <2>1
    <2> QED
        BY <2>2, <2>3, <2>4
<1>3. CASE Reboot
    BY <1>0, <1>3 DEF Reboot
<1>4. CASE UNCHANGED clock
    <2>1. VirtualNow' = VirtualNow
        BY <1>4 DEF clock, VirtualNow
    <2> QED
        BY <1>5, <2>1
<1> QED
    BY <1>1, <1>2, <1>3, <1>4, <1>5 DEF ClockNext

\* The same of the time after a step.
LEMMA VirtualNextIsNat == ClockTypeOK' => (VirtualNow \in Nat)'
BY VirtualNowIsNat, PTL

\* A step of the meter is a step of the clock or leaves the clock alone.
LEMMA MeteringStepsClock == [MeteringNext]_metering => [ClockNext]_clock
BY DEF MeteringNext, metering, Plug, StopCharging, AutoComplete, CloseAndBill

\* The clock of a running station is always in its range (clock.ts, clock-speed).
THEOREM ClockTypeHolds == MeteringSpec => []ClockTypeOK
<1>1. MeteringInit => ClockTypeOK
    BY ClockInitOK DEF MeteringInit
<1>2. ClockTypeOK /\ [MeteringNext]_metering => ClockTypeOK'
    BY MeteringStepsClock, ClockTypeStep
<1> QED
    BY <1>1, <1>2, PTL DEF MeteringSpec

\* The virtual clock runs on, at any speed and through every change of speed.
THEOREM ClockRunsOnHolds == MeteringSpec => ClockRunsOn
<1>1. ClockTypeOK /\ [MeteringNext]_metering
      => [boot' = boot => /\ VirtualNow' >= VirtualNow
                          /\ real' = real => VirtualNow' = VirtualNow]_clock
    BY MeteringStepsClock, ClockStep
<1> QED
    BY <1>1, ClockTypeHolds, PTL DEF MeteringSpec, ClockRunsOn

-----------------------------------------------------------------------------

\* A session is of a pile there is, and began at a time of the virtual clock.
SessionOK == session # None => session.pile \in Piles /\ session.start \in Nat

\* The one session is always of a pile there is and began at a virtual time that is a
\* natural number: charging.service.ts writes startTime from the virtual clock.
THEOREM SessionHolds == MeteringSpec => []SessionOK
<1>1. MeteringInit => SessionOK
    BY DEF MeteringInit, SessionOK
<1>2. SessionOK /\ ClockTypeOK /\ [MeteringNext]_metering => SessionOK'
    <2> SUFFICES ASSUME SessionOK, ClockTypeOK, [MeteringNext]_metering
                 PROVE  SessionOK'
        OBVIOUS
    <2>1. ASSUME NEW p \in Piles, NEW r \in Requests, Plug(p, r)
          PROVE  SessionOK'
        BY <2>1, VirtualNowIsNat DEF Plug, SessionOK
    <2>2. CASE StopCharging \/ AutoComplete
        BY <2>2 DEF StopCharging, AutoComplete, CloseAndBill, SessionOK
    <2>3. CASE UNCHANGED session
        BY <2>3 DEF SessionOK
    <2> QED
        BY <2>1, <2>2, <2>3 DEF MeteringNext, metering
<1> QED
    BY <1>1, <1>2, ClockTypeHolds, PTL DEF MeteringSpec

\* The meter that the pages show never runs backwards while a session lasts and the
\* process lives (deliveredAmount, chargingProgress).
THEOREM MeterHolds == MeteringSpec => MeterNeverShrinks
<1> DEFINE Grows == session' = session /\ boot' = boot => DeliveredAmount' >= DeliveredAmount
<1>1. ClockTypeOK /\ ClockTypeOK' /\ SessionOK /\ [MeteringNext]_metering => [Grows]_metering
    <2> SUFFICES ASSUME ClockTypeOK, ClockTypeOK', SessionOK, [MeteringNext]_metering,
                        session' = session, boot' = boot, session # None
                 PROVE  DeliveredAmount' >= DeliveredAmount
        BY DEF DeliveredAmount
    <2> DEFINE power == Power[session.pile]
               before == VirtualElapsed(session.start)
               after == IF VirtualNow' < session.start THEN 0 ELSE VirtualNow' - session.start
    <2>1. VirtualNow \in Nat /\ VirtualNow' \in Nat /\ VirtualNow' >= VirtualNow
        BY VirtualNextIsNat, VirtualNowIsNat, MeteringStepsClock, ClockStep
    <2>2. session.start \in Nat /\ power \in Nat
        BY MeteringAssumption DEF SessionOK, Piles
    <2>3. before \in Nat /\ after \in Nat /\ before <= after
        BY <2>1, <2>2 DEF VirtualElapsed
    <2>4. DeliveredAmount = before * power /\ DeliveredAmount' = after * power
        BY DEF DeliveredAmount, VirtualElapsed
    <2> HIDE DEF power, before, after
    <2>5. \E d \in Nat : after = before + d
        BY <2>3, SMT
    <2>6. PICK d \in Nat : after = before + d
        BY <2>5
    <2>7. after * power = before * power + d * power
        BY <2>2, <2>3, <2>6, SMT
    <2>8. before * power \in Nat /\ d * power \in Nat
        BY <2>2, <2>3, <2>6, SMT
    <2> QED
        BY <2>4, <2>7, <2>8
<1> QED
    BY <1>1, ClockTypeHolds, SessionHolds, PTL DEF MeteringSpec, MeterNeverShrinks

-----------------------------------------------------------------------------
(* The bills *)

BillRow ==
    [pile : Piles, start : Nat, stop : Nat, requested : Nat, generatedAt : Nat, amount : Nat,
     duration : Int, chargeFee : Nat, serviceFee : Nat, totalFee : Nat,
     reason : {"USER_STOP", "CHARGE_COMPLETE"}, survived : BOOLEAN]

\* What closeAndBill makes sure of, bill by bill.
BillOK(b) ==
    /\ b \in BillRow
    /\ b.reason = "CHARGE_COMPLETE" => b.amount = b.requested
    /\ b.survived => b.duration >= 0
    /\ b.chargeFee = ChargeFee(b.start, b.stop, b.amount, rules)
    /\ b.totalFee = b.chargeFee + b.serviceFee

\* A session that began in this life of the process did not begin in the future.
SessionStarted ==
    session # None => /\ session.requested \in Requests
                      /\ session.boot \in Nat
                      /\ session.boot <= boot
                      /\ session.boot = boot => session.start <= VirtualNow

BillsInv ==
    /\ rules \in Tariffs
    /\ SessionStarted
    /\ bills \in Seq(BillRow)
    /\ \A i \in DOMAIN bills : BillOK(bills[i])

\* The bill of a session, for whichever reason it is closed.
LEMMA NewBillOK ==
    ASSUME ClockTypeOK, SessionOK, SessionStarted, rules \in Tariffs, session # None,
           NEW reason \in {"USER_STOP", "CHARGE_COMPLETE"},
           reason = "CHARGE_COMPLETE" => FullyDelivered
    PROVE  BillOK(Bill(reason))
<1> DEFINE amount == MeteredAmount(session.start, VirtualNow, Power[session.pile], session.requested)
           charge == ChargeFee(session.start, VirtualNow, amount, rules)
           b == Bill(reason)
<1>1. /\ VirtualNow \in Nat /\ session.start \in Nat /\ real \in Nat /\ boot \in Nat
      /\ session.pile \in Piles /\ Power[session.pile] \in Nat /\ session.requested \in Nat
      /\ rules \in Seq(PriceRule)
    BY VirtualNowIsNat, MeteringAssumption DEF SessionOK, SessionStarted, ClockTypeOK, Piles
<1>2. amount \in Nat
    <2>1. VirtualNow \in Int /\ session.start \in Int
        BY <1>1
    <2> QED
        BY <1>1, <2>1, AmountIsNat
<1>3. charge \in Nat /\ ServiceFee(amount) \in Nat /\ TotalFee(charge, amount) \in Nat
    <2> HIDE DEF amount
    <2>1. charge \in Nat
        BY <1>1, <1>2, ChargeFeeIsNat
    <2> HIDE DEF charge
    <2> QED
        BY <1>2, <2>1 DEF ServiceFee, ServiceRate, TotalFee
<1>4. b = [pile |-> session.pile, start |-> session.start, stop |-> VirtualNow,
           requested |-> session.requested, generatedAt |-> real, amount |-> amount,
           duration |-> VirtualNow - session.start, chargeFee |-> charge,
           serviceFee |-> ServiceFee(amount), totalFee |-> TotalFee(charge, amount),
           reason |-> reason, survived |-> session.boot = boot]
    BY DEF Bill
<1>5. reason = "CHARGE_COMPLETE" => amount = session.requested
    <2> SUFFICES ASSUME FullyDelivered PROVE amount = session.requested
        OBVIOUS
    <2> DEFINE put == Max({0, VirtualNow - session.start}) * Power[session.pile]
    <2>1. put \in Nat
        <3>1. Max({0, VirtualNow - session.start}) \in Nat
            BY <1>1, MaxOfTwo
        <3> QED
            BY <1>1, <3>1
    <2>2. put >= session.requested /\ amount = Min({session.requested, put})
        BY DEF FullyDelivered, MeteredAmount
    <2> HIDE DEF put, amount
    <2> QED
        BY <1>1, <2>1, <2>2, MinOfTwo
<1>6. session.boot = boot => VirtualNow - session.start >= 0
    BY <1>1 DEF SessionStarted
<1>7. TotalFee(charge, amount) = charge + ServiceFee(amount)
    BY DEF TotalFee
<1>8. b.chargeFee = ChargeFee(b.start, b.stop, b.amount, rules)
    BY <1>4
<1> HIDE DEF b, amount, charge
<1>9. b \in BillRow
    BY <1>1, <1>2, <1>3, <1>4 DEF BillRow
<1>10. b.totalFee = b.chargeFee + b.serviceFee
    BY <1>4, <1>7
<1>11. b.reason = "CHARGE_COMPLETE" => b.amount = b.requested
    BY <1>4, <1>5
<1>12. b.survived => b.duration >= 0
    BY <1>4, <1>6
<1> QED
    BY <1>8, <1>9, <1>10, <1>11, <1>12 DEF BillOK, b

\* Every step of the clock or the meter keeps what is known of the bills: ticks leave
\* them alone, and CloseAndBill appends a bill that is right (NewBillOK).
LEMMA BillsStep ==
    ASSUME ClockTypeOK, SessionOK, BillsInv, [MeteringNext]_metering
    PROVE  BillsInv'
<1>0. rules' = rules /\ rules \in Tariffs
    BY DEF BillsInv, MeteringNext, metering, Plug, StopCharging, AutoComplete, CloseAndBill
<1>1. CASE [ClockNext]_clock /\ UNCHANGED <<session, bills>>
    <2>1. SessionStarted'
        <3> SUFFICES ASSUME session # None
                     PROVE  /\ session.requested \in Requests
                            /\ session.boot \in Nat
                            /\ session.boot <= boot'
                            /\ session.boot = boot' => session.start <= VirtualNow'
            BY <1>1 DEF SessionStarted
        <3>1. /\ session.requested \in Requests /\ session.boot \in Nat /\ session.boot <= boot
              /\ session.boot = boot => session.start <= VirtualNow
              /\ session.start \in Nat
            BY DEF BillsInv, SessionStarted, SessionOK
        <3>2. boot \in Nat /\ boot' \in {boot, boot + 1}
            BY <1>1 DEF ClockTypeOK, ClockNext, Advance, SetClockSpeed, Reboot, clock
        <3>3. VirtualNow \in Nat /\ (VirtualNow \in Nat)'
            BY <1>1, ClockTypeStep, VirtualNowIsNat, VirtualNextIsNat
        <3>4. boot' = boot => VirtualNow' >= VirtualNow
            BY <1>1, ClockStep
        <3> QED
            BY <3>1, <3>2, <3>3, <3>4
    <2> QED
        BY <1>0, <1>1, <2>1 DEF BillsInv, BillOK, BillRow
<1>2. ASSUME NEW p \in Piles, NEW r \in Requests, Plug(p, r)
      PROVE  BillsInv'
    <2>1. /\ session' = [pile |-> p, start |-> VirtualNow, requested |-> r, boot |-> boot]
          /\ UNCHANGED <<clock, rules, bills>>
        BY <1>2 DEF Plug
    <2>2. VirtualNow' = VirtualNow /\ boot' = boot
        BY <2>1 DEF clock, VirtualNow
    <2>3. SessionStarted'
        BY <2>1, <2>2, VirtualNowIsNat DEF SessionStarted, ClockTypeOK
    <2> QED
        BY <1>0, <2>1, <2>3 DEF BillsInv, BillOK, BillRow
<1>3. ASSUME NEW reason \in {"USER_STOP", "CHARGE_COMPLETE"}, CloseAndBill(reason),
             reason = "CHARGE_COMPLETE" => FullyDelivered
      PROVE  BillsInv'
    <2>1. /\ session # None /\ session' = None /\ UNCHANGED <<clock, rules>>
          /\ bills' = Append(bills, Bill(reason))
        BY <1>3 DEF CloseAndBill
    <2>2. BillOK(Bill(reason))
        BY <1>3, <2>1, NewBillOK DEF BillsInv
    <2> DEFINE b == Bill(reason)
    <2>3. b \in BillRow
        BY <2>2 DEF BillOK
    <2>4. bills \in Seq(BillRow) /\ bills' = Append(bills, b)
        BY <2>1 DEF BillsInv
    <2>5. SessionStarted'
        BY <2>1 DEF SessionStarted
    <2> HIDE DEF b
    <2>6. \A i \in DOMAIN bills' : bills'[i] = b \/ (i \in DOMAIN bills /\ bills'[i] = bills[i])
        BY <2>3, <2>4
    <2>7. (bills \in Seq(BillRow))'
        BY <2>3, <2>4 DEF BillRow
    <2>8. \A i \in DOMAIN bills' : BillOK(bills[i])'
        <3> SUFFICES ASSUME NEW i \in DOMAIN bills' PROVE BillOK(bills[i])'
            OBVIOUS
        <3>1. BillOK(bills'[i])
            BY <2>2, <2>6 DEF BillsInv, b
        <3> QED
            BY <1>0, <3>1 DEF BillOK, BillRow
    <2> QED
        BY <1>0, <2>5, <2>7, <2>8 DEF BillsInv
<1> QED
    BY <1>1, <1>2, <1>3 DEF MeteringNext, metering, StopCharging, AutoComplete, clock

\* The inductive invariant of the meter: every bill is right, and the session is one
\* that CloseAndBill will bill rightly.
LEMMA BillsHold == MeteringSpec => []BillsInv
<1>1. MeteringInit => BillsInv
    BY DEF MeteringInit, BillsInv, SessionStarted
<1> QED
    BY <1>1, BillsStep, ClockTypeHolds, SessionHolds, PTL DEF MeteringSpec

\* A session that auto-completion found due is billed for the whole request: the
\* check of autoCompleteCharging and actualAmount agree.
THEOREM CompletedHolds == MeteringSpec => []CompletedInFull
<1>1. BillsInv => CompletedInFull
    BY DEF BillsInv, BillOK, CompletedInFull
<1> QED
    BY <1>1, BillsHold, PTL

\* Nobody is ever credited, whatever the clock did between start and stop.
THEOREM NothingOwedHolds == MeteringSpec => []NothingOwedBack
<1>1. BillsInv => NothingOwedBack
    <2> SUFFICES ASSUME BillsInv, NEW i \in DOMAIN bills
                 PROVE  LET b == bills[i]
                        IN  /\ b.amount >= 0 /\ b.chargeFee >= 0 /\ b.totalFee >= b.chargeFee
                            /\ b.survived => b.duration >= 0
        BY DEF NothingOwedBack
    <2>1. BillOK(bills[i])
        BY DEF BillsInv
    <2> QED
        BY <2>1 DEF BillOK, BillRow
<1> QED
    BY <1>1, BillsHold, PTL

\* The report of a day is part of the week's and of the month's.
THEOREM DayWithinHolds == MeteringSpec => []DayWithinWeekAndMonth
<1>1. BillsInv /\ ClockTypeOK => DayWithinWeekAndMonth
    <2> SUFFICES ASSUME BillsInv, ClockTypeOK, NEW i \in Counted("DAY")
                 PROVE  i \in Counted("WEEK") /\ i \in Counted("MONTH")
        BY DEF DayWithinWeekAndMonth
    <2> DEFINE today == DayOf(real)
               day == DayOf(bills[i].generatedAt)
    <2>1. i \in DOMAIN bills
        BY DEF Counted
    <2>2. bills[i].generatedAt \in Nat /\ real \in Nat
        BY <2>1 DEF BillsInv, BillOK, BillRow, ClockTypeOK
    <2>3. today \in Nat /\ day \in Nat
        BY <2>2 DEF DayOf
    <2>4. day >= FirstDay("DAY", today)
        BY DEF Counted
    <2> HIDE DEF today, day
    <2>5. /\ FirstDay("DAY", today) = today
          /\ FirstDay("WEEK", today) = today - (today % 7)
          /\ FirstDay("MONTH", today) = today - (today % 30)
        BY DEF FirstDay, MonthLength
    <2>6. today % 7 \in Nat /\ today % 30 \in Nat
        BY <2>3
    <2>7. day >= FirstDay("WEEK", today) /\ day >= FirstDay("MONTH", today)
        BY <2>3, <2>4, <2>5, <2>6
    <2> QED
        BY <2>1, <2>7 DEF Counted, today, day
<1> QED
    BY <1>1, BillsHold, ClockTypeHolds, PTL

\* The driver pays for what the pages showed, up to the request: deliveredAmount and
\* actualAmount are one computation, made in two places.
THEOREM BillAgreesHolds == MeteringSpec => BillAgreesWithMeter
<1> DEFINE Agrees == \A i \in DOMAIN bills' \ DOMAIN bills :
                        bills'[i].amount = Min({session.requested, DeliveredAmount})
<1>1. ClockTypeOK /\ SessionOK /\ BillsInv /\ [MeteringNext]_metering => [Agrees]_metering
    <2> SUFFICES ASSUME ClockTypeOK, SessionOK, BillsInv, [MeteringNext]_metering,
                        NEW i \in DOMAIN bills' \ DOMAIN bills
                 PROVE  bills'[i].amount = Min({session.requested, DeliveredAmount})
        OBVIOUS
    <2>1. bills' # bills
        OBVIOUS
    <2>2. PICK reason \in {"USER_STOP", "CHARGE_COMPLETE"} : CloseAndBill(reason)
        BY <2>1 DEF MeteringNext, metering, Plug, StopCharging, AutoComplete
    <2>3. session # None /\ bills' = Append(bills, Bill(reason)) /\ bills \in Seq(BillRow)
        BY <2>2 DEF CloseAndBill, BillsInv
    <2> DEFINE b == Bill(reason)
    <2>4. b.amount = MeteredAmount(session.start, VirtualNow, Power[session.pile], session.requested)
        BY DEF Bill
    <2>5. bills'[i] = b
        <3> HIDE DEF b
        <3> QED
            BY <2>3 DEF b
    <2>6. VirtualNow \in Nat /\ session.start \in Nat
        BY <2>3, VirtualNowIsNat DEF SessionOK
    <2>7. Max({0, VirtualNow - session.start}) = VirtualElapsed(session.start)
        BY <2>6, MaxOfTwo DEF VirtualElapsed
    <2> QED
        BY <2>3, <2>4, <2>5, <2>7 DEF MeteredAmount, DeliveredAmount
<1> QED
    BY <1>1, BillsHold, ClockTypeHolds, SessionHolds, PTL DEF MeteringSpec, BillAgreesWithMeter

-----------------------------------------------------------------------------
(* The tariff *)

\* The price of the calendar is the price of the code.
LEMMA CalendarIsTariff ==
    ASSUME rules \in Seq(PriceRule), NEW t \in Nat
    PROVE  CalendarPrice(t) = PriceAt(t, rules)
<1> DEFINE length(r) == IF r.from < r.to THEN r.to - r.from ELSE r.to + Day - r.from
           holds(r) == \E day \in (t \div Day) - 1..t \div Day :
                           t >= day * Day + r.from /\ t < day * Day + r.from + length(r)
           found == {i \in DOMAIN rules : holds(rules[i])}
           covering == {i \in DOMAIN rules : InRule(TimeOfDay(t), rules[i])}
<1>1. ASSUME NEW i \in DOMAIN rules
      PROVE  holds(rules[i]) <=> InRule(TimeOfDay(t), rules[i])
    <2>1. rules[i] \in PriceRule
        OBVIOUS
    <2> QED
        BY <2>1, RuleOccurs
<1>2. CalendarPrice(t) = IF found = {} THEN Flat ELSE rules[Min(found)].price
    BY DEF CalendarPrice
<1>3. PriceAt(t, rules) = IF covering = {} THEN Flat ELSE rules[Min(covering)].price
    BY DEF PriceAt
<1> HIDE DEF holds
<1>4. found = covering
    BY <1>1
<1> QED
    BY <1>2, <1>3, <1>4

\* Every bill charges every tenth of an hour at the price of that moment: the slices
\* of calculateChargeFee, for any rules, any session and any change of the clock.
THEOREM BilledHolds == MeteringSpec => []BilledByTheCalendar
<1>1. BillsInv => BilledByTheCalendar
    <2> SUFFICES ASSUME BillsInv, NEW i \in DOMAIN bills, bills[i].start < bills[i].stop
                 PROVE  bills[i].chargeFee
                          = Rounded(bills[i].amount
                                      * SumFunction([t \in bills[i].start..(bills[i].stop - 1)
                                                        |-> CalendarPrice(t)]),
                                    bills[i].stop - bills[i].start)
        BY DEF BilledByTheCalendar
    <2> DEFINE b == bills[i]
               time == b.start..(b.stop - 1)
               calendar == [t \in time |-> CalendarPrice(t)]
    <2>1. BillOK(b) /\ rules \in Seq(PriceRule)
        BY MeteringAssumption DEF BillsInv
    <2>2. b.start \in Nat /\ b.stop \in Nat /\ b.start <= b.stop
        BY <2>1 DEF BillOK, BillRow
    <2>3. b.chargeFee = Rounded(b.amount * PricedTime(b.start, b.stop, rules), b.stop - b.start)
        BY <2>1 DEF BillOK, ChargeFee
    <2>4. PricedTime(b.start, b.stop, rules) = Total(Prices(rules), time)
        BY <2>1, <2>2, PricedTimeIsTotal
    <2>5. IsFiniteSet(time) /\ time \in SUBSET Nat
        <3>1. ASSUME NEW u \in Nat, NEW v \in Nat
              PROVE  IsFiniteSet(u..(v - 1)) /\ u..(v - 1) \in SUBSET Nat
            BY FS_Interval
        <3> QED
            BY <2>2, <3>1
    <2>6. SumFunction(calendar) = Total(Prices(rules), time)
        <3>1. \A t \in time : calendar[t] = Prices(rules)[t]
            BY <2>1, <2>5, CalendarIsTariff DEF Prices
        <3>2. DOMAIN calendar = time
            OBVIOUS
        <3> HIDE DEF time, calendar
        <3> QED
            BY <2>5, <3>1, <3>2, SumIsTotal, TotalSame
    <2> QED
        BY <2>3, <2>4, <2>6
<1> QED
    BY <1>1, BillsHold, PTL

-----------------------------------------------------------------------------
(* The reports *)

\* The bills of a pile that a report counts.
Mine(type, p) == {i \in Counted(type) : bills[i].pile = p}

\* What a column of the bills holds.
Column(field) == [i \in DOMAIN bills |-> bills[i][field]]

\* A report counts finitely many bills, each with fees that are natural numbers.
LEMMA MineIsFinite ==
    ASSUME BillsInv, NEW type, NEW p
    PROVE  /\ IsFiniteSet(Mine(type, p))
           /\ Mine(type, p) \subseteq DOMAIN bills
           /\ \A i \in Mine(type, p) : BillOK(bills[i])
<1>1. DOMAIN bills = 1..Len(bills) /\ Len(bills) \in Nat
    BY DEF BillsInv
<1>2. IsFiniteSet(DOMAIN bills)
    BY <1>1, FS_Interval
<1>3. Mine(type, p) \subseteq DOMAIN bills
    BY DEF Mine, Counted
<1> QED
    BY <1>2, <1>3, FS_Subset DEF BillsInv

\* A column of a row is the total of the pile's bills.
LEMMA ColumnIsTotal ==
    ASSUME BillsInv, NEW type, NEW p, NEW field
    PROVE  SumFunction([i \in Mine(type, p) |-> bills[i][field]])
             = Total(Column(field), Mine(type, p))
<1> DEFINE mine == Mine(type, p)
           f == [i \in mine |-> bills[i][field]]
<1>1. IsFiniteSet(mine) /\ \A i \in mine : f[i] = Column(field)[i]
    BY MineIsFinite DEF Column
<1>2. DOMAIN f = mine
    OBVIOUS
<1> HIDE DEF f, mine
<1>3. SumFunction(f) = Total(Column(field), mine)
    BY <1>1, <1>2, SumIsTotal, TotalSame
<1> QED
    BY <1>3 DEF f, mine

\* In the row of a pile the total fee is the sum of the other two.
LEMMA RowAddsUp ==
    ASSUME BillsInv, NEW type, NEW p \in Piles
    PROVE  LET row == Report(type)[p]
           IN  /\ row.chargeFee \in Int /\ row.serviceFee \in Int
               /\ row.totalFee = row.chargeFee + row.serviceFee
<1> DEFINE mine == Mine(type, p)
           charge == Column("chargeFee")
           service == Column("serviceFee")
           fee == Column("totalFee")
<1>1. /\ Report(type)[p].chargeFee = SumFunction([i \in mine |-> bills[i]["chargeFee"]])
      /\ Report(type)[p].serviceFee = SumFunction([i \in mine |-> bills[i]["serviceFee"]])
      /\ Report(type)[p].totalFee = SumFunction([i \in mine |-> bills[i]["totalFee"]])
    BY DEF Report, ReportRow, Mine
<1>2. /\ Report(type)[p].chargeFee = Total(charge, mine)
      /\ Report(type)[p].serviceFee = Total(service, mine)
      /\ Report(type)[p].totalFee = Total(fee, mine)
    BY <1>1, ColumnIsTotal
<1>3. \A i \in mine : charge[i] \in Int /\ service[i] \in Int /\ fee[i] = charge[i] + service[i]
    BY MineIsFinite DEF Column, BillOK, BillRow
<1>4. IsFiniteSet(mine)
    BY MineIsFinite
<1> HIDE DEF mine, charge, service, fee
<1>5. Total(fee, mine) = Total(charge, mine) + Total(service, mine)
    BY <1>3, <1>4, TotalOfSum
<1>6. Total(charge, mine) \in Int /\ Total(service, mine) \in Int
    BY <1>3, <1>4, TotalTakes
<1> QED
    BY <1>2, <1>5, <1>6

\* The revenue above a report is what the piles' totals below it add up to, whatever
\* bills there are and however many piles: two ways to add the same fees.
THEOREM RevenueHolds == MeteringSpec => []RevenueAddsUp
<1>1. BillsInv => RevenueAddsUp
    <2> SUFFICES ASSUME BillsInv, NEW type \in TimeTypes
                 PROVE  Revenue(type) = SumFunction([p \in Piles |-> PileTotal(type, p)])
        BY DEF RevenueAddsUp
    <2> DEFINE charge == [p \in Piles |-> Report(type)[p].chargeFee]
               service == [p \in Piles |-> Report(type)[p].serviceFee]
               fee == [p \in Piles |-> PileTotal(type, p)]
    <2>1. \A p \in Piles : charge[p] \in Int /\ service[p] \in Int /\ fee[p] = charge[p] + service[p]
        BY RowAddsUp DEF PileTotal
    <2>2. DOMAIN charge = Piles /\ DOMAIN service = Piles /\ DOMAIN fee = Piles
        OBVIOUS
    <2>3. IsFiniteSet(Piles)
        BY MeteringAssumption DEF Piles
    <2>4. Revenue(type) = SumFunction(charge) + SumFunction(service)
        BY DEF Revenue
    <2> HIDE DEF charge, service, fee
    <2>5. /\ SumFunction(charge) = Total(charge, Piles)
          /\ SumFunction(service) = Total(service, Piles)
          /\ SumFunction(fee) = Total(fee, Piles)
        BY <2>2, <2>3, SumIsTotal
    <2>6. Total(fee, Piles) = Total(charge, Piles) + Total(service, Piles)
        BY <2>1, <2>3, TotalOfSum
    <2>7. Revenue(type) = SumFunction(fee)
        BY <2>4, <2>5, <2>6
    <2> QED
        BY <2>7 DEF fee
<1> QED
    BY <1>1, BillsHold, PTL
=============================================================================
