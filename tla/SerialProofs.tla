---------------------------- MODULE SerialProofs ----------------------------
(***************************************************************************)
(* Theorems about the server while it serves one request at a time         *)
(* (Slots has one element): with two at once the code breaks what they     *)
(* say (the runs submit_race and cancel_race).                             *)
(*                                                                         *)
(* A step of a handler acts on what the handler read before.  The          *)
(* invariant says what is still true of it: which steps rely on what they  *)
(* read, what each of them relies on, and that nothing that could change   *)
(* it stands before them in todo.                                          *)
(***************************************************************************)
EXTENDS HandlerProofs

-----------------------------------------------------------------------------
(* Which steps rely on what was read, and what stands before them *)

(* Steps that write what an earlier read made them write.                   *)
Relying == {"create", "retry", "setMode", "setAmount", "setCanceled", "start", "assign",
            "wake", "wakeLock", "remaining", "rename", "continue", "setFault", "setPower"}

(* Steps that read, and put steps of the first sort before the others.      *)
Planning == {"basic", "wakeIdlePiles", "fault", "recovery", "apply", "affected", "lock"}

(* The rest: refreshes, bills, and what comes after a lock.                 *)
Easy == {"refresh", "setJson", "autoComplete", "closeAndBill", "settle", "unlock"}

Relies(st) == Kind(st) \in Relying

Wakes(st) == Kind(st) \in {"wake", "wakeLock"}
Woken(st) == IF st.op = "wake" THEN st ELSE st.then[1]

(* Steps that come from one read: the wakes of several piles, and what      *)
(* follows the bill of a fault.                                             *)
Together(a, b) ==
    \/ Wakes(a) /\ Wakes(b) /\ Woken(a).pile # Woken(b).pile
    \/ <<Kind(a), Kind(b)>> \in {<<"rename", "continue">>, <<"rename", "setFault">>,
                                 <<"continue", "setFault">>}

Pair(a, b) ==
    Relies(b) => Kind(a) \notin Planning /\ (Relies(a) => Together(a, b))

Ordered(q) == \A i, j \in DOMAIN q : i < j => Pair(q[i], q[j])

Calm(q) == \A i \in DOMAIN q : ~Relies(q[i])

Left(s) == {todo[s][i] : i \in DOMAIN todo[s]}

(* A step that relies on what was read is put into todo by the read, which  *)
(* writes nothing, and this is what the read saw.                           *)
Fresh(s, st) ==
    /\ UNCHANGED tables
    /\ LET step == Head(todo[s])
       IN  \/ /\ st.op = "create"
              /\ st.no = NextQueueNo(st.mode)
              /\ \/ Unfinished(st.user) = {} /\ WaitingRoom
                 \/ At(s, "retry") /\ st.user = step.user
           \/ st.op = "retry" /\ At(s, "create") /\ st.user = step.user
           \/ /\ st.op = "setMode"
              /\ st.order \in OrdersIn({"WAITING"})
              /\ st.no = NextQueueNo(st.mode)
           \/ st.op = "setAmount" /\ st.order \in OrdersIn({"WAITING"})
           \/ st.op = "setCanceled" /\ st.order \in OrdersIn({"WAITING", "IN_PILE_QUEUE"})
           \/ /\ st.op = "start"
              /\ st.order \in OnPile(st.pile, {"IN_PILE_QUEUE"})
              /\ st.pile # None /\ piles[st.pile].phys = "ON" /\ piles[st.pile].work = "IDLE"
           \/ \E p \in Piles : Wakeable(p) /\ st = WakeCall(p)
           \/ st.op = "wake" /\ At(s, "lock") /\ WakeLock(step) /\ st = step.then[1]
           \/ /\ st.op = "assign"
              /\ At(s, "apply")
              /\ CanPlace(step, st.order, st.pile)
              /\ st.autoStart = AutoStarts(step, st.pile)
              /\ st.rest = [step EXCEPT !.plan = Tail(@)]
           \/ /\ st.op = "setPower"
              /\ st.pile \in Piles
              /\ st.work = WorkAfterSwitch(st.pile)
              /\ \/ st.phys = "ON" /\ Offered(st.pile, "powerOn")
                 \/ st.phys = "OFF" /\ OnPile(st.pile, {"CHARGING"}) = {}
           \/ /\ st.op = "remaining"
              /\ st.pile \in Piles
              /\ st.order \in OnPile(st.pile, {"CHARGING"})
              /\ st.active = orders[st.order]
              /\ Head(todo'[s]) = CloseAndBill(st.order, "FAULT", "ABORTED", "FAULT")
           \/ /\ st.op = "setFault"
              /\ st.pile \in Piles
              /\ OnPile(st.pile, {"CHARGING"}) = {}
           \/ /\ At(s, "remaining")
              /\ \/ st.op = "setFault" /\ st.pile = step.pile
                 \/ /\ st.op \in {"rename", "continue"}
                    /\ todo'[s][1] = [op |-> "rename", order |-> step.order, no |-> step.active.no]
                    /\ st.op = "rename" => st = todo'[s][1]
                    /\ st.op = "continue" => st.active = step.active /\ st.amount = Uncovered(step)

(* How a slot moves on.                                                     *)
Proceeds(s) ==
    /\ Ordered(todo'[s])
    /\ \A i \in DOMAIN todo'[s] :
          \/ ~Relies(todo'[s][i])
          \/ Fresh(s, todo'[s][i])
          \/ /\ todo[s] # <<>>
             /\ todo'[s][i] \in Left(s)
             /\ Pair(Head(todo[s]), todo'[s][i])

-----------------------------------------------------------------------------
(* What a step relies on *)

Pending == {"WAITING", "IN_PILE_QUEUE"}

Valid(st) ==
    /\ Kind(st) \in {"create", "retry"} => Unfinished(st.user) = {}
    /\ Kind(st) = "continue" => Unfinished(st.active.user) = {}
    /\ Kind(st) \in {"setCanceled", "assign", "start"} => st.order \in OrdersIn(Pending)
    /\ Kind(st) = "start" => st.order \in OnPile(st.pile, {"IN_PILE_QUEUE"})
    /\ Wakes(st) => Woken(st).order \in OnPile(Woken(st).pile, {"IN_PILE_QUEUE"})
    /\ Kind(st) = "remaining" =>
          /\ st.order \in DOMAIN orders
          /\ orders[st.order].user = st.active.user
          /\ st.order \in OrdersIn({"CHARGING"}) \/ Unfinished(st.active.user) = {}

(* The bill that aborts the order, in the transaction or before it. *)
Bills(st, o) ==
    /\ \/ st.op = "closeAndBill" /\ st.order = o
       \/ st.op = "settle" /\ st.session \in DOMAIN sessions /\ sessions[st.session].order = o
    /\ ~st.swallow /\ st.target = "ABORTED"

TodoSerial ==
    \A s \in Slots :
        /\ Ordered(todo[s])
        /\ \A st \in Left(s) : Valid(st)
        /\ \A st \in Left(s) :
              Kind(st) = "remaining" /\ Unfinished(st.active.user) # {}
                 => Bills(Head(todo[s]), st.order)

(* One unfinished order of each driver; a session runs exactly as long as   *)
(* its order charges, on its pile; a billed order has ended.                *)
OrdersSerial ==
    /\ \A o, other \in OrdersIn(Open) : orders[o].user = orders[other].user => o = other
    /\ \A x \in DOMAIN sessions : sessions[x].state = "ACTIVE" =>
          /\ sessions[x].order \in OnPile(sessions[x].pile, {"CHARGING"})
          /\ ActiveSessions(sessions[x].order) = {x}
    /\ \A o \in OrdersIn({"CHARGING"}) : ActiveSessions(o) # {}
    /\ DOMAIN details \subseteq OrdersIn(Terminal)

SerialInv == TodoSerial /\ OrdersSerial

-----------------------------------------------------------------------------
(* With an administrator who only uses the buttons that are shown *)

Charging(p) == OnPile(p, {"CHARGING"})

Works(p) == p \in Piles /\ piles[p].phys = "ON" /\ piles[p].work = "IDLE"

PileValid(st) ==
    /\ Kind(st) = "start" => Works(st.pile)
    /\ Kind(st) = "assign" /\ st.autoStart => Works(st.pile)
    /\ Wakes(st) => Works(Woken(st).pile)
    /\ Kind(st) = "setPower" => /\ st.pile \in Piles /\ Charging(st.pile) = {}
                               /\ st.work = WorkAfterSwitch(st.pile)
    /\ Kind(st) = "setFault" => st.pile \in Piles /\ Charging(st.pile) = {}
    /\ Kind(st) = "remaining" => st.pile \in Piles /\ Charging(st.pile) \subseteq {st.order}

PilesSerial ==
    /\ \A p \in Piles : piles[p].work = "CHARGING" <=> Charging(p) # {}
    /\ \A p \in Piles : piles[p].phys = "OFF" => Charging(p) = {}
    /\ \A p \in Piles : \A o, other \in Charging(p) : o = other

PilesInv ==
    /\ PilesSerial
    /\ \A s \in Slots : \A st \in Left(s) : PileValid(st)

-----------------------------------------------------------------------------
(* The order of the steps that are left *)

\* A step that is no lock is of the kind of its op.
LEMMA KindOfOp == ASSUME NEW st, st.op # "lock" PROVE Kind(st) = st.op
BY DEF Kind, WakeLock

\* Steps of other kinds do not rely on anything.
LEMMA CalmKinds == ASSUME NEW q, KindsIn(q, Easy \cup Planning) PROVE Calm(q)
<1>1. \A i \in DOMAIN q : Kind(q[i]) \in Easy \cup Planning
    BY KindsAt
<1> QED
    BY <1>1 DEF Calm, Relies, Relying, Easy, Planning

\* An easy step may stand before any, a planning one before those that do not rely.
LEMMA PairKinds ==
    ASSUME NEW a
    PROVE  /\ Kind(a) \in Easy => \A b : Pair(a, b)
           /\ \A b : ~Relies(b) => Pair(a, b)
           /\ \A b : /\ Kind(a) \in Planning \cup (Relying \ {"wake", "wakeLock", "rename", "continue"})
                     /\ Pair(a, b)
                     => ~Relies(b)
<1>1. Kind(a) \in Easy => \A b : Pair(a, b)
    BY DEF Pair, Relies, Easy, Planning, Relying
<1>2. \A b : ~Relies(b) => Pair(a, b)
    BY DEF Pair
<1>3. ASSUME Kind(a) \in Planning \cup (Relying \ {"wake", "wakeLock", "rename", "continue"}),
             NEW b, Pair(a, b), Relies(b)
      PROVE  FALSE
    <2>1. Kind(a) \notin Planning /\ Relies(a) /\ Together(a, b)
        BY <1>3 DEF Pair, Relies
    <2>2. ~Wakes(a) /\ Kind(a) # "rename" /\ Kind(a) # "continue"
        BY <1>3, <2>1 DEF Wakes
    <2> QED
        BY <2>1, <2>2 DEF Together
<1> QED
    BY <1>1, <1>2, <1>3

\* Steps that do not rely on anything may stand in any order.
LEMMA CalmOrdered == ASSUME NEW q, Calm(q) PROVE Ordered(q)
BY PairKinds DEF Ordered, Calm

(* One step, and then steps that do not rely on anything. *)
Leads(st, q) ==
    /\ \E S : q \in Seq(S)
    /\ Len(q) # 0
    /\ q[1] = st
    /\ \A i \in DOMAIN q : i # 1 => ~Relies(q[i])

\* The step may be any.
LEMMA LeadsOrdered == ASSUME NEW st, NEW q, Leads(st, q) PROVE Ordered(q)
<1>1. PICK S : q \in Seq(S)
    BY DEF Leads
<1>2. \A j \in DOMAIN q : j \in Nat /\ j >= 1
    BY <1>1
<1>3. ASSUME NEW i \in DOMAIN q, NEW j \in DOMAIN q, i < j
      PROVE  Pair(q[i], q[j])
    <2>1. j # 1
        BY <1>2, <1>3
    <2> QED
        BY <2>1, PairKinds DEF Leads
<1> QED
    BY <1>3 DEF Ordered

\* It leads itself, and what is put after it.
LEMMA LeadsOn ==
    /\ \A st : Leads(st, <<st>>)
    /\ \A st, q, r : Leads(st, q) /\ KindsIn(r, Easy \cup Planning) => Leads(st, q \o r)
<1>1. ASSUME NEW st
      PROVE  Leads(st, <<st>>)
    <2> DEFINE q == <<st>>
    <2>1. q \in Seq({st}) /\ Len(q) = 1 /\ q[1] = st /\ DOMAIN q = {1}
        OBVIOUS
    <2> HIDE DEF q
    <2>2. Leads(st, q)
        BY <2>1 DEF Leads
    <2> QED
        BY <2>2 DEF q
<1>2. ASSUME NEW st, NEW q, NEW r, Leads(st, q), KindsIn(r, Easy \cup Planning)
      PROVE  Leads(st, q \o r)
    <2>1. PICK S : q \in Seq(S)
        BY <1>2 DEF Leads
    <2>2. PICK T : r \in Seq(T)
        BY <1>2 DEF KindsIn
    <2> DEFINE U == S \cup T
    <2>3. q \in Seq(U) /\ r \in Seq(U)
        BY <2>1, <2>2
    <2> HIDE DEF U
    <2>4. /\ q \o r \in Seq(U)
          /\ Len(q \o r) = Len(q) + Len(r)
          /\ \A i \in 1..Len(q) : (q \o r)[i] = q[i]
          /\ \A i \in 1..Len(r) : (q \o r)[Len(q) + i] = r[i]
        BY <2>3, Joined
    <2>5. /\ Len(q) \in Nat /\ Len(r) \in Nat /\ Len(q) # 0
          /\ DOMAIN q = 1..Len(q) /\ DOMAIN r = 1..Len(r)
          /\ DOMAIN (q \o r) = 1..(Len(q) + Len(r))
        BY <1>2, <2>3, <2>4 DEF Leads
    <2>6. Calm(r)
        BY <1>2, CalmKinds
    <2>7. ASSUME NEW i \in DOMAIN (q \o r), i # 1
          PROVE  ~Relies((q \o r)[i])
        <3>1. CASE i \in 1..Len(q)
            BY <1>2, <2>4, <2>5, <2>7, <3>1 DEF Leads
        <3>2. CASE i \notin 1..Len(q)
            <4>1. i - Len(q) \in 1..Len(r) /\ i = Len(q) + (i - Len(q))
                BY <2>5, <3>2
            <4> QED
                BY <2>4, <2>5, <2>6, <4>1 DEF Calm
        <3> QED
            BY <3>1, <3>2
    <2>8. (q \o r)[1] = st
        BY <1>2, <2>4, <2>5 DEF Leads
    <2>9. Len(q \o r) # 0
        BY <2>4, <2>5
    <2> QED
        BY <2>4, <2>7, <2>8, <2>9 DEF Leads
<1> QED
    BY <1>1, <1>2

\* Steps put in front of what is left.
LEMMA OrderedOn ==
    ASSUME NEW S, NEW q \in Seq(S), NEW r \in Seq(S), r # <<>>, Ordered(q), Ordered(r),
           \A i \in DOMAIN q : \A st : Pair(Head(r), st) => Pair(q[i], st)
    PROVE  /\ Ordered(q \o Tail(r))
           /\ \A i \in DOMAIN (q \o Tail(r)) :
                 \/ i \in DOMAIN q /\ (q \o Tail(r))[i] = q[i]
                 \/ \E k \in DOMAIN r : (q \o Tail(r))[i] = r[k] /\ Pair(Head(r), r[k])
<1> DEFINE all == q \o Tail(r)
           old(i) == i - Len(q) + 1
<1>1. /\ Len(q) \in Nat /\ DOMAIN q = 1..Len(q) /\ 1 \in DOMAIN r /\ Head(r) = r[1]
      /\ DOMAIN r \subseteq Nat
    OBVIOUS
<1>2. DOMAIN all \subseteq Nat
    <2>1. Tail(r) \in Seq(S)
        OBVIOUS
    <2>2. all \in Seq(S)
        BY <2>1
    <2> QED
        BY <2>2
<1>3. \A i \in DOMAIN all :
         \/ i \in DOMAIN q /\ all[i] = q[i]
         \/ old(i) \in DOMAIN r /\ old(i) # 1 /\ all[i] = r[old(i)]
    BY WentOn
<1> HIDE DEF all
<1>4. \A k \in DOMAIN r : k # 1 => Pair(Head(r), r[k])
    BY <1>1 DEF Ordered
<1>5. ASSUME NEW i \in DOMAIN all, NEW j \in DOMAIN all, i < j
      PROVE  Pair(all[i], all[j])
    <2>1. CASE i \in DOMAIN q /\ all[i] = q[i] /\ j \in DOMAIN q /\ all[j] = q[j]
        BY <1>5, <2>1 DEF Ordered
    <2>2. CASE /\ i \in DOMAIN q /\ all[i] = q[i]
               /\ old(j) \in DOMAIN r /\ old(j) # 1 /\ all[j] = r[old(j)]
        BY <1>4, <2>2
    <2>3. CASE /\ old(i) \in DOMAIN r /\ old(i) # 1 /\ all[i] = r[old(i)]
               /\ old(j) \in DOMAIN r /\ old(j) # 1 /\ all[j] = r[old(j)]
        <3>1. old(i) < old(j)
            BY <1>1, <1>2, <1>5
        <3> QED
            BY <2>3, <3>1 DEF Ordered
    <2>4. CASE /\ old(i) \in DOMAIN r /\ old(i) # 1 /\ all[i] = r[old(i)]
               /\ j \in DOMAIN q /\ all[j] = q[j]
        <3>1. old(i) >= 2
            BY <1>1, <1>2, <2>4
        <3> QED
            BY <1>1, <1>2, <1>5, <2>4, <3>1
    <2> QED
        BY <1>3, <2>1, <2>2, <2>3, <2>4
<1> QED
    BY <1>3, <1>4, <1>5 DEF Ordered, all

-----------------------------------------------------------------------------
(* How a slot moves on *)

\* It begins.
LEMMA BeginsSo ==
    ASSUME TodoOK, NEW s \in Slots, NEW q, Begin(s, q), Ordered(q),
           \A i \in DOMAIN q : ~Relies(q[i]) \/ Fresh(s, q[i])
    PROVE  Proceeds(s)
<1>1. todo'[s] = q
    BY DEF Begin, TodoOK
<1> QED
    BY <1>1 DEF Proceeds

\* It begins with one step that may rely on what was read.
LEMMA BeginsWith ==
    ASSUME TodoOK, NEW s \in Slots, NEW st, NEW q, Leads(st, q), Begin(s, q),
           ~Relies(st) \/ Fresh(s, st)
    PROVE  Proceeds(s)
<1>1. \A i \in DOMAIN q : ~Relies(q[i]) \/ Fresh(s, q[i])
    BY DEF Leads
<1> QED
    BY <1>1, LeadsOrdered, BeginsSo

\* It throws, or begins steps that rely on nothing.
LEMMA BeginsCalm ==
    ASSUME TodoOK, NEW s \in Slots, NEW q, KindsIn(q, Easy \cup Planning), Begin(s, q)
    PROVE  Proceeds(s)
<1>1. Calm(q) /\ Ordered(q)
    BY CalmKinds, CalmOrdered
<1> QED
    BY <1>1, BeginsSo DEF Calm

\* It throws.
LEMMA ThrowsSo == ASSUME TodoOK, NEW s \in Slots, Throw(s) PROVE Proceeds(s)
BY KindsNone, BeginsCalm DEF Throw

\* It goes on with steps that may stand where its step stood.
LEMMA GoesSo ==
    ASSUME TodoOK, NEW s \in Slots, Ordered(todo[s]), todo[s] # <<>>,
           NEW S, NEW q \in Seq(S), Goto(s, q), Ordered(q),
           \A i \in DOMAIN q : ~Relies(q[i]) \/ Fresh(s, q[i]),
           \A i \in DOMAIN q : \A st : Pair(Head(todo[s]), st) => Pair(q[i], st)
    PROVE  Proceeds(s)
<1>1. PICK T : todo[s] \in Seq(T)
    BY DEF TodoOK, Todo
<1> DEFINE U == S \cup T
           r == todo[s]
<1>2. q \in Seq(U) /\ r \in Seq(U)
    BY <1>1
<1>3. todo'[s] = q \o Tail(r)
    BY DEF Goto, TodoOK
<1>4. /\ Ordered(q \o Tail(r))
      /\ \A i \in DOMAIN (q \o Tail(r)) :
            \/ i \in DOMAIN q /\ (q \o Tail(r))[i] = q[i]
            \/ \E k \in DOMAIN r : (q \o Tail(r))[i] = r[k] /\ Pair(Head(r), r[k])
    <2>1. /\ r # <<>> /\ Ordered(r)
          /\ \A i \in DOMAIN q : \A st : Pair(Head(r), st) => Pair(q[i], st)
        OBVIOUS
    <2> HIDE DEF U, r
    <2> QED
        BY <1>2, <2>1, OrderedOn
<1>5. ASSUME NEW i \in DOMAIN todo'[s]
      PROVE  \/ ~Relies(todo'[s][i])
             \/ Fresh(s, todo'[s][i])
             \/ /\ todo[s] # <<>>
                /\ todo'[s][i] \in Left(s)
                /\ Pair(Head(todo[s]), todo'[s][i])
    <2>1. CASE i \in DOMAIN q /\ todo'[s][i] = q[i]
        BY <2>1
    <2>2. CASE \E k \in DOMAIN todo[s] : /\ todo'[s][i] = todo[s][k]
                                         /\ Pair(Head(todo[s]), todo[s][k])
        BY <2>2 DEF Left
    <2> QED
        BY <1>3, <1>4, <2>1, <2>2
<1> QED
    BY <1>3, <1>4, <1>5 DEF Proceeds

(* Ops after which nothing relies on what was read. *)
Closing == (Planning \cup Relying) \ {"wake", "wakeLock", "rename", "continue", "lock"}

\* It goes on with easy steps.
LEMMA GoesEasy ==
    ASSUME TodoOK, NEW s \in Slots, Ordered(todo[s]), todo[s] # <<>>,
           NEW q, Goto(s, q), KindsIn(q, Easy)
    PROVE  Proceeds(s)
<1>1. PICK S : q \in Seq(S)
    BY DEF KindsIn
<1>2. \A i \in DOMAIN q : Kind(q[i]) \in Easy
    BY KindsAt
<1>3. KindsIn(q, Easy \cup Planning)
    BY KindsNone
<1>4. Calm(q) /\ Ordered(q)
    BY <1>3, CalmKinds, CalmOrdered
<1>5. \A i \in DOMAIN q : \A st : Pair(q[i], st)
    BY <1>2, PairKinds
<1> QED
    BY <1>1, <1>4, <1>5, GoesSo DEF Calm

\* It is done with the step.
LEMMA GoesBy ==
    ASSUME TodoOK, NEW s \in Slots, Ordered(todo[s]), todo[s] # <<>>, Goto(s, <<>>)
    PROVE  Proceeds(s)
BY KindsNone, GoesEasy

\* It goes on with steps that rely on nothing, where nothing that is left does.
LEMMA GoesCalm ==
    ASSUME TodoOK, NEW s \in Slots, Ordered(todo[s]), NEW op \in Closing, At(s, op),
           NEW q, Goto(s, q), KindsIn(q, Easy \cup Planning)
    PROVE  Proceeds(s)
<1>1. PICK S : q \in Seq(S)
    BY DEF KindsIn
<1>2. Calm(q) /\ Ordered(q)
    BY CalmKinds, CalmOrdered
<1>3. todo[s] # <<>> /\ Kind(Head(todo[s])) = op
    BY KindOfOp DEF At, Closing
<1>4. \A st : Pair(Head(todo[s]), st) => ~Relies(st)
    BY <1>3, PairKinds DEF Closing
<1>5. \A i \in DOMAIN q : \A st : Pair(Head(todo[s]), st) => Pair(q[i], st)
    BY <1>4, PairKinds
<1> QED
    BY <1>1, <1>2, <1>3, <1>5, GoesSo DEF Calm

\* It goes on with one step that relies on what was read.
LEMMA GoesWith ==
    ASSUME TodoOK, NEW s \in Slots, Ordered(todo[s]), NEW op \in Closing, At(s, op),
           NEW st, Goto(s, <<st>>), Fresh(s, st)
    PROVE  Proceeds(s)
<1> DEFINE q == <<st>>
<1>1. q \in Seq({st}) /\ DOMAIN q = {1} /\ q[1] = st
    OBVIOUS
<1> HIDE DEF q
<1>2. Ordered(q)
    BY <1>1 DEF Ordered
<1>3. todo[s] # <<>> /\ Kind(Head(todo[s])) = op
    BY KindOfOp DEF At, Closing
<1>4. \A x : Pair(Head(todo[s]), x) => ~Relies(x)
    BY <1>3, PairKinds DEF Closing
<1>5. \A i \in DOMAIN q : \A x : Pair(Head(todo[s]), x) => Pair(q[i], x)
    BY <1>4, PairKinds
<1>6. Goto(s, q)
    BY DEF q
<1> QED
    BY <1>1, <1>2, <1>3, <1>5, <1>6, GoesSo

\* Steps of the front ends' dispatching and of the cache rely on nothing.
LEMMA CalmParts ==
    /\ KindsIn(AutoComplete, Easy \cup Planning)
    /\ \A mode : KindsIn(TriggerBasic(mode), Easy \cup Planning)
    /\ \A key : KindsIn(Refresh(key), Easy)
    /\ \A mode : KindsIn(RefreshMode(mode), Easy)
    /\ \A p : KindsIn(RefreshPile(p), Easy)
    /\ \A ps : IsFiniteSet(ps) => KindsIn(RefreshPiles(ps), Easy)
    /\ KindsIn(RefreshAll, Easy)
    /\ \A q : KindsIn(q, Easy) => KindsIn(q, Easy \cup Planning)
<1>1. {"refresh"} \subseteq Easy
    BY DEF Easy
<1>2. KindsIn(AutoComplete, Easy \cup Planning)
    BY KindsOp DEF AutoComplete, Easy
<1>3. ASSUME NEW mode
      PROVE  KindsIn(TriggerBasic(mode), Easy \cup Planning)
    <2> DEFINE st == [op |-> "basic", mode |-> mode]
    <2>1. st.op = "basic" /\ st.op \in Easy \cup Planning
        BY DEF Planning
    <2> HIDE DEF st
    <2>2. KindsIn(<<st>>, Easy \cup Planning)
        BY <2>1, KindsOp
    <2> QED
        BY <1>2, <2>2, KindsJoin DEF TriggerBasic, st
<1>4. \A q : KindsIn(q, {"refresh"}) => KindsIn(q, Easy)
    BY <1>1, KindsNone
<1>5. \A q : KindsIn(q, Easy) => KindsIn(q, Easy \cup Planning)
    BY KindsNone
<1> QED
    BY <1>2, <1>3, <1>4, <1>5, RefreshKinds

\* The completions of autoCompleteCharging are bills.
LEMMA CompletionsEasy == ASSUME IsFiniteSet(DOMAIN orders) PROVE KindsIn(Completions, Easy)
<1> DEFINE n == Cardinality(Due)
           q == [i \in 1..n |-> CompletionOf(ById(Due)[i])]
<1>1. Due \subseteq DOMAIN orders
    BY DEF Due, OrdersIn
<1>2. n \in Nat
    BY <1>1, FS_Subset, FS_CardinalityType
<1>3. ASSUME NEW o
      PROVE  Kind(CompletionOf(o)) \in Easy
    <2> DEFINE st == CompletionOf(o)
    <2>1. st.op = "closeAndBill"
        BY DEF CompletionOf, CloseAndBill
    <2> HIDE DEF st
    <2>2. Kind(st) \in Easy
        BY <2>1, KindOfOp DEF Easy
    <2> QED
        BY <2>2 DEF st
<1>4. q = [i \in 1..n |-> q[i]] /\ \A i \in 1..n : Kind(q[i]) \in Easy
    BY <1>3
<1>5. Completions = q
    BY DEF Completions
<1> HIDE DEF n, q
<1> QED
    BY <1>2, <1>4, <1>5, KindsEach

-----------------------------------------------------------------------------
(* Requests *)

\* A driver's request.
LEMMA DriverProceeds ==
    ASSUME HandlersInv, NEW s \in Slots, DriverRequest(s)
    PROVE  Proceeds(s)
<1> USE DEF HandlersInv
<1>1. ASSUME NEW u \in Users, NEW w \in Wishes, SubmitRequest(s, u, w[1], w[2])
      PROVE  Proceeds(s)
    <2> DEFINE st == [op |-> "create", user |-> u, mode |-> w[1], amount |-> w[2],
                      attempt |-> 0, no |-> NextQueueNo(w[1])]
    <2>1. Begin(s, <<st>>) /\ UNCHANGED tables /\ Unfinished(u) = {} /\ WaitingRoom
        BY <1>1 DEF SubmitRequest, CreateCall
    <2>2. st.op = "create" /\ st.no = NextQueueNo(st.mode) /\ st.user = u
        OBVIOUS
    <2> HIDE DEF st
    <2>3. Fresh(s, st)
        BY <2>1, <2>2 DEF Fresh
    <2> QED
        BY <2>1, <2>3, LeadsOn, BeginsWith
<1>2. ASSUME NEW o \in DOMAIN orders, NEW mode \in Modes, ModifyMode(s, o, mode)
      PROVE  Proceeds(s)
    <2> DEFINE st == [op |-> "setMode", order |-> o, from |-> orders[o].mode, mode |-> mode,
                      no |-> NextQueueNo(mode)]
    <2>1. Begin(s, <<st>>) /\ UNCHANGED tables /\ o \in OrdersIn({"WAITING"})
        BY <1>2 DEF ModifyMode
    <2>2. st.op = "setMode" /\ st.no = NextQueueNo(st.mode) /\ st.order = o
        OBVIOUS
    <2> HIDE DEF st
    <2>3. Fresh(s, st)
        BY <2>1, <2>2 DEF Fresh
    <2> QED
        BY <2>1, <2>3, LeadsOn, BeginsWith
<1>3. ASSUME NEW o \in DOMAIN orders, NEW amount \in Amounts, ModifyAmount(s, o, amount)
      PROVE  Proceeds(s)
    <2> DEFINE st == [op |-> "setAmount", order |-> o, amount |-> amount]
    <2>1. Begin(s, <<st>>) /\ UNCHANGED tables /\ o \in OrdersIn({"WAITING"})
        BY <1>3 DEF ModifyAmount
    <2>2. st.op = "setAmount" /\ st.order = o
        OBVIOUS
    <2> HIDE DEF st
    <2>3. Fresh(s, st)
        BY <2>1, <2>2 DEF Fresh
    <2> QED
        BY <2>1, <2>3, LeadsOn, BeginsWith
<1>4. ASSUME NEW o \in DOMAIN orders, CancelQueued(s, o)
      PROVE  Proceeds(s)
    <2> DEFINE mode == orders[o].mode
               refresh == IF orders[o].status = "WAITING" THEN RefreshMode(mode)
                          ELSE RefreshPile(orders[o].pile)
               st == [op |-> "setCanceled", order |-> o]
    <2>1. /\ Begin(s, <<st>> \o refresh \o TriggerBasic(mode))
          /\ UNCHANGED tables /\ o \in OrdersIn({"WAITING", "IN_PILE_QUEUE"})
        BY <1>4 DEF CancelQueued
    <2>2. st.op = "setCanceled" /\ st.order = o
        OBVIOUS
    <2>3. KindsIn(refresh, Easy \cup Planning)
        BY CalmParts
    <2> HIDE DEF st, refresh, mode
    <2>4. Leads(st, <<st>> \o refresh \o TriggerBasic(mode))
        BY <2>3, CalmParts, LeadsOn
    <2>5. Fresh(s, st)
        BY <2>1, <2>2 DEF Fresh
    <2> QED
        BY <2>1, <2>4, <2>5, BeginsWith
<1>5. ASSUME NEW o, NEW reason, NEW target, NEW mode,
             Begin(s, <<CloseAndBill(o, reason, target, "IDLE")>> \o TriggerBasic(mode))
      PROVE  Proceeds(s)
    <2> DEFINE st == CloseAndBill(o, reason, target, "IDLE")
    <2>1. st.op = "closeAndBill" /\ Begin(s, <<st>> \o TriggerBasic(mode))
        BY <1>5 DEF CloseAndBill
    <2> HIDE DEF st
    <2>2. Kind(st) = "closeAndBill"
        BY <2>1, KindOfOp
    <2>3. ~Relies(st)
        BY <2>2 DEF Relies, Relying
    <2>4. Leads(st, <<st>> \o TriggerBasic(mode))
        BY CalmParts, LeadsOn
    <2> QED
        BY <2>1, <2>3, <2>4, BeginsWith
<1>6. ASSUME NEW o \in DOMAIN orders, NEW reason \in {"USER_STOP", "USER_CANCEL", None},
             CancelCharging(s, o, reason)
      PROVE  Proceeds(s)
    BY <1>5, <1>6 DEF CancelCharging
<1>7. ASSUME NEW o \in DOMAIN orders, Start(s, o)
      PROVE  Proceeds(s)
    <2> DEFINE p == orders[o].pile
               st == [op |-> "start", order |-> o, pile |-> p, ahead |-> AheadOf(o, p)]
    <2>1. /\ Begin(s, <<st>>) /\ UNCHANGED tables
          /\ o \in OrdersIn({"IN_PILE_QUEUE"}) /\ p # None
          /\ piles[p].phys = "ON" /\ piles[p].work = "IDLE"
        BY <1>7 DEF Start
    <2>2. st.op = "start" /\ st.order = o /\ st.pile = p
        OBVIOUS
    <2>3. o \in OnPile(p, {"IN_PILE_QUEUE"})
        BY <2>1 DEF OnPile
    <2> HIDE DEF st, p
    <2>4. Fresh(s, st)
        BY <2>1, <2>2, <2>3 DEF Fresh
    <2> QED
        BY <2>1, <2>4, LeadsOn, BeginsWith
<1>8. ASSUME NEW o \in DOMAIN orders, Stop(s, o)
      PROVE  Proceeds(s)
    BY <1>5, <1>8 DEF Stop
<1>9. CASE QueueStatus(s)
    BY <1>9, CompletionsEasy, CalmParts, OrdersFinite, BeginsCalm DEF QueueStatus
<1> QED
    BY <1>1, <1>2, <1>3, <1>4, <1>6, <1>7, <1>8, <1>9 DEF DriverRequest

\* A batch of assignments goes on, or ends with its refreshes.
LEMMA RemainingCalm ==
    ASSUME NEW st, BatchOK(st)
    PROVE  KindsIn(Remaining(st), Easy \cup Planning)
<1>1. st.op = "apply" /\ st.op \in Easy \cup Planning
    BY DEF BatchOK, Planning
<1>2. KindsIn(<<st>>, Easy \cup Planning)
    BY <1>1, KindsOp
<1>3. KindsIn(RefreshPiles(st.touched), Easy \cup Planning)
    BY CalmParts DEF BatchOK
<1> QED
    BY <1>2, <1>3 DEF Remaining

\* A batch of assignments begins.
LEMMA ApplyCalm ==
    ASSUME NEW plan, NEW mode, NEW movable
    PROVE  KindsIn(ApplyAssignments(plan, mode, movable), Easy \cup Planning)
<1> DEFINE st == [op |-> "apply", plan |-> plan, mode |-> mode, movable |-> movable,
                  applied |-> [p \in Piles |-> 0], started |-> {}, touched |-> {}]
<1>1. BatchOK(st)
    BY FS_EmptySet DEF BatchOK
<1> HIDE DEF st
<1>2. KindsIn(Remaining(st), Easy \cup Planning)
    BY <1>1, RemainingCalm
<1> QED
    BY <1>2 DEF ApplyAssignments, st

\* A call under a dispatcher's lock begins with the lock.
LEMMA LockedCalm ==
    /\ \A p, strategy : KindsIn(FaultReschedule(p, strategy), Easy \cup Planning)
    /\ \A p : KindsIn(RecoveryReschedule(p), Easy \cup Planning)
    /\ \A then : PlainSteps(then) /\ KindsIn(then, DispatchKinds)
                    => \A key : KindsIn(Locked(key, then), Easy \cup Planning)
<1>1. {"lock"} \subseteq Easy \cup Planning
    BY DEF Planning
<1>2. \A q : KindsIn(q, {"lock"}) => KindsIn(q, Easy \cup Planning)
    BY <1>1, KindsNone
<1>3. ASSUME NEW then, PlainSteps(then), KindsIn(then, DispatchKinds), NEW key
      PROVE  KindsIn(Locked(key, then), Easy \cup Planning)
    <2>1. Kind(LockStep(key, then)) = "lock"
        BY <1>3, LockStepOK
    <2>2. KindsIn(<<LockStep(key, then)>>, {"lock"})
        BY <2>1, KindsOne
    <2> QED
        BY <1>2, <2>2 DEF Locked
<1> QED
    BY <1>2, <1>3, RescheduleOK

\* An administrator's request.
LEMMA AdminProceeds ==
    ASSUME HandlersInv, NEW s \in Slots, AdminRequest(s)
    PROVE  Proceeds(s)
<1> USE DEF HandlersInv
<1>1. ASSUME NEW p \in Piles, PowerOn(s, p), Offered(p, "powerOn")
      PROVE  Proceeds(s)
    <2> DEFINE work == WorkAfterSwitch(p)
               st == [op |-> "setPower", pile |-> p, phys |-> "ON", work |-> work]
               trigger == IF work = "FAULT" THEN <<>> ELSE TriggerBasic(PileType[p])
    <2>1. Begin(s, <<st>> \o RefreshPile(p) \o trigger) /\ UNCHANGED tables
        BY <1>1 DEF PowerOn
    <2>2. st.op = "setPower" /\ st.pile = p /\ st.phys = "ON" /\ st.work = WorkAfterSwitch(p)
        OBVIOUS
    <2>3. KindsIn(trigger, Easy \cup Planning) /\ KindsIn(RefreshPile(p), Easy \cup Planning)
        BY CalmParts, KindsNone
    <2> HIDE DEF st, trigger, work
    <2>4. Leads(st, <<st>> \o RefreshPile(p) \o trigger)
        BY <2>3, LeadsOn
    <2>5. Fresh(s, st)
        BY <1>1, <2>1, <2>2 DEF Fresh
    <2> QED
        BY <2>1, <2>4, <2>5, BeginsWith
<1>2. ASSUME NEW p \in Piles, PowerOff(s, p)
      PROVE  Proceeds(s)
    <2> DEFINE st == [op |-> "setPower", pile |-> p, phys |-> "OFF", work |-> WorkAfterSwitch(p)]
    <2>1. Begin(s, <<st>> \o RefreshPile(p)) /\ UNCHANGED tables /\ OnPile(p, {"CHARGING"}) = {}
        BY <1>2 DEF PowerOff
    <2>2. st.op = "setPower" /\ st.pile = p /\ st.phys = "OFF" /\ st.work = WorkAfterSwitch(p)
        OBVIOUS
    <2>3. KindsIn(RefreshPile(p), Easy \cup Planning)
        BY CalmParts
    <2> HIDE DEF st
    <2>4. Leads(st, <<st>> \o RefreshPile(p))
        BY <2>3, LeadsOn
    <2>5. Fresh(s, st)
        BY <2>1, <2>2 DEF Fresh
    <2> QED
        BY <2>1, <2>4, <2>5, BeginsWith
<1>3. ASSUME NEW p \in Piles, ReportFault(s, p)
      PROVE  Proceeds(s)
    <2>1. CASE /\ OnPile(p, {"CHARGING"}) = {}
               /\ Begin(s, <<[op |-> "setFault", pile |-> p, continued |-> FALSE]>>)
        <3> DEFINE st == [op |-> "setFault", pile |-> p, continued |-> FALSE]
        <3>1. Begin(s, <<st>>) /\ UNCHANGED tables /\ st.op = "setFault" /\ st.pile = p
            BY <1>3, <2>1 DEF ReportFault
        <3> HIDE DEF st
        <3>2. Fresh(s, st)
            BY <2>1, <3>1 DEF Fresh
        <3> QED
            BY <3>1, <3>2, LeadsOn, BeginsWith
    <2>2. ASSUME NEW o \in OnPile(p, {"CHARGING"}),
                 Begin(s, <<CloseAndBill(o, "FAULT", "ABORTED", "FAULT"),
                            [op |-> "remaining", pile |-> p, order |-> o, active |-> orders[o]]>>)
          PROVE  Proceeds(s)
        <3> DEFINE bill == CloseAndBill(o, "FAULT", "ABORTED", "FAULT")
                   st == [op |-> "remaining", pile |-> p, order |-> o, active |-> orders[o]]
                   q == <<bill, st>>
        <3>1. Begin(s, q) /\ UNCHANGED tables
            BY <1>3, <2>2 DEF ReportFault
        <3>2. bill.op = "closeAndBill" /\ st.op = "remaining" /\ st.pile = p /\ st.order = o
              /\ st.active = orders[o]
            BY DEF CloseAndBill
        <3>3. DOMAIN q = {1, 2} /\ q[1] = bill /\ q[2] = st /\ Head(q) = bill
            OBVIOUS
        <3>4. todo'[s] = q
            BY <3>1 DEF Begin, TodoOK
        <3> HIDE DEF st, q
        <3>5. Fresh(s, st)
            BY <2>2, <3>1, <3>2, <3>3, <3>4 DEF Fresh
        <3> HIDE DEF bill
        <3>6. Kind(bill) = "closeAndBill"
            BY <3>2, KindOfOp
        <3>7. Kind(bill) \in Easy /\ ~Relies(bill)
            BY <3>6 DEF Easy, Relies, Relying
        <3>8. Ordered(q)
            <4>1. ASSUME NEW i \in DOMAIN q, NEW j \in DOMAIN q, i < j
                  PROVE  i = 1 /\ j = 2
                BY <3>3, <4>1
            <4> QED
                BY <3>3, <3>7, <4>1, PairKinds DEF Ordered
        <3> QED
            BY <3>1, <3>3, <3>5, <3>7, <3>8, BeginsSo
    <2> QED
        BY <1>3, <2>1, <2>2 DEF ReportFault
<1>4. ASSUME NEW p \in Piles, Recover(s, p)
      PROVE  Proceeds(s)
    <2> DEFINE moved == IF piles[p].phys = "ON"
                        THEN RecoveryReschedule(p) \o TriggerBasic(PileType[p]) ELSE <<>>
    <2>1. Begin(s, RefreshPile(p) \o moved)
        BY <1>4 DEF Recover
    <2>2. KindsIn(RecoveryReschedule(p) \o TriggerBasic(PileType[p]), Easy \cup Planning)
        BY LockedCalm, CalmParts, KindsJoin
    <2>3. KindsIn(moved, Easy \cup Planning) /\ KindsIn(RefreshPile(p), Easy \cup Planning)
        BY <2>2, CalmParts, KindsNone
    <2> HIDE DEF moved
    <2> QED
        BY <2>1, <2>3, KindsJoin, BeginsCalm
<1>5. ASSUME NEW p, NEW strategy, Reschedule(s, p, strategy)
      PROVE  Proceeds(s)
    BY <1>5, LockedCalm, BeginsCalm DEF Reschedule
<1>6. CASE BasicAll(s)
    <2> DEFINE then == AutoComplete \o <<[op |-> "wakeIdlePiles"]>>
                       \o TriggerBasic("FAST") \o TriggerBasic("SLOW")
    <2>1. Begin(s, Locked(<<"basic">>, then))
        BY <1>6 DEF BasicAll
    <2>2. PlainSteps(then) /\ KindsIn(then, DispatchKinds)
        BY TriggerIsPlain, TriggerKinds, StepsJoin, KindsJoin
    <2> HIDE DEF then
    <2> QED
        BY <2>1, <2>2, LockedCalm, BeginsCalm
<1>7. ASSUME NEW mode, Basic(s, mode)
      PROVE  Proceeds(s)
    BY <1>7, CalmParts, BeginsCalm DEF Basic
<1>8. ASSUME NEW mode, NEW n, SingleOptimization(s, mode, n)
      PROVE  Proceeds(s)
    <2>1. PICK plan : Begin(s, ApplyAssignments(plan, mode, {}) \o RefreshMode(mode))
        BY <1>8 DEF SingleOptimization
    <2>2. KindsIn(ApplyAssignments(plan, mode, {}) \o RefreshMode(mode), Easy \cup Planning)
        BY ApplyCalm, CalmParts, KindsJoin
    <2> QED
        BY <2>1, <2>2, BeginsCalm
<1>9. ASSUME NEW n, BatchOptimization(s, n)
      PROVE  Proceeds(s)
    <2>1. PICK plan : Begin(s, ApplyAssignments(plan, None, {}) \o RefreshAll)
        BY <1>9 DEF BatchOptimization
    <2>2. KindsIn(ApplyAssignments(plan, None, {}) \o RefreshAll, Easy \cup Planning)
        BY ApplyCalm, CalmParts, KindsJoin
    <2> QED
        BY <2>1, <2>2, BeginsCalm
<1> QED
    BY <1>1, <1>2, <1>3, <1>4, <1>5, <1>6, <1>7, <1>8, <1>9 DEF AdminRequest

-----------------------------------------------------------------------------
(* Handlers *)

\* A query ordered by id lists every row once.
LEMMA ByIdOK ==
    ASSUME NEW S \in SUBSET Nat, IsFiniteSet(S)
    PROVE  /\ ById(S) \in [1..Cardinality(S) -> S]
           /\ \A i, j \in 1..Cardinality(S) : i # j => ById(S)[i] # ById(S)[j]
<1> DEFINE n == Cardinality(S)
           q == ById(S)
<1>1. q \in [1..n -> S] /\ \A i, j \in DOMAIN q : i < j => q[i] < q[j]
    BY Ascending DEF ById
<1>2. n \in Nat
    BY FS_CardinalityType
<1> HIDE DEF n, q
<1>3. ASSUME NEW i \in 1..n, NEW j \in 1..n, i # j
      PROVE  q[i] # q[j]
    <2>1. q[i] \in Nat /\ q[j] \in Nat /\ i \in DOMAIN q /\ j \in DOMAIN q
        BY <1>1
    <2>2. CASE i < j
        <3>1. q[i] < q[j]
            BY <1>1, <2>1, <2>2
        <3> QED
            BY <2>1, <3>1
    <2>3. CASE j < i
        <3>1. q[j] < q[i]
            BY <1>1, <2>1, <2>3
        <3> QED
            BY <2>1, <3>1
    <2> QED
        BY <1>2, <1>3, <2>2, <2>3
<1> QED
    BY <1>1, <1>3 DEF n, q

\* What a slot goes on to when it is done or fails.
LEMMA FailProceeds ==
    ASSUME TodoOK, NEW s \in Slots, Ordered(todo[s]), todo[s] # <<>>, Fail(s)
    PROVE  Proceeds(s)
BY GoesBy, ThrowsSo DEF Fail

\* Billing.
LEMMA BillProceeds ==
    ASSUME HandlersInv, NEW s \in Slots, Ordered(todo[s]), ReadForBill(s) \/ Settle(s)
    PROVE  Proceeds(s)
<1> USE DEF HandlersInv
<1> DEFINE step == Head(todo[s])
<1>1. CASE ReadForBill(s)
    <2> DEFINE o == step.order
               x == Min(ActiveSessions(o))
               st == [op |-> "settle", session |-> x, amount |-> ActualAmount(o, x),
                      previous |-> PreviousAmount(o, x), mode |-> orders[o].mode,
                      reason |-> step.reason, target |-> step.target, work |-> step.work,
                      swallow |-> step.swallow, after |-> step.after]
    <2>1. At(s, "closeAndBill") /\ todo[s] # <<>>
        BY <1>1 DEF ReadForBill, At
    <2>2. StepOK(step) /\ step.op = "closeAndBill"
        BY <2>1, HeadOK
    <2>3. KindsIn(step.after, {"refresh"})
        BY <2>2 DEF StepOK, EndOK
    <2>4. KindsIn(step.after, Easy)
        BY <2>3, KindsNone DEF Easy
    <2>5. \/ Goto(s, step.after)
          \/ Fail(s)
          \/ Goto(s, <<st>>)
        BY <1>1 DEF ReadForBill
    <2>6. st.op = "settle"
        OBVIOUS
    <2> HIDE DEF st
    <2>7. KindsIn(<<st>>, Easy)
        BY <2>6, KindsOp DEF Easy
    <2> QED
        BY <2>1, <2>4, <2>5, <2>7, GoesEasy, FailProceeds
<1>2. CASE Settle(s)
    <2> DEFINE q == RefreshMode(step.mode) \o RefreshPile(sessions[step.session].pile) \o step.after
    <2>1. At(s, "settle") /\ todo[s] # <<>>
        BY <1>2 DEF Settle, At
    <2>2. StepOK(step) /\ step.op = "settle"
        BY <2>1, HeadOK
    <2>3. KindsIn(step.after, {"refresh"})
        BY <2>2 DEF StepOK, EndOK
    <2>4. KindsIn(step.after, Easy)
        BY <2>3, KindsNone DEF Easy
    <2>5. KindsIn(q, Easy)
        BY <2>4, CalmParts, KindsJoin
    <2>6. Goto(s, q) \/ Fail(s)
        BY <1>2 DEF Settle
    <2> HIDE DEF q
    <2> QED
        BY <2>1, <2>5, <2>6, GoesEasy, FailProceeds
<1> QED
    BY <1>1, <1>2

\* Planning: batches of assignments, or a wake of each idle pile.
LEMMA PlanProceeds ==
    ASSUME HandlersInv, NEW s \in Slots, Ordered(todo[s]),
           \/ AutoCompleteCharging(s) \/ PlanBasic(s) \/ PlanFault(s) \/ PlanRecovery(s)
           \/ PlanWake(s) \/ Wake(s)
    PROVE  Proceeds(s)
<1> USE DEF HandlersInv
<1>1. CASE AutoCompleteCharging(s)
    <2>1. Goto(s, Completions) /\ todo[s] # <<>>
        BY <1>1 DEF AutoCompleteCharging, At
    <2>2. KindsIn(Completions, Easy)
        BY OrdersFinite, CompletionsEasy
    <2> QED
        BY <2>1, <2>2, GoesEasy
<1>2. CASE PlanBasic(s)
    <2>1. PICK plan, mode : Goto(s, ApplyAssignments(plan, mode, {}) \o RefreshMode(mode))
        BY <1>2 DEF PlanBasic
    <2>2. KindsIn(ApplyAssignments(plan, mode, {}) \o RefreshMode(mode), Easy \cup Planning)
        BY ApplyCalm, CalmParts, KindsJoin
    <2>3. At(s, "basic") /\ "basic" \in Closing
        BY <1>2 DEF PlanBasic, Closing, Planning
    <2> QED
        BY <2>1, <2>2, <2>3, GoesCalm
<1>3. CASE PlanFault(s)
    <2> DEFINE p == Head(todo[s]).pile
    <2>1. PICK plan, mode, movable :
             Goto(s, ApplyAssignments(plan, mode, movable) \o RefreshPile(p))
        BY <1>3 DEF PlanFault
    <2>2. KindsIn(ApplyAssignments(plan, mode, movable) \o RefreshPile(p), Easy \cup Planning)
        BY ApplyCalm, CalmParts, KindsJoin
    <2>3. At(s, "fault") /\ "fault" \in Closing
        BY <1>3 DEF PlanFault, Closing, Planning
    <2> QED
        BY <2>1, <2>2, <2>3, GoesCalm
<1>4. CASE PlanRecovery(s)
    <2>1. PICK plan, mode, movable : Goto(s, ApplyAssignments(plan, mode, movable))
        BY <1>4 DEF PlanRecovery
    <2>2. At(s, "recovery") /\ "recovery" \in Closing
        BY <1>4 DEF PlanRecovery, Closing, Planning
    <2> QED
        BY <2>1, <2>2, ApplyCalm, GoesCalm
<1>5. CASE PlanWake(s)
    <2> DEFINE idle == {p \in Piles : Wakeable(p)}
               n == Cardinality(idle)
               q == [i \in 1..n |-> WakeCall(ById(idle)[i])]
    <2>1. Goto(s, q) /\ UNCHANGED tables /\ At(s, "wakeIdlePiles") /\ todo[s] # <<>>
        BY <1>5 DEF PlanWake, At
    <2>2. idle \in SUBSET Nat /\ IsFiniteSet(idle)
        BY PilesAssumption, FS_Subset
    <2>3. n \in Nat
        BY <2>2, FS_CardinalityType
    <2>4. /\ ById(idle) \in [1..n -> idle]
          /\ \A i, j \in 1..n : i # j => ById(idle)[i] # ById(idle)[j]
        <3> HIDE DEF idle
        <3> QED
            BY <2>2, ByIdOK
    <2>5. \A i \in 1..n : ById(idle)[i] \in Piles /\ Wakeable(ById(idle)[i])
        BY <2>4
    <2>6. ASSUME NEW p
          PROVE  Kind(WakeCall(p)) = "wakeLock" /\ Woken(WakeCall(p)).pile = p
        <3> DEFINE w == [op |-> "wake", order |-> Head(QueuedOn(p)), pile |-> p]
                   call == LockStep(<<"wake", p>>, <<w>>)
        <3>1. call.op = "lock" /\ call.then[1] = w /\ w.pile = p
            BY DEF LockStep
        <3>2. WakeCall(p) = call
            BY DEF WakeCall
        <3> HIDE DEF call, w
        <3> QED
            BY <3>1, <3>2, RescheduleOK DEF Woken
    <2> DEFINE S == {q[i] : i \in 1..n}
    <2>7. q \in [1..n -> S] /\ DOMAIN q = 1..n /\ \A i \in 1..n : q[i] = WakeCall(ById(idle)[i])
        OBVIOUS
    <2> HIDE DEF idle, n, q, S
    <2>8. q \in Seq(S)
        BY <2>3, <2>7
    <2>9. \A i \in DOMAIN q : Kind(q[i]) = "wakeLock" /\ Woken(q[i]).pile = ById(idle)[i]
        BY <2>6, <2>7
    <2>10. Ordered(q)
        <3>1. ASSUME NEW i \in DOMAIN q, NEW j \in DOMAIN q, i < j
              PROVE  Pair(q[i], q[j])
            <4>1. i # j
                BY <2>3, <2>7, <3>1
            <4>2. Together(q[i], q[j])
                BY <2>4, <2>7, <2>9, <4>1 DEF Together, Wakes
            <4> QED
                BY <2>9, <4>2 DEF Pair, Planning
        <3> QED
            BY <3>1 DEF Ordered
    <2>11. ASSUME NEW i \in DOMAIN q
           PROVE  Fresh(s, q[i])
        BY <2>1, <2>5, <2>7 DEF Fresh
    <2>12. Kind(Head(todo[s])) \in Planning
        BY <2>1, KindOfOp DEF At, Planning
    <2>13. \A st : Pair(Head(todo[s]), st) => ~Relies(st)
        BY <2>12, PairKinds
    <2>14. \A i \in DOMAIN q : \A st : Pair(Head(todo[s]), st) => Pair(q[i], st)
        BY <2>13, PairKinds
    <2> QED
        BY <2>1, <2>8, <2>10, <2>11, <2>14, GoesSo
<1>6. CASE Wake(s)
    <2>1. PICK p : Goto(s, RefreshPile(p)) /\ todo[s] # <<>>
        BY <1>6 DEF Wake, At
    <2> QED
        BY <2>1, CalmParts, GoesEasy
<1> QED
    BY <1>1, <1>2, <1>3, <1>4, <1>5, <1>6

\* One step put after others.
LEMMA PutAfter ==
    /\ \A a, b : <<a>> \o <<b>> = <<a, b>>
    /\ \A a, b, c : <<a, b>> \o <<c>> = <<a, b, c>>
<1>1. ASSUME NEW S, NEW q \in Seq(S), NEW last \in Seq(S), NEW r \in Seq(S),
             Len(last) = 1, Len(r) = Len(q) + 1,
             r[Len(r)] = last[1], \A i \in 1..Len(q) : r[i] = q[i]
      PROVE  q \o last = r
    <2> DEFINE n == Len(q)
               all == q \o last
    <2>1. /\ all \in Seq(S)
          /\ Len(all) = Len(q) + Len(last)
          /\ \A i \in 1..Len(q) : all[i] = q[i]
          /\ \A i \in 1..Len(last) : all[Len(q) + i] = last[i]
        BY Joined
    <2>2. n \in Nat
        OBVIOUS
    <2> HIDE DEF all
    <2>3. all[n + 1] = r[n + 1]
        <3>1. 1 \in 1..Len(last)
            BY <1>1
        <3> QED
            BY <1>1, <2>1, <3>1
    <2>4. Len(all) = n + 1 /\ \A i \in 1..n : all[i] = r[i]
        BY <1>1, <2>1
    <2>5. all \in [1..(n + 1) -> S] /\ r \in [1..(n + 1) -> S]
        BY <1>1, <2>1, <2>4
    <2> HIDE DEF n
    <2>6. \A i \in 1..(n + 1) : i = n + 1 \/ i \in 1..n
        BY <2>2
    <2>7. \A i \in 1..(n + 1) : all[i] = r[i]
        BY <2>3, <2>4, <2>6
    <2>8. all = r
        <3>1. all = [i \in 1..(n + 1) |-> all[i]] /\ r = [i \in 1..(n + 1) |-> r[i]]
            BY <2>5
        <3>2. [i \in 1..(n + 1) |-> all[i]] = [i \in 1..(n + 1) |-> r[i]]
            BY <2>7
        <3> QED
            BY <3>1, <3>2
    <2> QED
        BY <2>8 DEF all
<1>2. ASSUME NEW a, NEW b
      PROVE  <<a>> \o <<b>> = <<a, b>>
    <2> DEFINE S == {a, b}
               q == <<a>>
               r == <<a, b>>
               last == <<b>>
    <2>1. /\ q \in Seq(S) /\ last \in Seq(S) /\ r \in Seq(S)
          /\ Len(last) = 1 /\ Len(r) = Len(q) + 1 /\ r[Len(r)] = last[1]
          /\ \A i \in 1..Len(q) : r[i] = q[i]
        OBVIOUS
    <2> HIDE DEF S, q, r, last
    <2>2. q \o last = r
        BY <1>1, <2>1
    <2> QED
        BY <2>2 DEF q, r, last
<1>3. ASSUME NEW a, NEW b, NEW c
      PROVE  <<a, b>> \o <<c>> = <<a, b, c>>
    <2> DEFINE S == {a, b, c}
               q == <<a, b>>
               r == <<a, b, c>>
               last == <<c>>
    <2>1. /\ q \in Seq(S) /\ last \in Seq(S) /\ r \in Seq(S)
          /\ Len(last) = 1 /\ Len(r) = Len(q) + 1 /\ r[Len(r)] = last[1]
          /\ \A i \in 1..Len(q) : r[i] = q[i]
        OBVIOUS
    <2> HIDE DEF S, q, r, last
    <2>2. q \o last = r
        BY <1>1, <2>1
    <2> QED
        BY <2>2 DEF q, r, last
<1> QED
    BY <1>2, <1>3

\* A batch of assignments.
LEMMA AssignProceeds ==
    ASSUME HandlersInv, NEW s \in Slots, Ordered(todo[s]), ReadAssignment(s) \/ Assign(s)
    PROVE  Proceeds(s)
<1> USE DEF HandlersInv
<1> DEFINE step == Head(todo[s])
<1>0. ASSUME NEW rest, DOMAIN rest = DOMAIN step, rest.op = step.op,
             rest.touched = step.touched, BatchOK(step)
      PROVE  BatchOK(rest)
    BY <1>0 DEF BatchOK
<1>1. CASE ReadAssignment(s)
    <2> DEFINE next == Head(step.plan)
               rest == [step EXCEPT !.plan = Tail(@)]
               st == [op |-> "assign", order |-> next.order, pile |-> next.pile,
                      autoStart |-> AutoStarts(step, next.pile),
                      from |-> orders[next.order].pile, rest |-> rest]
    <2>1. At(s, "apply") /\ UNCHANGED tables /\ "apply" \in Closing
        BY <1>1 DEF ReadAssignment, Closing, Planning
    <2>2. BatchOK(step)
        BY <2>1, HeadOK DEF StepOK
    <2>3. DOMAIN rest = DOMAIN step /\ rest.op = step.op /\ rest.touched = step.touched
        BY <2>2 DEF BatchOK
    <2>4. BatchOK(rest)
        <3> HIDE DEF rest
        <3> QED
            BY <1>0, <2>2, <2>3
    <2>5. \/ CanPlace(step, next.order, next.pile) /\ Goto(s, <<st>>)
          \/ Goto(s, Remaining(rest))
        BY <1>1 DEF ReadAssignment
    <2>6. CASE CanPlace(step, next.order, next.pile) /\ Goto(s, <<st>>)
        <3>1. /\ st.op = "assign" /\ st.order = next.order /\ st.pile = next.pile
              /\ st.autoStart = AutoStarts(step, next.pile) /\ st.rest = rest
            OBVIOUS
        <3>2. Goto(s, <<st>>)
            BY <2>6
        <3> HIDE DEF st
        <3>3. Fresh(s, st)
            BY <2>1, <2>6, <3>1 DEF Fresh
        <3> QED
            BY <2>1, <3>2, <3>3, GoesWith
    <2>7. CASE Goto(s, Remaining(rest))
        <3> HIDE DEF rest
        <3> QED
            BY <2>1, <2>4, <2>7, RemainingCalm, GoesCalm
    <2> QED
        BY <2>5, <2>6, <2>7
<1>2. CASE Assign(s)
    <2>1. At(s, "assign") /\ "assign" \in Closing
        BY <1>2 DEF Assign, Closing, Relying
    <2>2. PICK rest : BatchOK(rest) /\ Goto(s, Remaining(rest))
        BY <1>2, AssignGoesOn
    <2> QED
        BY <2>1, <2>2, RemainingCalm, GoesCalm
<1> QED
    BY <1>1, <1>2

\* The driver's writes.
LEMMA ChargingProceeds ==
    ASSUME HandlersInv, NEW s \in Slots, Ordered(todo[s]), ServeCharging(s)
    PROVE  Proceeds(s)
<1> USE DEF HandlersInv
<1> DEFINE step == Head(todo[s])
<1>0. /\ {"create", "retry", "setMode", "setAmount", "setCanceled", "start"} \subseteq Closing
      /\ \A op : At(s, op) => todo[s] # <<>> /\ step.op = op
      /\ \A mode : KindsIn(RefreshMode(mode) \o AutoComplete, Easy \cup Planning)
    BY CalmParts, KindsJoin DEF Closing, Relying, At
<1>1. CASE Create(s)
    <2> DEFINE again == [op |-> "retry", user |-> step.user, mode |-> step.mode,
                         amount |-> step.amount, attempt |-> step.attempt + 1]
    <2>1. \/ Throw(s) \/ (QueueNoTaken(step.no, None) /\ Goto(s, <<again>>) /\ UNCHANGED orders)
          \/ Goto(s, RefreshMode(step.mode) \o AutoComplete)
        BY <1>1 DEF Create
    <2>2. At(s, "create") /\ UNCHANGED <<line, sessions, details, piles, totals>>
        BY <1>1 DEF Create
    <2>3. again.op = "retry" /\ again.user = step.user
        OBVIOUS
    <2> HIDE DEF again
    <2>4. CASE Goto(s, <<again>>) /\ UNCHANGED orders
        <3>1. Fresh(s, again)
            BY <2>2, <2>3, <2>4 DEF Fresh, tables
        <3> QED
            BY <1>0, <2>2, <2>4, <3>1, GoesWith
    <2> QED
        BY <1>0, <2>1, <2>2, <2>4, ThrowsSo, GoesCalm
<1>2. CASE Retry(s)
    <2> DEFINE st == [op |-> "create", user |-> step.user, mode |-> step.mode,
                      amount |-> step.amount, attempt |-> step.attempt,
                      no |-> NextQueueNo(step.mode)]
    <2>1. At(s, "retry") /\ Goto(s, <<st>>) /\ UNCHANGED tables
        BY <1>2 DEF Retry, CreateCall
    <2>2. st.op = "create" /\ st.no = NextQueueNo(st.mode) /\ st.user = step.user
        OBVIOUS
    <2> HIDE DEF st
    <2>3. Fresh(s, st)
        BY <2>1, <2>2 DEF Fresh
    <2> QED
        BY <1>0, <2>1, <2>3, GoesWith
<1>3. CASE SetMode(s)
    <2> DEFINE q == RefreshMode(step.from) \o RefreshMode(step.mode) \o AutoComplete
    <2>1. At(s, "setMode") /\ (Throw(s) \/ Goto(s, q))
        BY <1>3 DEF SetMode
    <2>2. KindsIn(q, Easy \cup Planning)
        BY CalmParts, KindsJoin
    <2> HIDE DEF q
    <2> QED
        BY <1>0, <2>1, <2>2, ThrowsSo, GoesCalm
<1>4. CASE SetAmount(s)
    <2>1. PICK mode : At(s, "setAmount") /\ Goto(s, RefreshMode(mode) \o AutoComplete)
        BY <1>4 DEF SetAmount
    <2> QED
        BY <1>0, <2>1, GoesCalm
<1>5. CASE SetCanceled(s)
    BY <1>0, <1>5, GoesBy DEF SetCanceled
<1>6. CASE StartTransaction(s)
    <2>1. At(s, "start") /\ (Throw(s) \/ Goto(s, RefreshPile(step.pile)))
        BY <1>6 DEF StartTransaction
    <2> QED
        BY <1>0, <2>1, ThrowsSo, CalmParts, GoesEasy
<1> QED
    BY <1>1, <1>2, <1>3, <1>4, <1>5, <1>6 DEF ServeCharging

\* What follows the bill of a fault: its steps rely on one read.
LEMMA RemainderProceeds ==
    ASSUME HandlersInv, NEW s \in Slots, Ordered(todo[s]), Remainder(s)
    PROVE  Proceeds(s)
<1> USE DEF HandlersInv
<1> DEFINE step == Head(todo[s])
           fault(continued) == [op |-> "setFault", pile |-> step.pile, continued |-> continued]
           rename == [op |-> "rename", order |-> step.order, no |-> step.active.no]
           continue == [op |-> "continue", active |-> step.active, amount |-> Uncovered(step)]
           q == <<rename, continue, fault(TRUE)>>
<1>1. At(s, "remaining") /\ UNCHANGED tables /\ "remaining" \in Closing
    BY DEF Remainder, Closing, Relying
<1>2. \/ Goto(s, <<rename, continue>> \o <<fault(TRUE)>>)
      \/ Goto(s, <<fault(FALSE)>>)
    BY DEF Remainder
<1>3. /\ rename.op = "rename"
      /\ continue.op = "continue" /\ continue.active = step.active
      /\ continue.amount = Uncovered(step)
      /\ \A c : fault(c).op = "setFault" /\ fault(c).pile = step.pile
    OBVIOUS
<1>4. CASE Goto(s, <<fault(FALSE)>>)
    <2>1. Fresh(s, fault(FALSE))
        BY <1>1, <1>3 DEF Fresh
    <2>2. Goto(s, <<fault(FALSE)>>)
        BY <1>4
    <2> HIDE DEF fault
    <2> QED
        BY <1>1, <2>1, <2>2, GoesWith
<1>5. CASE Goto(s, <<rename, continue>> \o <<fault(TRUE)>>)
    <2>1. <<rename, continue>> \o <<fault(TRUE)>> = q
        <3> HIDE DEF rename, continue, fault
        <3> QED
            BY PutAfter
    <2>2. Goto(s, q)
        BY <1>5, <2>1
    <2> DEFINE S == {rename, continue, fault(TRUE)}
    <2>3. /\ q \in Seq(S)
          /\ DOMAIN q = {1, 2, 3}
          /\ q[1] = rename /\ q[2] = continue /\ q[3] = fault(TRUE)
        OBVIOUS
    <2>4. todo'[s][1] = rename
        <3>1. todo'[s] = q \o Tail(todo[s])
            BY <2>2 DEF Goto, TodoOK
        <3>2. PICK T : todo[s] \in Seq(T)
            BY DEF TodoOK, Todo
        <3>3. Tail(todo[s]) \in Seq(T)
            BY <1>1, <3>2 DEF At
        <3> DEFINE r == Tail(todo[s])
                   U == S \cup T
        <3>4. q \in Seq(U) /\ r \in Seq(U) /\ Len(q) = 3
            BY <2>3, <3>3
        <3> HIDE DEF q, r, U
        <3>5. \A i \in 1..Len(q) : (q \o r)[i] = q[i]
            BY <3>4, Joined
        <3>6. 1 \in 1..Len(q)
            BY <3>4
        <3>7. (q \o r)[1] = q[1]
            BY <3>5, <3>6, Zenon
        <3> QED
            BY <2>3, <3>1, <3>7 DEF r
    <2>5. todo'[s][1] = [op |-> "rename", order |-> step.order, no |-> step.active.no]
        BY <2>4
    <2> DEFINE last == fault(TRUE)
    <2>6. /\ last.op = "setFault" /\ last.pile = step.pile
          /\ q[3] = last
        BY <2>3
    <2> HIDE DEF q, S, rename, continue, last
    <2>7. Fresh(s, rename) /\ Fresh(s, continue) /\ Fresh(s, last)
        <3>1. Fresh(s, rename)
            BY <1>1, <1>3, <2>4, <2>5 DEF Fresh
        <3>2. Fresh(s, continue)
            BY <1>1, <1>3, <2>5 DEF Fresh
        <3>3. Fresh(s, last)
            BY <1>1, <2>6 DEF Fresh
        <3> QED
            BY <3>1, <3>2, <3>3
    <2>8. Kind(rename) = "rename" /\ Kind(continue) = "continue" /\ Kind(last) = "setFault"
        BY <1>3, <2>6, KindOfOp
    <2>9. Ordered(q)
        <3>1. /\ Pair(rename, continue) /\ Pair(rename, last) /\ Pair(continue, last)
            BY <2>8 DEF Pair, Together, Planning
        <3>2. ASSUME NEW i \in DOMAIN q, NEW j \in DOMAIN q, i < j
              PROVE  <<i, j>> \in {<<1, 2>>, <<1, 3>>, <<2, 3>>}
            BY <2>3, <3>2
        <3> QED
            BY <2>3, <2>6, <3>1, <3>2 DEF Ordered
    <2>10. \A st : Pair(step, st) => ~Relies(st)
        <3>1. Kind(step) = "remaining"
            BY <1>1, KindOfOp DEF At
        <3> QED
            BY <3>1, PairKinds DEF Relying
    <2>11. \A i \in DOMAIN q : \A st : Pair(step, st) => Pair(q[i], st)
        BY <2>10, PairKinds
    <2>12. todo[s] # <<>>
        BY <1>1 DEF At
    <2> QED
        BY <2>2, <2>3, <2>6, <2>7, <2>9, <2>11, <2>12, GoesSo
<1> QED
    BY <1>2, <1>4, <1>5

\* The administrator's writes.
LEMMA PileProceeds ==
    ASSUME HandlersInv, NEW s \in Slots, Ordered(todo[s]), ServePile(s)
    PROVE  Proceeds(s)
<1> USE DEF HandlersInv
<1> DEFINE step == Head(todo[s])
<1>0. \A op : At(s, op) => todo[s] # <<>>
    BY DEF At
<1>1. CASE SetPower(s)
    BY <1>0, <1>1, GoesBy DEF SetPower
<1>2. CASE Rename(s)
    BY <1>0, <1>2, GoesBy, ThrowsSo DEF Rename
<1>3. CASE Continue(s)
    BY <1>0, <1>3, GoesBy, ThrowsSo DEF Continue
<1>4. CASE SetFault(s)
    <2> DEFINE st == [op |-> "affected", pile |-> step.pile, continued |-> step.continued]
    <2>1. At(s, "setFault") /\ Goto(s, <<st>>) /\ "setFault" \in Closing
        BY <1>4 DEF SetFault, Closing, Relying
    <2>2. st.op = "affected"
        OBVIOUS
    <2> HIDE DEF st
    <2>3. KindsIn(<<st>>, Easy \cup Planning)
        BY <2>2, KindsOp DEF Planning
    <2> QED
        BY <2>1, <2>3, GoesCalm
<1>5. CASE Affected(s)
    <2> DEFINE p == step.pile
               queued == QueuedOn(p) # <<>>
               moved == IF queued THEN FaultReschedule(p, "PRIORITY") ELSE <<>>
               filled == IF queued \/ step.continued THEN TriggerBasic(PileType[p]) ELSE <<>>
    <2>1. /\ At(s, "affected") /\ Goto(s, RefreshPile(p) \o moved \o filled)
          /\ "affected" \in Closing
        BY <1>5 DEF Affected, Closing, Planning
    <2>2. /\ KindsIn(RefreshPile(p), Easy \cup Planning)
          /\ KindsIn(moved, Easy \cup Planning)
          /\ KindsIn(filled, Easy \cup Planning)
        BY CalmParts, LockedCalm, KindsNone
    <2> HIDE DEF moved, filled
    <2>3. KindsIn(RefreshPile(p) \o moved \o filled, Easy \cup Planning)
        BY <2>2, KindsJoin
    <2> QED
        BY <2>1, <2>3, GoesCalm
<1> QED
    BY <1>1, <1>2, <1>3, <1>4, <1>5, RemainderProceeds DEF ServePile

\* A lock that is taken is followed by what was to be done under it.
LEMMA LockProceeds ==
    ASSUME HandlersInv, NEW s \in Slots, Ordered(todo[s]), Lock(s) \/ Unlock(s)
    PROVE  Proceeds(s)
<1> USE DEF HandlersInv
<1> DEFINE step == Head(todo[s])
           last == [op |-> "unlock", key |-> step.key]
           q == step.then \o <<last>>
<1>1. todo[s] # <<>>
    BY DEF Lock, Unlock, At
<1>2. CASE Goto(s, <<>>)
    BY <1>1, <1>2, GoesBy
<1>3. CASE At(s, "lock") /\ UNCHANGED tables /\ Goto(s, q)
    <2>1. StepOK(step) /\ step.op = "lock"
        BY <1>3, HeadOK
    <2>2. last.op = "unlock"
        OBVIOUS
    <2> HIDE DEF last
    <2>3. Kind(last) = "unlock" /\ KindsIn(<<last>>, Easy)
        BY <2>2, KindsOp DEF Easy
    <2>4. CASE WakeLock(step)
        <3> DEFINE wake == step.then[1]
                   S == {wake, last}
        <3>1. wake.op = "wake" /\ Len(step.then) = 1
            BY <2>4 DEF WakeLock
        <3>2. PICK T : step.then \in Seq(T)
            BY <2>1 DEF StepOK, PlainSteps
        <3>3. step.then = <<wake>>
            BY <3>1, <3>2
        <3>4. Goto(s, <<wake>> \o <<last>>)
            BY <1>3, <3>3
        <3> DEFINE r == <<wake, last>>
        <3>5. Fresh(s, wake)
            BY <1>3, <2>4, <3>1 DEF Fresh
        <3>6. Kind(wake) = "wake" /\ Kind(step) = "wakeLock"
            BY <2>4, <3>1, KindOfOp DEF Kind
        <3>7. Woken(step) = wake /\ Woken(wake) = wake
            BY <2>1, <3>1 DEF Woken
        <3> HIDE DEF wake
        <3>8. /\ r \in Seq(S) /\ DOMAIN r = {1, 2} /\ r[1] = wake /\ r[2] = last
              /\ <<wake>> \o <<last>> = r
            BY PutAfter
        <3>9. Goto(s, r)
            BY <3>4, <3>8
        <3> HIDE DEF r, S
        <3>10. ~Relies(last) /\ \A st : Pair(last, st)
            BY <2>3, PairKinds DEF Relies, Relying, Easy
        <3>11. ASSUME NEW st, Pair(step, st)
               PROVE  Pair(wake, st)
            BY <3>6, <3>7, <3>11 DEF Pair, Relies, Relying, Planning, Together, Wakes
        <3>12. Ordered(r)
            <4>1. ASSUME NEW i \in DOMAIN r, NEW j \in DOMAIN r, i < j
                  PROVE  i = 1 /\ j = 2
                BY <3>8, <4>1
            <4> QED
                BY <3>8, <3>10, <4>1, PairKinds DEF Ordered
        <3>13. \A i \in DOMAIN r : ~Relies(r[i]) \/ Fresh(s, r[i])
            BY <3>5, <3>8, <3>10
        <3>14. \A i \in DOMAIN r : \A st : Pair(step, st) => Pair(r[i], st)
            BY <3>8, <3>10, <3>11
        <3> QED
            BY <1>1, <3>8, <3>9, <3>12, <3>13, <3>14, GoesSo
    <2>5. CASE ~WakeLock(step)
        <3>1. KindsIn(step.then, DispatchKinds) /\ DispatchKinds \subseteq Easy \cup Planning
            BY <2>1, <2>5 DEF StepOK, DispatchKinds, Easy, Planning
        <3>2. KindsIn(step.then, Easy \cup Planning) /\ KindsIn(<<last>>, Easy \cup Planning)
            BY <2>3, <3>1, KindsNone
        <3>3. KindsIn(q, Easy \cup Planning)
            BY <3>2, KindsJoin
        <3>4. Goto(s, q)
            BY <1>3
        <3> HIDE DEF q
        <3>5. PICK S : q \in Seq(S)
            BY <3>3 DEF KindsIn
        <3>6. Calm(q) /\ Ordered(q)
            BY <3>3, CalmKinds, CalmOrdered
        <3>7. Kind(step) = "lock"
            BY <2>1, <2>5 DEF Kind
        <3>8. \A st : Pair(step, st) => ~Relies(st)
            BY <3>7, PairKinds DEF Planning
        <3>9. \A i \in DOMAIN q : \A st : Pair(step, st) => Pair(q[i], st)
            BY <3>8, PairKinds
        <3> QED
            BY <1>1, <3>4, <3>5, <3>6, <3>9, GoesSo DEF Calm
    <2> QED
        BY <2>4, <2>5
<1> QED
    BY <1>2, <1>3 DEF Lock, Unlock

\* The cache.
LEMMA CacheProceeds ==
    ASSUME HandlersInv, NEW s \in Slots, Ordered(todo[s]), ReadPayload(s) \/ SetJson(s)
    PROVE  Proceeds(s)
<1> USE DEF HandlersInv
<1>0. todo[s] # <<>>
    BY DEF ReadPayload, SetJson, At
<1>1. CASE ReadPayload(s)
    <2> DEFINE key == Head(todo[s]).key
               st == [op |-> "setJson", key |-> key, payload |-> Payload(key)]
    <2>1. Goto(s, <<st>>) /\ st.op = "setJson"
        BY <1>1 DEF ReadPayload
    <2> HIDE DEF st
    <2>2. KindsIn(<<st>>, Easy)
        BY <2>1, KindsOp DEF Easy
    <2> QED
        BY <1>0, <2>1, <2>2, GoesEasy
<1>2. CASE SetJson(s)
    BY <1>0, <1>2, GoesBy DEF SetJson
<1> QED
    BY <1>1, <1>2

\* Every slot moves on so.
LEMMA SlotProceeds ==
    ASSUME HandlersInv, NEW s \in Slots, Ordered(todo[s]),
           DriverRequest(s) \/ AdminRequest(s) \/ Serve(s)
    PROVE  Proceeds(s)
BY DriverProceeds, AdminProceeds, BillProceeds, PlanProceeds, AssignProceeds, ChargingProceeds,
   PileProceeds, LockProceeds, CacheProceeds DEF Serve, ServeDispatch

-----------------------------------------------------------------------------
(* What a step writes, as far as the invariant looks at it *)

Same(o) ==
    /\ orders'[o].user = orders[o].user
    /\ orders'[o].status = orders[o].status
    /\ orders'[o].pile = orders[o].pile

OrdersSame == DOMAIN orders' = DOMAIN orders /\ \A o \in DOMAIN orders : Same(o)

Becomes(o, status, p) ==
    /\ o \in DOMAIN orders
    /\ DOMAIN orders' = DOMAIN orders
    /\ \A other \in DOMAIN orders \ {o} : Same(other)
    /\ orders'[o].user = orders[o].user
    /\ orders'[o].status = status
    /\ orders'[o].pile = p

Runs(x) ==
    /\ sessions'[x].order = sessions[x].order
    /\ sessions'[x].pile = sessions[x].pile
    /\ sessions'[x].state = sessions[x].state

MetersSame == DOMAIN sessions' = DOMAIN sessions /\ \A x \in DOMAIN sessions : Runs(x)

BooksSame == MetersSame /\ DOMAIN details' = DOMAIN details

(* Nothing of it. *)
Kept == OrdersSame /\ BooksSame

(* The state of a pile. *)
Turns(p, phys, work) ==
    /\ \A other \in Piles \ {p} : piles'[other] = piles[other]
    /\ p \in Piles => piles'[p].phys = phys /\ piles'[p].work = work

(* Another order of the driver. *)
Adds(u) ==
    /\ \E o \in OrderIds \ DOMAIN orders :
          /\ DOMAIN orders' = DOMAIN orders \cup {o}
          /\ \A other \in DOMAIN orders : Same(other)
          /\ orders'[o].user = u
          /\ orders'[o].status = "WAITING"
    /\ BooksSame
    /\ UNCHANGED piles

Cancels(o) == Becomes(o, "CANCELED", None) /\ BooksSame /\ UNCHANGED piles

Places(o, p) == Becomes(o, "IN_PILE_QUEUE", p) /\ BooksSame /\ UNCHANGED piles

Charges(o, p) ==
    /\ p \in Piles
    /\ Becomes(o, "CHARGING", p)
    /\ \E x \in SessionIds \ DOMAIN sessions :
          /\ DOMAIN sessions' = DOMAIN sessions \cup {x}
          /\ \A y \in DOMAIN sessions : Runs(y)
          /\ sessions'[x].order = o /\ sessions'[x].pile = p /\ sessions'[x].state = "ACTIVE"
    /\ DOMAIN details' = DOMAIN details
    /\ Turns(p, piles[p].phys, "CHARGING")

Ends(x, target, work) ==
    LET o == sessions[x].order
    IN  /\ x \in DOMAIN sessions
        /\ o \notin DOMAIN details
        /\ target \in {"FINISHED", "ABORTED"} /\ work \in {"IDLE", "FAULT"}
        /\ Becomes(o, target, orders[o].pile)
        /\ DOMAIN sessions' = DOMAIN sessions
        /\ \A y \in DOMAIN sessions \ {x} : Runs(y)
        /\ sessions'[x].order = o /\ sessions'[x].state # "ACTIVE"
        /\ DOMAIN details' = DOMAIN details \cup {o}
        /\ Turns(sessions[x].pile, piles[sessions[x].pile].phys, work)

(* The state of one pile, by an administrator's switch or a fault. *)
Marks(p, phys, work) ==
    /\ Kept
    /\ work \in {"IDLE", "FAULT"}
    /\ Turns(p, phys, work)

Writes(s) ==
    LET step == Head(todo[s])
    IN  \/ Kept /\ UNCHANGED piles
        \/ At(s, "create") /\ Adds(step.user)
        \/ At(s, "continue") /\ Adds(step.active.user)
        \/ At(s, "setCanceled") /\ Cancels(step.order)
        \/ At(s, "assign") /\ ~step.autoStart /\ Places(step.order, step.pile)
        \/ At(s, "assign") /\ step.autoStart /\ Charges(step.order, step.pile)
        \/ (At(s, "start") \/ At(s, "wake")) /\ Charges(step.order, step.pile)
        \/ At(s, "settle") /\ \E target, work : Ends(step.session, target, work)
        \/ At(s, "setPower") /\ \E phys : Marks(step.pile, phys, step.work)
        \/ At(s, "setFault") /\ \E phys : Marks(step.pile, phys, "FAULT")
        \/ \E p \in Piles : /\ Idle(s) /\ "recover" \in Ops /\ Offered(p, "recover")
                            /\ \E phys : Marks(p, phys, "IDLE")

\* A row is written that says the same.
LEMMA RowSame ==
    ASSUME NEW o, NEW row, orders' = [orders EXCEPT ![o] = row],
           o \in DOMAIN orders => /\ row.user = orders[o].user
                                  /\ row.status = orders[o].status
                                  /\ row.pile = orders[o].pile
    PROVE  OrdersSame
BY DEF OrdersSame, Same

\* A row is written that differs.
LEMMA RowBecomes ==
    ASSUME NEW o \in DOMAIN orders, NEW row, orders' = [orders EXCEPT ![o] = row],
           row.user = orders[o].user
    PROVE  Becomes(o, row.status, row.pile)
BY DEF Becomes, Same

\* The state of a pile is written, or its workingState alone.
LEMMA PileTurns ==
    ASSUME piles \in [Piles -> PileRow], NEW p, NEW work
    PROVE  /\ piles' = [piles EXCEPT ![p].work = work] => Turns(p, piles[p].phys, work)
           /\ \A phys : piles' = [piles EXCEPT ![p].phys = phys, ![p].work = work]
                           => Turns(p, phys, work)
<1>1. ASSUME piles' = [piles EXCEPT ![p].work = work]
      PROVE  Turns(p, piles[p].phys, work)
    <2>1. CASE p \in Piles
        BY <1>1, <2>1 DEF Turns, PileRow
    <2>2. CASE p \notin Piles
        BY <1>1, <2>2 DEF Turns
    <2> QED
        BY <2>1, <2>2
<1>2. ASSUME NEW phys, piles' = [piles EXCEPT ![p].phys = phys, ![p].work = work]
      PROVE  Turns(p, phys, work)
    <2>1. CASE p \in Piles
        BY <1>2, <2>1 DEF Turns, PileRow
    <2>2. CASE p \notin Piles
        BY <1>2, <2>2 DEF Turns
    <2> QED
        BY <2>1, <2>2
<1> QED
    BY <1>1, <1>2

\* Steps that write no table.
LEMMA SameTables ==
    /\ UNCHANGED tables => Kept /\ UNCHANGED piles
    /\ UNCHANGED <<sessions, details>> => BooksSame
    /\ UNCHANGED <<orders, sessions, details>> => Kept
BY DEF tables, Kept, OrdersSame, Same, BooksSame, MetersSame, Runs

\* A new order waits.
LEMMA NewWaits ==
    ASSUME NEW u, NEW mode, NEW amount, NEW no, NewOrder(u, mode, amount, no),
           BooksSame, UNCHANGED piles
    PROVE  Adds(u)
<1> DEFINE row == [user |-> u, mode |-> mode, amount |-> amount, no |-> no,
                   status |-> "WAITING", pile |-> None]
<1>1. PICK o \in NextId(orders, OrderIds) : orders' = Insert(orders, o, row)
    BY DEF NewOrder
<1>2. row.user = u /\ row.status = "WAITING"
    OBVIOUS
<1> HIDE DEF row
<1>3. o \in OrderIds \ DOMAIN orders
    BY <1>1 DEF NextId
<1>4. /\ DOMAIN orders' = DOMAIN orders \cup {o} /\ orders'[o] = row
      /\ \A other \in DOMAIN orders : orders'[other] = orders[other]
    BY <1>1, <1>3 DEF Insert
<1> QED
    BY <1>2, <1>3, <1>4 DEF Adds, Same

\* An order begins to charge.
LEMMA BeginCharges ==
    ASSUME NEW o, NEW row, NEW p, piles \in [Piles -> PileRow], BeginCharging(o, row, p),
           row.user = orders[o].user, row.status = "CHARGING", row.pile = p
    PROVE  Charges(o, p)
<1>1. /\ o \in DOMAIN orders /\ p \in Piles /\ orders' = [orders EXCEPT ![o] = row]
      /\ piles' = [piles EXCEPT ![p].work = "CHARGING"] /\ UNCHANGED details
    BY DEF BeginCharging, LeaveLine
<1> DEFINE new == Session(o, p, "ACTIVE", 0, None)
<1>2. PICK x \in NextId(sessions, SessionIds) : sessions' = Insert(sessions, x, new)
    BY DEF BeginCharging
<1>3. new.order = o /\ new.pile = p /\ new.state = "ACTIVE"
    BY DEF Session
<1> HIDE DEF new
<1>4. x \in SessionIds \ DOMAIN sessions
    BY <1>2 DEF NextId
<1>5. /\ DOMAIN sessions' = DOMAIN sessions \cup {x} /\ sessions'[x] = new
      /\ \A y \in DOMAIN sessions : sessions'[y] = sessions[y]
    BY <1>2, <1>4 DEF Insert
<1>6. Becomes(o, "CHARGING", p)
    BY <1>1, RowBecomes
<1> QED
    BY <1>1, <1>3, <1>4, <1>5, <1>6, PileTurns DEF Charges, Runs

\* Requests write nothing but the pile that recover marks.
LEMMA RequestEffect ==
    ASSUME HandlersInv, NEW s \in Slots, DriverRequest(s) \/ AdminRequest(s)
    PROVE  Writes(s)
<1>1. CASE DriverRequest(s)
    <2>1. UNCHANGED tables
        BY <1>1 DEF DriverRequest, SubmitRequest, ModifyMode, ModifyAmount, CancelQueued,
            CancelCharging, Start, Stop, QueueStatus
    <2> QED
        BY <2>1, SameTables DEF Writes
<1>2. ASSUME NEW p \in Piles, "recover" \in Ops, Recover(s, p), Offered(p, "recover")
      PROVE  Writes(s)
    <2>1. Idle(s) /\ piles' = [piles EXCEPT ![p].work = "IDLE"] /\ Kept
        BY <1>2, SameTables DEF Recover
    <2>2. Turns(p, piles[p].phys, "IDLE")
        BY <2>1, PileTurns DEF HandlersInv, RowsOK, BookRowsOK
    <2> QED
        BY <1>2, <2>1, <2>2 DEF Writes, Marks
<1>3. CASE AdminRequest(s) /\ UNCHANGED tables
    BY <1>3, SameTables DEF Writes
<1>4. CASE AdminRequest(s) /\ ~UNCHANGED tables
    BY <1>2, <1>4 DEF AdminRequest, PowerOn, PowerOff, ReportFault, Reschedule, BasicAll,
        Basic, SingleOptimization, BatchOptimization
<1> QED
    BY <1>1, <1>3, <1>4

\* The driver's writes.
LEMMA ChargingEffect ==
    ASSUME HandlersInv, NEW s \in Slots, todo[s] # <<>> => Valid(Head(todo[s])),
           ServeCharging(s)
    PROVE  Writes(s)
<1> DEFINE step == Head(todo[s])
           o == step.order
<1>0. (\A i \in DOMAIN orders : orders[i] \in OrderRow) /\ piles \in [Piles -> PileRow]
    BY DEF HandlersInv, RowsOK, OrdersOK, BookRowsOK
<1>1. CASE Create(s)
    <2>1. /\ At(s, "create") /\ BooksSame /\ UNCHANGED <<sessions, details, piles>>
          /\ \/ UNCHANGED orders
             \/ NewOrder(step.user, step.mode, step.amount, step.no)
        BY <1>1, SameTables DEF Create
    <2> QED
        BY <2>1, SameTables, NewWaits DEF Writes
<1>2. CASE Retry(s)
    BY <1>2, SameTables DEF Retry, Writes
<1>3. CASE SetMode(s)
    <2> DEFINE row == [orders[o] EXCEPT !.mode = step.mode, !.no = step.no]
    <2>1. UNCHANGED orders \/ orders' = [orders EXCEPT ![o] = row]
        BY <1>3 DEF SetMode
    <2>2. UNCHANGED <<sessions, details, piles>>
        BY <1>3 DEF SetMode
    <2>3. o \in DOMAIN orders => /\ row.user = orders[o].user /\ row.status = orders[o].status
                                 /\ row.pile = orders[o].pile
        BY <1>0 DEF OrderRow
    <2> HIDE DEF row
    <2>4. Kept
        BY <2>1, <2>2, <2>3, RowSame, SameTables DEF Kept
    <2> QED
        BY <2>2, <2>4 DEF Writes
<1>4. CASE SetAmount(s)
    <2> DEFINE row == [orders[o] EXCEPT !.amount = step.amount]
    <2>1. orders' = [orders EXCEPT ![o] = row] /\ UNCHANGED <<sessions, details, piles>>
        BY <1>4 DEF SetAmount
    <2>2. o \in DOMAIN orders => /\ row.user = orders[o].user /\ row.status = orders[o].status
                                 /\ row.pile = orders[o].pile
        BY <1>0 DEF OrderRow
    <2> HIDE DEF row
    <2>3. Kept
        BY <2>1, <2>2, RowSame, SameTables DEF Kept
    <2> QED
        BY <2>1, <2>3 DEF Writes
<1>5. CASE SetCanceled(s)
    <2> DEFINE row == [orders[o] EXCEPT !.status = "CANCELED", !.pile = None]
    <2>1. At(s, "setCanceled") /\ todo[s] # <<>> /\ step.op = "setCanceled"
        BY <1>5 DEF SetCanceled, At
    <2>2. Kind(step) = "setCanceled"
        BY <2>1, KindOfOp
    <2>3. o \in DOMAIN orders
        BY <2>1, <2>2 DEF Valid, OrdersIn
    <2>4. orders' = [orders EXCEPT ![o] = row] /\ UNCHANGED <<sessions, details, piles>>
        BY <1>5 DEF SetCanceled, LeaveLine
    <2>5. row.user = orders[o].user /\ row.status = "CANCELED" /\ row.pile = None
        BY <1>0, <2>3 DEF OrderRow
    <2> HIDE DEF row
    <2>6. Cancels(o)
        BY <2>3, <2>4, <2>5, RowBecomes, SameTables DEF Cancels
    <2> QED
        BY <2>1, <2>6 DEF Writes
<1>6. CASE StartTransaction(s)
    <2> DEFINE row == [orders[o] EXCEPT !.status = "CHARGING"]
    <2>1. At(s, "start") /\ todo[s] # <<>> /\ step.op = "start"
        BY <1>6 DEF StartTransaction, At
    <2>2. Kind(step) = "start"
        BY <2>1, KindOfOp
    <2>3. o \in DOMAIN orders /\ orders[o].pile = step.pile
        BY <2>1, <2>2 DEF Valid, OnPile, OrdersIn
    <2>4. row.user = orders[o].user /\ row.status = "CHARGING" /\ row.pile = step.pile
        BY <1>0, <2>3 DEF OrderRow
    <2>5. UNCHANGED tables \/ BeginCharging(o, row, step.pile)
        BY <1>6 DEF StartTransaction
    <2> HIDE DEF row
    <2> QED
        BY <1>0, <2>1, <2>4, <2>5, SameTables, BeginCharges DEF Writes
<1> QED
    BY <1>1, <1>2, <1>3, <1>4, <1>5, <1>6 DEF ServeCharging

\* The dispatchers' writes.
LEMMA DispatchEffect ==
    ASSUME HandlersInv, NEW s \in Slots, todo[s] # <<>> => Valid(Head(todo[s])),
           ServeDispatch(s)
    PROVE  Writes(s)
<1> DEFINE step == Head(todo[s])
           o == step.order
<1>0. (\A i \in DOMAIN orders : orders[i] \in OrderRow) /\ piles \in [Piles -> PileRow]
    BY DEF HandlersInv, RowsOK, OrdersOK, BookRowsOK
<1>1. CASE AutoCompleteCharging(s) \/ PlanBasic(s) \/ PlanFault(s) \/ PlanRecovery(s)
           \/ PlanWake(s) \/ ReadAssignment(s)
    <2>1. UNCHANGED tables
        BY <1>1 DEF AutoCompleteCharging, PlanBasic, PlanFault, PlanRecovery, PlanWake,
            ReadAssignment
    <2> QED
        BY <2>1, SameTables DEF Writes
<1>2. CASE Wake(s)
    <2> DEFINE row == [orders[o] EXCEPT !.status = "CHARGING"]
    <2>1. At(s, "wake") /\ todo[s] # <<>> /\ step.op = "wake"
        BY <1>2 DEF Wake, At
    <2>2. Wakes(step) /\ Woken(step) = step
        BY <2>1, KindOfOp DEF Wakes, Woken
    <2>3. o \in DOMAIN orders /\ orders[o].pile = step.pile
        BY <2>1, <2>2 DEF Valid, OnPile, OrdersIn
    <2>4. row.user = orders[o].user /\ row.status = "CHARGING" /\ row.pile = step.pile
        BY <1>0, <2>3 DEF OrderRow
    <2>5. BeginCharging(o, row, step.pile)
        BY <1>2 DEF Wake
    <2> HIDE DEF row
    <2> QED
        BY <1>0, <2>1, <2>4, <2>5, BeginCharges DEF Writes
<1>3. CASE Assign(s)
    <2> DEFINE row(status) == [orders[o] EXCEPT !.status = status, !.pile = step.pile]
    <2>1. At(s, "assign")
        BY <1>3 DEF Assign
    <2>2. \/ step.autoStart /\ BeginCharging(o, row("CHARGING"), step.pile)
          \/ /\ ~step.autoStart /\ EnterLine(o, row("IN_PILE_QUEUE"))
             /\ UNCHANGED <<sessions, details, piles>>
        BY <1>3 DEF Assign
    <2>3. o \in DOMAIN orders
        BY <2>2 DEF BeginCharging, EnterLine
    <2>4. \A status : /\ row(status).user = orders[o].user
                      /\ row(status).status = status /\ row(status).pile = step.pile
        BY <1>0, <2>3 DEF OrderRow
    <2> HIDE DEF row
    <2>5. CASE step.autoStart /\ BeginCharging(o, row("CHARGING"), step.pile)
        BY <1>0, <2>1, <2>4, <2>5, BeginCharges DEF Writes
    <2>6. CASE /\ ~step.autoStart /\ EnterLine(o, row("IN_PILE_QUEUE"))
               /\ UNCHANGED <<sessions, details, piles>>
        <3> DEFINE queued == row("IN_PILE_QUEUE")
        <3>1. /\ orders' = [orders EXCEPT ![o] = queued]
              /\ queued.user = orders[o].user /\ queued.status = "IN_PILE_QUEUE"
              /\ queued.pile = step.pile
            BY <2>4, <2>6 DEF EnterLine
        <3> HIDE DEF queued
        <3>2. Becomes(o, "IN_PILE_QUEUE", step.pile)
            BY <2>3, <3>1, RowBecomes
        <3>3. Places(o, step.pile)
            BY <2>6, <3>2, SameTables DEF Places
        <3> QED
            BY <2>1, <2>6, <3>3 DEF Writes
    <2> QED
        BY <2>2, <2>5, <2>6
<1> QED
    BY <1>1, <1>2, <1>3 DEF ServeDispatch

\* The administrator's writes.
LEMMA PileEffect ==
    ASSUME HandlersInv, NEW s \in Slots, ServePile(s)
    PROVE  Writes(s)
<1> DEFINE step == Head(todo[s])
           o == step.order
           p == step.pile
<1>0. /\ \A i \in DOMAIN orders : orders[i] \in OrderRow
      /\ piles \in [Piles -> PileRow]
    BY DEF HandlersInv, RowsOK, OrdersOK, BookRowsOK
<1>1. CASE Remainder(s) \/ Affected(s)
    BY <1>1, SameTables DEF Remainder, Affected, Writes
<1>2. CASE SetPower(s)
    <2>1. At(s, "setPower") /\ Kept
        BY <1>2, SameTables DEF SetPower
    <2>2. StepOK(step) /\ step.op = "setPower"
        BY <2>1, HeadOK DEF HandlersInv
    <2>3. step.work \in {"IDLE", "FAULT"}
        BY <2>2 DEF StepOK
    <2>4. Turns(p, step.phys, step.work)
        BY <1>0, <1>2, PileTurns DEF SetPower
    <2> QED
        BY <2>1, <2>3, <2>4 DEF Writes, Marks
<1>3. CASE SetFault(s)
    <2>1. At(s, "setFault") /\ Kept
        BY <1>3, SameTables DEF SetFault
    <2>2. Turns(p, piles[p].phys, "FAULT")
        BY <1>0, <1>3, PileTurns DEF SetFault
    <2> QED
        BY <2>1, <2>2 DEF Writes, Marks
<1>4. CASE Rename(s)
    <2> DEFINE row == [orders[o] EXCEPT !.no = [step.no EXCEPT !.suffixes = @ + 1]]
    <2>1. UNCHANGED orders \/ orders' = [orders EXCEPT ![o] = row]
        BY <1>4 DEF Rename
    <2>2. UNCHANGED <<sessions, details, piles>>
        BY <1>4 DEF Rename
    <2>3. o \in DOMAIN orders => /\ row.user = orders[o].user /\ row.status = orders[o].status
                                 /\ row.pile = orders[o].pile
        BY <1>0 DEF OrderRow
    <2> HIDE DEF row
    <2>4. Kept
        BY <2>1, <2>2, <2>3, RowSame, SameTables DEF Kept
    <2> QED
        BY <2>2, <2>4 DEF Writes
<1>5. CASE Continue(s)
    <2> DEFINE old == step.active
    <2>1. /\ At(s, "continue") /\ BooksSame /\ UNCHANGED <<sessions, details, piles>>
          /\ UNCHANGED orders \/ NewOrder(old.user, old.mode, step.amount, old.no)
        BY <1>5, SameTables DEF Continue
    <2> QED
        BY <2>1, SameTables, NewWaits DEF Writes
<1> QED
    BY <1>1, <1>2, <1>3, <1>4, <1>5 DEF ServePile

\* A bill ends the session and the order.
LEMMA SettleEffect ==
    ASSUME HandlersInv, NEW s \in Slots, Settle(s)
    PROVE  UNCHANGED tables \/ Ends(Head(todo[s]).session, Head(todo[s]).target, Head(todo[s]).work)
<1> DEFINE step == Head(todo[s])
           x == step.session
           o == sessions[x].order
           p == sessions[x].pile
           row == [orders[o] EXCEPT !.status = step.target]
           closed == Session(o, p, Ended(step.target), step.amount, step.reason)
           detail == [session |-> x, amount |-> step.previous + step.amount]
<1>1. At(s, "settle")
    BY DEF Settle
<1>2. StepOK(step) /\ step.op = "settle"
    BY <1>1, HeadOK DEF HandlersInv
<1>3. step.target \in {"FINISHED", "ABORTED"} /\ step.work \in {"IDLE", "FAULT"}
    BY <1>2 DEF StepOK, EndOK
<1>4. SUFFICES ASSUME ~UNCHANGED tables PROVE Ends(x, step.target, step.work)
    OBVIOUS
<1>5. /\ x \in DOMAIN sessions /\ ~Billed(o, x)
      /\ sessions' = [sessions EXCEPT ![x] = closed]
      /\ orders' = [orders EXCEPT ![o] = row]
      /\ Turns(p, piles[p].phys, step.work)
      /\ details' = Insert(details, o, detail)
    BY <1>4, PileTurns DEF Settle, LeaveLine, HandlersInv, RowsOK, BookRowsOK
<1>6. o \in DOMAIN orders /\ o \notin DOMAIN details
    BY <1>5 DEF HandlersInv, BooksInv, RowsLinked, Billed
<1>7. row.user = orders[o].user /\ row.status = step.target /\ row.pile = orders[o].pile
    BY <1>6 DEF HandlersInv, RowsOK, OrdersOK, OrderRow
<1>8. closed.order = o /\ closed.state # "ACTIVE"
    BY DEF Session, Ended
<1> HIDE DEF row, closed, detail
<1>9. Becomes(o, step.target, orders[o].pile)
    BY <1>5, <1>6, <1>7, RowBecomes
<1>10. DOMAIN details' = DOMAIN details \cup {o}
    BY <1>5 DEF Insert
<1> QED
    BY <1>3, <1>5, <1>6, <1>8, <1>9, <1>10 DEF Ends, Runs

\* Every step of a slot writes so.
LEMMA SlotWrites ==
    ASSUME HandlersInv, NEW s \in Slots, todo[s] # <<>> => Valid(Head(todo[s])),
           DriverRequest(s) \/ AdminRequest(s) \/ Serve(s)
    PROVE  Writes(s)
<1>1. CASE Settle(s)
    <2>1. At(s, "settle")
        BY <1>1 DEF Settle
    <2> QED
        BY <1>1, <2>1, SettleEffect, SameTables DEF Writes
<1>2. CASE ReadForBill(s) \/ Lock(s) \/ Unlock(s) \/ ReadPayload(s) \/ SetJson(s)
    <2>1. UNCHANGED tables
        BY <1>2 DEF ReadForBill, Lock, Unlock, ReadPayload, SetJson
    <2> QED
        BY <2>1, SameTables DEF Writes
<1> QED
    BY <1>1, <1>2, RequestEffect, ChargingEffect, DispatchEffect, PileEffect DEF Serve

-----------------------------------------------------------------------------
(* What the queries see after a write *)

\* After a write that says the same they see the same.
LEMMA KeptViews ==
    ASSUME Kept
    PROVE  /\ \A A : OrdersIn(A)' = OrdersIn(A)
           /\ \A p, A : OnPile(p, A)' = OnPile(p, A)
           /\ \A u : Unfinished(u)' = Unfinished(u)
           /\ \A o \in DOMAIN orders : orders'[o].user = orders[o].user
           /\ DOMAIN details' = DOMAIN details
<1>1. OrdersSame /\ DOMAIN details' = DOMAIN details
    BY DEF Kept, BooksSame
<1>2. /\ DOMAIN orders' = DOMAIN orders
      /\ \A o \in DOMAIN orders : /\ orders'[o].user = orders[o].user
                                  /\ orders'[o].status = orders[o].status
                                  /\ orders'[o].pile = orders[o].pile
    BY <1>1 DEF OrdersSame, Same
<1>3. \A A : OrdersIn(A)' = OrdersIn(A)
    BY <1>2 DEF OrdersIn
<1>4. \A A : OrdersIn(A) \subseteq DOMAIN orders
    BY DEF OrdersIn
<1>5. \A p, A : OnPile(p, A)' = OnPile(p, A)
    BY <1>2, <1>3, <1>4 DEF OnPile
<1>6. \A u : Unfinished(u)' = Unfinished(u)
    BY <1>2, <1>3, <1>4 DEF Unfinished
<1> QED
    BY <1>1, <1>2, <1>3, <1>5, <1>6

\* Sessions that run as before are the active ones of the same orders.
LEMMA MetersViews ==
    ASSUME MetersSame
    PROVE  \A o : ActiveSessions(o)' = ActiveSessions(o)
BY DEF MetersSame, Runs, ActiveSessions

\* What is seen of the orders when one of them gets another status or place.
LEMMA BecomesViews ==
    ASSUME NEW o, NEW status, NEW p, Becomes(o, status, p)
    PROVE  /\ \A i \in DOMAIN orders : orders'[i].user = orders[i].user
           /\ \A A : OrdersIn(A)' = IF status \in A THEN OrdersIn(A) \cup {o}
                                    ELSE OrdersIn(A) \ {o}
           /\ \A q, A : OnPile(q, A)' = IF status \in A /\ p = q THEN OnPile(q, A) \cup {o}
                                        ELSE OnPile(q, A) \ {o}
<1>1. /\ o \in DOMAIN orders /\ DOMAIN orders' = DOMAIN orders
      /\ \A i \in DOMAIN orders \ {o} : /\ orders'[i].user = orders[i].user
                                        /\ orders'[i].status = orders[i].status
                                        /\ orders'[i].pile = orders[i].pile
      /\ orders'[o].user = orders[o].user
      /\ orders'[o].status = status /\ orders'[o].pile = p
    BY DEF Becomes, Same
<1>2. \A A : OrdersIn(A)' = IF status \in A THEN OrdersIn(A) \cup {o} ELSE OrdersIn(A) \ {o}
    BY <1>1 DEF OrdersIn
<1>3. \A A : OrdersIn(A) \subseteq DOMAIN orders
    BY DEF OrdersIn
<1>4. ASSUME NEW q, NEW A
      PROVE  OnPile(q, A)' = IF status \in A /\ p = q THEN OnPile(q, A) \cup {o}
                             ELSE OnPile(q, A) \ {o}
    <2>1. OnPile(q, A)' = {i \in OrdersIn(A)' : orders'[i].pile = q}
        BY DEF OnPile
    <2> QED
        BY <1>1, <1>2, <1>3, <2>1 DEF OnPile
<1> QED
    BY <1>1, <1>2, <1>4

\* A driver's unfinished orders when one order goes on, or ends.
LEMMA BecomesUnfinished ==
    ASSUME NEW o \in OrdersIn(Open), NEW status, NEW p, Becomes(o, status, p)
    PROVE  /\ status \in Open => \A u : Unfinished(u)' = Unfinished(u)
           /\ status \notin Open => \A u : Unfinished(u)' = Unfinished(u) \ {o}
<1>1. /\ \A i \in DOMAIN orders : orders'[i].user = orders[i].user
      /\ OrdersIn(Open)' = IF status \in Open THEN OrdersIn(Open) \cup {o}
                           ELSE OrdersIn(Open) \ {o}
    BY BecomesViews
<1>2. OrdersIn(Open) \subseteq DOMAIN orders
    BY DEF OrdersIn
<1>3. \A u : Unfinished(u)' = {i \in OrdersIn(Open)' : orders'[i].user = u}
    BY DEF Unfinished
<1> QED
    BY <1>1, <1>2, <1>3 DEF Unfinished

\* What is seen of the orders when there is another one.
LEMMA AddsViews ==
    ASSUME NEW u, Adds(u)
    PROVE  \E o \in OrderIds \ DOMAIN orders :
              /\ DOMAIN orders' = DOMAIN orders \cup {o}
              /\ orders'[o].user = u /\ orders'[o].status = "WAITING"
              /\ \A i \in DOMAIN orders : Same(i)
              /\ \A A : OrdersIn(A)' = IF "WAITING" \in A THEN OrdersIn(A) \cup {o}
                                       ELSE OrdersIn(A)
              /\ \A q, A : "WAITING" \notin A => OnPile(q, A)' = OnPile(q, A)
<1>1. PICK o \in OrderIds \ DOMAIN orders :
          /\ DOMAIN orders' = DOMAIN orders \cup {o}
          /\ \A other \in DOMAIN orders : Same(other)
          /\ orders'[o].user = u
          /\ orders'[o].status = "WAITING"
    BY DEF Adds
<1>2. \A A : OrdersIn(A)' = IF "WAITING" \in A THEN OrdersIn(A) \cup {o} ELSE OrdersIn(A)
    BY <1>1 DEF OrdersIn, Same
<1>3. \A A : OrdersIn(A) \subseteq DOMAIN orders
    BY DEF OrdersIn
<1>4. ASSUME NEW q, NEW A, "WAITING" \notin A
      PROVE  OnPile(q, A)' = OnPile(q, A)
    <2>1. OnPile(q, A)' = {i \in OrdersIn(A)' : orders'[i].pile = q}
        BY DEF OnPile
    <2> QED
        BY <1>1, <1>2, <1>3, <1>4, <2>1 DEF OnPile, Same
<1> QED
    BY <1>1, <1>2, <1>4

-----------------------------------------------------------------------------
(* What becomes of the orders *)

(* The orders a step acts on are as it read them.                           *)
Outcome ==
    \/ Kept
    \/ \E u : Unfinished(u) = {} /\ Adds(u)
    \/ \E o \in OrdersIn(Pending) :
          Cancels(o) \/ \E p \in Piles : Places(o, p) \/ Charges(o, p)
    \/ \E x, target, work : Ends(x, target, work)

\* Of the steps of a slot.
LEMMA SlotOutcome ==
    ASSUME HandlersInv, NEW s \in Slots, todo[s] # <<>> => Valid(Head(todo[s])), Writes(s)
    PROVE  Outcome
<1> DEFINE step == Head(todo[s])
<1>0. \A op : At(s, op) => todo[s] # <<>> /\ step.op = op
    BY DEF At
<1>1. CASE Kept
    BY <1>1 DEF Outcome
<1>2. CASE At(s, "create") /\ Adds(step.user)
    <2>1. Kind(step) = "create"
        BY <1>0, <1>2, KindOfOp
    <2> QED
        BY <1>0, <1>2, <2>1 DEF Valid, Outcome
<1>3. CASE At(s, "continue") /\ Adds(step.active.user)
    <2>1. Kind(step) = "continue"
        BY <1>0, <1>3, KindOfOp
    <2> QED
        BY <1>0, <1>3, <2>1 DEF Valid, Outcome
<1>4. CASE At(s, "setCanceled") /\ Cancels(step.order)
    <2>1. Kind(step) = "setCanceled"
        BY <1>0, <1>4, KindOfOp
    <2> QED
        BY <1>0, <1>4, <2>1 DEF Valid, Outcome
<1>5. CASE At(s, "assign") /\ (Places(step.order, step.pile) \/ Charges(step.order, step.pile))
    <2>1. Kind(step) = "assign"
        BY <1>0, <1>5, KindOfOp
    <2>2. step.pile \in Piles
        BY <1>0, <1>5, HeadOK DEF HandlersInv, StepOK
    <2> QED
        BY <1>0, <1>5, <2>1, <2>2 DEF Valid, Outcome
<1>6. CASE At(s, "start") /\ Charges(step.order, step.pile)
    <2>1. Kind(step) = "start"
        BY <1>0, <1>6, KindOfOp
    <2> QED
        BY <1>0, <1>6, <2>1 DEF Valid, Outcome, Charges
<1>7. CASE At(s, "wake") /\ Charges(step.order, step.pile)
    <2>1. Wakes(step) /\ Woken(step) = step
        BY <1>0, <1>7, KindOfOp DEF Wakes, Woken
    <2>2. step.order \in OrdersIn(Pending)
        BY <1>0, <1>7, <2>1 DEF Valid, OnPile, OrdersIn, Pending
    <2> QED
        BY <1>7, <2>2 DEF Outcome, Charges
<1>8. CASE \E target, work : Ends(step.session, target, work)
    BY <1>8 DEF Outcome
<1>9. CASE \E p, phys, work : Marks(p, phys, work)
    BY <1>9 DEF Outcome, Marks
<1> QED
    BY <1>1, <1>2, <1>3, <1>4, <1>5, <1>6, <1>7, <1>8, <1>9 DEF Writes

\* Only a session that is active can be ended: the others are billed.
LEMMA EndsActive ==
    ASSUME BooksInv, OrdersSerial, NEW x, NEW target, NEW work, Ends(x, target, work)
    PROVE  /\ x \in DOMAIN sessions /\ sessions[x].state = "ACTIVE"
           /\ sessions[x].pile \in Piles
           /\ sessions[x].order \in OnPile(sessions[x].pile, {"CHARGING"})
           /\ sessions[x].order \in OrdersIn({"CHARGING"})
           /\ sessions[x].order \in OrdersIn(Open)
           /\ ActiveSessions(sessions[x].order) = {x}
<1>1. x \in DOMAIN sessions /\ sessions[x].order \notin DOMAIN details
    BY DEF Ends
<1>2. sessions[x].state = "ACTIVE" /\ sessions[x].pile \in Piles
    BY <1>1 DEF BooksInv, RowsLinked, ClosedSessionBilled
<1>3. /\ sessions[x].order \in OnPile(sessions[x].pile, {"CHARGING"})
      /\ ActiveSessions(sessions[x].order) = {x}
    BY <1>1, <1>2 DEF OrdersSerial
<1>4. sessions[x].order \in OrdersIn({"CHARGING"}) /\ sessions[x].order \in OrdersIn(Open)
    BY <1>3 DEF OnPile, OrdersIn, Open
<1> QED
    BY <1>1, <1>2, <1>3, <1>4

(* The parts of OrdersSerial. *)
OneOpenEach == \A o, other \in OrdersIn(Open) : orders[o].user = orders[other].user => o = other

SessionsFit ==
    /\ \A x \in DOMAIN sessions : sessions[x].state = "ACTIVE" =>
          /\ sessions[x].order \in OnPile(sessions[x].pile, {"CHARGING"})
          /\ ActiveSessions(sessions[x].order) = {x}
    /\ \A o \in OrdersIn({"CHARGING"}) : ActiveSessions(o) # {}

BilledEnded == DOMAIN details \subseteq OrdersIn(Terminal)

\* Each driver has one unfinished order.
LEMMA OneOpenNext ==
    ASSUME BooksInv, OrdersSerial, Outcome
    PROVE  OneOpenEach'
<1>0. /\ \A o, other \in OrdersIn(Open) : orders[o].user = orders[other].user => o = other
      /\ \A A : OrdersIn(A) \subseteq DOMAIN orders
      /\ OrdersIn(Pending) \subseteq OrdersIn(Open)
    BY DEF OrdersSerial, OrdersIn, Pending, Open
<1>1. SUFFICES \A o, other \in OrdersIn(Open)' : orders'[o].user = orders'[other].user => o = other
    BY DEF OneOpenEach
<1>2. CASE Kept
    BY <1>0, <1>2, KeptViews
<1>3. ASSUME NEW u, Unfinished(u) = {}, Adds(u)
      PROVE  \A o, other \in OrdersIn(Open)' : orders'[o].user = orders'[other].user => o = other
    <2>1. PICK o \in OrderIds \ DOMAIN orders :
              /\ orders'[o].user = u
              /\ \A i \in DOMAIN orders : Same(i)
              /\ \A A : OrdersIn(A)' = IF "WAITING" \in A THEN OrdersIn(A) \cup {o}
                                       ELSE OrdersIn(A)
        BY <1>3, AddsViews
    <2>2. OrdersIn(Open)' = OrdersIn(Open) \cup {o}
        BY <2>1 DEF Open
    <2>3. \A i \in OrdersIn(Open) : orders'[i].user = orders[i].user /\ orders[i].user # u
        BY <1>0, <1>3, <2>1 DEF Unfinished, Same
    <2> QED
        BY <1>0, <2>1, <2>2, <2>3
<1>4. ASSUME NEW o \in OrdersIn(Open), NEW status, NEW p, Becomes(o, status, p)
      PROVE  \A i, other \in OrdersIn(Open)' : orders'[i].user = orders'[other].user => i = other
    <2>1. /\ \A i \in DOMAIN orders : orders'[i].user = orders[i].user
          /\ OrdersIn(Open)' \subseteq OrdersIn(Open)
        BY <1>4, BecomesViews
    <2> QED
        BY <1>0, <2>1
<1>5. CASE \E o \in OrdersIn(Pending) :
              Cancels(o) \/ \E p \in Piles : Places(o, p) \/ Charges(o, p)
    BY <1>0, <1>4, <1>5 DEF Cancels, Places, Charges
<1>6. CASE \E x, target, work : Ends(x, target, work)
    BY <1>4, <1>6, EndsActive DEF Ends
<1> QED
    BY <1>2, <1>3, <1>5, <1>6 DEF Outcome

\* The order that begins to charge had no session that is active.
LEMMA PendingRests ==
    ASSUME OrdersSerial, NEW o \in OrdersIn(Pending)
    PROVE  /\ ActiveSessions(o) = {} /\ o \notin DOMAIN details
           /\ o \in OrdersIn(Open)
           /\ \A p : o \notin OnPile(p, {"CHARGING"})
           /\ o \notin OrdersIn({"CHARGING"})
<1>1. orders[o].status \in Pending /\ o \in DOMAIN orders
    BY DEF OrdersIn
<1>2. o \notin OrdersIn({"CHARGING"}) /\ o \notin OrdersIn(Terminal) /\ o \in OrdersIn(Open)
    BY <1>1 DEF OrdersIn, Pending, Terminal, Open
<1>3. \A p : o \notin OnPile(p, {"CHARGING"})
    BY <1>2 DEF OnPile
<1>4. ASSUME NEW x \in ActiveSessions(o)
      PROVE  FALSE
    <2>1. x \in DOMAIN sessions /\ sessions[x].state = "ACTIVE" /\ sessions[x].order = o
        BY DEF ActiveSessions
    <2> QED
        BY <1>3, <2>1 DEF OrdersSerial
<1> QED
    BY <1>2, <1>3, <1>4 DEF OrdersSerial

\* A session runs as long as its order charges, on its pile.
LEMMA SessionsNext ==
    ASSUME BooksInv, OrdersSerial, Outcome
    PROVE  SessionsFit'
<1>0. /\ \A x \in DOMAIN sessions : sessions[x].state = "ACTIVE" =>
            /\ sessions[x].order \in OnPile(sessions[x].pile, {"CHARGING"})
            /\ ActiveSessions(sessions[x].order) = {x}
      /\ \A o \in OrdersIn({"CHARGING"}) : ActiveSessions(o) # {}
    BY DEF OrdersSerial
<1>1. ASSUME MetersSame, \A p : OnPile(p, {"CHARGING"})' = OnPile(p, {"CHARGING"}),
             OrdersIn({"CHARGING"})' = OrdersIn({"CHARGING"})
      PROVE  SessionsFit'
    <2>1. \A o : ActiveSessions(o)' = ActiveSessions(o)
        BY <1>1, MetersViews
    <2> QED
        BY <1>0, <1>1, <2>1 DEF SessionsFit, MetersSame, Runs
<1>2. CASE Kept
    BY <1>1, <1>2, KeptViews DEF Kept, BooksSame
<1>3. ASSUME NEW u, Adds(u)
      PROVE  SessionsFit'
    BY <1>1, <1>3, AddsViews DEF Adds, BooksSame
<1>4. ASSUME NEW o \in OrdersIn(Pending), NEW status, NEW p, Becomes(o, status, p),
             status # "CHARGING", BooksSame
      PROVE  SessionsFit'
    <2>1. /\ o \notin OrdersIn({"CHARGING"})
          /\ \A q : o \notin OnPile(q, {"CHARGING"})
        BY PendingRests
    <2>2. /\ OrdersIn({"CHARGING"})' = OrdersIn({"CHARGING"}) \ {o}
          /\ \A q : OnPile(q, {"CHARGING"})' = OnPile(q, {"CHARGING"}) \ {o}
        BY <1>4, BecomesViews
    <2>3. OrdersIn({"CHARGING"})' = OrdersIn({"CHARGING"})
        BY <2>1, <2>2
    <2>4. \A q : OnPile(q, {"CHARGING"})' = OnPile(q, {"CHARGING"})
        BY <2>1, <2>2
    <2> QED
        BY <1>1, <1>4, <2>3, <2>4 DEF BooksSame
<1>5. ASSUME NEW o \in OrdersIn(Pending), NEW p, Charges(o, p)
      PROVE  SessionsFit'
    <2>1. /\ ActiveSessions(o) = {}
          /\ o \notin OrdersIn({"CHARGING"})
          /\ \A q : o \notin OnPile(q, {"CHARGING"})
        BY PendingRests
    <2>2. PICK x \in SessionIds \ DOMAIN sessions :
              /\ DOMAIN sessions' = DOMAIN sessions \cup {x}
              /\ \A y \in DOMAIN sessions : Runs(y)
              /\ sessions'[x].order = o /\ sessions'[x].pile = p /\ sessions'[x].state = "ACTIVE"
        BY <1>5 DEF Charges
    <2>3. /\ OrdersIn({"CHARGING"})' = OrdersIn({"CHARGING"}) \cup {o}
          /\ \A q : OnPile(q, {"CHARGING"}) \subseteq OnPile(q, {"CHARGING"})'
          /\ o \in OnPile(p, {"CHARGING"})'
        BY <1>5, <2>1, BecomesViews DEF Charges
    <2>4. /\ ActiveSessions(o)' = {x}
          /\ \A other : other # o => ActiveSessions(other)' = ActiveSessions(other)
        BY <2>1, <2>2 DEF ActiveSessions, Runs
    <2>5. ASSUME NEW y \in DOMAIN sessions', sessions'[y].state = "ACTIVE"
          PROVE  (/\ sessions[y].order \in OnPile(sessions[y].pile, {"CHARGING"})
                  /\ ActiveSessions(sessions[y].order) = {y})'
        <3>1. CASE y = x
            BY <2>2, <2>3, <2>4, <3>1
        <3>2. CASE y # x
            <4>1. y \in DOMAIN sessions /\ Runs(y)
                BY <2>2, <3>2
            <4>2. /\ sessions[y].order \in OnPile(sessions[y].pile, {"CHARGING"})
                  /\ ActiveSessions(sessions[y].order) = {y}
                BY <1>0, <2>5, <4>1 DEF Runs
            <4>3. sessions[y].order # o
                BY <2>1, <4>2
            <4> QED
                BY <2>3, <2>4, <4>1, <4>2, <4>3 DEF Runs
        <3> QED
            BY <3>1, <3>2
    <2>6. \A other \in OrdersIn({"CHARGING"})' : ActiveSessions(other)' # {}
        BY <1>0, <2>3, <2>4
    <2> QED
        BY <2>5, <2>6 DEF SessionsFit
<1>6. ASSUME NEW x, NEW target, NEW work, Ends(x, target, work)
      PROVE  SessionsFit'
    <2> DEFINE o == sessions[x].order
    <2>1. /\ x \in DOMAIN sessions
          /\ o \in OrdersIn({"CHARGING"})
          /\ ActiveSessions(o) = {x}
        BY <1>6, EndsActive
    <2>2. /\ Becomes(o, target, orders[o].pile) /\ target # "CHARGING"
          /\ DOMAIN sessions' = DOMAIN sessions
          /\ \A y \in DOMAIN sessions \ {x} : Runs(y)
          /\ sessions'[x].order = o /\ sessions'[x].state # "ACTIVE"
        BY <1>6 DEF Ends
    <2> HIDE DEF o
    <2>3. /\ OrdersIn({"CHARGING"})' = OrdersIn({"CHARGING"}) \ {o}
          /\ \A q : OnPile(q, {"CHARGING"})' = OnPile(q, {"CHARGING"}) \ {o}
        BY <2>2, BecomesViews
    <2>4. \A other : other # o => ActiveSessions(other)' = ActiveSessions(other)
        BY <2>1, <2>2 DEF ActiveSessions, Runs, o
    <2>5. ASSUME NEW y \in DOMAIN sessions', sessions'[y].state = "ACTIVE"
          PROVE  (/\ sessions[y].order \in OnPile(sessions[y].pile, {"CHARGING"})
                  /\ ActiveSessions(sessions[y].order) = {y})'
        <3>1. y \in DOMAIN sessions /\ y # x /\ Runs(y)
            BY <2>2, <2>5
        <3>2. /\ sessions[y].order \in OnPile(sessions[y].pile, {"CHARGING"})
              /\ ActiveSessions(sessions[y].order) = {y}
            BY <1>0, <2>5, <3>1 DEF Runs
        <3>3. sessions[y].order # o
            BY <2>1, <3>1, <3>2
        <3> QED
            BY <2>3, <2>4, <3>1, <3>2, <3>3 DEF Runs
    <2>6. \A other \in OrdersIn({"CHARGING"})' : ActiveSessions(other)' # {}
        BY <1>0, <2>3, <2>4
    <2> QED
        BY <2>5, <2>6 DEF SessionsFit
<1>7. CASE \E o \in OrdersIn(Pending) :
              Cancels(o) \/ \E p \in Piles : Places(o, p) \/ Charges(o, p)
    BY <1>4, <1>5, <1>7 DEF Cancels, Places
<1> QED
    BY <1>2, <1>3, <1>6, <1>7 DEF Outcome

\* A billed order has ended.
LEMMA BilledNext ==
    ASSUME BooksInv, OrdersSerial, Outcome
    PROVE  BilledEnded'
<1>0. DOMAIN details \subseteq OrdersIn(Terminal)
    BY DEF OrdersSerial
<1>1. CASE Kept
    BY <1>0, <1>1, KeptViews DEF BilledEnded
<1>2. ASSUME NEW u, Adds(u)
      PROVE  BilledEnded'
    <2>1. OrdersIn(Terminal)' = OrdersIn(Terminal)
        BY <1>2, AddsViews DEF Terminal
    <2> QED
        BY <1>0, <1>2, <2>1 DEF BilledEnded, Adds, BooksSame
<1>3. ASSUME NEW o \in OrdersIn(Pending), NEW status, NEW p, Becomes(o, status, p),
             DOMAIN details' = DOMAIN details
      PROVE  BilledEnded'
    <2>1. OrdersIn(Terminal) \ {o} \subseteq OrdersIn(Terminal)'
        BY <1>3, BecomesViews
    <2> QED
        BY <1>0, <1>3, <2>1, PendingRests DEF BilledEnded
<1>4. ASSUME NEW x, NEW target, NEW work, Ends(x, target, work)
      PROVE  BilledEnded'
    <2> DEFINE o == sessions[x].order
    <2>1. /\ Becomes(o, target, orders[o].pile) /\ target \in Terminal
          /\ DOMAIN details' = DOMAIN details \cup {o}
        BY <1>4 DEF Ends, Terminal
    <2> HIDE DEF o
    <2>2. OrdersIn(Terminal)' = OrdersIn(Terminal) \cup {o}
        BY <2>1, BecomesViews
    <2> QED
        BY <1>0, <2>1, <2>2 DEF BilledEnded
<1>5. CASE \E o \in OrdersIn(Pending) :
              Cancels(o) \/ \E p \in Piles : Places(o, p) \/ Charges(o, p)
    BY <1>3, <1>5 DEF Cancels, Places, Charges, BooksSame
<1> QED
    BY <1>1, <1>2, <1>4, <1>5 DEF Outcome

\* What a step does to the orders keeps their story.
LEMMA OrdersSerialNext ==
    ASSUME BooksInv, OrdersSerial, Outcome
    PROVE  OrdersSerial'
BY OneOpenNext, SessionsNext, BilledNext DEF OrdersSerial, OneOpenEach, SessionsFit, BilledEnded

-----------------------------------------------------------------------------
(* What a step relies on is true when it is put into todo *)

\* What the query of a pile's queue returns is queued there.
LEMMA QueuedThere ==
    ASSUME BooksInv, OrdersOK, NEW p
    PROVE  QueuedOn(p) \in Seq(OnPile(p, {"IN_PILE_QUEUE"}))
<1> DEFINE ids == {i \in DOMAIN line : orders[line[i]].pile = p}
           places == ById(ids)
           n == Cardinality(ids)
<1>1. line \in Seq(OrderIds) /\ ToSet(line) = OrdersIn({"IN_PILE_QUEUE"})
    BY DEF OrdersOK
<1>2. Len(line) \in Nat /\ DOMAIN line = 1..Len(line)
    BY <1>1
<1>3. IsFiniteSet(DOMAIN line)
    BY <1>2, FS_Interval
<1>4. ids \in SUBSET Nat /\ IsFiniteSet(ids) /\ n \in Nat
    <2>1. ids \subseteq DOMAIN line /\ DOMAIN line \subseteq Nat
        BY <1>2
    <2>2. IsFiniteSet(ids)
        BY <1>3, <2>1, FS_Subset
    <2> QED
        BY <2>1, <2>2, FS_CardinalityType
<1>5. QueuedOn(p) = [k \in DOMAIN places |-> line[places[k]]]
    BY DEF QueuedOn
<1>6. \A i \in ids : line[i] \in OnPile(p, {"IN_PILE_QUEUE"})
    <2>1. \A i \in DOMAIN line : line[i] \in ToSet(line)
        BY DEF ToSet
    <2> QED
        BY <1>1, <2>1 DEF OnPile
<1> HIDE DEF ids
<1>7. places \in [1..n -> ids]
    BY <1>4, ByIdOK
<1> HIDE DEF places, n
<1> DEFINE q == [k \in 1..n |-> line[places[k]]]
<1>8. QueuedOn(p) = q
    BY <1>5, <1>7
<1>9. q \in Seq(OnPile(p, {"IN_PILE_QUEUE"}))
    <2>1. q \in [1..n -> OnPile(p, {"IN_PILE_QUEUE"})]
        BY <1>6, <1>7
    <2> QED
        BY <1>4, <2>1
<1> HIDE DEF q
<1> QED
    BY <1>8, <1>9

\* The first of them too.
LEMMA HeadQueued ==
    ASSUME BooksInv, OrdersOK, NEW p, QueuedOn(p) # <<>>
    PROVE  Head(QueuedOn(p)) \in OnPile(p, {"IN_PILE_QUEUE"})
<1>1. PICK q : q = QueuedOn(p)
    OBVIOUS
<1> QED
    BY <1>1, QueuedThere

\* A wake is what it says it is, under its lock or before it.
LEMMA WakeIsIt ==
    /\ \A st : st.op = "wake" => Wakes(st) /\ Woken(st) = st
    /\ \A p : /\ Wakes(WakeCall(p))
              /\ Woken(WakeCall(p)).order = Head(QueuedOn(p)) /\ Woken(WakeCall(p)).pile = p
<1>1. \A st : st.op = "wake" => Wakes(st) /\ Woken(st) = st
    BY KindOfOp DEF Wakes, Woken
<1>2. ASSUME NEW p
      PROVE  /\ Wakes(WakeCall(p))
             /\ Woken(WakeCall(p)).order = Head(QueuedOn(p)) /\ Woken(WakeCall(p)).pile = p
    <2> DEFINE st == WakeCall(p)
               call == [op |-> "wake", order |-> Head(QueuedOn(p)), pile |-> p]
    <2>1. st.op = "lock" /\ st.then = <<call>>
        BY DEF WakeCall, LockStep
    <2>2. call.op = "wake" /\ call.order = Head(QueuedOn(p)) /\ call.pile = p
        OBVIOUS
    <2> HIDE DEF st, call
    <2>3. Len(st.then) = 1 /\ st.then[1] = call
        BY <2>1
    <2>4. Kind(st) = "wakeLock" /\ Woken(st) = call
        BY <2>1, <2>2, <2>3 DEF Kind, WakeLock, Woken
    <2>5. Wakes(st) /\ Woken(st).order = Head(QueuedOn(p)) /\ Woken(st).pile = p
        BY <2>2, <2>4 DEF Wakes
    <2> QED
        BY <2>5 DEF st
<1> QED
    BY <1>1, <1>2

\* An order that has not started or ended is pending.
LEMMA NotStarted ==
    ASSUME OrdersOK, NEW o \in DOMAIN orders, orders[o].status \notin {"CHARGING"} \cup Terminal
    PROVE  o \in OrdersIn(Pending)
BY DEF OrdersOK, OrderRow, OrdersIn, Pending, Open, Terminal

\* The step that is taken is one of those left.
LEMMA HeadLeft ==
    ASSUME TodoOK, NEW s \in Slots, todo[s] # <<>>
    PROVE  Head(todo[s]) \in Left(s)
<1>1. PICK S : todo[s] \in Seq(S)
    BY DEF TodoOK, Todo
<1>2. 1 \in DOMAIN todo[s] /\ Head(todo[s]) = todo[s][1]
    BY <1>1
<1> QED
    BY <1>2 DEF Left

\* What the read saw makes the step that relies on it valid.
LEMMA FreshValid ==
    ASSUME HandlersInv, SerialInv, NEW s \in Slots, NEW st, Relies(st), Fresh(s, st)
    PROVE  Valid(st)
<1> DEFINE step == Head(todo[s])
<1> USE DEF HandlersInv
<1>0. /\ \A op : At(s, op) => todo[s] # <<>> /\ step.op = op
      /\ todo[s] # <<>> => step \in Left(s)
      /\ \A left \in Left(s) : Valid(left)
    BY HeadLeft DEF At, SerialInv, TodoSerial
<1>1. \A op : op # "lock" /\ st.op = op => Kind(st) = op
    BY KindOfOp
<1>2. CASE st.op \in {"setMode", "setAmount", "setPower", "setFault", "rename"}
    BY <1>1, <1>2 DEF Valid, Wakes
<1>3. CASE st.op \in {"create", "retry"}
    <2>1. Unfinished(st.user) = {}
        <3>1. CASE Unfinished(st.user) = {}
            BY <3>1
        <3>2. CASE (At(s, "create") \/ At(s, "retry")) /\ st.user = step.user
            <4>1. Valid(step) /\ Kind(step) \in {"create", "retry"}
                BY <1>0, <3>2, KindOfOp
            <4> QED
                BY <3>2, <4>1 DEF Valid
        <3> QED
            BY <1>3, <3>1, <3>2 DEF Fresh, WakeCall, LockStep
    <2> QED
        BY <1>1, <1>3, <2>1 DEF Valid, Wakes
<1>4. CASE st.op = "setCanceled"
    <2>1. st.order \in OrdersIn(Pending)
        BY <1>4 DEF Fresh, Pending, WakeCall, LockStep
    <2> QED
        BY <1>1, <1>4, <2>1 DEF Valid, Wakes
<1>5. CASE st.op = "start"
    <2>1. st.order \in OnPile(st.pile, {"IN_PILE_QUEUE"})
        BY <1>5 DEF Fresh, WakeCall, LockStep
    <2>2. st.order \in OrdersIn(Pending)
        BY <2>1 DEF OnPile, OrdersIn, Pending
    <2> QED
        BY <1>1, <1>5, <2>1, <2>2 DEF Valid, Wakes
<1>6. CASE st.op = "lock"
    <2>1. PICK p \in Piles : Wakeable(p) /\ st = WakeCall(p)
        BY <1>6 DEF Fresh
    <2>2. Head(QueuedOn(p)) \in OnPile(p, {"IN_PILE_QUEUE"})
        BY <2>1, HeadQueued DEF Wakeable, RowsOK
    <2>3. /\ Wakes(st) /\ Woken(st).order = Head(QueuedOn(p)) /\ Woken(st).pile = p
        BY <2>1, WakeIsIt
    <2> QED
        BY <2>2, <2>3 DEF Valid, Wakes
<1>7. CASE st.op = "wake"
    <2>1. At(s, "lock") /\ WakeLock(step) /\ st = step.then[1]
        BY <1>7 DEF Fresh, WakeCall, LockStep
    <2>2. Wakes(step) /\ Woken(step) = st
        BY <1>0, <2>1 DEF Wakes, Woken, Kind
    <2>3. Wakes(st) /\ Woken(st) = st
        BY <1>7, WakeIsIt
    <2> QED
        BY <1>0, <2>1, <2>2, <2>3 DEF Valid, Wakes
<1>8. CASE st.op = "assign"
    <2>1. CanPlace(step, st.order, st.pile)
        BY <1>8 DEF Fresh, WakeCall, LockStep
    <2>2. st.order \in OrdersIn(Pending)
        BY <2>1, NotStarted DEF CanPlace, RowsOK
    <2> QED
        BY <1>1, <1>8, <2>2 DEF Valid, Wakes
<1>9. CASE st.op = "remaining"
    <2>1. st.order \in OnPile(st.pile, {"CHARGING"}) /\ st.active = orders[st.order]
        BY <1>9 DEF Fresh, WakeCall, LockStep
    <2> QED
        BY <1>1, <1>9, <2>1 DEF Valid, Wakes, OnPile, OrdersIn
<1>10. CASE st.op = "continue"
    <2>1. At(s, "remaining") /\ st.active = step.active
        BY <1>10 DEF Fresh, WakeCall, LockStep
    <2>2. Kind(step) = "remaining" /\ step \in Left(s) /\ ~Bills(step, step.order)
        BY <1>0, <2>1, KindOfOp DEF Bills
    <2>3. Unfinished(step.active.user) = {}
        BY <2>2 DEF SerialInv, TodoSerial
    <2> QED
        BY <1>1, <1>10, <2>1, <2>3 DEF Valid, Wakes
<1> QED
    BY <1>2, <1>3, <1>4, <1>5, <1>6, <1>7, <1>8, <1>9, <1>10 DEF Fresh, WakeCall, LockStep

-----------------------------------------------------------------------------
(* It stays true until the step is taken *)

\* Where the orders say the same.
LEMMA KeptValid == ASSUME Kept, NEW st, Valid(st) PROVE Valid(st)'
<1>1. DOMAIN orders' = DOMAIN orders
    BY DEF Kept, OrdersSame
<1>2. \A A : OrdersIn(A)' = OrdersIn(A)
    BY KeptViews
<1>3. \A p, A : OnPile(p, A)' = OnPile(p, A)
    BY KeptViews
<1>4. \A u : Unfinished(u)' = Unfinished(u)
    BY KeptViews
<1>5. \A o \in DOMAIN orders : /\ orders'[o].user = orders[o].user
                               /\ orders'[o].pile = orders[o].pile
    BY DEF Kept, OrdersSame, Same
<1>6. OrdersIn(Pending) \subseteq DOMAIN orders
    BY DEF OrdersIn
<1> QED
    BY <1>1, <1>2, <1>3, <1>4, <1>5, <1>6 DEF Valid, Wakes, Woken

\* Where another order ends.
LEMMA EndsValid ==
    ASSUME BooksInv, OrdersSerial, NEW x, NEW target, NEW work, Ends(x, target, work),
           NEW st, Valid(st)
    PROVE  Valid(st)'
<1> DEFINE o == sessions[x].order
<1>1. /\ o \in OrdersIn(Open) /\ o \in OrdersIn({"CHARGING"})
    BY EndsActive
<1>2. /\ Becomes(o, target, orders[o].pile)
      /\ target \notin Open /\ target \notin Pending
      /\ target \notin {"CHARGING"} /\ target \notin {"IN_PILE_QUEUE"}
    BY DEF Ends, Open, Pending
<1> HIDE DEF o
<1>3. /\ \A A : OrdersIn(A) \subseteq DOMAIN orders
      /\ DOMAIN orders' = DOMAIN orders
    BY <1>2 DEF OrdersIn, Becomes
<1>4. \A u : Unfinished(u)' = Unfinished(u) \ {o}
    BY <1>1, <1>2, BecomesUnfinished
<1>5. /\ \A i \in DOMAIN orders : orders'[i].user = orders[i].user
      /\ OrdersIn(Pending)' = OrdersIn(Pending) \ {o}
      /\ OrdersIn({"CHARGING"})' = OrdersIn({"CHARGING"}) \ {o}
      /\ \A p : OnPile(p, {"IN_PILE_QUEUE"})' = OnPile(p, {"IN_PILE_QUEUE"}) \ {o}
    BY <1>2, BecomesViews
<1>6. o \notin OrdersIn(Pending) /\ \A p : o \notin OnPile(p, {"IN_PILE_QUEUE"})
    BY <1>1 DEF OrdersIn, OnPile, Pending
<1>7. \A i \in OrdersIn(Pending) : orders'[i].pile = orders[i].pile
    BY <1>2, <1>3, <1>6 DEF Becomes, Same
<1>8. Kind(st) \in {"create", "retry"} => Unfinished(st.user)' = {}
    BY <1>4 DEF Valid
<1>9. Kind(st) = "continue" => Unfinished(st.active.user)' = {}
    BY <1>4 DEF Valid
<1>10. Kind(st) \in {"setCanceled", "assign", "start"} =>
            /\ st.order \in OrdersIn(Pending)'
            /\ Kind(st) = "start" => st.order \in OnPile(st.pile, {"IN_PILE_QUEUE"})'
    BY <1>5, <1>6, <1>7 DEF Valid
<1>11. Wakes(st) => Woken(st).order \in OnPile(Woken(st).pile, {"IN_PILE_QUEUE"})'
    BY <1>5, <1>6 DEF Valid
<1>12. ASSUME Kind(st) = "remaining"
       PROVE  /\ st.order \in DOMAIN orders'
              /\ orders'[st.order].user = st.active.user
              /\ st.order \in OrdersIn({"CHARGING"})' \/ Unfinished(st.active.user)' = {}
    <2>1. /\ st.order \in DOMAIN orders
          /\ orders[st.order].user = st.active.user
          /\ st.order \in OrdersIn({"CHARGING"}) \/ Unfinished(st.active.user) = {}
        BY <1>12 DEF Valid
    <2>2. CASE st.order # o
        BY <1>3, <1>4, <1>5, <2>1, <2>2
    <2>3. CASE st.order = o
        <3>1. Unfinished(st.active.user) \subseteq {o}
            BY <1>1, <2>1, <2>3 DEF OrdersSerial, Unfinished
        <3> QED
            BY <1>3, <1>4, <1>5, <2>1, <3>1
    <2> QED
        BY <2>2, <2>3
<1> QED
    BY <1>8, <1>9, <1>10, <1>11, <1>12 DEF Valid, Wakes, Woken

\* What the step that is taken leaves to others stays valid.
LEMMA LeftValid ==
    ASSUME HandlersInv, OrdersSerial, NEW s \in Slots, todo[s] # <<>>, Valid(Head(todo[s])),
           Writes(s), NEW st, Relies(st), Pair(Head(todo[s]), st), Valid(st)
    PROVE  Valid(st)'
<1> DEFINE step == Head(todo[s])
<1>0. \A op : At(s, op) => step.op = op
    BY DEF At
<1>1. CASE Kept
    BY <1>1, KeptValid
<1>2. CASE At(s, "create") \/ At(s, "setCanceled") \/ At(s, "assign") \/ At(s, "start")
    <2>1. Kind(step) \in {"create", "setCanceled", "assign", "start"}
        BY <1>0, <1>2, KindOfOp
    <2> QED
        BY <2>1, PairKinds DEF Relying
<1>3. CASE At(s, "continue")
    <2>1. Kind(step) = "continue"
        BY <1>0, <1>3, KindOfOp
    <2>2. Together(step, st) /\ ~Wakes(step)
        BY <2>1 DEF Pair, Relies, Relying, Wakes
    <2>3. Kind(st) = "setFault"
        BY <2>1, <2>2 DEF Together
    <2> QED
        BY <2>3 DEF Valid, Wakes
<1>4. CASE At(s, "wake") /\ Charges(step.order, step.pile)
    <2>1. Wakes(step) /\ Woken(step) = step /\ Kind(step) = "wake"
        BY <1>0, <1>4, WakeIsIt, KindOfOp
    <2>2. Together(step, st)
        BY <2>1 DEF Pair, Relies, Relying
    <2>3. Wakes(st) /\ Woken(st).pile # step.pile
        BY <2>1, <2>2 DEF Together
    <2>4. /\ step.order \in OnPile(step.pile, {"IN_PILE_QUEUE"})
          /\ Woken(st).order \in OnPile(Woken(st).pile, {"IN_PILE_QUEUE"})
        BY <2>1, <2>3 DEF Valid
    <2>5. Woken(st).order # step.order
        BY <2>3, <2>4 DEF OnPile
    <2>6. \A q : OnPile(q, {"IN_PILE_QUEUE"})' = OnPile(q, {"IN_PILE_QUEUE"}) \ {step.order}
        BY <1>4, BecomesViews DEF Charges
    <2>7. Woken(st).order \in OnPile(Woken(st).pile, {"IN_PILE_QUEUE"})'
        BY <2>4, <2>5, <2>6
    <2> QED
        BY <2>3, <2>7 DEF Valid, Wakes, Woken
<1>5. CASE \E x, target, work : Ends(x, target, work)
    BY <1>5, EndsValid DEF HandlersInv
<1> QED
    BY <1>1, <1>2, <1>3, <1>4, <1>5 DEF Writes, Marks

-----------------------------------------------------------------------------
(* The bill of a fault is issued before what follows it *)

\* Only closeAndBill takes its own two steps.
LEMMA BillSteps ==
    ASSUME NEW s \in Slots, At(s, "closeAndBill") \/ At(s, "settle"),
           DriverRequest(s) \/ AdminRequest(s) \/ Serve(s)
    PROVE  ReadForBill(s) \/ Settle(s)
<1>0. todo[s] # <<>> /\ Head(todo[s]).op \in {"closeAndBill", "settle"}
    BY DEF At
<1>1. ~DriverRequest(s)
    BY <1>0 DEF DriverRequest, SubmitRequest, ModifyMode, ModifyAmount, CancelQueued,
        CancelCharging, Start, Stop, QueueStatus, Idle
<1>2. ~AdminRequest(s)
    BY <1>0 DEF AdminRequest, PowerOn, PowerOff, ReportFault, Recover, Reschedule, BasicAll,
        Basic, SingleOptimization, BatchOptimization, Idle
<1>3. ~ServeDispatch(s)
    BY <1>0 DEF ServeDispatch, AutoCompleteCharging, PlanBasic, PlanFault, PlanRecovery, PlanWake,
        Wake, ReadAssignment, Assign, At
<1>4. ~ServeCharging(s)
    BY <1>0 DEF ServeCharging, Create, Retry, SetMode, SetAmount, SetCanceled, StartTransaction, At
<1>5. ~ServePile(s)
    BY <1>0 DEF ServePile, SetPower, Remainder, Rename, Continue, SetFault, Affected, At
<1>6. ~(Lock(s) \/ Unlock(s) \/ ReadPayload(s) \/ SetJson(s))
    BY <1>0 DEF Lock, Unlock, ReadPayload, SetJson, At
<1> QED
    BY <1>1, <1>2, <1>3, <1>4, <1>5, <1>6 DEF Serve

\* A step that relies on nothing gives nobody another unfinished order.
LEMMA EasyWrites ==
    ASSUME BooksInv, OrdersSerial, NEW s \in Slots, todo[s] # <<>>, ~Relies(Head(todo[s])),
           Writes(s)
    PROVE  \A u : Unfinished(u)' \subseteq Unfinished(u)
<1> DEFINE step == Head(todo[s])
<1>0. \A op : At(s, op) /\ op # "lock" => Kind(step) = op
    BY KindOfOp DEF At
<1>1. CASE Kept
    BY <1>1, KeptViews
<1>2. CASE \E x, target, work : Ends(x, target, work)
    <2>1. PICK x, target, work : Ends(x, target, work)
        BY <1>2
    <2>2. /\ sessions[x].order \in OrdersIn(Open)
          /\ Becomes(sessions[x].order, target, orders[sessions[x].order].pile)
          /\ target \notin Open
        BY <2>1, EndsActive DEF Ends, Open
    <2> QED
        BY <2>2, BecomesUnfinished
<1>3. \A op \in {"create", "continue", "setCanceled", "assign", "start", "wake"} : ~At(s, op)
    <2> SUFFICES ASSUME NEW op \in {"create", "continue", "setCanceled", "assign", "start", "wake"},
                        At(s, op)
                 PROVE  FALSE
        OBVIOUS
    <2>1. Kind(step) = op /\ op \in Relying
        BY <1>0 DEF Relying
    <2> QED
        BY <2>1 DEF Relies
<1> QED
    BY <1>1, <1>2, <1>3 DEF Writes, Marks

\* The bill stands at the head until it is issued.
LEMMA BillStands ==
    ASSUME HandlersInv, OrdersSerial, NEW s \in Slots, todo[s] # <<>>,
           DriverRequest(s) \/ AdminRequest(s) \/ Serve(s),
           NEW o, Bills(Head(todo[s]), o), o \in OrdersIn({"CHARGING"})
    PROVE  \/ todo'[s] = <<>>
           \/ Bills(Head(todo[s]), o)'
           \/ o \notin OrdersIn({"CHARGING"})'
<1> DEFINE step == Head(todo[s])
<1> USE DEF HandlersInv
<1>0. /\ At(s, "closeAndBill") \/ At(s, "settle")
      /\ ~step.swallow /\ step.target = "ABORTED"
    BY DEF Bills, At
<1>1. s \in DOMAIN todo
    BY DEF TodoOK
<1>2. Fail(s) => todo'[s] = <<>>
    BY <1>0, <1>1 DEF Fail, Throw, Begin
<1>3. CASE ReadForBill(s)
    <2>1. step.op = "closeAndBill" /\ step.order = o
        BY <1>3 DEF ReadForBill, At, Bills
    <2>2. o \notin DOMAIN details
        <3>1. o \notin OrdersIn(Terminal)
            BY DEF OrdersIn, Terminal
        <3> QED
            BY <3>1 DEF OrdersSerial
    <2>3. CASE Fail(s)
        BY <1>2, <2>3
    <2>4. CASE ActiveSessions(o) # {} /\ ~Fail(s)
        <3> DEFINE x == Min(ActiveSessions(o))
                   st == [op |-> "settle", session |-> x,
                          amount |-> ActualAmount(o, x), previous |-> PreviousAmount(o, x),
                          mode |-> orders[o].mode, reason |-> step.reason,
                          target |-> step.target, work |-> step.work,
                          swallow |-> step.swallow, after |-> step.after]
        <3>1. Goto(s, <<st>>) /\ UNCHANGED sessions
            BY <1>3, <2>1, <2>2, <2>4 DEF ReadForBill, tables
        <3>2. x \in DOMAIN sessions /\ sessions[x].order = o
            BY <2>4, FirstActive DEF ActiveSessions
        <3>3. /\ st.op = "settle" /\ st.session = x
              /\ ~st.swallow /\ st.target = "ABORTED"
            BY <1>0
        <3> HIDE DEF x, st
        <3>4. Head(todo'[s]) = st
            <4>1. todo'[s] = <<st>> \o Tail(todo[s])
                BY <1>1, <3>1 DEF Goto
            <4>2. PICK S : todo[s] \in Seq(S)
                BY DEF TodoOK, Todo
            <4>3. Tail(todo[s]) \in Seq(S)
                BY <4>2
            <4> QED
                BY <4>1, <4>3
        <3>5. /\ Head(todo'[s]).op = "settle" /\ ~Head(todo'[s]).swallow
              /\ Head(todo'[s]).target = "ABORTED"
              /\ Head(todo'[s]).session \in DOMAIN sessions'
              /\ sessions'[Head(todo'[s]).session].order = o
            BY <3>1, <3>2, <3>3, <3>4
        <3> QED
            BY <3>5 DEF Bills
    <2>5. ActiveSessions(o) = {} => Fail(s)
        BY <1>3, <2>1, <2>2 DEF ReadForBill
    <2> QED
        BY <2>3, <2>4, <2>5
<1>4. CASE Settle(s)
    <2>1. step.op = "settle" /\ sessions[step.session].order = o
        BY <1>4 DEF Settle, At, Bills
    <2>2. CASE UNCHANGED tables
        <3>1. CASE Fail(s)
            BY <1>2, <3>1
        <3>2. CASE ~Fail(s)
            <4>1. sessions' = [sessions EXCEPT ![step.session] =
                      Session(o, sessions[step.session].pile, Ended(step.target),
                              step.amount, step.reason)]
                  /\ step.session \in DOMAIN sessions
                  /\ ~Billed(o, step.session)
                  /\ details' = Insert(details, o, [session |-> step.session,
                                                    amount |-> step.previous + step.amount])
                BY <1>4, <2>1, <3>2 DEF Settle
            <4>2. o \in DOMAIN details'
                BY <4>1 DEF Insert
            <4> QED
                BY <2>2, <4>1, <4>2 DEF tables, Billed
        <3> QED
            BY <3>1, <3>2
    <2>3. CASE \E target, work : Ends(step.session, target, work)
        <3>1. PICK target, work : Ends(step.session, target, work)
            BY <2>3
        <3>2. Becomes(o, target, orders[o].pile) /\ target \notin {"CHARGING"}
            BY <2>1, <3>1 DEF Ends
        <3>3. OrdersIn({"CHARGING"})' = OrdersIn({"CHARGING"}) \ {o}
            BY <3>2, BecomesViews
        <3> QED
            BY <3>3
    <2> QED
        BY <1>4, <2>2, <2>3, SettleEffect
<1> QED
    BY <1>0, <1>3, <1>4, BillSteps

-----------------------------------------------------------------------------
(* The invariant of one request at a time *)

OneAtATime == \A s, t \in Slots : s = t

\* The steps of the one slot stay valid and in order.
LEMMA SlotSerial ==
    ASSUME HandlersInv, SerialInv, NEW s \in Slots,
           DriverRequest(s) \/ AdminRequest(s) \/ Serve(s)
    PROVE  /\ Proceeds(s) /\ Writes(s) /\ Outcome
           /\ todo[s] # <<>> => Valid(Head(todo[s])) /\ Head(todo[s]) \in Left(s)
<1>1. todo[s] # <<>> => Head(todo[s]) \in Left(s)
    BY HeadLeft DEF HandlersInv
<1>2. todo[s] # <<>> => Valid(Head(todo[s]))
    BY <1>1 DEF SerialInv, TodoSerial
<1>3. Ordered(todo[s])
    BY DEF SerialInv, TodoSerial
<1>4. Proceeds(s)
    BY <1>3, SlotProceeds
<1>5. Writes(s)
    BY <1>2, SlotWrites
<1>6. Outcome
    BY <1>2, <1>5, SlotOutcome
<1> QED
    BY <1>1, <1>2, <1>4, <1>5, <1>6

\* A step of the slot keeps valid what is left to it.
LEMMA SlotValid ==
    ASSUME HandlersInv, SerialInv, NEW s \in Slots,
           DriverRequest(s) \/ AdminRequest(s) \/ Serve(s),
           NEW i \in DOMAIN todo'[s], NEW st, st = todo'[s][i]
    PROVE  Valid(st)'
<1>1. /\ Proceeds(s) /\ Writes(s)
      /\ todo[s] # <<>> => Valid(Head(todo[s]))
    BY SlotSerial
<1>2. CASE ~Relies(st)
    BY <1>2 DEF Relies, Relying, Valid, Wakes
<1>3. CASE Relies(st) /\ Fresh(s, st)
    <2>1. Valid(st)
        BY <1>3, FreshValid
    <2>2. Kept
        BY <1>3, SameTables DEF Fresh
    <2> QED
        BY <2>1, <2>2, KeptValid
<1>4. CASE /\ Relies(st) /\ todo[s] # <<>> /\ st \in Left(s)
           /\ Pair(Head(todo[s]), st)
    <2>1. Valid(st)
        BY <1>4 DEF SerialInv, TodoSerial
    <2> QED
        BY <1>1, <1>4, <2>1, LeftValid DEF SerialInv
<1> QED
    BY <1>1, <1>2, <1>3, <1>4 DEF Proceeds

\* What follows the bill of a fault is put into todo behind it.
LEMMA FreshBehindBill ==
    ASSUME NEW s, NEW st, Fresh(s, st), st.op = "remaining"
    PROVE  Head(todo'[s]) = CloseAndBill(st.order, "FAULT", "ABORTED", "FAULT")
BY DEF Fresh, WakeCall, LockStep

\* While the driver has an unfinished order, the bill of the fault comes first.
LEMMA SlotBills ==
    ASSUME HandlersInv, SerialInv, NEW s \in Slots,
           DriverRequest(s) \/ AdminRequest(s) \/ Serve(s),
           NEW i \in DOMAIN todo'[s], NEW st, st = todo'[s][i],
           Kind(st) = "remaining", Unfinished(st.active.user)' # {}
    PROVE  Bills(Head(todo[s]), st.order)'
<1>1. /\ Relies(st) /\ ~Wakes(st)
      /\ st.op = "remaining"
    BY DEF Relies, Relying, Wakes, Kind
<1>2. st.order \in OrdersIn({"CHARGING"})'
    <2>1. Valid(st)'
        BY SlotValid
    <2> QED
        BY <1>1, <2>1 DEF Valid
<1>3. /\ Proceeds(s) /\ Writes(s)
      /\ todo[s] # <<>> => Valid(Head(todo[s])) /\ Head(todo[s]) \in Left(s)
    BY SlotSerial
<1>4. CASE Fresh(s, st)
    <2>1. Head(todo'[s]) = CloseAndBill(st.order, "FAULT", "ABORTED", "FAULT")
        BY <1>1, <1>4, FreshBehindBill
    <2> QED
        BY <2>1 DEF Bills, CloseAndBill
<1>5. CASE todo[s] # <<>> /\ st \in Left(s) /\ Pair(Head(todo[s]), st)
    <2>1. ~Relies(Head(todo[s]))
        BY <1>1, <1>5 DEF Pair, Together
    <2>2. Unfinished(st.active.user) # {}
        BY <1>3, <1>5, <2>1, EasyWrites DEF HandlersInv, SerialInv
    <2>3. Bills(Head(todo[s]), st.order) /\ Valid(st)
        BY <1>5, <2>2 DEF SerialInv, TodoSerial
    <2>4. st.order \in OrdersIn({"CHARGING"})
        BY <2>2, <2>3 DEF Valid
    <2> QED
        BY <1>2, <1>5, <2>3, <2>4, BillStands DEF SerialInv
<1> QED
    BY <1>1, <1>3, <1>4, <1>5 DEF Proceeds

\* The invariant begins to hold.
LEMMA SerialInit == Init => SerialInv
<1> SUFFICES ASSUME Init PROVE SerialInv
    OBVIOUS
<1>1. /\ DOMAIN orders = {} /\ DOMAIN sessions = {} /\ DOMAIN details = {}
      /\ \A s \in Slots : todo[s] = <<>>
    BY DEF Init
<1>2. TodoSerial
    BY <1>1 DEF TodoSerial, Ordered, Left
<1>3. \A A : OrdersIn(A) = {}
    BY <1>1 DEF OrdersIn
<1> QED
    BY <1>1, <1>2, <1>3 DEF SerialInv, OrdersSerial

\* What a step may do that is not a slot's.
LEMMA Around ==
    ASSUME BooksInv, [Next]_vars
    PROVE  \/ \E s \in Slots : DriverRequest(s) \/ AdminRequest(s) \/ Serve(s)
           \/ Kept /\ UNCHANGED <<piles, todo>>
           \/ Kept /\ UNCHANGED piles /\ \A s \in Slots : todo'[s] = <<>>
<1>1. ASSUME NEW x \in DOMAIN sessions, Deliver(x)
      PROVE  Kept /\ UNCHANGED <<piles, todo>>
    <2>1. MetersSame
        BY <1>1 DEF Deliver, Session, MetersSame, Runs
    <2> QED
        BY <1>1, <2>1 DEF Deliver, Kept, OrdersSame, Same, BooksSame
<1>2. CASE \E key \in locks : Expire(key)
    BY <1>2, SameTables DEF Expire, tables
<1>3. CASE Restart
    BY <1>3, SameTables DEF Restart, tables
<1>4. CASE RedisDown
    BY <1>4, SameTables DEF RedisDown, tables
<1>5. CASE UNCHANGED vars
    BY <1>5, SameTables DEF vars, tables
<1> QED
    BY <1>1, <1>2, <1>3, <1>4, <1>5 DEF Next, Environment

\* Every step of the server keeps the invariant, while one request is served at a time.
LEMMA SerialNext ==
    ASSUME OneAtATime, HandlersInv, SerialInv, [Next]_vars
    PROVE  SerialInv'
<1>1. ASSUME NEW s \in Slots, DriverRequest(s) \/ AdminRequest(s) \/ Serve(s)
      PROVE  SerialInv'
    <2>1. Ordered(todo'[s]) /\ Outcome
        BY <1>1, SlotSerial DEF Proceeds
    <2>2. OrdersSerial'
        BY <2>1, OrdersSerialNext DEF HandlersInv, SerialInv
    <2>3. ASSUME NEW st \in Left(s)'
          PROVE  Valid(st)'
        <3>1. PICK i \in DOMAIN todo'[s] : st = todo'[s][i]
            BY DEF Left
        <3> QED
            BY <1>1, <3>1, SlotValid
    <2>4. ASSUME NEW st \in Left(s)', Kind(st) = "remaining", Unfinished(st.active.user)' # {}
          PROVE  Bills(Head(todo[s]), st.order)'
        <3>1. PICK i \in DOMAIN todo'[s] : st = todo'[s][i]
            BY DEF Left
        <3> QED
            BY <1>1, <2>4, <3>1, SlotBills
    <2>5. TodoSerial'
        BY <2>1, <2>3, <2>4 DEF OneAtATime, TodoSerial
    <2> QED
        BY <2>2, <2>5 DEF SerialInv
<1>2. ASSUME Kept
      PROVE  OrdersSerial'
    BY <1>2, OrdersSerialNext DEF HandlersInv, SerialInv, Outcome
<1>3. CASE Kept /\ UNCHANGED todo
    <2>1. \A st : Valid(st) => Valid(st)'
        BY <1>3, KeptValid
    <2>2. \A u : Unfinished(u)' = Unfinished(u)
        BY <1>3, KeptViews
    <2>3. \A st, o : Bills(st, o) => Bills(st, o)'
        BY <1>3 DEF Bills, Kept, BooksSame, MetersSame, Runs
    <2>4. \A s : Left(s)' = Left(s) /\ todo'[s] = todo[s]
        BY <1>3 DEF Left
    <2>5. ASSUME NEW s \in Slots
          PROVE  /\ Ordered(todo'[s])
                 /\ \A st \in Left(s)' : Valid(st)'
                 /\ \A st \in Left(s)' :
                       Kind(st) = "remaining" /\ Unfinished(st.active.user)' # {}
                          => Bills(Head(todo[s]), st.order)'
        <3>1. /\ Ordered(todo[s])
              /\ \A st \in Left(s) : Valid(st)
              /\ \A st \in Left(s) :
                    Kind(st) = "remaining" /\ Unfinished(st.active.user) # {}
                       => Bills(Head(todo[s]), st.order)
            BY DEF SerialInv, TodoSerial
        <3>2. \A st : Bills(Head(todo[s]), st.order) => Bills(Head(todo[s]), st.order)'
            BY <2>4, <1>3 DEF Bills, Kept, BooksSame, MetersSame, Runs
        <3> QED
            BY <2>1, <2>2, <2>4, <3>1, <3>2
    <2>6. TodoSerial'
        BY <2>5 DEF TodoSerial
    <2> QED
        BY <1>2, <1>3, <2>6 DEF SerialInv
<1>4. CASE Kept /\ \A s \in Slots : todo'[s] = <<>>
    <2>1. \A s \in Slots : DOMAIN todo'[s] = {}
        BY <1>4
    <2>2. TodoSerial'
        BY <2>1 DEF TodoSerial, Ordered, Left
    <2> QED
        BY <1>2, <1>4, <2>2 DEF SerialInv
<1> QED
    BY <1>1, <1>3, <1>4, Around DEF HandlersInv

\* A handler acts on what is still as it read it.
THEOREM SerialHolds ==
    ASSUME OneAtATime
    PROVE  Spec => []SerialInv
<1>1. HandlersInv /\ SerialInv /\ [Next]_vars => SerialInv'
    BY SerialNext
<1> QED
    BY <1>1, SerialInit, HandlersHold, PTL DEF Spec

\* A driver never has two unfinished orders, through faults and restarts: a
\* continuation included (ensureUserCanSubmit, reportFault).
THEOREM OneUnfinishedHolds ==
    ASSUME OneAtATime
    PROVE  Spec => []OneUnfinishedOrder
<1>1. HandlersInv /\ SerialInv => OneUnfinishedOrder
    <2> SUFFICES ASSUME HandlersInv, SerialInv, NEW u \in Users
                 PROVE  Cardinality({o \in OrdersIn(Open) : orders[o].user = u}) <= 1
        BY DEF OneUnfinishedOrder
    <2> DEFINE open == {o \in OrdersIn(Open) : orders[o].user = u}
    <2>1. \A o, other \in open : o = other
        BY DEF SerialInv, OrdersSerial
    <2> HIDE DEF open
    <2>2. CASE open = {}
        <3>1. Cardinality(open) = 0
            BY <2>2, FS_EmptySet
        <3> QED
            BY <3>1 DEF open
    <2>3. CASE open # {}
        <3>1. PICK o : open = {o}
            BY <2>1, <2>3
        <3>2. Cardinality(open) = 1
            BY <3>1, FS_Singleton
        <3> QED
            BY <3>2 DEF open
    <2> QED
        BY <2>2, <2>3
<1> QED
    BY <1>1, HandlersHold, SerialHolds, PTL

\* An order that has ended stays as it ended.
LEMMA EndedStays ==
    ASSUME BooksInv, OrdersSerial, Outcome, NEW o \in OrdersIn(Terminal)
    PROVE  o \in DOMAIN orders' /\ orders'[o].status = orders[o].status
<1>0. o \in DOMAIN orders /\ orders[o].status \in Terminal
    BY DEF OrdersIn
<1>1. ASSUME NEW other, NEW status, NEW p, other \in OrdersIn(Open), Becomes(other, status, p)
      PROVE  o \in DOMAIN orders' /\ orders'[o].status = orders[o].status
    <2>1. other # o
        BY <1>0, <1>1 DEF OrdersIn, Open, Terminal
    <2> QED
        BY <1>0, <1>1, <2>1 DEF Becomes, Same
<1>2. CASE Kept
    BY <1>0, <1>2 DEF Kept, OrdersSame, Same
<1>3. CASE \E u : Adds(u)
    BY <1>0, <1>3, AddsViews DEF Same
<1>4. CASE \E other \in OrdersIn(Pending) :
              Cancels(other) \/ \E p \in Piles : Places(other, p) \/ Charges(other, p)
    BY <1>1, <1>4, PendingRests DEF Cancels, Places, Charges
<1>5. CASE \E x, target, work : Ends(x, target, work)
    BY <1>1, <1>5, EndsActive DEF Ends
<1> QED
    BY <1>2, <1>3, <1>4, <1>5 DEF Outcome

\* What becomes of the orders, by any step.
LEMMA StepOutcome ==
    ASSUME HandlersInv, SerialInv, [Next]_vars
    PROVE  Outcome
<1>1. CASE \E s \in Slots : DriverRequest(s) \/ AdminRequest(s) \/ Serve(s)
    BY <1>1, SlotSerial
<1>2. CASE Kept
    BY <1>2 DEF Outcome
<1> QED
    BY <1>1, <1>2, Around DEF HandlersInv

\* An order that is finished, canceled or aborted stays so: no plan, start or
\* cancellation that read it before brings it back.
THEOREM TerminalHolds ==
    ASSUME OneAtATime
    PROVE  Spec => TerminalIsFinal
<1>1. HandlersInv /\ SerialInv /\ [Next]_vars
        => [\A o \in OrdersIn(Terminal) : orders'[o].status = orders[o].status]_vars
    BY EndedStays, StepOutcome DEF HandlersInv, SerialInv
<1> QED
    BY <1>1, HandlersHold, SerialHolds, PTL DEF Spec, TerminalIsFinal

-----------------------------------------------------------------------------
(* The piles, while the administrator uses the buttons that are shown *)

\* What the read saw of the pile lets the step act on it.
LEMMA FreshPileValid ==
    ASSUME UiDiscipline, HandlersInv, SerialInv, PilesInv, NEW s \in Slots, NEW st,
           Relies(st), Fresh(s, st), todo[s] # <<>> => Head(todo[s]) \in Left(s)
    PROVE  PileValid(st)
<1> DEFINE step == Head(todo[s])
<1>0. /\ \A op : At(s, op) => step.op = op /\ step \in Left(s) /\ PileValid(step) /\ Valid(step)
    BY DEF At, PilesInv, SerialInv, TodoSerial
<1>1. \A op : op # "lock" /\ st.op = op => Kind(st) = op
    BY KindOfOp
<1>2. CASE st.op \in {"create", "retry", "setMode", "setAmount", "setCanceled", "rename",
                      "continue"}
    BY <1>1, <1>2 DEF PileValid, Wakes
<1>3. CASE st.op = "start"
    <2>1. /\ st.order \in OnPile(st.pile, {"IN_PILE_QUEUE"}) /\ st.pile # None
          /\ piles[st.pile].phys = "ON" /\ piles[st.pile].work = "IDLE"
        BY <1>3 DEF Fresh, WakeCall, LockStep
    <2>2. st.order \in DOMAIN orders /\ orders[st.order].pile = st.pile
        BY <2>1 DEF OnPile, OrdersIn
    <2>3. st.pile \in Piles
        BY <2>1, <2>2 DEF HandlersInv, RowsOK, OrdersOK, OrderRow
    <2>4. Works(st.pile)
        BY <2>1, <2>3 DEF Works
    <2> QED
        BY <1>1, <1>3, <2>4 DEF PileValid, Wakes
<1>4. CASE st.op = "lock"
    <2>1. PICK p \in Piles : Wakeable(p) /\ st = WakeCall(p)
        BY <1>4 DEF Fresh
    <2>2. Works(p)
        BY <2>1 DEF Wakeable, Works
    <2>3. Wakes(st) /\ Woken(st).pile = p
        BY <2>1, WakeIsIt
    <2> QED
        BY <2>2, <2>3 DEF PileValid, Wakes
<1>5. CASE st.op = "wake"
    <2>1. At(s, "lock") /\ WakeLock(step) /\ st = step.then[1]
        BY <1>5 DEF Fresh, WakeCall, LockStep
    <2>2. Wakes(step) /\ Woken(step) = st
        BY <1>0, <2>1 DEF Wakes, Woken, Kind
    <2>3. Wakes(st) /\ Woken(st) = st
        BY <1>5, WakeIsIt
    <2> QED
        BY <1>0, <2>1, <2>2, <2>3 DEF PileValid, Wakes
<1>6. CASE st.op = "assign"
    <2>1. /\ CanPlace(step, st.order, st.pile)
          /\ st.autoStart = AutoStarts(step, st.pile)
        BY <1>6 DEF Fresh, WakeCall, LockStep
    <2>2. st.autoStart => Works(st.pile)
        BY <2>1 DEF CanPlace, AutoStarts, Works
    <2> QED
        BY <1>1, <1>6, <2>2 DEF PileValid, Wakes
<1>7. CASE st.op = "setPower"
    <2>1. /\ st.pile \in Piles
          /\ Offered(st.pile, "powerOn") \/ OnPile(st.pile, {"CHARGING"}) = {}
        BY <1>7 DEF Fresh, WakeCall, LockStep
    <2>2. Offered(st.pile, "powerOn") => piles[st.pile].phys = "OFF"
        BY DEF Offered
    <2>3. Charging(st.pile) = {}
        BY <2>1, <2>2 DEF PilesInv, PilesSerial, Charging
    <2>4. st.pile \in Piles /\ st.work = WorkAfterSwitch(st.pile)
        BY <1>7 DEF Fresh, WakeCall, LockStep
    <2> QED
        BY <1>1, <1>7, <2>3, <2>4 DEF PileValid, Wakes
<1>8. CASE st.op = "remaining"
    <2>1. st.pile \in Piles /\ st.order \in OnPile(st.pile, {"CHARGING"})
        BY <1>8 DEF Fresh, WakeCall, LockStep
    <2>2. Charging(st.pile) \subseteq {st.order}
        BY <2>1 DEF PilesInv, PilesSerial, Charging
    <2> QED
        BY <1>1, <1>8, <2>1, <2>2 DEF PileValid, Wakes
<1>9. CASE st.op = "setFault"
    <2>1. \/ st.pile \in Piles /\ OnPile(st.pile, {"CHARGING"}) = {}
          \/ At(s, "remaining") /\ st.pile = step.pile
        BY <1>9 DEF Fresh, WakeCall, LockStep
    <2>2. CASE At(s, "remaining") /\ st.pile = step.pile
        <3>1. Kind(step) = "remaining" /\ ~Bills(step, step.order)
            BY <1>0, <2>2, KindOfOp DEF Bills
        <3>2. Unfinished(step.active.user) = {}
            BY <1>0, <2>2, <3>1 DEF SerialInv, TodoSerial
        <3>3. orders[step.order].user = step.active.user
            BY <1>0, <2>2, <3>1 DEF Valid
        <3>4. step.order \notin OrdersIn(Open)
            BY <3>2, <3>3 DEF Unfinished
        <3>5. step.order \notin Charging(st.pile)
            BY <3>4 DEF Charging, OnPile, OrdersIn, Open
        <3>6. st.pile \in Piles /\ Charging(st.pile) \subseteq {step.order}
            BY <1>0, <2>2, <3>1 DEF PileValid
        <3>7. Charging(st.pile) = {}
            BY <3>5, <3>6
        <3> QED
            BY <1>1, <1>9, <3>6, <3>7 DEF PileValid, Wakes
    <2>3. CASE st.pile \in Piles /\ OnPile(st.pile, {"CHARGING"}) = {}
        BY <1>1, <1>9, <2>3 DEF PileValid, Wakes, Charging
    <2> QED
        BY <2>1, <2>2, <2>3
<1> QED
    BY <1>2, <1>3, <1>4, <1>5, <1>6, <1>7, <1>8, <1>9 DEF Fresh, WakeCall, LockStep

(* What becomes of the piles: one that works begins to charge, one that     *)
(* charges is freed by the bill, one that does not charge is marked.        *)
PileOutcome ==
    \/ (\A p \in Piles : piles'[p] = piles[p]) /\ \A p : Charging(p)' = Charging(p)
    \/ \E o \in OrdersIn(Pending), p \in Piles : Works(p) /\ Charges(o, p)
    \/ \E x, target, work : Ends(x, target, work)
    \/ /\ Kept
       /\ \E p \in Piles, work \in {"IDLE", "FAULT"} :
             Charging(p) = {} /\ \E phys : Turns(p, phys, work)

\* A pending order that does not begin to charge changes nothing at the piles.
LEMMA PendingAway ==
    ASSUME OrdersSerial, NEW o \in OrdersIn(Pending), NEW status, NEW p, Becomes(o, status, p),
           status # "CHARGING"
    PROVE  \A q : Charging(q)' = Charging(q)
<1>1. \A q : Charging(q)' = Charging(q) \ {o}
    BY BecomesViews DEF Charging
<1>2. \A q : o \notin Charging(q)
    BY PendingRests DEF Charging
<1> QED
    BY <1>1, <1>2

\* Of the steps of a slot.
LEMMA SlotPiles ==
    ASSUME UiDiscipline, HandlersInv, OrdersSerial, PilesSerial, NEW s \in Slots, Writes(s),
           todo[s] # <<>> => Valid(Head(todo[s])) /\ PileValid(Head(todo[s]))
    PROVE  PileOutcome
<1> DEFINE step == Head(todo[s])
<1>0. /\ \A op : At(s, op) => todo[s] # <<>> /\ step.op = op
      /\ \A op : At(s, op) /\ op # "lock" => Kind(step) = op
    BY KindOfOp DEF At
<1>1. Kept => \A p : Charging(p)' = Charging(p)
    BY KeptViews DEF Charging
<1>2. CASE Kept /\ UNCHANGED piles
    BY <1>1, <1>2 DEF PileOutcome
<1>3. CASE \E u : Adds(u)
    <2>1. \A p : Charging(p)' = Charging(p)
        BY <1>3, AddsViews DEF Charging
    <2> QED
        BY <1>3, <2>1 DEF PileOutcome, Adds
<1>4. CASE At(s, "setCanceled") /\ Cancels(step.order)
    <2>1. step.order \in OrdersIn(Pending)
        BY <1>0, <1>4 DEF Valid
    <2> QED
        BY <1>4, <2>1, PendingAway DEF PileOutcome, Cancels
<1>5. CASE At(s, "assign") /\ Places(step.order, step.pile)
    <2>1. step.order \in OrdersIn(Pending)
        BY <1>0, <1>5 DEF Valid
    <2> QED
        BY <1>5, <2>1, PendingAway DEF PileOutcome, Places
<1>6. CASE At(s, "assign") /\ step.autoStart /\ Charges(step.order, step.pile)
    <2>1. step.order \in OrdersIn(Pending) /\ Works(step.pile) /\ step.pile \in Piles
        BY <1>0, <1>6 DEF Valid, PileValid, Works
    <2> QED
        BY <1>6, <2>1 DEF PileOutcome
<1>7. CASE At(s, "start") /\ Charges(step.order, step.pile)
    <2>1. step.order \in OrdersIn(Pending) /\ Works(step.pile) /\ step.pile \in Piles
        BY <1>0, <1>7 DEF Valid, PileValid, Works
    <2> QED
        BY <1>7, <2>1 DEF PileOutcome
<1>8. CASE At(s, "wake") /\ Charges(step.order, step.pile)
    <2>1. Wakes(step) /\ Woken(step) = step
        BY <1>0, <1>8, WakeIsIt
    <2>2. /\ step.order \in OnPile(step.pile, {"IN_PILE_QUEUE"})
          /\ Works(step.pile) /\ step.pile \in Piles
        BY <1>0, <1>8, <2>1 DEF Valid, PileValid, Works
    <2>3. step.order \in OrdersIn(Pending)
        BY <2>2 DEF OnPile, OrdersIn, Pending
    <2> QED
        BY <1>8, <2>2, <2>3 DEF PileOutcome
<1>9. CASE \E x, target, work : Ends(x, target, work)
    BY <1>9 DEF PileOutcome
<1>10. ASSUME NEW p, NEW phys, NEW work, Marks(p, phys, work), p \in Piles => Charging(p) = {}
       PROVE  PileOutcome
    <2>1. CASE p \in Piles
        BY <1>10, <2>1 DEF PileOutcome, Marks
    <2>2. CASE p \notin Piles
        <3>1. \A q \in Piles : piles'[q] = piles[q]
            BY <1>10, <2>2 DEF Marks, Turns
        <3> QED
            BY <1>1, <1>10, <3>1 DEF PileOutcome, Marks
    <2> QED
        BY <2>1, <2>2
<1>11. CASE At(s, "setPower") /\ \E phys : Marks(step.pile, phys, step.work)
    BY <1>0, <1>10, <1>11 DEF PileValid
<1>12. CASE At(s, "setFault") /\ \E phys : Marks(step.pile, phys, "FAULT")
    BY <1>0, <1>10, <1>12 DEF PileValid
<1>13. CASE \E p \in Piles : Offered(p, "recover") /\ \E phys : Marks(p, phys, "IDLE")
    <2>1. \A p : Offered(p, "recover") => piles[p].work = "FAULT"
        BY DEF Offered
    <2> QED
        BY <1>10, <1>13, <2>1 DEF PilesSerial
<1> QED
    BY <1>2, <1>3, <1>4, <1>5, <1>6, <1>7, <1>8, <1>9, <1>11, <1>12, <1>13 DEF Writes

\* workingState tells what charges there, as long as it does.
LEMMA PilesSerialNext ==
    ASSUME BooksInv, OrdersSerial, PilesSerial, PileOutcome
    PROVE  PilesSerial'
<1>0. /\ \A p \in Piles : piles[p].work = "CHARGING" <=> Charging(p) # {}
      /\ \A p \in Piles : piles[p].phys = "OFF" => Charging(p) = {}
      /\ \A p \in Piles : \A o, other \in Charging(p) : o = other
    BY DEF PilesSerial
<1>1. ASSUME \A p \in Piles : piles'[p] = piles[p], \A p : Charging(p)' = Charging(p)
      PROVE  PilesSerial'
    <2>1. ASSUME NEW q \in Piles
          PROVE  /\ piles'[q].work = "CHARGING" <=> Charging(q)' # {}
                 /\ piles'[q].phys = "OFF" => Charging(q)' = {}
                 /\ \A i, other \in Charging(q)' : i = other
        BY <1>0, <1>1
    <2> QED
        BY <2>1 DEF PilesSerial
<1>2. ASSUME NEW o \in OrdersIn(Pending), NEW p \in Piles, Works(p), Charges(o, p)
      PROVE  PilesSerial'
    <2>1. \A q : Charging(q)' = IF p = q THEN Charging(q) \cup {o} ELSE Charging(q) \ {o}
        <3>1. Becomes(o, "CHARGING", p) /\ "CHARGING" \in {"CHARGING"}
            BY <1>2 DEF Charges
        <3> QED
            BY <3>1, BecomesViews DEF Charging
    <2>2. \A q : o \notin Charging(q)
        BY PendingRests DEF Charging
    <2>3. Charging(p) = {}
        BY <1>0, <1>2 DEF Works
    <2>4. Charging(p)' = {o} /\ \A q : q # p => Charging(q)' = Charging(q)
        BY <2>1, <2>2, <2>3
    <2>5. /\ piles'[p].work = "CHARGING" /\ piles'[p].phys = "ON"
          /\ \A q \in Piles \ {p} : piles'[q] = piles[q]
        BY <1>2 DEF Charges, Turns, Works
    <2>6. ASSUME NEW q \in Piles
          PROVE  /\ piles'[q].work = "CHARGING" <=> Charging(q)' # {}
                 /\ piles'[q].phys = "OFF" => Charging(q)' = {}
                 /\ \A i, other \in Charging(q)' : i = other
        <3>1. CASE q = p
            BY <2>4, <2>5, <3>1
        <3>2. CASE q # p
            BY <1>0, <2>4, <2>5, <3>2
        <3> QED
            BY <3>1, <3>2
    <2> QED
        BY <2>6 DEF PilesSerial
<1>3. ASSUME NEW p \in Piles, NEW phys, NEW work \in {"IDLE", "FAULT"}, Turns(p, phys, work),
             Charging(p)' = {}, \A q \in Piles \ {p} : Charging(q)' = Charging(q)
      PROVE  PilesSerial'
    <2>1. /\ piles'[p].work # "CHARGING"
          /\ \A q \in Piles \ {p} : piles'[q] = piles[q]
        BY <1>3 DEF Turns
    <2>2. ASSUME NEW q \in Piles
          PROVE  /\ piles'[q].work = "CHARGING" <=> Charging(q)' # {}
                 /\ piles'[q].phys = "OFF" => Charging(q)' = {}
                 /\ \A i, other \in Charging(q)' : i = other
        <3>1. CASE q = p
            BY <1>3, <2>1, <3>1
        <3>2. CASE q # p
            BY <1>0, <1>3, <2>1, <3>2
        <3> QED
            BY <3>1, <3>2
    <2> QED
        BY <2>2 DEF PilesSerial
<1>4. ASSUME NEW x, NEW target, NEW work, Ends(x, target, work)
      PROVE  PilesSerial'
    <2>0. PICK o, p : o = sessions[x].order /\ p = sessions[x].pile
        OBVIOUS
    <2>1. p \in Piles /\ o \in Charging(p)
        BY <1>4, <2>0, EndsActive DEF Charging
    <2>2. /\ Becomes(o, target, orders[o].pile) /\ target \notin {"CHARGING"}
          /\ work \in {"IDLE", "FAULT"}
          /\ Turns(p, piles[p].phys, work)
        BY <1>4, <2>0 DEF Ends
    <2>3. \A q : Charging(q)' = Charging(q) \ {o}
        BY <2>2, BecomesViews DEF Charging
    <2>4. Charging(p) = {o}
        BY <1>0, <2>1
    <2>5. \A q : q # p => o \notin Charging(q)
        BY <2>1 DEF Charging, OnPile
    <2>6. Charging(p)' = {} /\ \A q \in Piles \ {p} : Charging(q)' = Charging(q)
        BY <2>3, <2>4, <2>5
    <2>7. PICK phys : Turns(p, phys, work)
        BY <2>2
    <2> QED
        BY <1>3, <2>1, <2>2, <2>6, <2>7
<1>5. ASSUME Kept, NEW p \in Piles, NEW work \in {"IDLE", "FAULT"}, NEW phys,
             Charging(p) = {}, Turns(p, phys, work)
      PROVE  PilesSerial'
    <2>1. \A q : Charging(q)' = Charging(q)
        BY <1>5, KeptViews DEF Charging
    <2> QED
        BY <1>3, <1>5, <2>1
<1> QED
    BY <1>1, <1>2, <1>4, <1>5 DEF PileOutcome

\* Where the piles and what charges there stay, so does what a step relies on.
LEMMA KeptPileValid ==
    ASSUME \A p \in Piles : piles'[p] = piles[p], \A p : Charging(p)' = Charging(p),
           NEW st, PileValid(st)
    PROVE  PileValid(st)'
BY DEF PileValid, Works, Wakes, Woken, WorkAfterSwitch

\* Where another order ends: its pile was charging, so no step relied on it.
LEMMA EndsPileValid ==
    ASSUME BooksInv, OrdersSerial, PilesSerial, NEW x, NEW target, NEW work,
           Ends(x, target, work), NEW st, PileValid(st)
    PROVE  PileValid(st)'
<1> DEFINE o == sessions[x].order
           p == sessions[x].pile
<1>1. p \in Piles /\ o \in Charging(p)
    BY EndsActive DEF Charging
<1>2. /\ Becomes(o, target, orders[o].pile) /\ target \notin {"CHARGING"}
      /\ Turns(p, piles[p].phys, work)
    BY DEF Ends
<1> HIDE DEF o, p
<1>3. \A q : Charging(q)' \subseteq Charging(q)
    BY <1>2, BecomesViews DEF Charging
<1>4. piles[p].work = "CHARGING"
    BY <1>1 DEF PilesSerial
<1>5. \A q : Works(q) => Works(q)'
    BY <1>2, <1>4 DEF Works, Turns
<1>6. \A q : Charging(q) = {} => Charging(q)' = {}
    BY <1>3
<1>7. \A q, other : Charging(q) \subseteq {other} => Charging(q)' \subseteq {other}
    BY <1>3
<1>8. \A q \in Piles : Charging(q) = {} => WorkAfterSwitch(q)' = WorkAfterSwitch(q)
    BY <1>1, <1>2 DEF WorkAfterSwitch, Turns
<1> QED
    BY <1>5, <1>6, <1>7, <1>8 DEF PileValid, Wakes, Woken

\* What the step that is taken leaves to others stays valid.
LEMMA LeftPileValid ==
    ASSUME HandlersInv, OrdersSerial, PilesSerial, NEW s \in Slots, todo[s] # <<>>,
           Valid(Head(todo[s])), Writes(s),
           NEW st, Relies(st), Pair(Head(todo[s]), st), PileValid(st)
    PROVE  PileValid(st)'
<1> DEFINE step == Head(todo[s])
<1>0. \A op : At(s, op) /\ op # "lock" => step.op = op /\ Kind(step) = op
    BY KindOfOp DEF At
<1>1. CASE Kept /\ UNCHANGED piles
    <2>1. \A p : Charging(p)' = Charging(p)
        BY <1>1, KeptViews DEF Charging
    <2> QED
        BY <1>1, <2>1, KeptPileValid
<1>2. CASE \/ At(s, "create") \/ At(s, "setCanceled") \/ At(s, "assign") \/ At(s, "start")
           \/ At(s, "setPower") \/ At(s, "setFault")
    <2>1. Kind(step) \in {"create", "setCanceled", "assign", "start", "setPower", "setFault"}
        BY <1>0, <1>2
    <2> QED
        BY <2>1, PairKinds DEF Relying
<1>3. CASE At(s, "continue") /\ \E u : Adds(u)
    <2>1. \A p : Charging(p)' = Charging(p)
        BY <1>3, AddsViews DEF Charging
    <2> QED
        BY <1>3, <2>1, KeptPileValid DEF Adds
<1>4. CASE At(s, "wake") /\ Charges(step.order, step.pile)
    <2>1. Wakes(step) /\ Woken(step) = step /\ Kind(step) = "wake"
        BY <1>0, <1>4, WakeIsIt
    <2>2. Together(step, st)
        BY <2>1 DEF Pair, Relies, Relying
    <2>3. Wakes(st) /\ Woken(st).pile # step.pile
        BY <2>1, <2>2 DEF Together
    <2>4. Works(Woken(st).pile)
        BY <2>3 DEF PileValid
    <2>5. Works(Woken(st).pile)'
        BY <1>4, <2>3, <2>4 DEF Works, Woken, Charges, Turns
    <2> QED
        BY <2>3, <2>5 DEF PileValid, Wakes, Woken
<1>5. CASE \E x, target, work : Ends(x, target, work)
    BY <1>5, EndsPileValid DEF HandlersInv
<1>6. ~Idle(s)
    BY DEF Idle
<1> QED
    BY <1>1, <1>2, <1>3, <1>4, <1>5, <1>6 DEF Writes

\* Every step of the server keeps the story of the piles.
LEMMA PilesNext ==
    ASSUME OneAtATime, UiDiscipline, HandlersInv, SerialInv, PilesInv, [Next]_vars
    PROVE  PilesInv' /\ PileOutcome
<1>1. ASSUME NEW s \in Slots, DriverRequest(s) \/ AdminRequest(s) \/ Serve(s)
      PROVE  PilesInv' /\ PileOutcome
    <2>1. /\ Proceeds(s) /\ Writes(s)
          /\ todo[s] # <<>> => Valid(Head(todo[s])) /\ Head(todo[s]) \in Left(s)
        BY <1>1, SlotSerial
    <2>2. todo[s] # <<>> => PileValid(Head(todo[s]))
        BY <2>1 DEF PilesInv
    <2>3. PileOutcome
        BY <2>1, <2>2, SlotPiles DEF SerialInv, PilesInv
    <2>4. PilesSerial'
        BY <2>3, PilesSerialNext DEF HandlersInv, SerialInv, PilesInv
    <2>5. ASSUME NEW st \in Left(s)'
          PROVE  PileValid(st)'
        <3>1. PICK i \in DOMAIN todo'[s] : st = todo'[s][i]
            BY DEF Left
        <3>2. CASE ~Relies(st)
            BY <3>2 DEF Relies, Relying, PileValid, Wakes
        <3>3. CASE Relies(st) /\ Fresh(s, st)
            <4>1. PileValid(st)
                BY <2>1, <3>3, FreshPileValid
            <4>2. Kept /\ UNCHANGED piles
                BY <3>3, SameTables DEF Fresh
            <4>3. \A p : Charging(p)' = Charging(p)
                BY <4>2, KeptViews DEF Charging
            <4> QED
                BY <4>1, <4>2, <4>3, KeptPileValid
        <3>4. CASE /\ Relies(st) /\ todo[s] # <<>> /\ st \in Left(s)
                   /\ Pair(Head(todo[s]), st)
            BY <2>1, <3>4, LeftPileValid DEF SerialInv, PilesInv
        <3> QED
            BY <2>1, <3>1, <3>2, <3>3, <3>4 DEF Proceeds
    <2>6. \A t \in Slots : t = s
        BY DEF OneAtATime
    <2> QED
        BY <2>3, <2>4, <2>5, <2>6 DEF PilesInv
<1>2. ASSUME Kept, UNCHANGED piles
      PROVE  /\ PileOutcome /\ PilesSerial'
             /\ \A st : PileValid(st) => PileValid(st)'
    <2>1. \A p : Charging(p)' = Charging(p)
        BY <1>2, KeptViews DEF Charging
    <2>2. PileOutcome
        BY <1>2, <2>1 DEF PileOutcome
    <2>3. PilesSerial'
        BY <2>2, PilesSerialNext DEF HandlersInv, SerialInv, PilesInv
    <2> QED
        BY <1>2, <2>1, <2>2, <2>3, KeptPileValid
<1>3. CASE Kept /\ UNCHANGED <<piles, todo>>
    <2>1. \A s \in Slots : Left(s)' = Left(s)
        BY <1>3 DEF Left
    <2> QED
        BY <1>2, <1>3, <2>1 DEF PilesInv
<1>4. CASE Kept /\ UNCHANGED piles /\ \A s \in Slots : todo'[s] = <<>>
    <2>1. \A s \in Slots : Left(s)' = {}
        BY <1>4 DEF Left
    <2> QED
        BY <1>2, <1>4, <2>1 DEF PilesInv
<1> QED
    BY <1>1, <1>3, <1>4, Around DEF HandlersInv

\* The piles begin idle.
LEMMA PilesInit == Init => PilesInv
<1> SUFFICES ASSUME Init PROVE PilesInv
    OBVIOUS
<1>1. /\ DOMAIN orders = {}
      /\ \A p \in Piles : piles[p].phys = "ON" /\ piles[p].work = "IDLE"
      /\ \A s \in Slots : todo[s] = <<>>
    BY DEF Init
<1>2. \A p : Charging(p) = {}
    BY <1>1 DEF Charging, OnPile, OrdersIn
<1> QED
    BY <1>1, <1>2 DEF PilesInv, PilesSerial, Left

\* A pile that a handler is about to start works.
THEOREM PilesHold ==
    ASSUME OneAtATime, UiDiscipline
    PROVE  Spec => []PilesInv
<1>1. HandlersInv /\ SerialInv /\ PilesInv /\ [Next]_vars => PilesInv'
    BY PilesNext
<1> QED
    BY <1>1, PilesInit, HandlersHold, SerialHolds, PTL DEF Spec

\* Orders, sessions and piles tell the same story of every pile: one order charges
\* where workingState says so, and has the one active session there.
THEOREM PileStoryHolds ==
    ASSUME OneAtATime, UiDiscipline
    PROVE  Spec => []PileStoryAgrees
<1>1. SerialInv /\ PilesInv => PileStoryAgrees
    <2> SUFFICES ASSUME SerialInv, PilesInv, NEW p \in Piles
                 PROVE  /\ Cardinality(Charging(p)) <= 1
                        /\ (piles[p].work = "CHARGING") <=> (Charging(p) # {})
                        /\ Cardinality(ActiveOn(p)) = Cardinality(Charging(p))
                        /\ {sessions[x].order : x \in ActiveOn(p)} = Charging(p)
        BY DEF PileStoryAgrees, Charging
    <2>1. /\ piles[p].work = "CHARGING" <=> Charging(p) # {}
          /\ \A o, other \in Charging(p) : o = other
        BY DEF PilesInv, PilesSerial
    <2>2. \A x \in ActiveOn(p) : /\ sessions[x].order \in Charging(p)
                                 /\ ActiveSessions(sessions[x].order) = {x}
        BY DEF ActiveOn, Charging, SerialInv, OrdersSerial
    <2>3. ASSUME NEW o \in Charging(p)
          PROVE  \E x \in ActiveOn(p) : sessions[x].order = o
        <3>1. o \in OrdersIn({"CHARGING"}) /\ orders[o].pile = p
            BY DEF Charging, OnPile
        <3>2. PICK x \in ActiveSessions(o) : TRUE
            BY <3>1 DEF SerialInv, OrdersSerial
        <3>3. x \in DOMAIN sessions /\ sessions[x].order = o /\ sessions[x].state = "ACTIVE"
            BY <3>2 DEF ActiveSessions
        <3>4. o \in OnPile(sessions[x].pile, {"CHARGING"})
            BY <3>3 DEF SerialInv, OrdersSerial
        <3> QED
            BY <3>1, <3>3, <3>4 DEF OnPile, ActiveOn
    <2>4. CASE Charging(p) = {}
        <3>1. ActiveOn(p) = {} /\ {sessions[x].order : x \in ActiveOn(p)} = {}
            BY <2>2, <2>4
        <3>2. Cardinality(Charging(p)) = 0 /\ Cardinality(ActiveOn(p)) = 0
            BY <2>4, <3>1, FS_EmptySet
        <3> QED
            BY <2>1, <2>4, <3>1, <3>2
    <2>5. CASE Charging(p) # {}
        <3>1. PICK o : Charging(p) = {o}
            BY <2>1, <2>5
        <3>2. PICK x \in ActiveOn(p) : sessions[x].order = o
            BY <2>3, <3>1
        <3>3. \A y \in ActiveOn(p) : sessions[y].order = o /\ {y} = {x}
            BY <2>2, <3>1, <3>2
        <3>4. ActiveOn(p) = {x}
            BY <3>2, <3>3
        <3>5. {sessions[y].order : y \in ActiveOn(p)} = {o}
            BY <3>2, <3>4
        <3>6. Cardinality(Charging(p)) = 1 /\ Cardinality(ActiveOn(p)) = 1
            BY <3>1, <3>4, FS_Singleton
        <3> QED
            BY <2>1, <3>1, <3>5, <3>6
    <2> QED
        BY <2>4, <2>5
<1> QED
    BY <1>1, SerialHolds, PilesHold, PTL

-----------------------------------------------------------------------------
(* The station implements OrderLifecycle *)

StatusOf == [o \in OrderIds |-> IF o \in DOMAIN orders THEN orders[o].status ELSE "ABSENT"]
PlaceOf == [o \in OrderIds |-> IF o \in OrdersIn(Occupying) THEN orders[o].pile ELSE None]

\* Before the first order nothing is there.
LEMMA LifecycleInit == Init => Lifecycle!Init
<1> SUFFICES ASSUME Init PROVE Lifecycle!Init
    OBVIOUS
<1>1. DOMAIN orders = {} /\ DOMAIN details = {} /\ OrdersIn(Occupying) = {}
    BY DEF Init, OrdersIn
<1>2. StatusOf = [o \in OrderIds |-> "ABSENT"]
    BY <1>1 DEF StatusOf
<1>3. PlaceOf = [o \in OrderIds |-> None]
    BY <1>1 DEF PlaceOf
<1> QED
    BY <1>1, <1>2, <1>3 DEF Lifecycle!Init, StatusOf, PlaceOf

\* Where the orders say the same, the drivers see the same.
LEMMA LifecycleKept == ASSUME Kept PROVE UNCHANGED Lifecycle!lifecycle
<1>1. /\ DOMAIN orders' = DOMAIN orders
      /\ \A o \in DOMAIN orders : /\ orders'[o].status = orders[o].status
                                  /\ orders'[o].pile = orders[o].pile
      /\ OrdersIn(Occupying)' = OrdersIn(Occupying)
      /\ DOMAIN details' = DOMAIN details
    BY KeptViews DEF Kept, OrdersSame, Same
<1>2. StatusOf' = StatusOf
    BY <1>1 DEF StatusOf
<1>3. OrdersIn(Occupying) \subseteq DOMAIN orders
    BY DEF OrdersIn
<1>4. PlaceOf' = PlaceOf
    BY <1>1, <1>3 DEF PlaceOf
<1> QED
    BY <1>1, <1>2, <1>4 DEF Lifecycle!lifecycle, StatusOf, PlaceOf

\* One order becomes another.
LEMMA LifecycleBecomes ==
    ASSUME NEW o, NEW status, NEW p, Becomes(o, status, p), DOMAIN orders \subseteq OrderIds
    PROVE  /\ o \in OrderIds /\ StatusOf[o] = orders[o].status
           /\ StatusOf' = [StatusOf EXCEPT ![o] = status]
           /\ PlaceOf' = [PlaceOf EXCEPT ![o] = IF status \in Occupying THEN p ELSE None]
<1>1. /\ o \in DOMAIN orders /\ DOMAIN orders' = DOMAIN orders
      /\ \A i \in DOMAIN orders \ {o} : /\ orders'[i].status = orders[i].status
                                        /\ orders'[i].pile = orders[i].pile
      /\ orders'[o].status = status /\ orders'[o].pile = p
    BY DEF Becomes, Same
<1>2. OrdersIn(Occupying)' = IF status \in Occupying THEN OrdersIn(Occupying) \cup {o}
                             ELSE OrdersIn(Occupying) \ {o}
    BY BecomesViews
<1>3. o \in OrderIds /\ StatusOf[o] = orders[o].status
    BY <1>1 DEF StatusOf
<1>4. StatusOf' = [StatusOf EXCEPT ![o] = status]
    BY <1>1, <1>3 DEF StatusOf
<1>5. OrdersIn(Occupying) \subseteq DOMAIN orders
    BY DEF OrdersIn
<1>6. PlaceOf' = [PlaceOf EXCEPT ![o] = IF status \in Occupying THEN p ELSE None]
    BY <1>1, <1>2, <1>3, <1>5 DEF PlaceOf
<1> QED
    BY <1>3, <1>4, <1>6

\* A submission, or a continuation.
LEMMA LifecycleSubmit ==
    ASSUME NEW u, Adds(u), DOMAIN orders \subseteq OrderIds
    PROVE  Lifecycle!Next
<1>1. PICK o \in OrderIds \ DOMAIN orders :
          /\ DOMAIN orders' = DOMAIN orders \cup {o}
          /\ orders'[o].status = "WAITING"
          /\ \A i \in DOMAIN orders : Same(i)
          /\ \A A : OrdersIn(A)' = IF "WAITING" \in A THEN OrdersIn(A) \cup {o} ELSE OrdersIn(A)
    BY AddsViews
<1>2. OrdersIn(Occupying)' = OrdersIn(Occupying)
    BY <1>1 DEF Occupying
<1>3. OrdersIn(Occupying) \subseteq DOMAIN orders
    BY DEF OrdersIn
<1>4. StatusOf[o] = "ABSENT"
    BY <1>1 DEF StatusOf
<1>5. StatusOf' = [StatusOf EXCEPT ![o] = "WAITING"]
    BY <1>1 DEF StatusOf, Same
<1>6. PlaceOf' = [PlaceOf EXCEPT ![o] = None]
    BY <1>1, <1>2, <1>3 DEF PlaceOf, Same
<1>7. DOMAIN details' = DOMAIN details
    BY DEF Adds, BooksSame
<1>8. Lifecycle!Submit(o)
    BY <1>4, <1>5, <1>6, <1>7 DEF Lifecycle!Submit, Lifecycle!Become, StatusOf, PlaceOf
<1> QED
    BY <1>1, <1>8 DEF Lifecycle!Next

\* A pending order goes on: it is canceled, queued, or begins to charge on a pile
\* where nothing charges.
LEMMA LifecyclePending ==
    ASSUME BooksInv, OrdersSerial, PilesSerial', NEW o \in OrdersIn(Pending),
           Cancels(o) \/ \E p \in Piles : Places(o, p) \/ Charges(o, p)
    PROVE  Lifecycle!Next
<1>0. DOMAIN orders \subseteq OrderIds /\ orders[o].status \in {"WAITING", "IN_PILE_QUEUE"}
    BY DEF BooksInv, RowsLinked, OrdersIn, Pending
<1>1. CASE Cancels(o)
    <2>1. Becomes(o, "CANCELED", None) /\ DOMAIN details' = DOMAIN details
        BY <1>1 DEF Cancels, BooksSame
    <2>2. /\ o \in OrderIds /\ StatusOf[o] \in {"WAITING", "IN_PILE_QUEUE"}
          /\ StatusOf' = [StatusOf EXCEPT ![o] = "CANCELED"]
          /\ PlaceOf' = [PlaceOf EXCEPT ![o] = None]
        BY <1>0, <2>1, LifecycleBecomes
    <2>3. Lifecycle!Cancel(o)
        BY <2>1, <2>2 DEF Lifecycle!Cancel, Lifecycle!Pending, Lifecycle!Become, StatusOf, PlaceOf
    <2> QED
        BY <2>2, <2>3 DEF Lifecycle!Next
<1>2. ASSUME NEW p \in Piles, Places(o, p)
      PROVE  Lifecycle!Next
    <2>1. Becomes(o, "IN_PILE_QUEUE", p) /\ DOMAIN details' = DOMAIN details
        BY <1>2 DEF Places, BooksSame
    <2>2. /\ o \in OrderIds /\ StatusOf[o] \in {"WAITING", "IN_PILE_QUEUE"}
          /\ StatusOf' = [StatusOf EXCEPT ![o] = "IN_PILE_QUEUE"]
          /\ PlaceOf' = [PlaceOf EXCEPT ![o] = p]
        BY <1>0, <2>1, LifecycleBecomes DEF Occupying
    <2>3. Lifecycle!Enqueue(o, p)
        BY <2>1, <2>2 DEF Lifecycle!Enqueue, Lifecycle!Pending, Lifecycle!Become, StatusOf, PlaceOf
    <2> QED
        BY <1>2, <2>2, <2>3 DEF Lifecycle!Next
<1>3. ASSUME NEW p \in Piles, Charges(o, p)
      PROVE  Lifecycle!Next
    <2>1. Becomes(o, "CHARGING", p) /\ DOMAIN details' = DOMAIN details
        BY <1>3 DEF Charges
    <2>2. /\ o \in OrderIds /\ StatusOf[o] \in {"WAITING", "IN_PILE_QUEUE"}
          /\ StatusOf' = [StatusOf EXCEPT ![o] = "CHARGING"]
          /\ PlaceOf' = [PlaceOf EXCEPT ![o] = p]
        BY <1>0, <2>1, LifecycleBecomes DEF Occupying
    <2>3. Charging(p) = {}
        <3>1. "CHARGING" \in {"CHARGING"}
            OBVIOUS
        <3>2. Charging(p)' = Charging(p) \cup {o}
            BY <2>1, <3>1, BecomesViews DEF Charging
        <3>3. o \notin Charging(p)
            BY PendingRests DEF Charging
        <3>4. \A i, other \in Charging(p)' : i = other
            BY DEF PilesSerial
        <3> QED
            BY <3>2, <3>3, <3>4
    <2>4. \A i \in OrderIds : ~(StatusOf[i] = "CHARGING" /\ PlaceOf[i] = p)
        <3> SUFFICES ASSUME NEW i \in OrderIds, StatusOf[i] = "CHARGING", PlaceOf[i] = p
                     PROVE  FALSE
            OBVIOUS
        <3>1. i \in OrdersIn({"CHARGING"}) /\ i \in OrdersIn(Occupying)
            BY DEF StatusOf, OrdersIn, Occupying
        <3>2. orders[i].pile = p
            BY <3>1 DEF PlaceOf
        <3>3. i \in Charging(p)
            BY <3>1, <3>2 DEF Charging, OnPile
        <3> QED
            BY <2>3, <3>3
    <2>5. Lifecycle!Charge(o, p)
        BY <2>1, <2>2, <2>4 DEF Lifecycle!Charge, Lifecycle!Pending, Lifecycle!ChargingAt,
            Lifecycle!Become, StatusOf, PlaceOf
    <2> QED
        BY <1>3, <2>2, <2>5 DEF Lifecycle!Next
<1> QED
    BY <1>1, <1>2, <1>3

\* The bill ends the order, and it is the order that was charging.
LEMMA LifecycleEnd ==
    ASSUME BooksInv, OrdersSerial, NEW x, NEW target, NEW work, Ends(x, target, work)
    PROVE  Lifecycle!Next
<1>0. PICK o : o = sessions[x].order
    OBVIOUS
<1>1. /\ Becomes(o, target, orders[o].pile) /\ target \in {"FINISHED", "ABORTED"}
      /\ DOMAIN details' = DOMAIN details \cup {o}
    BY <1>0 DEF Ends
<1>2. o \in OrdersIn({"CHARGING"})
    BY <1>0, EndsActive
<1>3. orders[o].status = "CHARGING" /\ DOMAIN orders \subseteq OrderIds
    BY <1>2 DEF OrdersIn, BooksInv, RowsLinked
<1>4. target \notin Occupying
    BY <1>1 DEF Occupying
<1>5. /\ o \in OrderIds /\ StatusOf[o] = "CHARGING"
      /\ StatusOf' = [StatusOf EXCEPT ![o] = target]
      /\ PlaceOf' = [PlaceOf EXCEPT ![o] = None]
    BY <1>1, <1>3, <1>4, LifecycleBecomes
<1>6. Lifecycle!End(o, target)
    BY <1>1, <1>5 DEF Lifecycle!End, Lifecycle!Become, StatusOf, PlaceOf
<1> QED
    BY <1>1, <1>5, <1>6 DEF Lifecycle!Next

\* The drivers see the life of an order as OrderLifecycle tells it: submitted,
\* queued, charging alone on its pile, ended with a bill or canceled without.
THEOREM LifecycleRefined ==
    ASSUME OneAtATime, UiDiscipline
    PROVE  Spec => LifecycleHolds
<1>1. ASSUME HandlersInv, SerialInv, PilesInv', [Next]_vars
      PROVE  [Lifecycle!Next]_Lifecycle!lifecycle
    <2>1. Outcome
        <3>1. CASE \E s \in Slots : DriverRequest(s) \/ AdminRequest(s) \/ Serve(s)
            BY <1>1, <3>1, SlotSerial
        <3>2. CASE Kept
            BY <3>2 DEF Outcome
        <3> QED
            BY <1>1, <3>1, <3>2, Around DEF HandlersInv
    <2>2. CASE Kept
        BY <2>2, LifecycleKept
    <2>3. CASE \E u : Adds(u)
        BY <1>1, <2>3, LifecycleSubmit DEF HandlersInv, BooksInv, RowsLinked
    <2>4. CASE \E o \in OrdersIn(Pending) :
                  Cancels(o) \/ \E p \in Piles : Places(o, p) \/ Charges(o, p)
        BY <1>1, <2>4, LifecyclePending DEF HandlersInv, SerialInv, PilesInv
    <2>5. CASE \E x, target, work : Ends(x, target, work)
        BY <1>1, <2>5, LifecycleEnd DEF HandlersInv, SerialInv
    <2> QED
        BY <2>1, <2>2, <2>3, <2>4, <2>5 DEF Outcome
<1>2. HandlersInv /\ SerialInv /\ PilesInv' /\ [Next]_vars
        => [Lifecycle!Next]_Lifecycle!lifecycle
    BY <1>1
<1> QED
    BY <1>2, LifecycleInit, HandlersHold, SerialHolds, PilesHold, PTL
    DEF Spec, LifecycleHolds, Lifecycle!Spec


-----------------------------------------------------------------------------
(* Queue numbers, and the room in the waiting area *)

Interrupted == {o \in DOMAIN orders : InterruptedBy(o)}

Suffixed(no) == [no EXCEPT !.suffixes = @ + 1]

(* A number is one order's, of the letter of its mode; only what a fault    *)
(* interrupted has a suffix, and what is aborted has a bill.                *)
NumbersSerial ==
    /\ \A o, other \in DOMAIN orders : orders[o].no = orders[other].no => o = other
    /\ \A o \in DOMAIN orders : /\ orders[o].no.prefix = orders[o].mode
                                /\ orders[o].no.suffixes > 0 => orders[o].status = "ABORTED"
    /\ OrdersIn({"ABORTED"}) \subseteq DOMAIN details

(* The bill of o leaves what st is about to ask for, but for the rounding.  *)
Covers(o, st) ==
    /\ o \in OrdersIn({"ABORTED"}) /\ o \in DOMAIN details
    /\ orders[o].user = st.active.user
    /\ AddsUp(details[o].amount, st.amount, orders[o].amount)

(* What a step relies on of numbers, amounts and room.  A continuation      *)
(* waits for the old order to give up its number; from then on the waiting  *)
(* area may hold one order more.                                            *)
NumberValid(st) ==
    /\ Kind(st) \in {"create", "retry"} => WaitingRoom
    /\ Kind(st) = "create" =>
          \A o \in DOMAIN orders : orders[o].no.prefix = st.mode
                                      => orders[o].no.number < st.no.number
    /\ Kind(st) \in {"create", "setMode"} => st.no.prefix = st.mode /\ st.no.suffixes = 0
    /\ Kind(st) \in {"setMode", "setAmount"} => st.order \in OrdersIn({"WAITING"})
    /\ Kind(st) = "remaining" =>
          /\ st.order \in OrdersIn({"CHARGING", "ABORTED"})
          /\ orders[st.order].no = st.active.no
          /\ orders[st.order].amount = st.active.amount
          /\ st.active.no.prefix = st.active.mode /\ st.active.no.suffixes = 0
    /\ Kind(st) = "rename" =>
          /\ st.order \in OrdersIn({"ABORTED"})
          /\ orders[st.order].no = st.no /\ st.no.suffixes = 0
    /\ Kind(st) = "continue" =>
          /\ st.active.no.prefix = st.active.mode /\ st.active.no.suffixes = 0
          /\ \E o \in DOMAIN orders :
                /\ Covers(o, st)
                /\ \/ orders[o].no = st.active.no
                   \/ /\ orders[o].no = Suffixed(st.active.no)
                      /\ Cardinality(OrdersIn({"WAITING"}))
                            < WaitingAreaSize + Cardinality(Interrupted)

NumbersInv ==
    /\ NumbersSerial
    /\ WaitingWithinArea
    /\ \A s \in Slots : \A st \in Left(s) : NumberValid(st)

(* What is written of numbers, modes and amounts.                           *)
Told(o) ==
    /\ orders'[o].no = orders[o].no
    /\ orders'[o].mode = orders[o].mode
    /\ orders'[o].amount = orders[o].amount

NumbersSame == \A o \in DOMAIN orders : Told(o)

Rewrites(o, no, mode, amount) ==
    /\ Kept
    /\ \A other \in DOMAIN orders \ {o} : Told(other)
    /\ o \in DOMAIN orders => /\ orders'[o].no = no
                              /\ orders'[o].mode = mode
                              /\ orders'[o].amount = amount

Creates(u, mode, amount, no) ==
    /\ ~QueueNoTaken(no, None)
    /\ BooksSame
    /\ NumbersSame
    /\ \E o \in OrderIds \ DOMAIN orders :
          /\ DOMAIN orders' = DOMAIN orders \cup {o}
          /\ \A other \in DOMAIN orders : Same(other)
          /\ orders'[o].status = "WAITING"
          /\ orders'[o].user = u /\ orders'[o].mode = mode
          /\ orders'[o].amount = amount /\ orders'[o].no = no

Numbers(s) ==
    LET step == Head(todo[s])
        o == step.order
    IN  \/ NumbersSame /\ DOMAIN orders' = DOMAIN orders
        \/ At(s, "create") /\ Creates(step.user, step.mode, step.amount, step.no)
        \/ At(s, "continue")
              /\ Creates(step.active.user, step.active.mode, step.amount, step.active.no)
        \/ At(s, "setMode") /\ ~QueueNoTaken(step.no, o)
              /\ Rewrites(o, step.no, step.mode, orders[o].amount)
        \/ At(s, "setAmount") /\ Rewrites(o, orders[o].no, orders[o].mode, step.amount)
        \/ At(s, "rename") /\ ~QueueNoTaken(Suffixed(step.no), o)
              /\ Rewrites(o, Suffixed(step.no), orders[o].mode, orders[o].amount)

\* A row is written that is called the same and asks for the same.
LEMMA RowTold ==
    ASSUME NEW o, NEW row, orders' = [orders EXCEPT ![o] = row],
           o \in DOMAIN orders => /\ row.no = orders[o].no
                                  /\ row.mode = orders[o].mode
                                  /\ row.amount = orders[o].amount
    PROVE  NumbersSame /\ DOMAIN orders' = DOMAIN orders
BY DEF NumbersSame, Told

\* A row is written that is called something else or asks for something else.
LEMMA RowRewrites ==
    ASSUME NEW o, NEW row, orders' = [orders EXCEPT ![o] = row], BooksSame,
           NEW no, NEW mode, NEW amount,
           o \in DOMAIN orders => /\ row.user = orders[o].user
                                  /\ row.status = orders[o].status
                                  /\ row.pile = orders[o].pile
                                  /\ row.no = no /\ row.mode = mode /\ row.amount = amount
    PROVE  Rewrites(o, no, mode, amount)
<1>1. Kept
    BY RowSame DEF Kept
<1> QED
    BY <1>1 DEF Rewrites, Told

\* A row of a new order is written.
LEMMA NewCreates ==
    ASSUME NEW u, NEW mode, NEW amount, NEW no, NewOrder(u, mode, amount, no),
           ~QueueNoTaken(no, None), BooksSame
    PROVE  Creates(u, mode, amount, no)
<1> DEFINE row == [user |-> u, mode |-> mode, amount |-> amount, no |-> no,
                   status |-> "WAITING", pile |-> None]
<1>1. PICK o \in NextId(orders, OrderIds) : orders' = Insert(orders, o, row)
    BY DEF NewOrder
<1>2. /\ row.user = u /\ row.mode = mode /\ row.amount = amount /\ row.no = no
      /\ row.status = "WAITING"
    OBVIOUS
<1> HIDE DEF row
<1>3. o \in OrderIds \ DOMAIN orders
    BY <1>1 DEF NextId
<1>4. /\ DOMAIN orders' = DOMAIN orders \cup {o} /\ orders'[o] = row
      /\ \A other \in DOMAIN orders : orders'[other] = orders[other]
    BY <1>1, <1>3 DEF Insert
<1> QED
    BY <1>2, <1>3, <1>4 DEF Creates, NumbersSame, Told, Same

\* The driver's requests: a new number, another mode or amount.
LEMMA ChargingNumbers ==
    ASSUME HandlersInv, NEW s \in Slots, ServeCharging(s)
    PROVE  Numbers(s)
<1> DEFINE step == Head(todo[s])
           o == step.order
<1>0. \A i \in DOMAIN orders : orders[i] \in OrderRow
    BY DEF HandlersInv, RowsOK, OrdersOK
<1>1. CASE UNCHANGED orders
    BY <1>1 DEF Numbers, NumbersSame, Told
<1>2. CASE Create(s) /\ ~UNCHANGED orders
    <2>1. /\ At(s, "create") /\ BooksSame /\ ~QueueNoTaken(step.no, None)
          /\ NewOrder(step.user, step.mode, step.amount, step.no)
        BY <1>2, SameTables DEF Create
    <2> QED
        BY <2>1, NewCreates DEF Numbers
<1>3. CASE SetMode(s) /\ ~UNCHANGED orders
    <2> DEFINE row == [orders[o] EXCEPT !.mode = step.mode, !.no = step.no]
    <2>1. /\ At(s, "setMode") /\ ~QueueNoTaken(step.no, o) /\ BooksSame
          /\ orders' = [orders EXCEPT ![o] = row]
        BY <1>3, SameTables DEF SetMode
    <2>2. o \in DOMAIN orders =>
          /\ row.user = orders[o].user /\ row.status = orders[o].status
          /\ row.pile = orders[o].pile
          /\ row.no = step.no /\ row.mode = step.mode /\ row.amount = orders[o].amount
        BY <1>0 DEF OrderRow
    <2> HIDE DEF row
    <2> QED
        BY <2>1, <2>2, RowRewrites DEF Numbers
<1>4. CASE SetAmount(s) /\ ~UNCHANGED orders
    <2> DEFINE row == [orders[o] EXCEPT !.amount = step.amount]
    <2>1. At(s, "setAmount") /\ BooksSame /\ orders' = [orders EXCEPT ![o] = row]
        BY <1>4, SameTables DEF SetAmount
    <2>2. o \in DOMAIN orders =>
          /\ row.user = orders[o].user /\ row.status = orders[o].status
          /\ row.pile = orders[o].pile
          /\ row.no = orders[o].no /\ row.mode = orders[o].mode /\ row.amount = step.amount
        BY <1>0 DEF OrderRow
    <2> HIDE DEF row
    <2> QED
        BY <2>1, <2>2, RowRewrites DEF Numbers
<1>5. CASE SetCanceled(s)
    <2> DEFINE i == step.order
               row == [orders[i] EXCEPT !.status = "CANCELED", !.pile = None]
    <2>1. orders' = [orders EXCEPT ![i] = row]
        BY <1>5 DEF SetCanceled, LeaveLine
    <2>2. i \in DOMAIN orders => /\ row.no = orders[i].no /\ row.mode = orders[i].mode
                                 /\ row.amount = orders[i].amount
        BY <1>0 DEF OrderRow
    <2> HIDE DEF row
    <2> QED
        BY <2>1, <2>2, RowTold DEF Numbers
<1>6. CASE StartTransaction(s) /\ ~UNCHANGED orders
    <2> DEFINE row == [orders[o] EXCEPT !.status = "CHARGING"]
    <2>1. orders' = [orders EXCEPT ![o] = row]
        BY <1>6 DEF StartTransaction, BeginCharging, LeaveLine, tables
    <2>2. o \in DOMAIN orders => /\ row.no = orders[o].no /\ row.mode = orders[o].mode
                                 /\ row.amount = orders[o].amount
        BY <1>0 DEF OrderRow
    <2> HIDE DEF row
    <2> QED
        BY <2>1, <2>2, RowTold DEF Numbers
<1>7. Retry(s) => UNCHANGED orders
    BY DEF Retry, tables
<1> QED
    BY <1>1, <1>2, <1>3, <1>4, <1>5, <1>6, <1>7 DEF ServeCharging

\* An order that is placed, or begins to charge, keeps its number.
LEMMA DispatchNumbers ==
    ASSUME HandlersInv, NEW s \in Slots, ServeDispatch(s)
    PROVE  Numbers(s)
<1> DEFINE step == Head(todo[s])
           o == step.order
<1>0. \A i \in DOMAIN orders : orders[i] \in OrderRow
    BY DEF HandlersInv, RowsOK, OrdersOK
<1>1. CASE AutoCompleteCharging(s) \/ PlanBasic(s) \/ PlanFault(s) \/ PlanRecovery(s)
           \/ PlanWake(s) \/ ReadAssignment(s)
    <2>1. UNCHANGED orders
        BY <1>1 DEF AutoCompleteCharging, PlanBasic, PlanFault, PlanRecovery, PlanWake,
            ReadAssignment, tables
    <2> QED
        BY <2>1 DEF Numbers, NumbersSame, Told
<1>2. CASE Wake(s)
    <2> DEFINE row == [orders[o] EXCEPT !.status = "CHARGING"]
    <2>1. orders' = [orders EXCEPT ![o] = row]
        BY <1>2 DEF Wake, BeginCharging, LeaveLine
    <2>2. o \in DOMAIN orders => /\ row.no = orders[o].no /\ row.mode = orders[o].mode
                                 /\ row.amount = orders[o].amount
        BY <1>0 DEF OrderRow
    <2> HIDE DEF row
    <2> QED
        BY <2>1, <2>2, RowTold DEF Numbers
<1>3. CASE Assign(s)
    <2> DEFINE row(status) == [orders[o] EXCEPT !.status = status, !.pile = step.pile]
    <2>1. PICK status : orders' = [orders EXCEPT ![o] = row(status)]
        BY <1>3 DEF Assign, BeginCharging, LeaveLine, EnterLine
    <2>2. o \in DOMAIN orders => /\ row(status).no = orders[o].no
                                 /\ row(status).mode = orders[o].mode
                                 /\ row(status).amount = orders[o].amount
        BY <1>0 DEF OrderRow
    <2> HIDE DEF row
    <2> QED
        BY <2>1, <2>2, RowTold DEF Numbers
<1> QED
    BY <1>1, <1>2, <1>3 DEF ServeDispatch

\* A fault gives the interrupted order a suffix, and its number to another.
LEMMA PileNumbers ==
    ASSUME HandlersInv, NEW s \in Slots, ServePile(s)
    PROVE  Numbers(s)
<1> DEFINE step == Head(todo[s])
           o == step.order
<1>0. \A i \in DOMAIN orders : orders[i] \in OrderRow
    BY DEF HandlersInv, RowsOK, OrdersOK
<1>1. CASE UNCHANGED orders
    BY <1>1 DEF Numbers, NumbersSame, Told
<1>2. SetPower(s) \/ SetFault(s) \/ Remainder(s) \/ Affected(s) => UNCHANGED orders
    BY DEF SetPower, SetFault, Remainder, Affected, tables
<1>3. CASE Rename(s) /\ ~UNCHANGED orders
    <2> DEFINE no == Suffixed(step.no)
               row == [orders[o] EXCEPT !.no = no]
    <2>1. /\ At(s, "rename") /\ ~QueueNoTaken(no, o) /\ BooksSame
          /\ orders' = [orders EXCEPT ![o] = row]
        BY <1>3, SameTables DEF Rename, Suffixed
    <2>2. o \in DOMAIN orders =>
          /\ row.user = orders[o].user /\ row.status = orders[o].status
          /\ row.pile = orders[o].pile
          /\ row.no = no /\ row.mode = orders[o].mode /\ row.amount = orders[o].amount
        BY <1>0 DEF OrderRow
    <2> HIDE DEF row
    <2> QED
        BY <2>1, <2>2, RowRewrites DEF Numbers
<1>4. CASE Continue(s) /\ ~UNCHANGED orders
    <2> DEFINE old == step.active
    <2>1. /\ At(s, "continue") /\ BooksSame /\ ~QueueNoTaken(old.no, None)
          /\ NewOrder(old.user, old.mode, step.amount, old.no)
        BY <1>4, SameTables DEF Continue
    <2> QED
        BY <2>1, NewCreates DEF Numbers
<1> QED
    BY <1>1, <1>2, <1>3, <1>4 DEF ServePile

\* Every step of a slot writes so.
LEMMA SlotNumbers ==
    ASSUME HandlersInv, NEW s \in Slots, DriverRequest(s) \/ AdminRequest(s) \/ Serve(s)
    PROVE  Numbers(s)
<1>1. CASE UNCHANGED orders
    BY <1>1 DEF Numbers, NumbersSame, Told
<1>2. DriverRequest(s) => UNCHANGED orders
    BY DEF DriverRequest, SubmitRequest, ModifyMode, ModifyAmount, CancelQueued, CancelCharging,
        Start, Stop, QueueStatus, tables
<1>3. AdminRequest(s) => UNCHANGED orders
    BY DEF AdminRequest, PowerOn, PowerOff, ReportFault, Recover, Reschedule, BasicAll, Basic,
        SingleOptimization, BatchOptimization, tables
<1>4. ReadForBill(s) \/ Lock(s) \/ Unlock(s) \/ ReadPayload(s) \/ SetJson(s) => UNCHANGED orders
    BY DEF ReadForBill, Lock, Unlock, ReadPayload, SetJson, tables
<1>5. CASE Settle(s) /\ ~UNCHANGED orders
    <2> DEFINE o == sessions[Head(todo[s]).session].order
               row == [orders[o] EXCEPT !.status = Head(todo[s]).target]
    <2>1. orders' = [orders EXCEPT ![o] = row]
        BY <1>5 DEF Settle, LeaveLine, tables
    <2>2. o \in DOMAIN orders => /\ row.no = orders[o].no /\ row.mode = orders[o].mode
                                 /\ row.amount = orders[o].amount
        BY DEF HandlersInv, RowsOK, OrdersOK, OrderRow
    <2> HIDE DEF row
    <2> QED
        BY <2>1, <2>2, RowTold DEF Numbers
<1> QED
    BY <1>1, <1>2, <1>3, <1>4, <1>5, ChargingNumbers, DispatchNumbers, PileNumbers DEF Serve

-----------------------------------------------------------------------------
(* What becomes of those that wait and of those that were interrupted *)

\* One order goes on, or ends.
LEMMA RoomBecomes ==
    ASSUME NumbersSerial, NumbersSame, NEW o \in OrdersIn(Open), NEW status, NEW p,
           Becomes(o, status, p), status # "WAITING",
           DOMAIN details \subseteq DOMAIN details', status = "ABORTED" => o \in DOMAIN details',
           \A i \in DOMAIN orders : orders[i] \in OrderRow
    PROVE  /\ OrdersIn({"WAITING"})' \subseteq OrdersIn({"WAITING"})
           /\ Interrupted' = Interrupted
           /\ OrdersIn({"ABORTED"})' \subseteq DOMAIN details'
<1>1. /\ \A A : OrdersIn(A)' = IF status \in A THEN OrdersIn(A) \cup {o} ELSE OrdersIn(A) \ {o}
      /\ o \in DOMAIN orders /\ DOMAIN orders' = DOMAIN orders
      /\ \A i \in DOMAIN orders \ {o} : orders'[i].status = orders[i].status
    BY BecomesViews DEF Becomes, Same
<1>2. OrdersIn({"WAITING"})' \subseteq OrdersIn({"WAITING"})
    BY <1>1
<1>3. ~(orders[o].no.suffixes > 0)
    <2>1. orders[o].status # "ABORTED"
        BY DEF OrdersIn, Open
    <2> QED
        BY <1>1, <2>1 DEF NumbersSerial
<1>4. \A i \in DOMAIN orders : orders'[i].no = orders[i].no
    BY DEF NumbersSame, Told
<1>5. Interrupted' = Interrupted
    BY <1>1, <1>3, <1>4 DEF Interrupted, InterruptedBy
<1>6. OrdersIn({"ABORTED"})' \subseteq DOMAIN details'
    <2>1. OrdersIn({"ABORTED"}) \subseteq DOMAIN details
        BY DEF NumbersSerial
    <2> QED
        BY <1>1, <2>1
<1> QED
    BY <1>2, <1>5, <1>6

\* A step that gives no order another number.
LEMMA RoomStays ==
    ASSUME HandlersInv, OrdersSerial, NumbersSerial, Outcome, NumbersSame,
           DOMAIN orders' = DOMAIN orders
    PROVE  /\ OrdersIn({"WAITING"})' \subseteq OrdersIn({"WAITING"})
           /\ Interrupted' = Interrupted
           /\ NumbersSerial'
<1>0. \A i \in DOMAIN orders : orders[i] \in OrderRow
    BY DEF HandlersInv, RowsOK, OrdersOK
<1>1. /\ OrdersIn({"WAITING"})' \subseteq OrdersIn({"WAITING"})
      /\ Interrupted' = Interrupted
      /\ OrdersIn({"ABORTED"})' \subseteq DOMAIN details'
    <2>1. CASE Kept
        <3>1. /\ \A A : OrdersIn(A)' = OrdersIn(A)
              /\ DOMAIN details' = DOMAIN details
            BY <2>1, KeptViews DEF Kept, BooksSame
        <3>2. \A i \in DOMAIN orders : /\ orders'[i].no = orders[i].no
                                       /\ orders'[i].status = orders[i].status
            BY <2>1 DEF NumbersSame, Told, Kept, OrdersSame, Same
        <3>3. Interrupted' = Interrupted
            BY <3>2 DEF Interrupted, InterruptedBy
        <3> QED
            BY <3>1, <3>3 DEF NumbersSerial
    <2>2. ~\E u : Adds(u)
        BY DEF Adds
    <2>3. ASSUME NEW o \in OrdersIn(Pending), NEW p,
                 Cancels(o) \/ Places(o, p) \/ Charges(o, p)
          PROVE  /\ OrdersIn({"WAITING"})' \subseteq OrdersIn({"WAITING"})
                 /\ Interrupted' = Interrupted
                 /\ OrdersIn({"ABORTED"})' \subseteq DOMAIN details'
        <3>1. o \in OrdersIn(Open)
            BY PendingRests
        <3>2. PICK status, q : /\ Becomes(o, status, q)
                               /\ status \in {"CANCELED", "IN_PILE_QUEUE", "CHARGING"}
                               /\ DOMAIN details' = DOMAIN details
            BY <2>3 DEF Cancels, Places, Charges, BooksSame
        <3> QED
            BY <1>0, <3>1, <3>2, RoomBecomes
    <2>4. ASSUME NEW x, NEW target, NEW work, Ends(x, target, work)
          PROVE  /\ OrdersIn({"WAITING"})' \subseteq OrdersIn({"WAITING"})
                 /\ Interrupted' = Interrupted
                 /\ OrdersIn({"ABORTED"})' \subseteq DOMAIN details'
        <3>1. PICK o, p : o = sessions[x].order /\ p = orders[o].pile
            OBVIOUS
        <3>2. o \in OrdersIn(Open)
            BY <2>4, <3>1, EndsActive DEF HandlersInv
        <3>3. /\ Becomes(o, target, p)
              /\ target # "WAITING" /\ DOMAIN details' = DOMAIN details \cup {o}
            BY <2>4, <3>1 DEF Ends
        <3> QED
            BY <1>0, <3>2, <3>3, RoomBecomes
    <2> QED
        BY <2>1, <2>2, <2>3, <2>4 DEF Outcome
<1>2. \A o \in DOMAIN orders : orders'[o].no = orders[o].no /\ orders'[o].mode = orders[o].mode
    BY DEF NumbersSame, Told
<1>3. \A o \in DOMAIN orders' : orders'[o].no.suffixes > 0 => orders'[o].status = "ABORTED"
    <2> SUFFICES ASSUME NEW o \in DOMAIN orders, orders[o].no.suffixes > 0
                 PROVE  orders'[o].status = "ABORTED"
        BY <1>2
    <2>1. orders[o].status = "ABORTED"
        BY DEF NumbersSerial
    <2>2. o \in OrdersIn(Terminal)
        BY <2>1 DEF OrdersIn, Terminal
    <2> QED
        BY <2>1, <2>2, EndedStays DEF HandlersInv
<1>4. \A o, other \in DOMAIN orders' : orders'[o].no = orders'[other].no => o = other
    BY <1>2 DEF NumbersSerial
<1>5. \A o \in DOMAIN orders' : orders'[o].no.prefix = orders'[o].mode
    BY <1>2 DEF NumbersSerial
<1> QED
    BY <1>1, <1>3, <1>4, <1>5 DEF NumbersSerial

-----------------------------------------------------------------------------
(* What a step relies on of numbers is true when it is put into todo *)

\* A new number is larger than those of its letter.
LEMMA NextNumber ==
    ASSUME HandlersInv, NumbersSerial, NEW mode, NEW no, no = NextQueueNo(mode)
    PROVE  /\ no.prefix = mode /\ no.suffixes = 0
           /\ \A o \in DOMAIN orders : orders[o].no.prefix = mode => orders[o].no.number < no.number
BY NextQueueNoOK DEF HandlersInv, NumbersSerial

\* Only these steps rely on numbers, amounts or room.
LEMMA NumberKinds ==
    ASSUME NEW st, Kind(st) \notin {"create", "retry", "setMode", "setAmount", "remaining",
                                    "rename", "continue"}
    PROVE  NumberValid(st) /\ NumberValid(st)'
BY DEF NumberValid

\* The remainder is what the bill leaves, rounded.
LEMMA FreshContinuation ==
    ASSUME HandlersInv, SerialInv, NumbersInv, NEW s \in Slots, At(s, "remaining"),
           NEW st, st.active = Head(todo[s]).active, st.amount = Uncovered(Head(todo[s]))
    PROVE  LET o == Head(todo[s]).order
           IN  /\ Covers(o, st) /\ o \in DOMAIN orders
               /\ orders[o].no = st.active.no
               /\ st.active.no.prefix = st.active.mode /\ st.active.no.suffixes = 0
<1> DEFINE step == Head(todo[s])
<1>1. PICK o : o = step.order
    OBVIOUS
<1>2. todo[s] # <<>> /\ Kind(step) = "remaining" /\ step \in Left(s)
    BY KindOfOp, HeadLeft DEF At, HandlersInv
<1>3. /\ Valid(step) /\ NumberValid(step)
      /\ Unfinished(step.active.user) # {} => Bills(step, o)
    BY <1>1, <1>2 DEF SerialInv, TodoSerial, NumbersInv
<1>4. ~Bills(step, o)
    BY DEF Bills, At
<1>5. /\ o \in DOMAIN orders /\ orders[o].user = step.active.user
      /\ o \in OrdersIn({"CHARGING", "ABORTED"})
      /\ orders[o].no = step.active.no /\ orders[o].amount = step.active.amount
      /\ step.active.no.prefix = step.active.mode /\ step.active.no.suffixes = 0
    BY <1>1, <1>2, <1>3 DEF Valid, NumberValid
<1>6. o \notin Unfinished(step.active.user)
    BY <1>3, <1>4
<1>7. o \in OrdersIn({"ABORTED"})
    BY <1>5, <1>6 DEF Unfinished, OrdersIn, Open
<1>8. o \in DOMAIN details
    BY <1>7 DEF NumbersInv, NumbersSerial
<1>9. details[o].amount \in Nat /\ orders[o].amount \in Nat
    BY <1>5, <1>8 DEF HandlersInv, RowsOK, OrdersOK, BookRowsOK, OrderRow, DetailRow
<1>10. st.amount = Rounded(orders[o].amount - details[o].amount)
    BY <1>1, <1>5, <1>8 DEF Uncovered
<1>11. AddsUp(details[o].amount, st.amount, orders[o].amount)
    <2>1. orders[o].amount - details[o].amount \in Int
        BY <1>9
    <2> QED
        BY <1>9, <1>10, <2>1, RoundedNear, GrainAssumption DEF AddsUp
<1>12. Covers(o, st)
    BY <1>5, <1>7, <1>8, <1>11 DEF Covers
<1> QED
    BY <1>1, <1>5, <1>12

\* What the read saw.
LEMMA FreshNumbers ==
    ASSUME HandlersInv, SerialInv, NumbersInv, NEW s \in Slots, NEW st, Fresh(s, st)
    PROVE  NumberValid(st)
<1> DEFINE step == Head(todo[s])
<1>0. /\ \A op : At(s, op) => todo[s] # <<>> /\ step.op = op
      /\ todo[s] # <<>> => NumberValid(step)
    BY HeadLeft DEF At, NumbersInv, HandlersInv
<1>1. \A op : op # "lock" /\ st.op = op => Kind(st) = op
    BY KindOfOp
<1>2. CASE st.op = "create"
    <2>1. st.no = NextQueueNo(st.mode)
        BY <1>2 DEF Fresh, WakeCall, LockStep
    <2>2. WaitingRoom \/ At(s, "retry")
        BY <1>2 DEF Fresh, WakeCall, LockStep
    <2>3. At(s, "retry") => WaitingRoom
        BY <1>0, KindOfOp DEF NumberValid
    <2>4. /\ st.no.prefix = st.mode /\ st.no.suffixes = 0
          /\ \A o \in DOMAIN orders : orders[o].no.prefix = st.mode
                                         => orders[o].no.number < st.no.number
        BY <2>1, NextNumber DEF NumbersInv
    <2> QED
        BY <1>1, <1>2, <2>2, <2>3, <2>4 DEF NumberValid
<1>3. CASE st.op = "retry"
    <2>1. At(s, "create")
        BY <1>3 DEF Fresh, WakeCall, LockStep
    <2>2. WaitingRoom
        BY <1>0, <2>1, KindOfOp DEF NumberValid
    <2> QED
        BY <1>1, <1>3, <2>2 DEF NumberValid
<1>4. CASE st.op = "setMode"
    <2>1. st.no = NextQueueNo(st.mode) /\ st.order \in OrdersIn({"WAITING"})
        BY <1>4 DEF Fresh, WakeCall, LockStep
    <2>2. st.no.prefix = st.mode /\ st.no.suffixes = 0
        BY <2>1, NextNumber DEF NumbersInv
    <2> QED
        BY <1>1, <1>4, <2>1, <2>2 DEF NumberValid
<1>5. CASE st.op = "setAmount"
    <2>1. st.order \in OrdersIn({"WAITING"})
        BY <1>5 DEF Fresh, WakeCall, LockStep
    <2> QED
        BY <1>1, <1>5, <2>1 DEF NumberValid
<1>6. CASE st.op = "remaining"
    <2>1. st.order \in OnPile(st.pile, {"CHARGING"}) /\ st.active = orders[st.order]
        BY <1>6 DEF Fresh, WakeCall, LockStep
    <2>2. PICK o : o = st.order
        OBVIOUS
    <2>3. o \in DOMAIN orders /\ orders[o].status = "CHARGING"
        BY <2>1, <2>2 DEF OnPile, OrdersIn
    <2>4. orders[o].no.prefix = orders[o].mode /\ ~(orders[o].no.suffixes > 0)
        BY <2>3 DEF NumbersInv, NumbersSerial
    <2>5. orders[o].no.suffixes \in Nat
        BY <2>3 DEF HandlersInv, RowsOK, OrdersOK, OrderRow, QueueNo
    <2>6. orders[o].no.suffixes = 0 /\ o \in OrdersIn({"CHARGING", "ABORTED"})
        BY <2>3, <2>4, <2>5 DEF OrdersIn
    <2> QED
        BY <1>1, <1>6, <2>1, <2>2, <2>4, <2>6 DEF NumberValid
<1>7. CASE st.op \in {"rename", "continue"}
    <2>1. /\ At(s, "remaining")
          /\ st.op = "rename" => st = [op |-> "rename", order |-> step.order, no |-> step.active.no]
          /\ st.op = "continue" => st.active = step.active /\ st.amount = Uncovered(step)
        BY <1>7 DEF Fresh, WakeCall, LockStep
    <2>2. CASE st.op = "continue"
        <3>1. \E o \in DOMAIN orders : /\ Covers(o, st) /\ orders[o].no = st.active.no
                                       /\ st.active.no.prefix = st.active.mode
                                       /\ st.active.no.suffixes = 0
            BY <2>1, <2>2, FreshContinuation
        <3> QED
            BY <1>1, <2>2, <3>1 DEF NumberValid
    <2>3. CASE st.op = "rename"
        <3> DEFINE new == [op |-> "continue", active |-> step.active, amount |-> Uncovered(step)]
        <3>1. new.active = step.active /\ new.amount = Uncovered(step)
            OBVIOUS
        <3> HIDE DEF new
        <3>2. /\ Covers(step.order, new) /\ orders[step.order].no = new.active.no
              /\ new.active.no.suffixes = 0
            BY <2>1, <3>1, FreshContinuation
        <3>3. st.order = step.order /\ st.no = step.active.no
            BY <2>1, <2>3
        <3>4. /\ st.order \in OrdersIn({"ABORTED"}) /\ orders[st.order].no = st.no
              /\ st.no.suffixes = 0
            BY <3>1, <3>2, <3>3 DEF Covers
        <3> QED
            BY <1>1, <2>3, <3>4 DEF NumberValid
    <2> QED
        BY <1>7, <2>2, <2>3
<1>8. CASE st.op \notin {"create", "retry", "setMode", "setAmount", "remaining", "rename", "continue"}
    <2>1. Kind(st) \in {st.op, "wakeLock"}
        BY DEF Kind
    <2> QED
        BY <1>8, <2>1, NumberKinds
<1> QED
    BY <1>2, <1>3, <1>4, <1>5, <1>6, <1>7, <1>8

-----------------------------------------------------------------------------
(* It stays true until the step is taken *)

\* Where no order is called differently, and no other waits or is interrupted.
LEMMA NumberStays ==
    ASSUME NumbersSame, DOMAIN orders' = DOMAIN orders,
           \A o \in DOMAIN orders : orders'[o].user = orders[o].user,
           \A o \in DOMAIN details : o \in DOMAIN details' /\ details'[o] = details[o],
           OrdersIn({"WAITING"})' = OrdersIn({"WAITING"}),
           OrdersIn({"ABORTED"}) \subseteq OrdersIn({"ABORTED"})',
           Interrupted' = Interrupted,
           NEW st, NumberValid(st),
           Kind(st) = "remaining" => st.order \in OrdersIn({"CHARGING", "ABORTED"})'
    PROVE  NumberValid(st)'
<1>0. /\ \A o \in DOMAIN orders : /\ orders'[o].no = orders[o].no
                                  /\ orders'[o].amount = orders[o].amount
      /\ \A A : OrdersIn(A) \subseteq DOMAIN orders
    BY DEF NumbersSame, Told, OrdersIn
<1>1. Kind(st) \in {"create", "retry"} => WaitingRoom'
    BY DEF NumberValid, WaitingRoom
<1>2. Kind(st) = "create" =>
          \A o \in DOMAIN orders' : orders'[o].no.prefix = st.mode
                                       => orders'[o].no.number < st.no.number
    BY <1>0 DEF NumberValid
<1>3. Kind(st) \in {"setMode", "setAmount"} => st.order \in OrdersIn({"WAITING"})'
    BY DEF NumberValid
<1>4. Kind(st) = "remaining" => /\ orders'[st.order].no = st.active.no
                                /\ orders'[st.order].amount = st.active.amount
    BY <1>0 DEF NumberValid
<1>5. Kind(st) = "rename" => /\ st.order \in OrdersIn({"ABORTED"})'
                             /\ orders'[st.order].no = st.no
    BY <1>0 DEF NumberValid
<1>6. ASSUME NEW o, Covers(o, st)
      PROVE  Covers(o, st)'
    BY <1>0, <1>6 DEF Covers
<1>7. Kind(st) = "continue" =>
          \E o \in DOMAIN orders' :
              /\ Covers(o, st)'
              /\ \/ orders'[o].no = st.active.no
                 \/ /\ orders'[o].no = Suffixed(st.active.no)
                    /\ Cardinality(OrdersIn({"WAITING"})')
                          < WaitingAreaSize + Cardinality(Interrupted')
    BY <1>0, <1>6 DEF NumberValid
<1>8. /\ Kind(st) \in {"create", "setMode"} => st.no.prefix = st.mode /\ st.no.suffixes = 0
      /\ Kind(st) \in {"remaining", "continue"}
            => st.active.no.prefix = st.active.mode /\ st.active.no.suffixes = 0
      /\ Kind(st) = "rename" => st.no.suffixes = 0
    BY DEF NumberValid
<1> QED
    BY <1>1, <1>2, <1>3, <1>4, <1>5, <1>7, <1>8 DEF NumberValid

\* Where the orders say the same.
LEMMA NumberKept ==
    ASSUME Kept, NumbersSame,
           \A o \in DOMAIN details : o \in DOMAIN details' /\ details'[o] = details[o],
           NEW st, NumberValid(st)
    PROVE  NumberValid(st)'
<1>1. \A A : OrdersIn(A)' = OrdersIn(A)
    BY KeptViews
<1>2. /\ DOMAIN orders' = DOMAIN orders
      /\ \A o \in DOMAIN orders : /\ orders'[o].user = orders[o].user
                                  /\ orders'[o].status = orders[o].status
                                  /\ orders'[o].no = orders[o].no
    BY DEF Kept, OrdersSame, Same, NumbersSame, Told
<1>3. Interrupted' = Interrupted
    BY <1>2 DEF Interrupted, InterruptedBy
<1>4. Kind(st) = "remaining" => st.order \in OrdersIn({"CHARGING", "ABORTED"})
    BY DEF NumberValid
<1> QED
    BY <1>1, <1>2, <1>3, <1>4, NumberStays

\* Where an order ends: one that is still to be continued is aborted.
LEMMA NumberEnds ==
    ASSUME HandlersInv, OrdersSerial, NumbersSerial, NumbersSame,
           \A o \in DOMAIN details : o \in DOMAIN details' /\ details'[o] = details[o],
           NEW x, NEW target, NEW work, Ends(x, target, work),
           NEW st, NumberValid(st),
           Kind(st) = "remaining" /\ st.order = sessions[x].order => target = "ABORTED"
    PROVE  NumberValid(st)'
<1>1. PICK o, p : o = sessions[x].order /\ p = orders[o].pile
    OBVIOUS
<1>2. o \in OrdersIn({"CHARGING"})
    BY <1>1, EndsActive DEF HandlersInv
<1>3. /\ Becomes(o, target, p)
      /\ target \notin {"WAITING"}
    BY <1>1 DEF Ends
<1>4. /\ \A A : OrdersIn(A)' = IF target \in A THEN OrdersIn(A) \cup {o} ELSE OrdersIn(A) \ {o}
      /\ \A i \in DOMAIN orders : orders'[i].user = orders[i].user
    BY <1>3, BecomesViews
<1>5. DOMAIN orders' = DOMAIN orders
    BY <1>3 DEF Becomes
<1>6. o \notin OrdersIn({"WAITING"}) /\ o \notin OrdersIn({"ABORTED"})
    BY <1>2 DEF OrdersIn
<1>7. /\ OrdersIn({"WAITING"})' = OrdersIn({"WAITING"})
      /\ OrdersIn({"ABORTED"}) \subseteq OrdersIn({"ABORTED"})'
    BY <1>3, <1>4, <1>6
<1>8. Interrupted' = Interrupted
    BY <1>5, RoomStays DEF Outcome
<1>9. Kind(st) = "remaining" => st.order \in OrdersIn({"CHARGING", "ABORTED"})'
    <2> SUFFICES ASSUME Kind(st) = "remaining" PROVE st.order \in OrdersIn({"CHARGING", "ABORTED"})'
        OBVIOUS
    <2>1. st.order \in OrdersIn({"CHARGING", "ABORTED"})
        BY DEF NumberValid
    <2>2. st.order = o => target \in {"CHARGING", "ABORTED"}
        BY <1>1
    <2> QED
        BY <1>4, <2>1, <2>2
<1> QED
    BY <1>4, <1>5, <1>7, <1>8, <1>9, NumberStays

\* What is left, but for an unlock, is a step.
LEMMA LeftOK ==
    ASSUME TodoOK, NEW s \in Slots, NEW st \in Left(s), st.op # "unlock"
    PROVE  StepOK(st)
BY DEF TodoOK, Todo, Left

\* A suffix is added, and nothing else.
LEMMA SuffixedOK ==
    ASSUME NEW no \in QueueNo
    PROVE  /\ Suffixed(no) \in QueueNo
           /\ Suffixed(no).prefix = no.prefix /\ Suffixed(no).number = no.number
           /\ Suffixed(no).suffixes = no.suffixes + 1
BY DEF Suffixed, QueueNo

\* Orders are counted.
LEMMA OrdersCount ==
    ASSUME BooksInv
    PROVE  /\ \A A : IsFiniteSet(OrdersIn(A)) /\ Cardinality(OrdersIn(A)) \in Nat
           /\ IsFiniteSet(Interrupted) /\ Cardinality(Interrupted) \in Nat
<1>1. (\A A : OrdersIn(A) \subseteq DOMAIN orders) /\ Interrupted \subseteq DOMAIN orders
    BY DEF OrdersIn, Interrupted
<1>2. IsFiniteSet(DOMAIN orders)
    BY OrdersFinite
<1> QED
    BY <1>1, <1>2, FS_Subset, FS_CardinalityType

\* A suffix makes room for one more.
LEMMA RenameRoom ==
    ASSUME BooksInv, NEW o \in DOMAIN orders, o \notin Interrupted, WaitingWithinArea,
           OrdersIn({"WAITING"})' = OrdersIn({"WAITING"}), Interrupted' = Interrupted \cup {o}
    PROVE  Cardinality(OrdersIn({"WAITING"})') < WaitingAreaSize + Cardinality(Interrupted')
<1>1. /\ Cardinality(OrdersIn({"WAITING"})) \in Nat
      /\ IsFiniteSet(Interrupted) /\ Cardinality(Interrupted) \in Nat
    BY OrdersCount
<1>2. Cardinality(Interrupted') = Cardinality(Interrupted) + 1
    BY <1>1, FS_AddElement
<1>3. Cardinality(OrdersIn({"WAITING"})) <= WaitingAreaSize + Cardinality(Interrupted)
    BY DEF WaitingWithinArea, Interrupted
<1> QED
    BY <1>1, <1>2, <1>3, CapacityAssumption

\* Once the old order has its suffix, the order that continues it has its number
\* and its place in the waiting area.
LEMMA RenameContinues ==
    ASSUME HandlersInv, NumbersInv, NEW s \in Slots, At(s, "rename"), NumberValid(Head(todo[s])),
           Rewrites(Head(todo[s]).order, Suffixed(Head(todo[s]).no),
                    orders[Head(todo[s]).order].mode, orders[Head(todo[s]).order].amount),
           \A o \in DOMAIN details : o \in DOMAIN details' /\ details'[o] = details[o],
           NEW st, Kind(st) = "continue", st.active \in OrderRow, NumberValid(st)
    PROVE  NumberValid(st)'
<1>1. PICK r, no : r = Head(todo[s]).order /\ no = Head(todo[s]).no
    OBVIOUS
<1>2. Kind(Head(todo[s])) = "rename"
    BY KindOfOp DEF At
<1>3. /\ r \in OrdersIn({"ABORTED"}) /\ orders[r].no = no /\ no.suffixes = 0
    BY <1>1, <1>2 DEF NumberValid
<1>4. r \in DOMAIN orders /\ orders[r].status = "ABORTED"
    BY <1>3 DEF OrdersIn
<1>5. /\ Kept /\ \A other \in DOMAIN orders \ {r} : Told(other)
      /\ orders'[r].no = Suffixed(no) /\ orders'[r].amount = orders[r].amount
    BY <1>1, <1>4 DEF Rewrites
<1>6. no \in QueueNo /\ st.active.no \in QueueNo
    BY <1>3, <1>4 DEF HandlersInv, RowsOK, OrdersOK, OrderRow
<1>7. Suffixed(no).suffixes > 0
    BY <1>3, <1>6, SuffixedOK
<1>8. /\ \A A : OrdersIn(A)' = OrdersIn(A)
      /\ DOMAIN orders' = DOMAIN orders
      /\ \A o \in DOMAIN orders : /\ orders'[o].user = orders[o].user
                                  /\ orders'[o].status = orders[o].status
                                  /\ orders'[o].amount = orders[o].amount
    <2>1. \A A : OrdersIn(A)' = OrdersIn(A)
        BY <1>5, KeptViews
    <2> QED
        BY <1>5, <2>1 DEF Kept, OrdersSame, Same, Told
<1>9. r \notin Interrupted /\ Interrupted' = Interrupted \cup {r}
    <2>1. r \notin Interrupted
        BY <1>3 DEF Interrupted, InterruptedBy
    <2>2. \A o \in DOMAIN orders \ {r} : orders'[o].no = orders[o].no
        BY <1>5 DEF Told
    <2> QED
        BY <1>4, <1>5, <1>7, <1>8, <2>1, <2>2 DEF Interrupted, InterruptedBy
<1>10. Cardinality(OrdersIn({"WAITING"})') < WaitingAreaSize + Cardinality(Interrupted')
    BY <1>4, <1>8, <1>9, RenameRoom DEF HandlersInv, NumbersInv
<1>11. PICK o \in DOMAIN orders : /\ Covers(o, st)
                                  /\ orders[o].no \in {st.active.no, Suffixed(st.active.no)}
    BY DEF NumberValid
<1>12. Covers(o, st)'
    BY <1>8, <1>11 DEF Covers
<1>13. orders'[o].no \in {st.active.no, Suffixed(st.active.no)}
    <2>1. CASE o = r
        <3>1. Suffixed(st.active.no).suffixes = 1
            <4>1. st.active.no.suffixes = 0
                BY DEF NumberValid
            <4> QED
                BY <1>6, <4>1, SuffixedOK
        <3>2. orders[o].no = st.active.no
            BY <1>3, <1>11, <2>1, <3>1
        <3> QED
            BY <1>3, <1>5, <2>1, <3>2
    <2>2. CASE o # r
        BY <1>5, <1>11, <2>2 DEF Told
    <2> QED
        BY <2>1, <2>2
<1>14. st.active.no.prefix = st.active.mode /\ st.active.no.suffixes = 0
    BY DEF NumberValid
<1> QED
    BY <1>8, <1>10, <1>12, <1>13, <1>14 DEF NumberValid

\* A step that relies on nothing gives no order another number, and ends one at most.
LEMMA EasyNumbers ==
    ASSUME HandlersInv, NEW s \in Slots, todo[s] # <<>>, ~Relies(Head(todo[s])), Writes(s),
           DriverRequest(s) \/ AdminRequest(s) \/ Serve(s)
    PROVE  /\ NumbersSame /\ DOMAIN orders' = DOMAIN orders
           /\ \/ Kept
              \/ /\ At(s, "settle")
                 /\ Ends(Head(todo[s]).session, Head(todo[s]).target, Head(todo[s]).work)
<1> DEFINE step == Head(todo[s])
<1>1. \A op \in {"create", "continue", "setCanceled", "assign", "start", "wake", "setMode",
                 "setAmount", "rename"} : ~At(s, op)
    BY KindOfOp DEF At, Relies, Relying
<1>2. NumbersSame /\ DOMAIN orders' = DOMAIN orders
    BY <1>1, SlotNumbers DEF Numbers
<1>3. Kept \/ At(s, "settle")
    BY <1>1 DEF Writes, Marks
<1>4. ASSUME At(s, "settle")
      PROVE  Kept \/ Ends(step.session, step.target, step.work)
    <2>1. ~ReadForBill(s)
        BY <1>4 DEF ReadForBill, At
    <2>2. Settle(s)
        BY <1>4, <2>1, BillSteps
    <2> QED
        BY <2>2, SettleEffect, SameTables
<1> QED
    BY <1>2, <1>3, <1>4

\* What the step that is taken leaves to others stays valid.
LEMMA LeftNumbers ==
    ASSUME HandlersInv, SerialInv, NumbersInv, NEW s \in Slots, todo[s] # <<>>,
           DriverRequest(s) \/ AdminRequest(s) \/ Serve(s),
           \A o \in DOMAIN details : o \in DOMAIN details' /\ details'[o] = details[o],
           NEW st \in Left(s), Relies(st), Pair(Head(todo[s]), st)
    PROVE  NumberValid(st)'
<1> DEFINE step == Head(todo[s])
<1>0. /\ step \in Left(s) /\ NumberValid(st) /\ NumberValid(step) /\ Writes(s)
    BY HeadLeft, SlotSerial DEF HandlersInv, NumbersInv
<1>1. CASE ~Relies(step)
    <2>1. /\ NumbersSame
          /\ \/ Kept
             \/ At(s, "settle") /\ Ends(step.session, step.target, step.work)
        BY <1>0, <1>1, EasyNumbers
    <2>2. CASE Kept
        BY <1>0, <2>1, <2>2, NumberKept
    <2>3. CASE At(s, "settle") /\ Ends(step.session, step.target, step.work)
        <3>1. ASSUME Kind(st) = "remaining", st.order = sessions[step.session].order
              PROVE  step.target = "ABORTED"
            <4>1. /\ Valid(st)
                  /\ Unfinished(st.active.user) # {} => Bills(step, st.order)
                BY <3>1 DEF SerialInv, TodoSerial
            <4>2. st.order \in OrdersIn(Open) /\ orders[st.order].user = st.active.user
                BY <2>3, <3>1, <4>1, EndsActive DEF HandlersInv, SerialInv, Valid
            <4>3. st.order \in Unfinished(st.active.user)
                BY <4>2 DEF Unfinished
            <4> QED
                BY <4>1, <4>3 DEF Bills
        <3> HIDE DEF step
        <3> QED
            BY <1>0, <2>1, <2>3, <3>1, NumberEnds DEF SerialInv, NumbersInv
    <2> QED
        BY <2>1, <2>2, <2>3
<1>2. CASE Relies(step)
    <2>1. Together(step, st)
        BY <1>2 DEF Pair
    <2>2. CASE Kind(st) \notin {"continue"}
        <3>1. Kind(st) \in {"wake", "wakeLock", "setFault"}
            BY <2>1, <2>2 DEF Together, Wakes
        <3> QED
            BY <3>1, NumberKinds
    <2>3. CASE Kind(st) = "continue"
        <3>1. Kind(step) = "rename"
            BY <2>1, <2>3 DEF Together, Wakes
        <3>2. step.op = "rename"
            BY <3>1 DEF Kind
        <3>3. At(s, "rename") /\ \A op : op # "rename" => ~At(s, op)
            BY <3>2 DEF At
        <3>4. st.op = "continue"
            BY <2>3 DEF Kind
        <3>5. st.active \in OrderRow
            BY <3>4, LeftOK DEF HandlersInv, StepOK
        <3>6. Kept
            BY <1>0, <3>3 DEF Writes, Idle, Marks
        <3>7. \/ NumbersSame
              \/ Rewrites(step.order, Suffixed(step.no), orders[step.order].mode,
                          orders[step.order].amount)
            BY <3>3, SlotNumbers DEF Numbers
        <3> QED
            BY <1>0, <2>3, <3>3, <3>5, <3>6, <3>7, NumberKept, RenameContinues
    <2> QED
        BY <2>2, <2>3
<1> QED
    BY <1>1, <1>2

-----------------------------------------------------------------------------
(* The invariant of numbers and room *)

\* A new order waits, with a number no order has.
LEMMA NumbersCreate ==
    ASSUME HandlersInv, NumbersInv, NEW u, NEW mode, NEW amount, NEW no,
           Creates(u, mode, amount, no), no.prefix = mode, no.suffixes = 0,
           Cardinality(OrdersIn({"WAITING"})) < WaitingAreaSize + Cardinality(Interrupted)
    PROVE  NumbersSerial' /\ WaitingWithinArea'
<1>1. PICK o \in OrderIds \ DOMAIN orders :
          /\ DOMAIN orders' = DOMAIN orders \cup {o}
          /\ \A other \in DOMAIN orders : Same(other) /\ Told(other)
          /\ orders'[o].status = "WAITING" /\ orders'[o].mode = mode /\ orders'[o].no = no
    BY DEF Creates, NumbersSame
<1>2. \A other \in DOMAIN orders : no # orders[other].no
    <2>1. None \notin DOMAIN orders
        BY NoneAssumption DEF HandlersInv, BooksInv, RowsLinked
    <2> QED
        BY <2>1 DEF Creates, QueueNoTaken
<1>3. \A other \in DOMAIN orders : /\ orders'[other].no = orders[other].no
                                   /\ orders'[other].mode = orders[other].mode
                                   /\ orders'[other].status = orders[other].status
    BY <1>1 DEF Same, Told
<1>4. /\ OrdersIn({"WAITING"})' = OrdersIn({"WAITING"}) \cup {o}
      /\ OrdersIn({"ABORTED"})' = OrdersIn({"ABORTED"})
      /\ o \notin OrdersIn({"WAITING"})
    BY <1>1, <1>3 DEF OrdersIn
<1>5. Interrupted' = Interrupted
    BY <1>1, <1>3 DEF Interrupted, InterruptedBy
<1>6. NumbersSerial'
    <2>1. \A i, other \in DOMAIN orders' : orders'[i].no = orders'[other].no => i = other
        BY <1>1, <1>2, <1>3 DEF NumbersInv, NumbersSerial
    <2>2. \A i \in DOMAIN orders' : /\ orders'[i].no.prefix = orders'[i].mode
                                    /\ orders'[i].no.suffixes > 0 => orders'[i].status = "ABORTED"
        BY <1>1, <1>3 DEF NumbersInv, NumbersSerial
    <2>3. OrdersIn({"ABORTED"})' \subseteq DOMAIN details'
        BY <1>4 DEF NumbersInv, NumbersSerial, Creates, BooksSame
    <2> QED
        BY <2>1, <2>2, <2>3 DEF NumbersSerial
<1>7. Cardinality(OrdersIn({"WAITING"})') <= WaitingAreaSize + Cardinality(Interrupted')
    <2>1. /\ IsFiniteSet(OrdersIn({"WAITING"})) /\ Cardinality(OrdersIn({"WAITING"})) \in Nat
          /\ Cardinality(Interrupted) \in Nat
        BY OrdersCount DEF HandlersInv
    <2>2. Cardinality(OrdersIn({"WAITING"})') = Cardinality(OrdersIn({"WAITING"})) + 1
        BY <1>4, <2>1, FS_AddElement
    <2> QED
        BY <1>5, <2>1, <2>2, CapacityAssumption
<1> QED
    BY <1>6, <1>7 DEF WaitingWithinArea, Interrupted

\* An order gets another number, mode or amount.
LEMMA NumbersRewrite ==
    ASSUME HandlersInv, NumbersInv, NEW o \in DOMAIN orders, NEW no, NEW mode, NEW amount,
           Rewrites(o, no, mode, amount), ~QueueNoTaken(no, o), no.prefix = mode,
           \/ o \in OrdersIn({"WAITING"}) /\ no.suffixes = 0
           \/ o \in OrdersIn({"ABORTED"}) /\ no.suffixes > 0
    PROVE  NumbersSerial' /\ WaitingWithinArea'
<1>1. /\ Kept
      /\ \A other \in DOMAIN orders \ {o} : Told(other)
      /\ orders'[o].no = no /\ orders'[o].mode = mode
    BY DEF Rewrites
<1>2. /\ \A A : OrdersIn(A)' = OrdersIn(A)
      /\ DOMAIN orders' = DOMAIN orders /\ DOMAIN details' = DOMAIN details
      /\ \A i \in DOMAIN orders : orders'[i].status = orders[i].status
    <2>1. \A A : OrdersIn(A)' = OrdersIn(A)
        BY <1>1, KeptViews
    <2> QED
        BY <1>1, <2>1 DEF Kept, OrdersSame, Same, BooksSame
<1>3. \A i \in DOMAIN orders \ {o} : orders'[i].no = orders[i].no /\ orders'[i].mode = orders[i].mode
    BY <1>1 DEF Told
<1>4. \A i \in DOMAIN orders \ {o} : orders[i].no # no
    BY DEF QueueNoTaken
<1>5. NumbersSerial'
    <2>1. \A i, other \in DOMAIN orders' : orders'[i].no = orders'[other].no => i = other
        BY <1>1, <1>2, <1>3, <1>4 DEF NumbersInv, NumbersSerial
    <2>2. \A i \in DOMAIN orders' : /\ orders'[i].no.prefix = orders'[i].mode
                                    /\ orders'[i].no.suffixes > 0 => orders'[i].status = "ABORTED"
        BY <1>1, <1>2, <1>3 DEF NumbersInv, NumbersSerial, OrdersIn
    <2>3. OrdersIn({"ABORTED"})' \subseteq DOMAIN details'
        BY <1>2 DEF NumbersInv, NumbersSerial
    <2> QED
        BY <2>1, <2>2, <2>3 DEF NumbersSerial
<1>6. Interrupted \subseteq Interrupted' /\ IsFiniteSet(Interrupted')
    <2>1. Interrupted \subseteq Interrupted'
        BY <1>1, <1>2, <1>3 DEF Interrupted, InterruptedBy, OrdersIn
    <2>2. Interrupted' \subseteq DOMAIN orders
        BY <1>2 DEF Interrupted
    <2>3. IsFiniteSet(DOMAIN orders)
        BY OrdersFinite DEF HandlersInv
    <2> QED
        BY <2>1, <2>2, <2>3, FS_Subset
<1>7. Cardinality(OrdersIn({"WAITING"})') <= WaitingAreaSize + Cardinality(Interrupted')
    <2>1. /\ Cardinality(OrdersIn({"WAITING"})) \in Nat /\ Cardinality(Interrupted) \in Nat
          /\ Cardinality(OrdersIn({"WAITING"})) <= WaitingAreaSize + Cardinality(Interrupted)
        BY OrdersCount DEF HandlersInv, NumbersInv, WaitingWithinArea, Interrupted
    <2>2. /\ Cardinality(Interrupted) <= Cardinality(Interrupted')
          /\ Cardinality(Interrupted') \in Nat
        BY <1>6, FS_Subset, FS_CardinalityType
    <2>3. OrdersIn({"WAITING"})' = OrdersIn({"WAITING"})
        BY <1>2
    <2> QED
        BY <2>1, <2>2, <2>3, CapacityAssumption
<1> QED
    BY <1>5, <1>7 DEF WaitingWithinArea, Interrupted

\* No order gets another number.
LEMMA NumbersKeep ==
    ASSUME HandlersInv, OrdersSerial, NumbersInv, Outcome, NumbersSame,
           DOMAIN orders' = DOMAIN orders
    PROVE  NumbersSerial' /\ WaitingWithinArea'
<1>1. /\ OrdersIn({"WAITING"})' \subseteq OrdersIn({"WAITING"})
      /\ Interrupted' = Interrupted
      /\ NumbersSerial'
    BY RoomStays DEF NumbersInv
<1>2. /\ IsFiniteSet(OrdersIn({"WAITING"})) /\ Cardinality(OrdersIn({"WAITING"})) \in Nat
      /\ Cardinality(Interrupted) \in Nat
    BY OrdersCount DEF HandlersInv
<1>3. /\ Cardinality(OrdersIn({"WAITING"})') <= Cardinality(OrdersIn({"WAITING"}))
      /\ Cardinality(OrdersIn({"WAITING"})') \in Nat
    BY <1>1, <1>2, FS_Subset, FS_CardinalityType
<1>4. Cardinality(OrdersIn({"WAITING"})) <= WaitingAreaSize + Cardinality(Interrupted)
    BY DEF NumbersInv, WaitingWithinArea, Interrupted
<1>5. Cardinality(OrdersIn({"WAITING"})') <= WaitingAreaSize + Cardinality(Interrupted')
    BY <1>1, <1>2, <1>3, <1>4, CapacityAssumption
<1> QED
    BY <1>1, <1>5 DEF WaitingWithinArea, Interrupted

\* The continuation of an order is created after the order gave up its number.
LEMMA ContinueNumbers ==
    ASSUME HandlersInv, SerialInv, NumbersInv, NEW s \in Slots, At(s, "continue"),
           NEW u, NEW mode, NEW amount, Creates(u, mode, amount, Head(todo[s]).active.no)
    PROVE  /\ Head(todo[s]).active.no.prefix = Head(todo[s]).active.mode
           /\ Head(todo[s]).active.no.suffixes = 0
           /\ Cardinality(OrdersIn({"WAITING"})) < WaitingAreaSize + Cardinality(Interrupted)
           /\ \E o \in DOMAIN orders : /\ Covers(o, Head(todo[s]))
                                       /\ orders[o].no = Suffixed(Head(todo[s]).active.no)
<1> DEFINE step == Head(todo[s])
<1>1. Kind(step) = "continue" /\ NumberValid(step)
    <2>1. todo[s] # <<>> /\ step.op = "continue"
        BY DEF At
    <2> QED
        BY <2>1, KindOfOp, HeadLeft DEF HandlersInv, NumbersInv
<1>2. \A o \in DOMAIN orders : orders[o].no # step.active.no
    <2>1. None \notin DOMAIN orders
        BY NoneAssumption DEF HandlersInv, BooksInv, RowsLinked
    <2> QED
        BY <2>1 DEF Creates, QueueNoTaken
<1> QED
    BY <1>1, <1>2 DEF NumberValid

\* What a step of the slot writes keeps numbers apart and the waiting area within its size.
LEMMA SlotRoom ==
    ASSUME HandlersInv, SerialInv, NumbersInv, NEW s \in Slots,
           DriverRequest(s) \/ AdminRequest(s) \/ Serve(s)
    PROVE  NumbersSerial' /\ WaitingWithinArea'
<1> DEFINE step == Head(todo[s])
<1>0. \A op : At(s, op) /\ op # "lock" => Kind(step) = op /\ NumberValid(step)
    BY KindOfOp, HeadLeft DEF At, HandlersInv, NumbersInv
<1>1. CASE NumbersSame /\ DOMAIN orders' = DOMAIN orders
    BY <1>1, SlotSerial, NumbersKeep DEF SerialInv
<1>2. CASE At(s, "create") /\ Creates(step.user, step.mode, step.amount, step.no)
    <2>1. WaitingRoom /\ step.no.prefix = step.mode /\ step.no.suffixes = 0
        BY <1>0, <1>2 DEF NumberValid
    <2>2. Cardinality(OrdersIn({"WAITING"})) < WaitingAreaSize + Cardinality(Interrupted)
        <3>1. /\ Cardinality(OrdersIn({"WAITING"})) \in Nat /\ Cardinality(Interrupted) \in Nat
            BY OrdersCount DEF HandlersInv
        <3> QED
            BY <2>1, <3>1, CapacityAssumption DEF WaitingRoom
    <2> QED
        BY <1>2, <2>1, <2>2, NumbersCreate
<1>3. CASE /\ At(s, "continue")
           /\ Creates(step.active.user, step.active.mode, step.amount, step.active.no)
    BY <1>3, ContinueNumbers, NumbersCreate
<1>4. CASE /\ At(s, "setMode") /\ ~QueueNoTaken(step.no, step.order)
           /\ Rewrites(step.order, step.no, step.mode, orders[step.order].amount)
    <2>1. PICK o, no, mode, amount : /\ o = step.order /\ no = step.no /\ mode = step.mode
                                     /\ amount = orders[step.order].amount
        OBVIOUS
    <2>2. o \in OrdersIn({"WAITING"}) /\ no.prefix = mode /\ no.suffixes = 0
        BY <1>0, <1>4, <2>1 DEF NumberValid
    <2>3. o \in DOMAIN orders
        BY <2>2 DEF OrdersIn
    <2>4. Rewrites(o, no, mode, amount) /\ ~QueueNoTaken(no, o)
        BY <1>4, <2>1
    <2> QED
        BY <2>2, <2>3, <2>4, NumbersRewrite
<1>5. CASE /\ At(s, "setAmount")
           /\ Rewrites(step.order, orders[step.order].no, orders[step.order].mode, step.amount)
    <2>1. PICK o, no, mode, amount : /\ o = step.order /\ no = orders[o].no /\ mode = orders[o].mode
                                     /\ amount = step.amount
        OBVIOUS
    <2>2. o \in OrdersIn({"WAITING"})
        BY <1>0, <1>5, <2>1 DEF NumberValid
    <2>3. o \in DOMAIN orders /\ orders[o].status = "WAITING"
        BY <2>2 DEF OrdersIn
    <2>4. no.prefix = mode /\ ~(no.suffixes > 0) /\ ~QueueNoTaken(no, o)
        BY <2>1, <2>3 DEF NumbersInv, NumbersSerial, QueueNoTaken
    <2>5. no.suffixes \in Nat
        BY <2>1, <2>3 DEF HandlersInv, RowsOK, OrdersOK, OrderRow, QueueNo
    <2>6. no.suffixes = 0
        BY <2>4, <2>5
    <2>7. Rewrites(o, no, mode, amount)
        BY <1>5, <2>1
    <2> QED
        BY <2>2, <2>3, <2>4, <2>6, <2>7, NumbersRewrite
<1>6. CASE /\ At(s, "rename") /\ ~QueueNoTaken(Suffixed(step.no), step.order)
           /\ Rewrites(step.order, Suffixed(step.no), orders[step.order].mode,
                       orders[step.order].amount)
    <2>1. PICK o, no : o = step.order /\ no = step.no
        OBVIOUS
    <2>2. o \in OrdersIn({"ABORTED"}) /\ orders[o].no = no /\ no.suffixes = 0
        BY <1>0, <1>6, <2>1 DEF NumberValid
    <2>3. o \in DOMAIN orders
        BY <2>2 DEF OrdersIn
    <2>4. no \in QueueNo /\ no.prefix = orders[o].mode
        BY <2>2, <2>3 DEF HandlersInv, RowsOK, OrdersOK, OrderRow, NumbersInv, NumbersSerial
    <2>5. Suffixed(no).prefix = orders[o].mode /\ Suffixed(no).suffixes > 0
        BY <2>2, <2>4, SuffixedOK
    <2> HIDE DEF step
    <2> QED
        BY <1>6, <2>1, <2>2, <2>3, <2>5, NumbersRewrite
<1> QED
    BY <1>1, <1>2, <1>3, <1>4, <1>5, <1>6, SlotNumbers DEF Numbers

\* Only a slot's steps write orders.
LEMMA AroundOrders ==
    ASSUME [Next]_vars
    PROVE  (\E s \in Slots : DriverRequest(s) \/ AdminRequest(s) \/ Serve(s)) \/ UNCHANGED orders
BY DEF Next, Environment, Deliver, Expire, Restart, RedisDown, vars, tables

\* Every step of the server keeps the invariant, while one request is served at a time.
LEMMA NumbersNext ==
    ASSUME OneAtATime, HandlersInv, SerialInv, NumbersInv, [Next]_vars
    PROVE  NumbersInv'
<1>0. \A o \in DOMAIN details : o \in DOMAIN details' /\ details'[o] = details[o]
    BY BillsStay DEF HandlersInv
<1>1. ASSUME NEW s \in Slots, DriverRequest(s) \/ AdminRequest(s) \/ Serve(s)
      PROVE  NumbersInv'
    <2>1. Proceeds(s)
        BY <1>1, SlotSerial
    <2>2. NumbersSerial' /\ WaitingWithinArea'
        BY <1>1, SlotRoom
    <2>3. ASSUME NEW st \in Left(s)'
          PROVE  NumberValid(st)'
        <3>1. PICK i \in DOMAIN todo'[s] : st = todo'[s][i]
            BY DEF Left
        <3>2. CASE ~Relies(st)
            <4>1. Kind(st) \notin {"create", "retry", "setMode", "setAmount", "remaining",
                                   "rename", "continue"}
                BY <3>2 DEF Relies, Relying
            <4> QED
                BY <4>1, NumberKinds
        <3>3. CASE Fresh(s, st)
            <4>1. NumberValid(st)
                BY <3>3, FreshNumbers
            <4>2. Kept
                BY <3>3, SameTables DEF Fresh
            <4>3. NumbersSame
                BY <3>3 DEF Fresh, tables, NumbersSame, Told
            <4> QED
                BY <1>0, <4>1, <4>2, <4>3, NumberKept
        <3>4. CASE /\ Relies(st) /\ todo[s] # <<>> /\ st \in Left(s)
                   /\ Pair(Head(todo[s]), st)
            BY <1>0, <1>1, <3>4, LeftNumbers
        <3> QED
            BY <2>1, <3>1, <3>2, <3>3, <3>4 DEF Proceeds
    <2>4. \A t \in Slots : t = s
        BY DEF OneAtATime
    <2> QED
        BY <2>2, <2>3, <2>4 DEF NumbersInv
<1>2. ASSUME Kept, UNCHANGED orders
      PROVE  /\ NumbersSerial' /\ WaitingWithinArea'
             /\ \A st : NumberValid(st) => NumberValid(st)'
    <2>1. NumbersSame /\ DOMAIN orders' = DOMAIN orders
        BY <1>2 DEF NumbersSame, Told
    <2>2. NumbersSerial' /\ WaitingWithinArea'
        BY <1>2, <2>1, NumbersKeep DEF Outcome, SerialInv
    <2>3. \A st : NumberValid(st) => NumberValid(st)'
        BY <1>0, <1>2, <2>1, NumberKept
    <2> QED
        BY <2>2, <2>3
<1>3. CASE Kept /\ UNCHANGED <<orders, todo>>
    <2>1. \A s \in Slots : Left(s)' = Left(s)
        BY <1>3 DEF Left
    <2> QED
        BY <1>2, <1>3, <2>1 DEF NumbersInv
<1>4. CASE Kept /\ UNCHANGED orders /\ \A s \in Slots : todo'[s] = <<>>
    <2>1. \A s \in Slots : Left(s)' = {}
        BY <1>4 DEF Left
    <2> QED
        BY <1>2, <1>4, <2>1 DEF NumbersInv
<1> QED
    BY <1>1, <1>3, <1>4, Around, AroundOrders DEF HandlersInv

\* There are no orders to begin with.
LEMMA NumbersInit == Init => NumbersInv
<1> SUFFICES ASSUME Init PROVE NumbersInv
    OBVIOUS
<1>1. DOMAIN orders = {} /\ \A s \in Slots : todo[s] = <<>>
    BY DEF Init
<1>2. (\A A : OrdersIn(A) = {}) /\ Interrupted = {}
    BY <1>1 DEF OrdersIn, Interrupted
<1>3. WaitingWithinArea
    BY <1>2, FS_EmptySet, CapacityAssumption DEF WaitingWithinArea, Interrupted
<1>4. \A s \in Slots : Left(s) = {}
    BY <1>1 DEF Left
<1> QED
    BY <1>1, <1>2, <1>3, <1>4 DEF NumbersInv, NumbersSerial

\* No two orders ever have the same queue number, and the old order gives its own
\* up before the order that continues it is created (reportFault, create).
THEOREM NumbersHold ==
    ASSUME OneAtATime
    PROVE  Spec => []NumbersInv
<1>1. HandlersInv /\ SerialInv /\ NumbersInv /\ [Next]_vars => NumbersInv'
    BY NumbersNext
<1> QED
    BY <1>1, NumbersInit, HandlersHold, SerialHolds, PTL DEF Spec

\* The waiting area holds at most WAITING_AREA_SIZE orders, and one more for each
\* order that a fault interrupted (ensureWaitingAreaHasRoom, reportFault).
THEOREM WaitingHolds ==
    ASSUME OneAtATime
    PROVE  Spec => []WaitingWithinArea
<1>1. NumbersInv => WaitingWithinArea
    BY DEF NumbersInv
<1> QED
    BY <1>1, NumbersHold, PTL

\* The order that takes over the number of an interrupted one is its continuation.
LEMMA RemainderStep ==
    ASSUME HandlersInv, SerialInv, NumbersInv, [Next]_vars,
           NEW o \in DOMAIN orders' \ DOMAIN orders, NEW old \in DOMAIN orders,
           InterruptedBy(old), orders'[o].no = [orders[old].no EXCEPT !.suffixes = @ - 1]
    PROVE  /\ orders'[o].user = orders[old].user
           /\ AddsUp(details[old].amount, orders'[o].amount, orders[old].amount)
<1>1. PICK s \in Slots : DriverRequest(s) \/ AdminRequest(s) \/ Serve(s)
    BY AroundOrders
<1> DEFINE step == Head(todo[s])
<1>2. \A op : At(s, op) /\ op # "lock" => /\ Kind(step) = op /\ NumberValid(step)
                                          /\ step \in Left(s) /\ step.op = op
    BY KindOfOp, HeadLeft DEF At, HandlersInv, NumbersInv
<1>3. orders[old].no \in QueueNo
    BY DEF HandlersInv, RowsOK, OrdersOK, OrderRow
<1>4. PICK no : no = orders'[o].no
    OBVIOUS
<1>5. /\ no.prefix = orders[old].no.prefix /\ no.number = orders[old].no.number
      /\ no.suffixes = orders[old].no.suffixes - 1
    BY <1>3, <1>4 DEF QueueNo
<1>6. \A u, mode, amount, new : Creates(u, mode, amount, new) =>
          orders'[o].user = u /\ orders'[o].amount = amount /\ no = new
    BY <1>4 DEF Creates
<1>7. ~(At(s, "create") /\ Creates(step.user, step.mode, step.amount, step.no))
    <2> SUFFICES ASSUME At(s, "create"), Creates(step.user, step.mode, step.amount, step.no)
                 PROVE  FALSE
        OBVIOUS
    <2>1. no = step.no
        BY <1>6
    <2>2. orders[old].no.prefix = step.mode => orders[old].no.number < no.number
        BY <1>2, <2>1 DEF NumberValid
    <2>3. no.prefix = step.mode
        BY <1>2, <2>1 DEF NumberValid
    <2> QED
        BY <1>3, <1>5, <2>2, <2>3 DEF QueueNo
<1>8. CASE /\ At(s, "continue")
           /\ Creates(step.active.user, step.active.mode, step.amount, step.active.no)
    <2>1. /\ no = step.active.no
          /\ orders'[o].user = step.active.user /\ orders'[o].amount = step.amount
        BY <1>6, <1>8
    <2>2. PICK i \in DOMAIN orders : Covers(i, step) /\ orders[i].no = Suffixed(no)
        BY <1>8, <2>1, ContinueNumbers
    <2>3. step.active.no \in QueueNo
        <3>1. StepOK(step) /\ step.op = "continue"
            BY <1>8, HeadOK DEF HandlersInv
        <3> QED
            BY <3>1 DEF StepOK, OrderRow
    <2>4. Suffixed(no) = orders[old].no
        <3>1. Suffixed(no) \in QueueNo
            BY <2>1, <2>3, SuffixedOK
        <3>2. /\ Suffixed(no).prefix = orders[old].no.prefix
              /\ Suffixed(no).number = orders[old].no.number
            BY <1>5, <2>1, <2>3, SuffixedOK
        <3>3. Suffixed(no).suffixes = orders[old].no.suffixes
            <4>1. Suffixed(no).suffixes = no.suffixes + 1
                BY <2>1, <2>3, SuffixedOK
            <4>2. orders[old].no.suffixes \in Nat
                BY <1>3 DEF QueueNo
            <4> QED
                BY <1>5, <4>1, <4>2
        <3> QED
            BY <1>3, <3>1, <3>2, <3>3 DEF QueueNo
    <2>5. i = old
        BY <2>2, <2>4 DEF NumbersInv, NumbersSerial
    <2> QED
        BY <2>1, <2>2, <2>5 DEF Covers
<1>9. Numbers(s)
    BY <1>1, SlotNumbers
<1> QED
    BY <1>7, <1>8, <1>9 DEF Numbers, Rewrites, Kept, OrdersSame

\* The order that continues an interrupted one is of the same driver, and asks for
\* what the bill of the old one left, to half a grain (reportFault).
THEOREM RemainderHolds ==
    ASSUME OneAtATime
    PROVE  Spec => RemainderWithinRounding
<1>1. HandlersInv /\ SerialInv /\ NumbersInv /\ [Next]_vars
        => [\A o \in DOMAIN orders' \ DOMAIN orders :
              \A old \in DOMAIN orders :
                  /\ InterruptedBy(old)
                  /\ orders'[o].no = [orders[old].no EXCEPT !.suffixes = @ - 1]
                  => /\ orders'[o].user = orders[old].user
                     /\ AddsUp(details[old].amount, orders'[o].amount, orders[old].amount)]_vars
    BY RemainderStep
<1> QED
    BY <1>1, HandlersHold, SerialHolds, NumbersHold, PTL DEF Spec, RemainderWithinRounding
=============================================================================
