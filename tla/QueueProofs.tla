---------------------------- MODULE QueueProofs ----------------------------
(***************************************************************************)
(* The capacity of the pile queues, while the server serves one request at *)
(* a time, the administrator uses the buttons that are shown, and nothing  *)
(* rearranges queues by queue number: that may overfill one (the run       *)
(* time_order_capacity).                                                   *)
(*                                                                         *)
(* applyAssignments checks an assignment against the queue without the     *)
(* orders it may move.  The invariant says why those it moved are counted  *)
(* nonetheless: at a pile that works they are at most the assignments it   *)
(* made there, because it moves orders of a faulty pile only.              *)
(***************************************************************************)
EXTENDS SerialProofs

-----------------------------------------------------------------------------
(* The invariant *)

(* Recovery and rescheduling by queue number rearrange the queues of piles  *)
(* that work.                                                               *)
OnlyFaultsMove == Ops \cap {"recover", "rescheduleTimeOrder"} = {}

Faulty(p) == p \in Piles /\ piles[p].work = "FAULT"

Standing(p) == OnPile(p, Occupying)

(* Only the queue of a faulty pile is moved.                                *)
Tame(st) ==
    /\ st.op # "recovery"
    /\ st.op = "fault" => st.strategy = "PRIORITY"
    /\ st.op \in {"fault", "affected"} => Faulty(st.pile)

(* What a batch moved to a pile that works, it counted.                     *)
Tallies(batch) ==
    /\ {"movable", "applied"} \subseteq DOMAIN batch
    /\ batch.applied \in [Piles -> Nat]
    /\ \A p \in Piles : ~Faulty(p) =>
          Cardinality(Standing(p) \cap batch.movable) <= batch.applied[p]

(* What a step relies on of queues.                                         *)
QueueValid(st) ==
    /\ Tame(st)
    /\ Kind(st) = "lock" => \A i \in DOMAIN st.then : Tame(st.then[i])
    /\ Kind(st) = "apply" => Tallies(st)
    /\ Kind(st) = "assign" => /\ Tallies(st.rest)
                              /\ ~Faulty(st.pile)
                              /\ HasRoom(st.rest, st.order, st.pile)

(* Steps that are taken as soon as they are put into todo.                  *)
Immediate(st) == Kind(st) \in {"apply", "assign"}

QueuesInv ==
    /\ QueueWithinCapacity
    /\ \A s \in Slots : /\ \A st \in Left(s) : QueueValid(st)
                         /\ \A i \in DOMAIN todo[s] : i = 1 \/ ~Immediate(todo[s][i])

-----------------------------------------------------------------------------
(* Which steps a slot puts into todo *)

(* Steps that rely on nothing here.                                         *)
Harmless ==
    (Easy \cup Planning \cup Relying)
        \ {"lock", "fault", "affected", "recovery", "apply", "assign"}

(* The others come from a read, which writes nothing, but for what follows  *)
(* the mark of a fault and what is left of a batch.                         *)
Planned(s, st) ==
    LET step == Head(todo[s])
    IN  \/ UNCHANGED tables /\ QueueValid(st)
        \/ SetFault(s) /\ st.op = "affected" /\ st.pile = step.pile
        \/ At(s, "assign") /\ BatchOK(st) /\ Tallied(st, step.rest, step.pile)

Leading(s, q) ==
    /\ \E S : q \in Seq(S)
    /\ \A i \in DOMAIN q :
          \/ Kind(q[i]) \in Harmless
          \/ Planned(s, q[i]) /\ (i = 1 \/ ~Immediate(q[i]))

Settled(q) == \A i \in DOMAIN q : ~Immediate(q[i])

Puts(s, q) == Begin(s, q) \/ (todo[s] # <<>> /\ Goto(s, q))

(* How a slot moves on.                                                     *)
Renewed(s) ==
    \A i \in DOMAIN todo'[s] :
        \/ todo[s] # <<>> /\ \E k \in DOMAIN todo[s] : k # 1 /\ todo'[s][i] = todo[s][k]
        \/ Kind(todo'[s][i]) \in Harmless
        \/ Planned(s, todo'[s][i]) /\ (i = 1 \/ ~Immediate(todo'[s][i]))

\* It puts such steps before what is left.
LEMMA RenewsBy ==
    ASSUME TodoOK, NEW s \in Slots, NEW q, Puts(s, q), Leading(s, q)
    PROVE  Renewed(s)
<1>1. PICK S : q \in Seq(S)
    BY DEF Leading
<1>2. CASE Begin(s, q)
    <2>1. todo'[s] = q
        BY <1>2 DEF Begin, TodoOK
    <2> QED
        BY <2>1 DEF Renewed, Leading
<1>3. CASE todo[s] # <<>> /\ Goto(s, q)
    <2>1. PICK T : todo[s] \in Seq(T)
        BY DEF TodoOK, Todo
    <2> DEFINE U == S \cup T
               r == todo[s]
    <2>2. q \in Seq(U) /\ r \in Seq(U)
        BY <1>1, <2>1
    <2>3. todo'[s] = q \o Tail(r)
        BY <1>3 DEF Goto, TodoOK
    <2> HIDE DEF U
    <2>4. \A i \in DOMAIN (q \o Tail(r)) :
             \/ i \in DOMAIN q /\ (q \o Tail(r))[i] = q[i]
             \/ /\ i - Len(q) + 1 \in DOMAIN r /\ i - Len(q) + 1 # 1
                /\ (q \o Tail(r))[i] = r[i - Len(q) + 1]
        BY <1>3, <2>2, WentOn
    <2>5. ASSUME NEW i \in DOMAIN todo'[s]
          PROVE  \/ \E k \in DOMAIN todo[s] : k # 1 /\ todo'[s][i] = todo[s][k]
                 \/ Kind(todo'[s][i]) \in Harmless
                 \/ Planned(s, todo'[s][i]) /\ (i = 1 \/ ~Immediate(todo'[s][i]))
        <3>1. CASE i \in DOMAIN q /\ todo'[s][i] = q[i]
            BY <3>1 DEF Leading
        <3>2. CASE /\ i - Len(q) + 1 \in DOMAIN todo[s] /\ i - Len(q) + 1 # 1
                   /\ todo'[s][i] = todo[s][i - Len(q) + 1]
            BY <3>2
        <3> QED
            BY <2>3, <2>4, <3>1, <3>2
    <2> QED
        BY <1>3, <2>5 DEF Renewed
<1> QED
    BY <1>2, <1>3 DEF Puts

\* Harmless steps are settled and may lead.
LEMMA HarmlessLead ==
    ASSUME NEW s, NEW q, KindsIn(q, Harmless)
    PROVE  Leading(s, q) /\ Settled(q)
<1>1. \E S : q \in Seq(S)
    BY DEF KindsIn
<1>2. \A i \in DOMAIN q : Kind(q[i]) \in Harmless
    BY KindsAt
<1> QED
    BY <1>1, <1>2 DEF Leading, Settled, Immediate, Harmless

\* So may one step that is planned.
LEMMA PlannedLeads ==
    ASSUME NEW s, NEW st, Planned(s, st)
    PROVE  Leading(s, <<st>>) /\ (~Immediate(st) => Settled(<<st>>))
<1>1. PICK q : q = <<st>>
    OBVIOUS
<1>2. q \in Seq({st}) /\ DOMAIN q = {1} /\ q[1] = st
    BY <1>1
<1>3. Leading(s, q) /\ (~Immediate(st) => Settled(q))
    BY <1>2 DEF Leading, Settled
<1> QED
    BY <1>1, <1>3

\* Settled steps may follow.
LEMMA LeadingJoin ==
    ASSUME NEW s, NEW q, NEW r, Leading(s, q), Leading(s, r), Settled(r)
    PROVE  Leading(s, q \o r) /\ (Settled(q) => Settled(q \o r))
<1>1. PICK S : q \in Seq(S)
    BY DEF Leading
<1>2. PICK T : r \in Seq(T)
    BY DEF Leading
<1> DEFINE U == S \cup T
<1>3. q \in Seq(U) /\ r \in Seq(U)
    BY <1>1, <1>2
<1> HIDE DEF U
<1>4. /\ q \o r \in Seq(U)
      /\ Len(q \o r) = Len(q) + Len(r)
      /\ \A i \in 1..Len(q) : (q \o r)[i] = q[i]
      /\ \A i \in 1..Len(r) : (q \o r)[Len(q) + i] = r[i]
    BY <1>3, Joined
<1>5. /\ Len(q) \in Nat /\ Len(r) \in Nat
      /\ DOMAIN q = 1..Len(q) /\ DOMAIN r = 1..Len(r)
      /\ DOMAIN (q \o r) = 1..(Len(q) + Len(r))
    BY <1>3, <1>4
<1>6. PICK all : all = q \o r
    OBVIOUS
<1>7. \A i \in DOMAIN all : \/ i \in DOMAIN q /\ all[i] = q[i]
                            \/ i - Len(q) \in DOMAIN r /\ all[i] = r[i - Len(q)]
    <2> SUFFICES ASSUME NEW i \in DOMAIN all, i \notin DOMAIN q
                 PROVE  i - Len(q) \in DOMAIN r /\ all[i] = r[i - Len(q)]
        BY <1>4, <1>5, <1>6
    <2>1. i - Len(q) \in 1..Len(r) /\ i = Len(q) + (i - Len(q))
        BY <1>5, <1>6
    <2> QED
        BY <1>4, <1>5, <1>6, <2>1
<1>8. \A i \in DOMAIN all : \/ Kind(all[i]) \in Harmless
                            \/ Planned(s, all[i]) /\ (i = 1 \/ ~Immediate(all[i]))
    BY <1>7 DEF Leading, Settled
<1>9. Settled(q) => Settled(all)
    BY <1>7 DEF Settled
<1> QED
    BY <1>4, <1>6, <1>8, <1>9 DEF Leading

\* Steps that are no batch and no lock are valid once they are tame.
LEMMA TameValid ==
    ASSUME NEW st, Tame(st), Kind(st) \notin {"lock", "apply", "assign"}
    PROVE  QueueValid(st) /\ ~Immediate(st)
BY DEF QueueValid, Immediate

-----------------------------------------------------------------------------
(* What the handlers put into todo *)

\* It goes on with harmless steps.
LEMMA Harmlessly ==
    ASSUME TodoOK, NEW s \in Slots, NEW q, Puts(s, q), KindsIn(q, Harmless)
    PROVE  Renewed(s)
BY HarmlessLead, RenewsBy

\* It is done with the step, or throws.
LEMMA HarmlessEnd ==
    ASSUME TodoOK, NEW s \in Slots,
           Throw(s) \/ (todo[s] # <<>> /\ (Goto(s, <<>>) \/ Fail(s)))
    PROVE  Renewed(s)
<1>1. KindsIn(<<>>, Harmless)
    BY KindsNone
<1>2. Puts(s, <<>>)
    BY DEF Puts, Throw, Fail
<1> QED
    BY <1>1, <1>2, Harmlessly

\* One harmless step.
LEMMA HarmlessOp ==
    ASSUME NEW st, st.op \in Harmless
    PROVE  Kind(st) = st.op /\ KindsIn(<<st>>, Harmless)
<1>1. st.op # "lock"
    BY DEF Harmless
<1> QED
    BY <1>1, KindsOp

(* What dispatches the orders that wait.                                    *)
Triggers == {"autoComplete", "basic", "wakeIdlePiles"}

\* Refreshes, and the dispatching that follows a write.
LEMMA HarmlessParts ==
    /\ \A q : KindsIn(q, Easy) => KindsIn(q, Harmless)
    /\ \A q : KindsIn(q, Triggers) => KindsIn(q, Harmless)
    /\ KindsIn(AutoComplete, Triggers)
    /\ \A mode : KindsIn(TriggerBasic(mode), Triggers)
    /\ \A mode : KindsIn(TriggerBasic(mode), Harmless)
    /\ \A mode : KindsIn(RefreshMode(mode), Harmless)
    /\ \A p : KindsIn(RefreshPile(p), Harmless)
    /\ \A ps : IsFiniteSet(ps) => KindsIn(RefreshPiles(ps), Harmless)
    /\ KindsIn(RefreshAll, Harmless)
<1>1. Easy \subseteq Harmless
    BY DEF Easy, Harmless
<1>2. \A q : KindsIn(q, Easy) => KindsIn(q, Harmless)
    BY <1>1, KindsNone
<1>3. KindsIn(AutoComplete, Triggers)
    BY KindsOp DEF AutoComplete, Triggers
<1>4. ASSUME NEW mode
      PROVE  KindsIn(TriggerBasic(mode), Triggers)
    <2> DEFINE st == [op |-> "basic", mode |-> mode]
    <2>1. st.op \in Triggers /\ st.op # "lock"
        BY DEF Triggers
    <2> HIDE DEF st
    <2>2. KindsIn(<<st>>, Triggers)
        BY <2>1, KindsOp
    <2> QED
        BY <1>3, <2>2, KindsJoin DEF TriggerBasic, st
<1>5. Triggers \subseteq Harmless
    BY DEF Triggers, Harmless, Easy, Planning
<1>6. \A q : KindsIn(q, Triggers) => KindsIn(q, Harmless)
    BY <1>5, KindsNone
<1> QED
    BY <1>2, <1>3, <1>4, <1>6, CalmParts

-----------------------------------------------------------------------------
(* Batches *)

\* What a batch counts is all that is asked of it.
LEMMA TalliesSame ==
    ASSUME NEW st, NEW rest, DOMAIN rest = DOMAIN st,
           rest.movable = st.movable, rest.applied = st.applied
    PROVE  /\ Tallies(st) => Tallies(rest)
           /\ \A o, p : HasRoom(st, o, p) <=> HasRoom(rest, o, p)
BY DEF Tallies, HasRoom

\* A batch goes on, or ends with its refreshes.
LEMMA RemainingLeads ==
    ASSUME NEW s, NEW st, BatchOK(st), Planned(s, st)
    PROVE  Leading(s, Remaining(st))
<1>1. Leading(s, <<st>>)
    BY PlannedLeads
<1>2. KindsIn(RefreshPiles(st.touched), Harmless)
    BY HarmlessParts DEF BatchOK
<1>3. Leading(s, RefreshPiles(st.touched))
    BY <1>2, HarmlessLead
<1> QED
    BY <1>1, <1>3 DEF Remaining

\* A batch that moves orders of a faulty pile only begins.
LEMMA ApplyLeads ==
    ASSUME UNCHANGED tables, NEW s, NEW plan, NEW mode, NEW movable,
           \A p \in Piles : ~Faulty(p) => Standing(p) \cap movable = {}
    PROVE  Leading(s, ApplyAssignments(plan, mode, movable))
<1> DEFINE st == [op |-> "apply", plan |-> plan, mode |-> mode, movable |-> movable,
                  applied |-> [p \in Piles |-> 0], started |-> {}, touched |-> {}]
<1>1. BatchOK(st)
    BY FS_EmptySet DEF BatchOK
<1>2. st.op = "apply" /\ st.movable = movable /\ st.applied = [p \in Piles |-> 0]
    OBVIOUS
<1>3. {"movable", "applied"} \subseteq DOMAIN st
    OBVIOUS
<1>4. ApplyAssignments(plan, mode, movable) = Remaining(st)
    BY DEF ApplyAssignments
<1> HIDE DEF st
<1>5. Tallies(st)
    <2>1. \A p \in Piles : ~Faulty(p) => Cardinality(Standing(p) \cap st.movable) = 0
        BY <1>2, FS_EmptySet
    <2>2. st.applied \in [Piles -> Nat] /\ \A p \in Piles : st.applied[p] = 0
        BY <1>2
    <2> QED
        BY <1>3, <2>1, <2>2 DEF Tallies
<1>6. Kind(st) = "apply"
    BY <1>2, KindOfOp
<1>7. QueueValid(st)
    BY <1>2, <1>5, <1>6 DEF QueueValid, Tame
<1>8. Planned(s, st)
    BY <1>7 DEF Planned
<1> QED
    BY <1>1, <1>4, <1>8, RemainingLeads

\* The rescheduling of a faulty pile's queue begins with its lock.
LEMMA FaultLeads ==
    ASSUME UNCHANGED tables, NEW s, NEW p, Faulty(p)
    PROVE  /\ Leading(s, FaultReschedule(p, "PRIORITY"))
           /\ Settled(FaultReschedule(p, "PRIORITY"))
<1> DEFINE fault == [op |-> "fault", pile |-> p, strategy |-> "PRIORITY"]
           st == LockStep(<<"fault", p>>, <<fault>>)
<1>1. Tame(fault) /\ fault.op = "fault"
    BY DEF Tame
<1>2. st.op = "lock" /\ st.then = <<fault>>
    BY DEF LockStep
<1>3. FaultReschedule(p, "PRIORITY") = <<st>>
    BY DEF FaultReschedule, Locked
<1> HIDE DEF fault, st
<1>4. \A i \in DOMAIN st.then : Tame(st.then[i])
    BY <1>1, <1>2
<1>5. Kind(st) \in {"lock", "wakeLock"}
    BY <1>2 DEF Kind
<1>6. QueueValid(st) /\ ~Immediate(st)
    BY <1>2, <1>4, <1>5 DEF QueueValid, Tame, Immediate
<1>7. Planned(s, st)
    BY <1>6 DEF Planned
<1> QED
    BY <1>3, <1>6, <1>7, PlannedLeads

-----------------------------------------------------------------------------
(* Requests *)

\* A driver's request.
LEMMA DriverRenews ==
    ASSUME HandlersInv, NEW s \in Slots, DriverRequest(s)
    PROVE  Renewed(s)
<1> USE DEF HandlersInv
<1>0. /\ \A q : Begin(s, q) /\ KindsIn(q, Harmless) => Renewed(s)
      /\ \A q, r : KindsIn(q, Harmless) /\ KindsIn(r, Harmless) => KindsIn(q \o r, Harmless)
    BY Harmlessly, KindsJoin DEF Puts
<1>1. ASSUME NEW st, st.op \in {"create", "setMode", "setAmount", "start", "setCanceled", "closeAndBill"}
      PROVE  KindsIn(<<st>>, Harmless)
    BY <1>1, HarmlessOp DEF Harmless, Relying, Easy
<1>2. ASSUME NEW u \in Users, NEW w \in Wishes, SubmitRequest(s, u, w[1], w[2])
      PROVE  Renewed(s)
    <2> DEFINE st == [op |-> "create", user |-> u, mode |-> w[1], amount |-> w[2],
                      attempt |-> 0, no |-> NextQueueNo(w[1])]
    <2>1. Begin(s, <<st>>) /\ st.op = "create"
        BY <1>2 DEF SubmitRequest, CreateCall
    <2> HIDE DEF st
    <2> QED
        BY <1>0, <1>1, <2>1
<1>3. ASSUME NEW o \in DOMAIN orders, NEW mode \in Modes, ModifyMode(s, o, mode)
      PROVE  Renewed(s)
    <2> DEFINE st == [op |-> "setMode", order |-> o, from |-> orders[o].mode, mode |-> mode,
                      no |-> NextQueueNo(mode)]
    <2>1. Begin(s, <<st>>) /\ st.op = "setMode"
        BY <1>3 DEF ModifyMode
    <2> HIDE DEF st
    <2> QED
        BY <1>0, <1>1, <2>1
<1>4. ASSUME NEW o \in DOMAIN orders, NEW amount \in Amounts, ModifyAmount(s, o, amount)
      PROVE  Renewed(s)
    <2> DEFINE st == [op |-> "setAmount", order |-> o, amount |-> amount]
    <2>1. Begin(s, <<st>>) /\ st.op = "setAmount"
        BY <1>4 DEF ModifyAmount
    <2> HIDE DEF st
    <2> QED
        BY <1>0, <1>1, <2>1
<1>5. ASSUME NEW o \in DOMAIN orders, CancelQueued(s, o)
      PROVE  Renewed(s)
    <2> DEFINE mode == orders[o].mode
               refresh == IF orders[o].status = "WAITING" THEN RefreshMode(mode)
                          ELSE RefreshPile(orders[o].pile)
               st == [op |-> "setCanceled", order |-> o]
    <2>1. Begin(s, <<st>> \o refresh \o TriggerBasic(mode)) /\ st.op = "setCanceled"
        BY <1>5 DEF CancelQueued
    <2>2. KindsIn(refresh, Harmless)
        BY HarmlessParts
    <2> HIDE DEF st, refresh, mode
    <2>3. KindsIn(<<st>> \o refresh \o TriggerBasic(mode), Harmless)
        BY <1>0, <1>1, <2>1, <2>2, HarmlessParts
    <2> QED
        BY <1>0, <2>1, <2>3
<1>6. ASSUME NEW o, NEW reason, NEW target, NEW mode,
             Begin(s, <<CloseAndBill(o, reason, target, "IDLE")>> \o TriggerBasic(mode))
      PROVE  Renewed(s)
    <2> DEFINE st == CloseAndBill(o, reason, target, "IDLE")
    <2>1. st.op = "closeAndBill" /\ Begin(s, <<st>> \o TriggerBasic(mode))
        BY <1>6 DEF CloseAndBill
    <2> HIDE DEF st
    <2>2. KindsIn(<<st>> \o TriggerBasic(mode), Harmless)
        BY <1>0, <1>1, <2>1, HarmlessParts
    <2> QED
        BY <1>0, <2>1, <2>2
<1>7. ASSUME NEW o \in DOMAIN orders, NEW reason \in {"USER_STOP", "USER_CANCEL", None},
             CancelCharging(s, o, reason)
      PROVE  Renewed(s)
    BY <1>6, <1>7 DEF CancelCharging
<1>8. ASSUME NEW o \in DOMAIN orders, Start(s, o)
      PROVE  Renewed(s)
    <2> DEFINE p == orders[o].pile
               st == [op |-> "start", order |-> o, pile |-> p, ahead |-> AheadOf(o, p)]
    <2>1. Begin(s, <<st>>) /\ st.op = "start"
        BY <1>8 DEF Start
    <2> HIDE DEF st
    <2> QED
        BY <1>0, <1>1, <2>1
<1>9. ASSUME NEW o \in DOMAIN orders, Stop(s, o)
      PROVE  Renewed(s)
    BY <1>6, <1>9 DEF Stop
<1>10. CASE QueueStatus(s)
    <2>1. KindsIn(Completions, Harmless)
        BY CompletionsEasy, OrdersFinite, HarmlessParts
    <2> QED
        BY <1>0, <1>10, <2>1 DEF QueueStatus
<1> QED
    BY <1>2, <1>3, <1>4, <1>5, <1>7, <1>8, <1>9, <1>10 DEF DriverRequest

\* The administrator's rescheduling is that of a faulty pile's queue.
LEMMA AdminRenews ==
    ASSUME UiDiscipline, OnlyFaultsMove, HandlersInv, NEW s \in Slots, AdminRequest(s)
    PROVE  Renewed(s)
<1> USE DEF HandlersInv
<1>0. /\ \A q : Begin(s, q) /\ KindsIn(q, Harmless) => Renewed(s)
      /\ \A q : Begin(s, q) /\ Leading(s, q) => Renewed(s)
      /\ \A q, r : KindsIn(q, Harmless) /\ KindsIn(r, Harmless) => KindsIn(q \o r, Harmless)
    BY Harmlessly, RenewsBy, KindsJoin DEF Puts
<1>1. ASSUME NEW st, st.op \in {"setPower", "setFault", "closeAndBill", "remaining"}
      PROVE  KindsIn(<<st>>, Harmless)
    BY <1>1, HarmlessOp DEF Harmless, Relying, Easy
<1>2. ASSUME NEW p, NEW phys, NEW q, KindsIn(q, Harmless),
             Begin(s, <<[op |-> "setPower", pile |-> p, phys |-> phys,
                         work |-> WorkAfterSwitch(p)]>> \o RefreshPile(p) \o q)
      PROVE  Renewed(s)
    <2> DEFINE st == [op |-> "setPower", pile |-> p, phys |-> phys, work |-> WorkAfterSwitch(p)]
    <2>1. st.op = "setPower" /\ Begin(s, <<st>> \o RefreshPile(p) \o q)
        BY <1>2
    <2> HIDE DEF st
    <2>2. KindsIn(<<st>> \o RefreshPile(p) \o q, Harmless)
        BY <1>0, <1>1, <1>2, <2>1, HarmlessParts
    <2> QED
        BY <1>0, <2>1, <2>2
<1>3. ASSUME NEW p \in Piles, PowerOn(s, p)
      PROVE  Renewed(s)
    <2> DEFINE q == IF WorkAfterSwitch(p) = "FAULT" THEN <<>> ELSE TriggerBasic(PileType[p])
    <2>1. Begin(s, <<[op |-> "setPower", pile |-> p, phys |-> "ON",
                      work |-> WorkAfterSwitch(p)]>> \o RefreshPile(p) \o q)
        BY <1>3 DEF PowerOn
    <2>2. KindsIn(q, Harmless)
        BY HarmlessParts, KindsNone
    <2> HIDE DEF q
    <2> QED
        BY <1>2, <2>1, <2>2
<1>4. ASSUME NEW p \in Piles, PowerOff(s, p)
      PROVE  Renewed(s)
    <2> DEFINE st == [op |-> "setPower", pile |-> p, phys |-> "OFF", work |-> WorkAfterSwitch(p)]
    <2>1. st.op = "setPower" /\ Begin(s, <<st>> \o RefreshPile(p))
        BY <1>4 DEF PowerOff
    <2> HIDE DEF st
    <2>2. KindsIn(<<st>> \o RefreshPile(p), Harmless)
        BY <1>0, <1>1, <2>1, HarmlessParts
    <2> QED
        BY <1>0, <2>1, <2>2
<1>5. ASSUME NEW p \in Piles, ReportFault(s, p)
      PROVE  Renewed(s)
    <2>1. CASE Begin(s, <<[op |-> "setFault", pile |-> p, continued |-> FALSE]>>)
        <3> DEFINE st == [op |-> "setFault", pile |-> p, continued |-> FALSE]
        <3>1. Begin(s, <<st>>) /\ st.op = "setFault"
            BY <2>1
        <3> HIDE DEF st
        <3> QED
            BY <1>0, <1>1, <3>1
    <2>2. ASSUME NEW o \in OnPile(p, {"CHARGING"}),
                 Begin(s, <<CloseAndBill(o, "FAULT", "ABORTED", "FAULT"),
                            [op |-> "remaining", pile |-> p, order |-> o, active |-> orders[o]]>>)
          PROVE  Renewed(s)
        <3> DEFINE bill == CloseAndBill(o, "FAULT", "ABORTED", "FAULT")
                   st == [op |-> "remaining", pile |-> p, order |-> o, active |-> orders[o]]
        <3>1. Begin(s, <<bill, st>>) /\ bill.op = "closeAndBill" /\ st.op = "remaining"
            BY <2>2 DEF CloseAndBill
        <3> HIDE DEF bill, st
        <3>2. KindsIn(<<bill>> \o <<st>>, Harmless)
            BY <1>0, <1>1, <3>1
        <3>3. Begin(s, <<bill>> \o <<st>>)
            BY <3>1, PutAfter
        <3> QED
            BY <1>0, <3>2, <3>3
    <2> QED
        BY <1>5, <2>1, <2>2 DEF ReportFault
<1>6. ASSUME NEW p \in Piles, Offered(p, "reschedule"), Reschedule(s, p, "PRIORITY")
      PROVE  Renewed(s)
    <2>1. Faulty(p)
        BY <1>6 DEF Offered, Faulty
    <2>2. UNCHANGED tables /\ Begin(s, FaultReschedule(p, "PRIORITY"))
        BY <1>6 DEF Reschedule
    <2>3. Leading(s, FaultReschedule(p, "PRIORITY"))
        BY <2>1, <2>2, FaultLeads
    <2> QED
        BY <1>0, <2>2, <2>3
<1>7. CASE BasicAll(s)
    <2> DEFINE then == AutoComplete \o <<[op |-> "wakeIdlePiles"]>>
                       \o TriggerBasic("FAST") \o TriggerBasic("SLOW")
               st == LockStep(<<"basic">>, then)
    <2>1. Begin(s, <<st>>) /\ UNCHANGED tables
        BY <1>7 DEF BasicAll, Locked
    <2>2. KindsIn(then, Triggers)
        <3>1. KindsIn(<<[op |-> "wakeIdlePiles"]>>, Triggers)
            BY KindsOp DEF Triggers
        <3> QED
            BY <3>1, HarmlessParts, KindsJoin
    <2>3. st.op = "lock" /\ st.then = then
        BY DEF LockStep
    <2> HIDE DEF then, st
    <2>4. ASSUME NEW i \in DOMAIN then
          PROVE  Tame(then[i])
        <3>1. Kind(then[i]) \in Triggers
            BY <2>2, KindsAt
        <3>2. then[i].op \in Triggers
            BY <3>1 DEF Kind, Triggers
        <3> QED
            BY <3>2 DEF Tame, Triggers
    <2>5. Kind(st) \in {"lock", "wakeLock"}
        BY <2>3 DEF Kind
    <2>6. QueueValid(st)
        BY <2>3, <2>4, <2>5 DEF QueueValid, Tame
    <2>7. Planned(s, st)
        BY <2>1, <2>6 DEF Planned
    <2>8. Leading(s, <<st>>)
        BY <2>7, PlannedLeads
    <2> QED
        BY <1>0, <2>1, <2>8
<1>8. ASSUME NEW mode, Basic(s, mode)
      PROVE  Renewed(s)
    BY <1>0, <1>8, HarmlessParts DEF Basic
<1>9. ASSUME UNCHANGED tables, NEW plan, NEW mode, NEW q, KindsIn(q, Harmless),
             Begin(s, ApplyAssignments(plan, mode, {}) \o q)
      PROVE  Renewed(s)
    <2>1. Leading(s, ApplyAssignments(plan, mode, {}))
        BY <1>9, ApplyLeads
    <2>2. Leading(s, ApplyAssignments(plan, mode, {}) \o q)
        BY <1>9, <2>1, HarmlessLead, LeadingJoin
    <2> QED
        BY <1>0, <1>9, <2>2
<1>10. ASSUME NEW mode, NEW n, SingleOptimization(s, mode, n)
      PROVE  Renewed(s)
    <2>1. PICK plan : Begin(s, ApplyAssignments(plan, mode, {}) \o RefreshMode(mode))
        BY <1>10 DEF SingleOptimization
    <2>2. UNCHANGED tables
        BY <1>10 DEF SingleOptimization
    <2> QED
        BY <1>9, <2>1, <2>2, HarmlessParts
<1>11. ASSUME NEW n, BatchOptimization(s, n)
      PROVE  Renewed(s)
    <2>1. PICK plan : Begin(s, ApplyAssignments(plan, None, {}) \o RefreshAll)
        BY <1>11 DEF BatchOptimization
    <2>2. UNCHANGED tables
        BY <1>11 DEF BatchOptimization
    <2> QED
        BY <1>9, <2>1, <2>2, HarmlessParts
<1> QED
    BY <1>3, <1>4, <1>5, <1>6, <1>7, <1>8, <1>10, <1>11 DEF AdminRequest, OnlyFaultsMove

-----------------------------------------------------------------------------
(* Handlers *)

\* Billing puts refreshes.
LEMMA BillRenews ==
    ASSUME HandlersInv, NEW s \in Slots, ReadForBill(s) \/ Settle(s)
    PROVE  Renewed(s)
<1> USE DEF HandlersInv
<1> DEFINE step == Head(todo[s])
<1>0. \A q : todo[s] # <<>> /\ Goto(s, q) /\ KindsIn(q, Easy) => Renewed(s)
    BY Harmlessly, HarmlessParts DEF Puts
<1>1. CASE ReadForBill(s)
    <2> DEFINE o == step.order
               x == Min(ActiveSessions(o))
               st == [op |-> "settle", session |-> x, amount |-> ActualAmount(o, x),
                      previous |-> PreviousAmount(o, x), mode |-> orders[o].mode,
                      reason |-> step.reason, target |-> step.target, work |-> step.work,
                      swallow |-> step.swallow, after |-> step.after]
    <2>1. At(s, "closeAndBill") /\ todo[s] # <<>>
        BY <1>1 DEF ReadForBill, At
    <2>2. StepOK(step) /\ step.op = "closeAndBill"
        BY <2>1, HeadOK
    <2>3. KindsIn(step.after, {"refresh"})
        BY <2>2 DEF StepOK, EndOK
    <2>4. KindsIn(step.after, Easy)
        BY <2>3, KindsNone DEF Easy
    <2>5. \/ Goto(s, step.after)
          \/ Fail(s)
          \/ Goto(s, <<st>>)
        BY <1>1 DEF ReadForBill
    <2>6. st.op = "settle"
        OBVIOUS
    <2> HIDE DEF st
    <2>7. KindsIn(<<st>>, Easy)
        BY <2>6, KindsOp DEF Easy
    <2> QED
        BY <1>0, <2>1, <2>4, <2>5, <2>7, HarmlessEnd
<1>2. CASE Settle(s)
    <2> DEFINE q == RefreshMode(step.mode) \o RefreshPile(sessions[step.session].pile) \o step.after
    <2>1. At(s, "settle") /\ todo[s] # <<>>
        BY <1>2 DEF Settle, At
    <2>2. StepOK(step) /\ step.op = "settle"
        BY <2>1, HeadOK
    <2>3. KindsIn(step.after, {"refresh"})
        BY <2>2 DEF StepOK, EndOK
    <2>4. KindsIn(step.after, Easy)
        BY <2>3, KindsNone DEF Easy
    <2>5. KindsIn(q, Easy)
        BY <2>4, CalmParts, KindsJoin
    <2>6. Goto(s, q) \/ Fail(s)
        BY <1>2 DEF Settle
    <2> HIDE DEF q
    <2> QED
        BY <1>0, <2>1, <2>5, <2>6, HarmlessEnd
<1> QED
    BY <1>1, <1>2

\* Planning: the orders a batch may move are those queued on a faulty pile.
LEMMA PlanRenews ==
    ASSUME HandlersInv, NEW s \in Slots, todo[s] # <<>> => QueueValid(Head(todo[s])),
           \/ AutoCompleteCharging(s) \/ PlanBasic(s) \/ PlanFault(s) \/ PlanRecovery(s)
           \/ PlanWake(s) \/ Wake(s)
    PROVE  Renewed(s)
<1> USE DEF HandlersInv
<1>0. /\ \A q : todo[s] # <<>> /\ Goto(s, q) /\ KindsIn(q, Harmless) => Renewed(s)
      /\ \A op : At(s, op) => /\ todo[s] # <<>> /\ Head(todo[s]).op = op
                              /\ Tame(Head(todo[s]))
    BY Harmlessly DEF Puts, At, QueueValid
<1>1. ASSUME UNCHANGED tables, todo[s] # <<>>,
             NEW plan, NEW mode, NEW movable, NEW q, KindsIn(q, Harmless),
             \A p \in Piles : ~Faulty(p) => Standing(p) \cap movable = {},
             Goto(s, ApplyAssignments(plan, mode, movable) \o q)
      PROVE  Renewed(s)
    <2>1. Leading(s, ApplyAssignments(plan, mode, movable))
        BY <1>1, ApplyLeads
    <2>2. Leading(s, ApplyAssignments(plan, mode, movable) \o q)
        BY <1>1, <2>1, HarmlessLead, LeadingJoin
    <2> QED
        BY <1>1, <2>2, RenewsBy DEF Puts
<1>2. CASE AutoCompleteCharging(s)
    <2>1. KindsIn(Completions, Harmless)
        BY CompletionsEasy, OrdersFinite, HarmlessParts
    <2> QED
        BY <1>0, <1>2, <2>1 DEF AutoCompleteCharging
<1>3. CASE PlanBasic(s)
    <2>1. PICK plan, mode : Goto(s, ApplyAssignments(plan, mode, {}) \o RefreshMode(mode))
        BY <1>3 DEF PlanBasic
    <2>2. UNCHANGED tables /\ todo[s] # <<>>
        BY <1>3 DEF PlanBasic, At
    <2> QED
        BY <1>1, <2>1, <2>2, HarmlessParts
<1>4. CASE PlanFault(s)
    <2>1. PICK step : step = Head(todo[s])
        OBVIOUS
    <2>2. PICK p : p = step.pile
        OBVIOUS
    <2>3. /\ step.op = "fault" /\ todo[s] # <<>> /\ Tame(step) /\ UNCHANGED tables
          /\ step.strategy = "PRIORITY" /\ Faulty(p)
        BY <1>0, <1>4, <2>1, <2>2 DEF PlanFault, Tame
    <2>4. PICK queue : queue = QueuedOn(p)
        OBVIOUS
    <2> DEFINE affected == Candidates(queue)
               movable == {affected[i].order : i \in DOMAIN affected}
    <2>5. PICK plan, mode : Goto(s, ApplyAssignments(plan, mode, movable) \o RefreshPile(p))
        <3>1. AssignedOrders(p) = affected
            BY <2>4 DEF AssignedOrders
        <3> DEFINE mode == PileType[p]
                   plan == ShortestDispatch(affected, QueuedEnergy(Occupying),
                                            OfferedPiles({mode}, {p}))
        <3> HIDE DEF affected
        <3>2. Goto(s, ApplyAssignments(plan, mode, movable) \o RefreshPile(p))
            BY <1>4, <2>1, <2>2, <2>3, <3>1 DEF PlanFault
        <3> HIDE DEF plan, mode, movable
        <3> QED
            BY <3>2
    <2>6. queue \in Seq(OnPile(p, {"IN_PILE_QUEUE"}))
        BY <2>4, QueuedThere DEF RowsOK
    <2>7. DOMAIN affected = DOMAIN queue /\ \A i \in DOMAIN queue : affected[i].order = queue[i]
        BY DEF Candidates, Candidate
    <2> HIDE DEF affected
    <2>8. movable \subseteq OnPile(p, {"IN_PILE_QUEUE"})
        BY <2>6, <2>7
    <2> HIDE DEF movable
    <2>9. \A r \in Piles : ~Faulty(r) => Standing(r) \cap movable = {}
        BY <2>3, <2>8 DEF Standing, OnPile
    <2> QED
        BY <1>1, <2>3, <2>5, <2>9, HarmlessParts
<1>5. CASE PlanRecovery(s)
    BY <1>0, <1>5 DEF PlanRecovery, Tame
<1>6. CASE PlanWake(s)
    <2> DEFINE idle == {p \in Piles : Wakeable(p)}
               n == Cardinality(idle)
               q == [i \in 1..n |-> WakeCall(ById(idle)[i])]
    <2>1. Goto(s, q) /\ todo[s] # <<>>
        BY <1>6 DEF PlanWake, At
    <2>2. IsFiniteSet(idle)
        BY PilesAssumption, FS_Subset
    <2>3. n \in Nat
        BY <2>2, FS_CardinalityType
    <2>4. \A p : Kind(WakeCall(p)) \in Harmless
        BY RescheduleOK DEF Harmless, Relying
    <2>5. q = [i \in 1..n |-> q[i]] /\ \A i \in 1..n : Kind(q[i]) \in Harmless
        BY <2>4
    <2> HIDE DEF n, q
    <2>6. KindsIn(q, Harmless)
        BY <2>3, <2>5, KindsEach
    <2> QED
        BY <1>0, <2>1, <2>6
<1>7. CASE Wake(s)
    <2>1. PICK p : Goto(s, RefreshPile(p)) /\ todo[s] # <<>>
        BY <1>7 DEF Wake, At
    <2> QED
        BY <1>0, <2>1, HarmlessParts
<1> QED
    BY <1>2, <1>3, <1>4, <1>5, <1>6, <1>7

\* A batch of assignments: what it has room for it assigns next.
LEMMA AssignRenews ==
    ASSUME HandlersInv, NEW s \in Slots, todo[s] # <<>> => QueueValid(Head(todo[s])),
           ReadAssignment(s) \/ Assign(s)
    PROVE  Renewed(s)
<1> USE DEF HandlersInv
<1> DEFINE step == Head(todo[s])
<1>0. \A q : todo[s] # <<>> /\ Goto(s, q) /\ Leading(s, q) => Renewed(s)
    BY RenewsBy DEF Puts
<1>1. CASE ReadAssignment(s)
    <2> DEFINE next == Head(step.plan)
               rest == [step EXCEPT !.plan = Tail(@)]
               st == [op |-> "assign", order |-> next.order, pile |-> next.pile,
                      autoStart |-> AutoStarts(step, next.pile),
                      from |-> orders[next.order].pile, rest |-> rest]
    <2>1. At(s, "apply") /\ UNCHANGED tables /\ todo[s] # <<>>
        BY <1>1 DEF ReadAssignment, At
    <2>2. BatchOK(step) /\ step.op = "apply"
        BY <2>1, HeadOK DEF StepOK
    <2>3. Kind(step) = "apply"
        BY <2>2, KindOfOp
    <2>4. Tallies(step)
        BY <2>1, <2>3 DEF QueueValid
    <2>5. /\ DOMAIN rest = DOMAIN step /\ rest.op = step.op /\ rest.touched = step.touched
          /\ rest.movable = step.movable /\ rest.applied = step.applied
        BY <2>2, <2>4 DEF BatchOK, Tallies
    <2>6. \/ CanPlace(step, next.order, next.pile) /\ Goto(s, <<st>>)
          \/ Goto(s, Remaining(rest))
        BY <1>1 DEF ReadAssignment
    <2>7. PICK left : left = rest
        OBVIOUS
    <2>8. BatchOK(left) /\ Tallies(left) /\ \A o, p : HasRoom(step, o, p) <=> HasRoom(left, o, p)
        <3>1. /\ DOMAIN left = DOMAIN step /\ left.op = step.op /\ left.touched = step.touched
              /\ left.movable = step.movable /\ left.applied = step.applied
            BY <2>5, <2>7
        <3>2. BatchOK(left)
            BY <2>2, <3>1 DEF BatchOK
        <3> QED
            BY <2>4, <3>1, <3>2, TalliesSame
    <2>9. CASE CanPlace(step, next.order, next.pile) /\ Goto(s, <<st>>)
        <3>1. /\ st.op = "assign" /\ st.order = next.order /\ st.pile = next.pile
              /\ st.rest = left
            BY <2>7
        <3>2. Goto(s, <<st>>)
            BY <2>9
        <3>3. HasRoom(step, next.order, next.pile) /\ ~Faulty(next.pile)
            BY <2>9 DEF CanPlace, Faulty
        <3> HIDE DEF st, next, rest
        <3>4. Kind(st) = "assign"
            BY <3>1, KindOfOp
        <3>5. QueueValid(st)
            BY <2>8, <3>1, <3>3, <3>4 DEF QueueValid, Tame
        <3>6. Leading(s, <<st>>)
            BY <2>1, <3>5, PlannedLeads DEF Planned
        <3> QED
            BY <1>0, <2>1, <3>2, <3>6
    <2>10. CASE Goto(s, Remaining(rest))
        <3>1. left.op = "apply" /\ Goto(s, Remaining(left))
            BY <2>2, <2>5, <2>7, <2>10
        <3> HIDE DEF rest
        <3>2. Kind(left) = "apply"
            BY <3>1, KindOfOp
        <3>3. QueueValid(left)
            BY <2>8, <3>1, <3>2 DEF QueueValid, Tame
        <3>4. Leading(s, Remaining(left))
            BY <2>1, <2>8, <3>3, RemainingLeads DEF Planned
        <3> QED
            BY <1>0, <2>1, <3>1, <3>4
    <2> QED
        BY <2>6, <2>9, <2>10
<1>2. CASE Assign(s)
    <2>1. At(s, "assign") /\ todo[s] # <<>>
        BY <1>2 DEF Assign, At
    <2>2. PICK rest : /\ BatchOK(rest) /\ Goto(s, Remaining(rest))
                      /\ Tallied(rest, step.rest, step.pile)
        BY <1>2, AssignGoesOn
    <2>3. Planned(s, rest)
        BY <2>1, <2>2 DEF Planned
    <2> QED
        BY <1>0, <2>1, <2>2, <2>3, RemainingLeads
<1> QED
    BY <1>1, <1>2

\* The driver's writes are followed by refreshes and dispatching.
LEMMA ChargingRenews ==
    ASSUME HandlersInv, NEW s \in Slots, ServeCharging(s)
    PROVE  Renewed(s)
<1> USE DEF HandlersInv
<1> DEFINE step == Head(todo[s])
<1>0. /\ \A q : todo[s] # <<>> /\ Goto(s, q) /\ KindsIn(q, Harmless) => Renewed(s)
      /\ \A op : At(s, op) => todo[s] # <<>>
      /\ \A q, r : KindsIn(q, Harmless) /\ KindsIn(r, Harmless) => KindsIn(q \o r, Harmless)
      /\ KindsIn(AutoComplete, Harmless)
    BY Harmlessly, HarmlessParts, KindsJoin DEF Puts, At
<1>1. CASE Create(s)
    <2> DEFINE again == [op |-> "retry", user |-> step.user, mode |-> step.mode,
                         amount |-> step.amount, attempt |-> step.attempt + 1]
    <2>1. \/ Throw(s) \/ Goto(s, <<again>>)
          \/ Goto(s, RefreshMode(step.mode) \o AutoComplete)
        BY <1>1 DEF Create
    <2>2. At(s, "create") /\ again.op \in Harmless
        BY <1>1 DEF Create, Harmless, Relying
    <2> HIDE DEF again
    <2>3. KindsIn(<<again>>, Harmless)
        BY <2>2, HarmlessOp
    <2> QED
        BY <1>0, <2>1, <2>2, <2>3, HarmlessEnd, HarmlessParts
<1>2. CASE Retry(s)
    <2> DEFINE st == [op |-> "create", user |-> step.user, mode |-> step.mode,
                      amount |-> step.amount, attempt |-> step.attempt,
                      no |-> NextQueueNo(step.mode)]
    <2>1. At(s, "retry") /\ Goto(s, <<st>>)
        BY <1>2 DEF Retry, CreateCall
    <2>2. st.op \in Harmless
        BY DEF Harmless, Relying
    <2> HIDE DEF st
    <2> QED
        BY <1>0, <2>1, <2>2, HarmlessOp
<1>3. CASE SetMode(s)
    <2> DEFINE q == RefreshMode(step.from) \o RefreshMode(step.mode) \o AutoComplete
    <2>1. At(s, "setMode") /\ (Throw(s) \/ Goto(s, q))
        BY <1>3 DEF SetMode
    <2>2. KindsIn(q, Harmless)
        BY <1>0, HarmlessParts
    <2> HIDE DEF q
    <2> QED
        BY <1>0, <2>1, <2>2, HarmlessEnd
<1>4. CASE SetAmount(s)
    <2>1. PICK mode : At(s, "setAmount") /\ Goto(s, RefreshMode(mode) \o AutoComplete)
        BY <1>4 DEF SetAmount
    <2> QED
        BY <1>0, <2>1, HarmlessParts
<1>5. CASE SetCanceled(s)
    BY <1>0, <1>5, HarmlessEnd DEF SetCanceled
<1>6. CASE StartTransaction(s)
    <2>1. At(s, "start") /\ (Throw(s) \/ Goto(s, RefreshPile(step.pile)))
        BY <1>6 DEF StartTransaction
    <2> QED
        BY <1>0, <2>1, HarmlessEnd, HarmlessParts
<1> QED
    BY <1>1, <1>2, <1>3, <1>4, <1>5, <1>6 DEF ServeCharging

\* A fault is marked before the queue of its pile is rescheduled.
LEMMA PileRenews ==
    ASSUME HandlersInv, NEW s \in Slots, todo[s] # <<>> => QueueValid(Head(todo[s])),
           ServePile(s)
    PROVE  Renewed(s)
<1> USE DEF HandlersInv
<1> DEFINE step == Head(todo[s])
<1>0. /\ \A q : todo[s] # <<>> /\ Goto(s, q) /\ KindsIn(q, Harmless) => Renewed(s)
      /\ \A op : At(s, op) => todo[s] # <<>> /\ step.op = op
    BY Harmlessly DEF Puts, At
<1>1. CASE SetPower(s)
    BY <1>0, <1>1, HarmlessEnd DEF SetPower
<1>2. CASE Rename(s)
    BY <1>0, <1>2, HarmlessEnd DEF Rename
<1>3. CASE Continue(s)
    BY <1>0, <1>3, HarmlessEnd DEF Continue
<1>4. CASE SetFault(s)
    <2> DEFINE st == [op |-> "affected", pile |-> step.pile, continued |-> step.continued]
    <2>1. At(s, "setFault") /\ Goto(s, <<st>>)
        BY <1>4 DEF SetFault
    <2>2. st.op = "affected" /\ st.pile = step.pile
        OBVIOUS
    <2> HIDE DEF st
    <2>3. Leading(s, <<st>>)
        BY <1>4, <2>2, PlannedLeads DEF Planned
    <2> QED
        BY <1>0, <2>1, <2>3, RenewsBy DEF Puts
<1>5. CASE Affected(s)
    <2> DEFINE p == step.pile
               queued == QueuedOn(p) # <<>>
               moved == IF queued THEN FaultReschedule(p, "PRIORITY") ELSE <<>>
               filled == IF queued \/ step.continued THEN TriggerBasic(PileType[p]) ELSE <<>>
    <2>1. /\ At(s, "affected") /\ UNCHANGED tables
          /\ Goto(s, RefreshPile(p) \o moved \o filled)
        BY <1>5 DEF Affected
    <2>2. Faulty(p)
        BY <1>0, <2>1 DEF QueueValid, Tame
    <2>3. KindsIn(<<>>, Harmless)
        BY KindsNone
    <2>4. Leading(s, moved) /\ Settled(moved)
        BY <2>1, <2>2, <2>3, FaultLeads, HarmlessLead
    <2>5. KindsIn(filled, Harmless) /\ KindsIn(RefreshPile(p), Harmless)
        BY <2>3, HarmlessParts
    <2> HIDE DEF moved, filled
    <2>6. Leading(s, RefreshPile(p) \o moved)
        BY <2>4, <2>5, HarmlessLead, LeadingJoin
    <2>7. Leading(s, RefreshPile(p) \o moved \o filled)
        BY <2>5, <2>6, HarmlessLead, LeadingJoin
    <2> QED
        BY <1>0, <2>1, <2>7, RenewsBy DEF Puts
<1>6. CASE Remainder(s)
    <2> DEFINE fault(continued) == [op |-> "setFault", pile |-> step.pile, continued |-> continued]
               rename == [op |-> "rename", order |-> step.order, no |-> step.active.no]
               continue == [op |-> "continue", active |-> step.active, amount |-> Uncovered(step)]
    <2>1. \/ Goto(s, <<rename, continue>> \o <<fault(TRUE)>>)
          \/ Goto(s, <<fault(FALSE)>>)
        BY <1>6 DEF Remainder
    <2>2. /\ rename.op \in Harmless /\ continue.op \in Harmless
          /\ \A c : fault(c).op \in Harmless
        BY DEF Harmless, Relying
    <2> HIDE DEF fault, rename, continue
    <2>3. /\ KindsIn(<<rename>>, Harmless) /\ KindsIn(<<continue>>, Harmless)
          /\ \A c : KindsIn(<<fault(c)>>, Harmless)
        BY <2>2, HarmlessOp
    <2>4. KindsIn(<<rename>> \o <<continue>>, Harmless)
        BY <2>3, KindsJoin
    <2>5. KindsIn(<<rename, continue>>, Harmless)
        BY <2>4, PutAfter
    <2>6. KindsIn(<<rename, continue>> \o <<fault(TRUE)>>, Harmless)
        BY <2>3, <2>5, KindsJoin
    <2>7. todo[s] # <<>>
        BY <1>6 DEF Remainder, At
    <2> QED
        BY <1>0, <2>1, <2>3, <2>6, <2>7
<1> QED
    BY <1>1, <1>2, <1>3, <1>4, <1>5, <1>6 DEF ServePile

\* What is done under a lock is as tame as the lock was.
LEMMA LockRenews ==
    ASSUME HandlersInv, NEW s \in Slots, todo[s] # <<>> => QueueValid(Head(todo[s])),
           Lock(s) \/ Unlock(s)
    PROVE  Renewed(s)
<1> USE DEF HandlersInv
<1> DEFINE step == Head(todo[s])
           last == [op |-> "unlock", key |-> step.key]
<1>1. todo[s] # <<>>
    BY DEF Lock, Unlock, At
<1>2. CASE Goto(s, <<>>)
    BY <1>1, <1>2, HarmlessEnd
<1>3. CASE At(s, "lock") /\ UNCHANGED tables /\ Goto(s, step.then \o <<last>>)
    <2>1. StepOK(step) /\ step.op = "lock" /\ QueueValid(step)
        BY <1>1, <1>3, HeadOK DEF At
    <2>2. last.op \in Harmless
        BY DEF Harmless, Easy
    <2> HIDE DEF last
    <2>3. KindsIn(<<last>>, Harmless)
        BY <2>2, HarmlessOp
    <2>4. Leading(s, step.then)
        <3>1. PICK S : step.then \in Seq(S)
            BY <2>1 DEF StepOK, PlainSteps
        <3>2. CASE WakeLock(step)
            <4>1. \A i \in DOMAIN step.then : step.then[i].op = "wake"
                BY <3>1, <3>2 DEF WakeLock
            <4>2. \A i \in DOMAIN step.then : Kind(step.then[i]) \in Harmless
                BY <4>1, KindOfOp DEF Harmless, Relying
            <4> QED
                BY <3>1, <4>2 DEF Leading
        <3>3. CASE ~WakeLock(step)
            <4>1. KindsIn(step.then, DispatchKinds)
                BY <2>1, <3>3 DEF StepOK
            <4>2. Kind(step) = "lock"
                BY <2>1, <3>3 DEF Kind
            <4>3. \A i \in DOMAIN step.then :
                     Kind(step.then[i]) \in DispatchKinds /\ Tame(step.then[i])
                BY <2>1, <4>1, <4>2, KindsAt DEF QueueValid
            <4>4. \A i \in DOMAIN step.then :
                     QueueValid(step.then[i]) /\ ~Immediate(step.then[i])
                BY <4>3, TameValid DEF DispatchKinds
            <4> QED
                BY <1>3, <3>1, <4>4 DEF Leading, Planned
        <3> QED
            BY <3>2, <3>3
    <2>5. Leading(s, step.then \o <<last>>)
        BY <2>3, <2>4, HarmlessLead, LeadingJoin
    <2> QED
        BY <1>1, <1>3, <2>5, RenewsBy DEF Puts
<1> QED
    BY <1>2, <1>3 DEF Lock, Unlock

\* The cache.
LEMMA CacheRenews ==
    ASSUME HandlersInv, NEW s \in Slots, ReadPayload(s) \/ SetJson(s)
    PROVE  Renewed(s)
<1> USE DEF HandlersInv
<1>0. todo[s] # <<>>
    BY DEF ReadPayload, SetJson, At
<1>1. CASE ReadPayload(s)
    <2> DEFINE key == Head(todo[s]).key
               st == [op |-> "setJson", key |-> key, payload |-> Payload(key)]
    <2>1. Goto(s, <<st>>)
        BY <1>1 DEF ReadPayload
    <2>2. st.op \in Harmless
        BY DEF Harmless, Easy
    <2> HIDE DEF st
    <2> QED
        BY <1>0, <2>1, <2>2, HarmlessOp, Harmlessly DEF Puts
<1>2. CASE SetJson(s)
    BY <1>0, <1>2, HarmlessEnd DEF SetJson
<1> QED
    BY <1>1, <1>2

\* Every slot moves on so.
LEMMA SlotRenews ==
    ASSUME UiDiscipline, OnlyFaultsMove, HandlersInv, NEW s \in Slots,
           todo[s] # <<>> => QueueValid(Head(todo[s])),
           DriverRequest(s) \/ AdminRequest(s) \/ Serve(s)
    PROVE  Renewed(s)
BY DriverRenews, AdminRenews, BillRenews, PlanRenews, AssignRenews, ChargingRenews,
   PileRenews, LockRenews, CacheRenews DEF Serve, ServeDispatch

-----------------------------------------------------------------------------
(* What a step does to the queues and the faulty piles *)

(* No order comes to a queue.                                               *)
Shrinks == \A p : Standing(p)' \subseteq Standing(p)

FaultsStay == \A p : Faulty(p) => Faulty(p)'

\* Only recovery mends a pile: what starts on one starts where it works, a bill is
\* of a session on a pile that charges, and the switch keeps a fault.
LEMMA FaultyStays ==
    ASSUME OnlyFaultsMove, HandlersInv, OrdersSerial, PilesSerial, NEW s \in Slots, Writes(s),
           todo[s] # <<>> => PileValid(Head(todo[s]))
    PROVE  FaultsStay
<1> DEFINE step == Head(todo[s])
<1>0. /\ \A op : At(s, op) => todo[s] # <<>> /\ step.op = op
      /\ \A op : At(s, op) /\ op # "lock" => Kind(step) = op
    BY KindOfOp DEF At
<1>1. CASE UNCHANGED piles
    BY <1>1 DEF FaultsStay, Faulty
<1>2. ASSUME NEW p, NEW phys, NEW work, Turns(p, phys, work), Faulty(p) => work = "FAULT"
      PROVE  FaultsStay
    BY <1>2 DEF FaultsStay, Faulty, Turns
<1>3. ASSUME NEW o, NEW p, Charges(o, p), Works(p)
      PROVE  FaultsStay
    BY <1>2, <1>3 DEF Charges, Works, Faulty
<1>4. CASE At(s, "assign") /\ step.autoStart /\ Charges(step.order, step.pile)
    BY <1>0, <1>3, <1>4 DEF PileValid
<1>5. CASE At(s, "start") /\ Charges(step.order, step.pile)
    BY <1>0, <1>3, <1>5 DEF PileValid
<1>6. CASE At(s, "wake") /\ Charges(step.order, step.pile)
    <2>1. Wakes(step) /\ Woken(step) = step
        BY <1>0, <1>6, WakeIsIt
    <2>2. Works(step.pile)
        BY <1>0, <1>6, <2>1 DEF PileValid
    <2> QED
        BY <1>3, <1>6, <2>2
<1>7. ASSUME NEW x, NEW target, NEW work, Ends(x, target, work)
      PROVE  FaultsStay
    <2>1. sessions[x].pile \in Piles /\ sessions[x].order \in Charging(sessions[x].pile)
        BY <1>7, EndsActive DEF HandlersInv, Charging
    <2>2. piles[sessions[x].pile].work = "CHARGING"
        BY <2>1 DEF PilesSerial
    <2>3. ~Faulty(sessions[x].pile)
        BY <2>2 DEF Faulty
    <2> QED
        BY <1>2, <1>7, <2>3 DEF Ends
<1>8. CASE At(s, "setPower") /\ \E phys : Marks(step.pile, phys, step.work)
    <2>1. step.work = WorkAfterSwitch(step.pile)
        BY <1>0, <1>8 DEF PileValid
    <2> QED
        BY <1>2, <1>8, <2>1 DEF Marks, WorkAfterSwitch, Faulty
<1>9. CASE At(s, "setFault") /\ \E phys : Marks(step.pile, phys, "FAULT")
    BY <1>2, <1>9 DEF Marks
<1> QED
    BY <1>1, <1>4, <1>5, <1>6, <1>7, <1>8, <1>9 DEF Writes, Adds, Cancels, Places, OnlyFaultsMove

\* Orders come to a queue by assignments alone.
LEMMA StandingNext ==
    ASSUME HandlersInv, NEW s \in Slots, Writes(s), todo[s] # <<>> => Valid(Head(todo[s]))
    PROVE  \/ Shrinks
           \/ /\ At(s, "assign")
              /\ \E status \in Occupying : Becomes(Head(todo[s]).order, status, Head(todo[s]).pile)
<1> DEFINE step == Head(todo[s])
<1>0. /\ \A op : At(s, op) => todo[s] # <<>> /\ step.op = op
      /\ \A op : At(s, op) /\ op # "lock" => Kind(step) = op
    BY KindOfOp DEF At
<1>1. CASE Kept
    BY <1>1, KeptViews DEF Shrinks, Standing
<1>2. CASE \E u : Adds(u)
    BY <1>2, AddsViews DEF Shrinks, Standing, Occupying
<1>3. CASE \E o : Cancels(o)
    BY <1>3, BecomesViews DEF Cancels, Shrinks, Standing, Occupying
<1>4. CASE At(s, "assign") /\ (Places(step.order, step.pile) \/ Charges(step.order, step.pile))
    BY <1>4 DEF Places, Charges, Occupying
<1>5. ASSUME NEW o, NEW p, Charges(o, p), o \in OnPile(p, {"IN_PILE_QUEUE"})
      PROVE  Shrinks
    <2>1. o \in Standing(p)
        BY <1>5 DEF Standing, OnPile, OrdersIn, Occupying
    <2>2. Becomes(o, "CHARGING", p)
        BY <1>5 DEF Charges
    <2>3. \A q : Standing(q)' \subseteq IF q = p THEN Standing(q) \cup {o} ELSE Standing(q)
        BY <2>2, BecomesViews DEF Standing
    <2> QED
        BY <2>1, <2>3 DEF Shrinks
<1>6. CASE At(s, "start") /\ Charges(step.order, step.pile)
    BY <1>0, <1>5, <1>6 DEF Valid
<1>7. CASE At(s, "wake") /\ Charges(step.order, step.pile)
    <2>1. Wakes(step) /\ Woken(step) = step
        BY <1>0, <1>7, WakeIsIt
    <2> QED
        BY <1>0, <1>5, <1>7, <2>1 DEF Valid
<1>8. ASSUME NEW x, NEW target, NEW work, Ends(x, target, work)
      PROVE  Shrinks
    <2>1. PICK o, p : Becomes(o, target, p)
        BY <1>8 DEF Ends
    <2>2. target \notin Occupying
        BY <1>8 DEF Ends, Occupying
    <2> QED
        BY <2>1, <2>2, BecomesViews DEF Shrinks, Standing
<1>9. CASE \E p, phys, work : Marks(p, phys, work)
    BY <1>1, <1>9 DEF Marks
<1> QED
    BY <1>1, <1>2, <1>3, <1>4, <1>6, <1>7, <1>8, <1>9 DEF Writes

-----------------------------------------------------------------------------
(* Steps stay valid *)

\* One that is not taken at once.
LEMMA LaterValid ==
    ASSUME FaultsStay, NEW st, QueueValid(st), ~Immediate(st)
    PROVE  QueueValid(st)'
<1>1. \A x : Tame(x) => Tame(x)'
    BY DEF Tame, FaultsStay
<1> QED
    BY <1>1 DEF QueueValid, Immediate

\* A harmless one.
LEMMA HarmlessValid ==
    ASSUME NEW st, Kind(st) \in Harmless
    PROVE  QueueValid(st) /\ QueueValid(st)' /\ ~Immediate(st)
<1>1. st.op \notin {"recovery", "fault", "affected"} /\ Kind(st) \notin {"lock", "apply", "assign"}
    BY DEF Kind, WakeLock, Harmless
<1> QED
    BY <1>1 DEF QueueValid, Immediate, Tame

\* Any, where nothing is written that says anything of queues.
LEMMA KeptQueueValid ==
    ASSUME Kept, UNCHANGED piles, NEW st, QueueValid(st)
    PROVE  QueueValid(st)'
<1>1. \A p : Faulty(p)' <=> Faulty(p)
    BY DEF Faulty
<1>2. \A p : OnPile(p, Occupying)' = OnPile(p, Occupying)
    BY KeptViews
<1>3. \A x : Tame(x) => Tame(x)'
    BY <1>1 DEF Tame
<1>4. \A batch : Tallies(batch) => Tallies(batch)'
    BY <1>1, <1>2 DEF Tallies, Standing
<1>5. \A batch, o, p : HasRoom(batch, o, p) => HasRoom(batch, o, p)'
    BY <1>2 DEF HasRoom
<1> QED
    BY <1>1, <1>3, <1>4, <1>5 DEF QueueValid

-----------------------------------------------------------------------------
(* Counting a queue *)

\* The orders a batch may not move, those it may, and the one it assigns.
LEMMA RoomCounts ==
    ASSUME NEW S, IsFiniteSet(S), NEW movable, NEW o
    PROVE  /\ Cardinality(S \ ({o} \cup movable)) \in Nat /\ Cardinality(S \cap movable) \in Nat
           /\ IsFiniteSet(S \cup {o}) /\ Cardinality(S \cup {o}) \in Nat
           /\ Cardinality(S \cup {o})
                <= Cardinality(S \ ({o} \cup movable)) + Cardinality(S \cap movable) + 1
<1> DEFINE A == S \ ({o} \cup movable)
           B == S \cap movable
<1>1. IsFiniteSet(A) /\ IsFiniteSet(B)
    BY FS_Subset
<1>2. S \cup {o} = (A \cup B) \cup {o}
    OBVIOUS
<1>3. IsFiniteSet(S \cup {o}) /\ Cardinality(S \cup {o}) \in Nat
    BY FS_AddElement, FS_CardinalityType
<1> HIDE DEF A, B
<1>4. Cardinality(A) \in Nat /\ Cardinality(B) \in Nat
    BY <1>1, FS_CardinalityType
<1>5. /\ IsFiniteSet(A \cup B) /\ Cardinality(A \cup B) \in Nat
      /\ Cardinality(A \cup B) <= Cardinality(A) + Cardinality(B)
    <2>1. IsFiniteSet(A \cup B) /\ IsFiniteSet(A \cap B)
        BY <1>1, FS_Union, FS_Intersection
    <2>2. Cardinality(A \cup B) \in Nat /\ Cardinality(A \cap B) \in Nat
        BY <2>1, FS_CardinalityType
    <2>3. Cardinality(A \cup B) = Cardinality(A) + Cardinality(B) - Cardinality(A \cap B)
        BY <1>1, FS_Union
    <2> QED
        BY <1>4, <2>1, <2>2, <2>3
<1>6. Cardinality((A \cup B) \cup {o}) <= Cardinality(A \cup B) + 1
    <2>1. Cardinality((A \cup B) \cup {o})
              = IF o \in A \cup B THEN Cardinality(A \cup B) ELSE Cardinality(A \cup B) + 1
        BY <1>5, FS_AddElement
    <2> QED
        BY <1>5, <2>1
<1>7. Cardinality(S \cup {o}) <= Cardinality(A) + Cardinality(B) + 1
    BY <1>2, <1>3, <1>4, <1>5, <1>6
<1> QED
    BY <1>3, <1>4, <1>7 DEF A, B

\* A queue has so many orders.
LEMMA StandingFinite ==
    ASSUME BooksInv
    PROVE  \A p : IsFiniteSet(Standing(p)) /\ Cardinality(Standing(p)) \in Nat
<1>1. \A p : Standing(p) \subseteq DOMAIN orders
    BY DEF Standing, OnPile, OrdersIn
<1> QED
    BY <1>1, OrdersFinite, FS_Subset, FS_CardinalityType

\* An assignment is what its batch left room for.
LEMMA CapacityNext ==
    ASSUME HandlersInv, QueueWithinCapacity, NEW s \in Slots, Writes(s),
           todo[s] # <<>> => Valid(Head(todo[s])) /\ QueueValid(Head(todo[s]))
    PROVE  QueueWithinCapacity'
<1> DEFINE step == Head(todo[s])
<1>1. \A p \in Piles : Cardinality(Standing(p)) <= ChargingQueueLen
    BY DEF QueueWithinCapacity, Standing
<1>2. \A p : IsFiniteSet(Standing(p)) /\ Cardinality(Standing(p)) \in Nat
    BY StandingFinite DEF HandlersInv
<1>3. ASSUME NEW p \in Piles, Standing(p)' \subseteq Standing(p)
      PROVE  Cardinality(Standing(p)') <= ChargingQueueLen
    <2>1. PICK S : S = Standing(p)
        OBVIOUS
    <2>2. PICK T : T = Standing(p)'
        OBVIOUS
    <2>3. IsFiniteSet(S) /\ T \in SUBSET S /\ Cardinality(S) <= ChargingQueueLen
        BY <1>1, <1>2, <1>3, <2>1, <2>2
    <2>4. IsFiniteSet(T) /\ Cardinality(T) <= Cardinality(S)
        BY <2>3, FS_Subset
    <2>5. Cardinality(T) \in Nat /\ Cardinality(S) \in Nat
        BY <2>3, <2>4, FS_CardinalityType
    <2>6. Cardinality(T) <= ChargingQueueLen
        BY <2>3, <2>4, <2>5, CapacityAssumption
    <2> QED
        BY <2>2, <2>6
<1>4. ASSUME Shrinks
      PROVE  QueueWithinCapacity'
    BY <1>3, <1>4 DEF Shrinks, QueueWithinCapacity, Standing
<1>5. ASSUME At(s, "assign"), NEW status \in Occupying, Becomes(step.order, status, step.pile)
      PROVE  QueueWithinCapacity'
    <2>1. PICK o, p, rest : o = step.order /\ p = step.pile /\ rest = step.rest
        OBVIOUS
    <2>2. step.op = "assign" /\ todo[s] # <<>>
        BY <1>5 DEF At
    <2>3. Kind(step) = "assign"
        BY <2>2, KindOfOp
    <2>4. Tallies(rest) /\ ~Faulty(p) /\ HasRoom(rest, o, p)
        BY <2>1, <2>2, <2>3 DEF QueueValid
    <2>5. /\ Standing(p)' = Standing(p) \cup {o}
          /\ \A q : q # p => Standing(q)' \subseteq Standing(q)
        BY <1>5, <2>1, BecomesViews DEF Standing
    <2>6. p \in Piles
        <3>1. StepOK(step)
            BY <1>5, HeadOK DEF HandlersInv
        <3> HIDE DEF step
        <3> QED
            BY <2>1, <2>2, <3>1 DEF StepOK
    <2>7. PICK S : S = Standing(p)
        OBVIOUS
    <2>8. PICK m : m = rest.applied[p]
        OBVIOUS
    <2>9. /\ m \in Nat
          /\ Cardinality(S \cap rest.movable) <= m
          /\ Cardinality(S \ ({o} \cup rest.movable)) + m < ChargingQueueLen
        BY <2>4, <2>6, <2>7, <2>8 DEF Tallies, HasRoom, Standing
    <2>10. Cardinality(S \cup {o}) <= ChargingQueueLen
        <3>1. PICK a, b, c : /\ a = Cardinality(S \ ({o} \cup rest.movable))
                             /\ b = Cardinality(S \cap rest.movable)
                             /\ c = Cardinality(S \cup {o})
            OBVIOUS
        <3>2. a \in Nat /\ b \in Nat /\ c \in Nat /\ c <= a + b + 1
            BY <1>2, <2>7, <3>1, RoomCounts
        <3>3. b <= m /\ a + m < ChargingQueueLen
            BY <2>9, <3>1
        <3>4. c <= ChargingQueueLen
            BY <2>9, <3>2, <3>3, CapacityAssumption
        <3> QED
            BY <3>1, <3>4
    <2>11. Cardinality(Standing(p)') <= ChargingQueueLen
        BY <2>5, <2>7, <2>10
    <2>12. \A q \in Piles : Cardinality(Standing(q)') <= ChargingQueueLen
        BY <1>3, <2>5, <2>11
    <2> QED
        BY <2>12 DEF QueueWithinCapacity, Standing
<1> QED
    BY <1>4, <1>5, StandingNext

\* What is left of the batch has counted the assignment.
LEMMA TalliedValid ==
    ASSUME HandlersInv, FaultsStay, NEW s \in Slots, Writes(s), At(s, "assign"),
           Valid(Head(todo[s])), QueueValid(Head(todo[s])),
           NEW st, BatchOK(st), Tallied(st, Head(todo[s]).rest, Head(todo[s]).pile)
    PROVE  QueueValid(st)'
<1> DEFINE step == Head(todo[s])
<1>1. PICK o, p, rest : o = step.order /\ p = step.pile /\ rest = step.rest
    OBVIOUS
<1>2. step.op = "assign" /\ todo[s] # <<>> /\ st.op = "apply"
    BY DEF At, BatchOK
<1>3. Kind(step) = "assign" /\ Kind(st) = "apply"
    BY <1>2, KindOfOp
<1>4. Tallies(rest) /\ p \in Piles
    BY <1>1, <1>2, <1>3, HeadOK DEF QueueValid, HandlersInv, StepOK
<1>5. /\ {"movable", "applied"} \subseteq DOMAIN st
      /\ st.movable = rest.movable
      /\ st.applied = [rest.applied EXCEPT ![p] = @ + 1]
    BY <1>1, <1>4 DEF Tallied, Tallies
<1>6. /\ st.applied \in [Piles -> Nat]
      /\ st.applied[p] = rest.applied[p] + 1
      /\ \A q \in Piles : q # p => st.applied[q] = rest.applied[q]
      /\ \A q \in Piles : rest.applied[q] \in Nat
    BY <1>4, <1>5 DEF Tallies
<1>7. \A q : IsFiniteSet(Standing(q))
    BY StandingFinite DEF HandlersInv
<1>8. /\ \A q : q # p => Standing(q)' \subseteq Standing(q)
      /\ Standing(p)' \subseteq Standing(p) \cup {o}
    <2>1. CASE Shrinks
        BY <2>1 DEF Shrinks
    <2>2. CASE \E status \in Occupying : Becomes(o, status, p)
        BY <2>2, BecomesViews DEF Standing
    <2> QED
        BY <1>1, <1>2, <2>1, <2>2, StandingNext
<1>9. ASSUME NEW q \in Piles, ~Faulty(q)'
      PROVE  Cardinality(Standing(q)' \cap st.movable) <= st.applied[q]
    <2>1. ~Faulty(q)
        BY <1>9 DEF FaultsStay
    <2>2. PICK old : old = Standing(q) \cap rest.movable
        OBVIOUS
    <2>3. PICK new : new = Standing(q)' \cap st.movable
        OBVIOUS
    <2>4. IsFiniteSet(old) /\ Cardinality(old) <= rest.applied[q]
        BY <1>4, <1>7, <2>1, <2>2, FS_Subset DEF Tallies
    <2>5. Cardinality(old) \in Nat
        BY <2>4, FS_CardinalityType
    <2>6. CASE q = p
        <3>1. new \subseteq old \cup {o}
            BY <1>5, <1>8, <2>2, <2>3, <2>6
        <3>2. IsFiniteSet(old \cup {o}) /\ Cardinality(old \cup {o}) <= Cardinality(old) + 1
            <4>1. Cardinality(old \cup {o})
                      = IF o \in old THEN Cardinality(old) ELSE Cardinality(old) + 1
                BY <2>4, FS_AddElement
            <4> QED
                BY <2>4, <2>5, <4>1, FS_AddElement
        <3>3. Cardinality(new) <= Cardinality(old \cup {o}) /\ IsFiniteSet(new)
            BY <3>1, <3>2, FS_Subset
        <3>4. Cardinality(new) \in Nat /\ Cardinality(old \cup {o}) \in Nat
            BY <3>2, <3>3, FS_CardinalityType
        <3>5. Cardinality(new) <= rest.applied[q] + 1
            BY <1>6, <2>4, <2>5, <3>2, <3>3, <3>4
        <3> QED
            BY <1>6, <2>3, <2>6, <3>5
    <2>7. CASE q # p
        <3>1. new \subseteq old
            BY <1>5, <1>8, <2>2, <2>3, <2>7
        <3>2. Cardinality(new) <= Cardinality(old) /\ IsFiniteSet(new)
            BY <2>4, <3>1, FS_Subset
        <3>3. Cardinality(new) \in Nat
            BY <3>2, FS_CardinalityType
        <3>4. Cardinality(new) <= rest.applied[q]
            BY <1>6, <2>4, <2>5, <3>2, <3>3
        <3> QED
            BY <1>6, <2>3, <2>7, <3>4
    <2> QED
        BY <2>6, <2>7
<1>10. Tallies(st)'
    BY <1>5, <1>6, <1>9 DEF Tallies
<1> QED
    BY <1>2, <1>3, <1>10 DEF QueueValid, Tame

-----------------------------------------------------------------------------
(* The invariant holds *)

\* Every step of the server keeps it.
LEMMA QueuesNext ==
    ASSUME OneAtATime, UiDiscipline, OnlyFaultsMove,
           HandlersInv, SerialInv, PilesInv, QueuesInv, [Next]_vars
    PROVE  QueuesInv'
<1>1. ASSUME NEW s \in Slots, DriverRequest(s) \/ AdminRequest(s) \/ Serve(s)
      PROVE  QueuesInv'
    <2>1. /\ Writes(s)
          /\ todo[s] # <<>> => Valid(Head(todo[s])) /\ Head(todo[s]) \in Left(s)
        BY <1>1, SlotSerial
    <2>2. ASSUME todo[s] # <<>>
          PROVE  PileValid(Head(todo[s])) /\ QueueValid(Head(todo[s]))
        BY <2>1, <2>2 DEF PilesInv, QueuesInv
    <2>3. QueueWithinCapacity'
        BY <2>1, <2>2, CapacityNext DEF QueuesInv
    <2>4. FaultsStay
        BY <2>1, <2>2, FaultyStays DEF SerialInv, PilesInv
    <2>5. Renewed(s)
        BY <1>1, <2>2, SlotRenews
    <2>6. ASSUME NEW i \in DOMAIN todo'[s], NEW st, st = todo'[s][i]
          PROVE  QueueValid(st)' /\ (i = 1 \/ ~Immediate(st))
        <3>2. CASE todo[s] # <<>> /\ \E k \in DOMAIN todo[s] : k # 1 /\ st = todo[s][k]
            <4>1. QueueValid(st) /\ ~Immediate(st)
                BY <3>2 DEF QueuesInv, Left
            <4>2. QueueValid(st)'
                BY <2>4, <4>1, LaterValid
            <4> QED
                BY <4>1, <4>2
        <3>3. CASE Kind(st) \in Harmless
            <4>1. QueueValid(st)' /\ ~Immediate(st)
                BY <3>3, HarmlessValid
            <4> QED
                BY <4>1
        <3>4. CASE Planned(s, st) /\ (i = 1 \/ ~Immediate(st))
            <4>1. CASE UNCHANGED tables /\ QueueValid(st)
                <5>1. Kept /\ UNCHANGED piles
                    BY <4>1, SameTables
                <5>2. QueueValid(st)'
                    BY <4>1, <5>1, KeptQueueValid
                <5> QED
                    BY <3>4, <5>2
            <4>2. CASE SetFault(s) /\ st.op = "affected" /\ st.pile = Head(todo[s]).pile
                <5>1. PICK p : p = st.pile
                    OBVIOUS
                <5>2. Head(todo[s]).op = "setFault" /\ todo[s] # <<>>
                    BY <4>2 DEF SetFault, At
                <5>3. Kind(Head(todo[s])) = "setFault"
                    BY <5>2, KindOfOp
                <5>4. p \in Piles
                    BY <2>2, <4>2, <5>1, <5>2, <5>3 DEF PileValid
                <5>5. piles' = [piles EXCEPT ![p].work = "FAULT"] /\ piles \in [Piles -> PileRow]
                    BY <4>2, <5>1 DEF SetFault, HandlersInv, RowsOK, BookRowsOK
                <5>6. Faulty(p)'
                    BY <5>4, <5>5 DEF Faulty, PileRow
                <5>7. Kind(st) = "affected"
                    BY <4>2, KindOfOp
                <5>8. QueueValid(st)'
                    BY <4>2, <5>1, <5>6, <5>7 DEF QueueValid, Tame
                <5> QED
                    BY <3>4, <5>8
            <4>3. CASE /\ At(s, "assign") /\ BatchOK(st)
                       /\ Tallied(st, Head(todo[s]).rest, Head(todo[s]).pile)
                <5>1. todo[s] # <<>>
                    BY <4>3 DEF At
                <5>2. QueueValid(st)'
                    BY <2>1, <2>2, <2>4, <4>3, <5>1, TalliedValid
                <5> QED
                    BY <3>4, <5>2
            <4> QED
                BY <3>4, <4>1, <4>2, <4>3 DEF Planned
        <3> QED
            BY <2>5, <2>6, <3>2, <3>3, <3>4 DEF Renewed
    <2>7. \A t \in Slots : t = s
        BY DEF OneAtATime
    <2>8. \A st \in Left(s)' : QueueValid(st)'
        BY <2>6 DEF Left
    <2>9. \A i \in DOMAIN todo'[s] : i = 1 \/ ~Immediate(todo'[s][i])
        BY <2>6
    <2> QED
        BY <2>3, <2>7, <2>8, <2>9 DEF QueuesInv
<1>2. ASSUME Kept, UNCHANGED piles
      PROVE  QueueWithinCapacity' /\ \A st : QueueValid(st) => QueueValid(st)'
    <2>1. \A p : OnPile(p, Occupying)' = OnPile(p, Occupying)
        BY <1>2, KeptViews
    <2> QED
        BY <1>2, <2>1, KeptQueueValid DEF QueuesInv, QueueWithinCapacity
<1>3. CASE Kept /\ UNCHANGED <<piles, todo>>
    <2>1. \A s \in Slots : Left(s)' = Left(s)
        BY <1>3 DEF Left
    <2> QED
        BY <1>2, <1>3, <2>1 DEF QueuesInv
<1>4. CASE Kept /\ UNCHANGED piles /\ \A s \in Slots : todo'[s] = <<>>
    <2>1. \A s \in Slots : Left(s)' = {}
        BY <1>4 DEF Left
    <2> QED
        BY <1>2, <1>4, <2>1 DEF QueuesInv
<1> QED
    BY <1>1, <1>3, <1>4, Around DEF HandlersInv

\* The queues begin empty.
LEMMA QueuesInit == Init => QueuesInv
<1> SUFFICES ASSUME Init PROVE QueuesInv
    OBVIOUS
<1>1. DOMAIN orders = {} /\ \A s \in Slots : todo[s] = <<>>
    BY DEF Init
<1>2. \A p : OnPile(p, Occupying) = {}
    BY <1>1 DEF OnPile, OrdersIn
<1>3. QueueWithinCapacity
    BY <1>2, FS_EmptySet, CapacityAssumption DEF QueueWithinCapacity
<1> QED
    BY <1>1, <1>3 DEF QueuesInv, Left

\* A batch that rearranges a faulty pile's queue counts what it moved to the others.
THEOREM QueuesHold ==
    ASSUME OneAtATime, UiDiscipline, OnlyFaultsMove
    PROVE  Spec => []QueuesInv
<1>1. HandlersInv /\ SerialInv /\ PilesInv /\ QueuesInv /\ [Next]_vars => QueuesInv'
    BY QueuesNext
<1> QED
    BY <1>1, QueuesInit, HandlersHold, SerialHolds, PilesHold, PTL DEF Spec

\* A pile never has more orders than CHARGING_QUEUE_LEN, through faults and restarts
\* (applyAssignments), unless its queue is rearranged by queue number.
THEOREM QueueCapacityHolds ==
    ASSUME OneAtATime, UiDiscipline, OnlyFaultsMove
    PROVE  Spec => []QueueWithinCapacity
<1>1. QueuesInv => QueueWithinCapacity
    BY DEF QueuesInv
<1> QED
    BY <1>1, QueuesHold, PTL
=============================================================================
