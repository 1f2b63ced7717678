--------------------------- MODULE HandlerProofs ---------------------------
(***************************************************************************)
(* Theorems about what the handlers of Station still have to do: the rows  *)
(* keep their types, a lock has one holder, and the piles' energy is the   *)
(* bills' energy, under every interleaving of the handlers.                *)
(*                                                                         *)
(* They rest on what holds of every step in todo, wherever it stands: a    *)
(* handler is made of the steps that Begin and Goto put there.             *)
(***************************************************************************)
EXTENDS StationProofs, Collections

-----------------------------------------------------------------------------
(* The steps of the handlers *)

(* Steps that carry nothing which is written to the tables. *)
PlainOps == {"autoComplete", "basic", "wakeIdlePiles", "fault", "recovery", "wake", "refresh"}

PlainSteps(q) == \E S : q \in Seq(S) /\ \A st \in S : st.op \in PlainOps

(* A lock that wakeIdlePiles takes, for one call.                           *)
WakeLock(st) == st.op = "lock" /\ Len(st.then) = 1 /\ st.then[1].op = "wake"

(* What a step does, telling such a lock from the locks of the dispatchers. *)
Kind(st) == IF WakeLock(st) THEN "wakeLock" ELSE st.op

KindsIn(q, A) == \E S : q \in Seq(S) /\ \A st \in S : Kind(st) \in A

(* What the dispatchers do under their locks.                               *)
DispatchKinds == {"autoComplete", "basic", "wakeIdlePiles", "fault", "recovery"}

(* What a bill asks for: the end of its order and the state of its pile. *)
EndOK(st) ==
    /\ st.target \in {"FINISHED", "ABORTED"}
    /\ st.work \in {"IDLE", "FAULT"}
    /\ st.reason \in {"USER_STOP", "USER_CANCEL", "FAULT", "CHARGE_COMPLETE"}
    /\ PlainSteps(st.after) /\ KindsIn(st.after, {"refresh"})

(* A batch of assignments, as ApplyAssignments makes it. *)
BatchOK(st) ==
    /\ {"op", "applied", "started", "touched"} \subseteq DOMAIN st
    /\ st.op = "apply"
    /\ IsFiniteSet(st.touched)

(* What holds of a step, from when it is put into todo; unlock is put there *)
(* by Lock alone.                                                           *)
StepOK(st) ==
    /\ st.op # "unlock"
    /\ st.op = "lock" => /\ PlainSteps(st.then)
                         /\ WakeLock(st) \/ KindsIn(st.then, DispatchKinds)
    /\ st.op = "closeAndBill" => EndOK(st)
    /\ st.op = "settle" => EndOK(st) /\ st.amount \in Nat /\ st.previous = 0
    /\ st.op = "apply" => BatchOK(st)
    /\ st.op = "assign" => BatchOK(st.rest) /\ st.pile \in Piles
    /\ st.op \in {"create", "retry"} =>
          st.user \in Users /\ st.mode \in Modes /\ st.amount \in Nat
    /\ st.op \in {"create", "setMode", "rename"} => st.no \in QueueNo
    /\ st.op = "setMode" => st.mode \in Modes
    /\ st.op = "setAmount" => st.amount \in Nat
    /\ st.op \in {"remaining", "continue"} => st.active \in OrderRow
    /\ st.op = "continue" => st.amount \in Nat
    /\ st.op = "setPower" => st.phys \in {"ON", "OFF"} /\ st.work \in {"IDLE", "FAULT"}

Steps(q) == \E S : q \in Seq(S) /\ \A st \in S : StepOK(st)

(* What a slot has left: such steps, and the unlocks of the locks it took. *)
Todo(q) == \E S : q \in Seq(S) /\ \A st \in S : StepOK(st) \/ st.op = "unlock"

\* Nothing left to do is a sequence of such steps.
LEMMA StepsNone == Steps(<<>>) /\ PlainSteps(<<>>)
<1> DEFINE S == {}
<1>1. <<>> \in Seq(S) /\ \A st \in S : StepOK(st) /\ st.op \in PlainOps
    OBVIOUS
<1> HIDE DEF S
<1> QED
    BY <1>1 DEF Steps, PlainSteps

\* One step is.
LEMMA StepsOne ==
    ASSUME NEW st
    PROVE  /\ StepOK(st) => Steps(<<st>>)
           /\ st.op \in PlainOps => PlainSteps(<<st>>)
<1> DEFINE S == {st}
<1>1. <<st>> \in Seq(S)
    OBVIOUS
<1>2. /\ StepOK(st) => \A x \in S : StepOK(x)
      /\ st.op \in PlainOps => \A x \in S : x.op \in PlainOps
    OBVIOUS
<1> HIDE DEF S
<1> QED
    BY <1>1, <1>2 DEF Steps, PlainSteps

\* Two steps are.
LEMMA StepsTwo == ASSUME NEW a, NEW b, StepOK(a), StepOK(b) PROVE Steps(<<a, b>>)
<1> DEFINE S == {a, b}
<1>1. <<a, b>> \in Seq(S) /\ \A st \in S : StepOK(st)
    OBVIOUS
<1> HIDE DEF S
<1> QED
    BY <1>1 DEF Steps

\* One handler after another is.
LEMMA StepsJoin ==
    ASSUME NEW q, NEW r
    PROVE  /\ Steps(q) /\ Steps(r) => Steps(q \o r)
           /\ PlainSteps(q) /\ PlainSteps(r) => PlainSteps(q \o r)
<1>1. ASSUME NEW S, NEW T, q \in Seq(S), r \in Seq(T)
      PROVE  q \o r \in Seq(S \cup T)
    <2>1. q \in Seq(S \cup T) /\ r \in Seq(S \cup T)
        BY <1>1
    <2> QED
        BY <2>1
<1>2. ASSUME Steps(q), Steps(r)
      PROVE  Steps(q \o r)
    <2>1. PICK S : q \in Seq(S) /\ \A st \in S : StepOK(st)
        BY <1>2 DEF Steps
    <2>2. PICK T : r \in Seq(T) /\ \A st \in T : StepOK(st)
        BY <1>2 DEF Steps
    <2>3. q \o r \in Seq(S \cup T) /\ \A st \in S \cup T : StepOK(st)
        BY <1>1, <2>1, <2>2
    <2> QED
        BY <2>3 DEF Steps
<1>3. ASSUME PlainSteps(q), PlainSteps(r)
      PROVE  PlainSteps(q \o r)
    <2>1. PICK S : q \in Seq(S) /\ \A st \in S : st.op \in PlainOps
        BY <1>3 DEF PlainSteps
    <2>2. PICK T : r \in Seq(T) /\ \A st \in T : st.op \in PlainOps
        BY <1>3 DEF PlainSteps
    <2>3. q \o r \in Seq(S \cup T) /\ \A st \in S \cup T : st.op \in PlainOps
        BY <1>1, <2>1, <2>2
    <2> QED
        BY <2>3 DEF PlainSteps
<1> QED
    BY <1>2, <1>3

\* A step for each of so many things is.
LEMMA StepsEach ==
    ASSUME NEW n \in Nat, NEW q, q = [i \in 1..n |-> q[i]]
    PROVE  /\ (\A i \in 1..n : StepOK(q[i])) => Steps(q)
           /\ (\A i \in 1..n : q[i].op \in PlainOps) => PlainSteps(q)
<1> DEFINE S == {q[i] : i \in 1..n}
<1>1. q \in [1..n -> S]
    OBVIOUS
<1>2. q \in Seq(S)
    BY <1>1
<1>3. /\ (\A i \in 1..n : StepOK(q[i])) => \A st \in S : StepOK(st)
      /\ (\A i \in 1..n : q[i].op \in PlainOps) => \A st \in S : st.op \in PlainOps
    OBVIOUS
<1> HIDE DEF S
<1>4. (\A st \in S : StepOK(st)) => Steps(q)
    BY <1>2 DEF Steps
<1>5. (\A st \in S : st.op \in PlainOps) => PlainSteps(q)
    BY <1>2 DEF PlainSteps
<1> QED
    BY <1>3, <1>4, <1>5

\* Plain steps may stand anywhere.
LEMMA PlainIsOK == ASSUME NEW q, PlainSteps(q) PROVE Steps(q)
<1>1. PICK S : q \in Seq(S) /\ \A st \in S : st.op \in PlainOps
    BY DEF PlainSteps
<1>2. \A st \in S : StepOK(st)
    BY <1>1 DEF PlainOps, StepOK
<1> QED
    BY <1>1, <1>2 DEF Steps

-----------------------------------------------------------------------------
(* Kinds of steps in a row *)

\* No step is of any kinds; steps of some kinds are of more.
LEMMA KindsNone ==
    /\ \A A : KindsIn(<<>>, A)
    /\ \A q, A, B : KindsIn(q, A) /\ A \subseteq B => KindsIn(q, B)
<1>1. ASSUME NEW A
      PROVE  KindsIn(<<>>, A)
    <2> DEFINE S == {}
    <2>1. <<>> \in Seq(S) /\ \A st \in S : Kind(st) \in A
        OBVIOUS
    <2> HIDE DEF S
    <2> QED
        BY <2>1 DEF KindsIn
<1>2. ASSUME NEW q, NEW A, NEW B, KindsIn(q, A), A \subseteq B
      PROVE  KindsIn(q, B)
    <2>1. PICK S : q \in Seq(S) /\ \A st \in S : Kind(st) \in A
        BY <1>2 DEF KindsIn
    <2> QED
        BY <1>2, <2>1 DEF KindsIn
<1> QED
    BY <1>1, <1>2

\* One step of a kind.
LEMMA KindsOne == ASSUME NEW st, NEW A, Kind(st) \in A PROVE KindsIn(<<st>>, A)
<1> DEFINE S == {st}
<1>1. <<st>> \in Seq(S) /\ \A x \in S : Kind(x) \in A
    OBVIOUS
<1> HIDE DEF S
<1> QED
    BY <1>1 DEF KindsIn

\* A step that is no lock is of the kind of its op.
LEMMA KindsOp ==
    ASSUME NEW st, NEW A, st.op \in A, st.op # "lock"
    PROVE  Kind(st) = st.op /\ KindsIn(<<st>>, A)
BY KindsOne DEF Kind, WakeLock

\* Steps of the same kinds one after another.
LEMMA KindsJoin ==
    ASSUME NEW q, NEW r, NEW A, KindsIn(q, A), KindsIn(r, A)
    PROVE  KindsIn(q \o r, A)
<1>1. PICK S : q \in Seq(S) /\ \A st \in S : Kind(st) \in A
    BY DEF KindsIn
<1>2. PICK T : r \in Seq(T) /\ \A st \in T : Kind(st) \in A
    BY DEF KindsIn
<1>3. q \in Seq(S \cup T) /\ r \in Seq(S \cup T)
    BY <1>1, <1>2
<1>4. q \o r \in Seq(S \cup T) /\ \A st \in S \cup T : Kind(st) \in A
    BY <1>1, <1>2, <1>3
<1> QED
    BY <1>4 DEF KindsIn

\* A step of a kind for each of so many things.
LEMMA KindsEach ==
    ASSUME NEW n \in Nat, NEW q, q = [i \in 1..n |-> q[i]], NEW A,
           \A i \in 1..n : Kind(q[i]) \in A
    PROVE  KindsIn(q, A)
<1> DEFINE S == {q[i] : i \in 1..n}
<1>1. q \in [1..n -> S]
    OBVIOUS
<1>2. \A st \in S : Kind(st) \in A
    OBVIOUS
<1> HIDE DEF S
<1>3. q \in Seq(S)
    BY <1>1
<1> QED
    BY <1>2, <1>3 DEF KindsIn

\* Every step is of one of the kinds.
LEMMA KindsAt ==
    ASSUME NEW q, NEW A, KindsIn(q, A)
    PROVE  \A i \in DOMAIN q : Kind(q[i]) \in A
BY DEF KindsIn

-----------------------------------------------------------------------------
(* What is left *)

\* The step that is taken next, and what is left after it.
LEMMA TodoNext ==
    ASSUME NEW q, Todo(q), q # <<>>
    PROVE  /\ StepOK(Head(q)) \/ Head(q).op = "unlock"
           /\ Todo(Tail(q))
<1>1. PICK S : q \in Seq(S) /\ \A st \in S : StepOK(st) \/ st.op = "unlock"
    BY DEF Todo
<1>2. Head(q) \in S /\ Tail(q) \in Seq(S)
    BY <1>1
<1> QED
    BY <1>1, <1>2 DEF Todo

\* Steps in front of what is left.
LEMMA TodoJoin ==
    ASSUME NEW q, NEW r, Steps(q), Todo(r)
    PROVE  Todo(q \o r)
<1>1. PICK S : q \in Seq(S) /\ \A st \in S : StepOK(st)
    BY DEF Steps
<1>2. PICK T : r \in Seq(T) /\ \A st \in T : StepOK(st) \/ st.op = "unlock"
    BY DEF Todo
<1>3. q \in Seq(S \cup T) /\ r \in Seq(S \cup T)
    BY <1>1, <1>2
<1>4. q \o r \in Seq(S \cup T)
    BY <1>3
<1> QED
    BY <1>1, <1>2, <1>4 DEF Todo

\* A handler that just begins.
LEMMA TodoBegun == ASSUME NEW q, Steps(q) PROVE Todo(q)
BY DEF Steps, Todo

-----------------------------------------------------------------------------
(* What the operators of the handlers put there *)

\* Refreshes are plain steps.
LEMMA RefreshIsPlain ==
    /\ \A key : PlainSteps(Refresh(key))
    /\ \A mode : PlainSteps(RefreshMode(mode))
    /\ \A p : PlainSteps(RefreshPile(p))
<1>1. ASSUME NEW key
      PROVE  PlainSteps(Refresh(key))
    <2>1. RefreshStep(key).op \in PlainOps
        BY DEF RefreshStep, PlainOps
    <2>2. PlainSteps(<<RefreshStep(key)>>)
        BY <2>1, StepsOne
    <2> QED
        BY <2>2, StepsNone DEF Refresh
<1> QED
    BY <1>1 DEF RefreshMode, RefreshPile

\* So are those of finitely many piles.
LEMMA RefreshesArePlain ==
    /\ \A ps : IsFiniteSet(ps) => PlainSteps(RefreshPiles(ps))
    /\ PlainSteps(RefreshAll)
<1>1. ASSUME NEW ps, IsFiniteSet(ps)
      PROVE  PlainSteps(RefreshPiles(ps))
    <2> DEFINE n == Cardinality(ps)
               key(i) == <<"pile", ById(ps)[i]>>
               q == [i \in 1..n |-> RefreshStep(key(i))]
    <2>1. n \in Nat
        BY <1>1, FS_CardinalityType
    <2>2. q = [i \in 1..n |-> q[i]] /\ \A i \in 1..n : q[i].op \in PlainOps
        BY DEF RefreshStep, PlainOps
    <2>3. RefreshPiles(ps) = IF TrackCache THEN q ELSE <<>>
        BY DEF RefreshPiles
    <2> HIDE DEF n, q
    <2>4. PlainSteps(q)
        BY <2>1, <2>2, StepsEach
    <2> QED
        BY <2>3, <2>4, StepsNone
<1>2. PlainSteps(RefreshPiles(Piles))
    BY <1>1, PilesAssumption
<1>3. PlainSteps(RefreshMode("FAST") \o RefreshMode("SLOW"))
    BY RefreshIsPlain, StepsJoin
<1>4. PlainSteps(RefreshAll)
    BY <1>2, <1>3, StepsJoin DEF RefreshAll
<1> QED
    BY <1>1, <1>4

\* A refresh is a refresh.
LEMMA RefreshKinds ==
    /\ \A key : KindsIn(Refresh(key), {"refresh"})
    /\ \A mode : KindsIn(RefreshMode(mode), {"refresh"})
    /\ \A p : KindsIn(RefreshPile(p), {"refresh"})
    /\ \A ps : IsFiniteSet(ps) => KindsIn(RefreshPiles(ps), {"refresh"})
    /\ KindsIn(RefreshAll, {"refresh"})
<1>1. \A key : Kind(RefreshStep(key)) = "refresh"
    BY DEF RefreshStep, Kind, WakeLock
<1>2. ASSUME NEW key
      PROVE  KindsIn(Refresh(key), {"refresh"})
    <2>1. KindsIn(<<RefreshStep(key)>>, {"refresh"})
        BY <1>1, KindsOne
    <2> QED
        BY <2>1, KindsNone DEF Refresh
<1>3. ASSUME NEW ps, IsFiniteSet(ps)
      PROVE  KindsIn(RefreshPiles(ps), {"refresh"})
    <2> DEFINE n == Cardinality(ps)
               key(i) == <<"pile", ById(ps)[i]>>
               q == [i \in 1..n |-> RefreshStep(key(i))]
    <2>1. n \in Nat
        BY <1>3, FS_CardinalityType
    <2>2. q = [i \in 1..n |-> q[i]] /\ \A i \in 1..n : Kind(q[i]) \in {"refresh"}
        BY <1>1
    <2>3. RefreshPiles(ps) = IF TrackCache THEN q ELSE <<>>
        BY DEF RefreshPiles
    <2> HIDE DEF n, q
    <2>4. KindsIn(q, {"refresh"})
        BY <2>1, <2>2, KindsEach
    <2> QED
        BY <2>3, <2>4, KindsNone
<1>4. KindsIn(RefreshMode("FAST") \o RefreshMode("SLOW"), {"refresh"})
    BY <1>2, KindsJoin DEF RefreshMode
<1>5. KindsIn(RefreshAll, {"refresh"})
    BY <1>3, <1>4, KindsJoin, PilesAssumption DEF RefreshAll
<1> QED
    BY <1>2, <1>3, <1>5 DEF RefreshMode, RefreshPile

\* A dispatcher is begun by steps of the dispatchers.
LEMMA TriggerKinds ==
    /\ KindsIn(AutoComplete, DispatchKinds)
    /\ KindsIn(<<[op |-> "wakeIdlePiles"]>>, DispatchKinds)
    /\ \A mode : KindsIn(TriggerBasic(mode), DispatchKinds)
<1>1. KindsIn(AutoComplete, DispatchKinds)
    BY KindsOp DEF AutoComplete, DispatchKinds
<1>2. KindsIn(<<[op |-> "wakeIdlePiles"]>>, DispatchKinds)
    BY KindsOp DEF DispatchKinds
<1>3. ASSUME NEW mode
      PROVE  KindsIn(TriggerBasic(mode), DispatchKinds)
    <2> DEFINE st == [op |-> "basic", mode |-> mode]
    <2>1. st.op = "basic" /\ st.op \in DispatchKinds
        BY DEF DispatchKinds
    <2> HIDE DEF st
    <2>2. KindsIn(<<st>>, DispatchKinds)
        BY <2>1, KindsOp
    <2> QED
        BY <1>1, <2>2, KindsJoin DEF TriggerBasic, st
<1> QED
    BY <1>1, <1>2, <1>3

\* Dispatching is begun by plain steps.
LEMMA TriggerIsPlain ==
    /\ PlainSteps(AutoComplete)
    /\ PlainSteps(<<[op |-> "wakeIdlePiles"]>>)
    /\ \A mode : PlainSteps(TriggerBasic(mode))
<1>1. PlainSteps(AutoComplete)
    BY StepsOne DEF AutoComplete, PlainOps
<1>2. PlainSteps(<<[op |-> "wakeIdlePiles"]>>)
    BY StepsOne DEF PlainOps
<1>3. ASSUME NEW mode
      PROVE  PlainSteps(TriggerBasic(mode))
    <2> DEFINE st == [op |-> "basic", mode |-> mode]
    <2>1. st.op \in PlainOps
        BY DEF PlainOps
    <2>2. PlainSteps(<<st>>)
        BY <2>1, StepsOne
    <2> QED
        BY <1>1, <2>2, StepsJoin DEF TriggerBasic
<1> QED
    BY <1>1, <1>2, <1>3

\* What is done under a lock is plain steps: a dispatcher's, or one wake.
LEMMA LockStepOK ==
    ASSUME NEW key, NEW then, PlainSteps(then), KindsIn(then, DispatchKinds)
    PROVE  /\ StepOK(LockStep(key, then)) /\ Steps(Locked(key, then))
           /\ Kind(LockStep(key, then)) = "lock"
<1> DEFINE st == LockStep(key, then)
<1>1. st.op = "lock" /\ st.then = then
    BY DEF LockStep
<1> HIDE DEF st
<1>2. StepOK(st)
    BY <1>1 DEF StepOK
<1>3. Steps(<<st>>)
    BY <1>2, StepsOne
<1>4. Kind(st) = "lock"
    <2>1. PICK S : then \in Seq(S) /\ \A x \in S : Kind(x) \in DispatchKinds
        BY DEF KindsIn
    <2>2. ASSUME Len(then) = 1
          PROVE  then[1].op # "wake"
        <3>1. DOMAIN then = 1..1
            BY <2>1, <2>2
        <3>2. Kind(then[1]) \in DispatchKinds
            BY <3>1, KindsAt
        <3> QED
            BY <3>2 DEF Kind, WakeLock, DispatchKinds
    <2> QED
        BY <1>1, <2>2 DEF Kind, WakeLock
<1> QED
    BY <1>2, <1>3, <1>4 DEF Locked, st

\* A rescheduling is.
LEMMA RescheduleOK ==
    ASSUME NEW p
    PROVE  /\ \A strategy : /\ Steps(FaultReschedule(p, strategy))
                            /\ KindsIn(FaultReschedule(p, strategy), {"lock"})
           /\ Steps(RecoveryReschedule(p)) /\ KindsIn(RecoveryReschedule(p), {"lock"})
           /\ StepOK(WakeCall(p)) /\ Kind(WakeCall(p)) = "wakeLock"
<1>0. ASSUME NEW key, NEW st, st.op \in {"fault", "recovery"}
      PROVE  Steps(Locked(key, <<st>>)) /\ KindsIn(Locked(key, <<st>>), {"lock"})
    <2>1. st.op \in PlainOps /\ st.op \in DispatchKinds
        BY <1>0 DEF PlainOps, DispatchKinds
    <2>2. PlainSteps(<<st>>) /\ KindsIn(<<st>>, DispatchKinds)
        BY <1>0, <2>1, StepsOne, KindsOp
    <2>3. Steps(Locked(key, <<st>>)) /\ Kind(LockStep(key, <<st>>)) \in {"lock"}
        BY <2>2, LockStepOK
    <2> QED
        BY <2>3, KindsOne DEF Locked
<1>1. ASSUME NEW strategy
      PROVE  /\ Steps(FaultReschedule(p, strategy))
             /\ KindsIn(FaultReschedule(p, strategy), {"lock"})
    BY <1>0 DEF FaultReschedule
<1>2. Steps(RecoveryReschedule(p)) /\ KindsIn(RecoveryReschedule(p), {"lock"})
    BY <1>0 DEF RecoveryReschedule
<1>3. StepOK(WakeCall(p)) /\ Kind(WakeCall(p)) = "wakeLock"
    <2> DEFINE st == [op |-> "wake", order |-> Head(QueuedOn(p)), pile |-> p]
    <2>1. st.op = "wake" /\ st.op \in PlainOps
        BY DEF PlainOps
    <2>2. WakeCall(p) = LockStep(<<"wake", p>>, <<st>>)
        BY DEF WakeCall
    <2> HIDE DEF st
    <2>3. PlainSteps(<<st>>) /\ Len(<<st>>) = 1 /\ <<st>>[1] = st
        BY <2>1, StepsOne
    <2> DEFINE call == LockStep(<<"wake", p>>, <<st>>)
    <2>4. call.op = "lock" /\ call.then = <<st>>
        BY DEF LockStep
    <2> HIDE DEF call
    <2>5. WakeLock(call)
        BY <2>1, <2>3, <2>4 DEF WakeLock
    <2>6. StepOK(call) /\ Kind(call) = "wakeLock"
        BY <2>3, <2>4, <2>5 DEF StepOK, Kind
    <2> QED
        BY <2>2, <2>6 DEF call
<1> QED
    BY <1>1, <1>2, <1>3

\* A call of closeAndBill, with what follows it.
LEMMA CloseAndBillOK ==
    ASSUME NEW o, NEW reason \in {"USER_STOP", "USER_CANCEL", "FAULT", "CHARGE_COMPLETE"},
           NEW target \in {"FINISHED", "ABORTED"}, NEW work \in {"IDLE", "FAULT"}
    PROVE  StepOK(CloseAndBill(o, reason, target, work))
<1> DEFINE st == CloseAndBill(o, reason, target, work)
<1>1. /\ st.op = "closeAndBill" /\ st.reason = reason /\ st.target = target
      /\ st.work = work /\ st.after = <<>>
    BY DEF CloseAndBill
<1> HIDE DEF st
<1>2. StepOK(st)
    BY <1>1, StepsNone, KindsNone DEF StepOK, EndOK
<1> QED
    BY <1>2 DEF st

\* The completions of autoCompleteCharging, of finitely many orders.
LEMMA CompletionsOK == ASSUME IsFiniteSet(DOMAIN orders) PROVE Steps(Completions)
<1> DEFINE n == Cardinality(Due)
           q == [i \in 1..n |-> CompletionOf(ById(Due)[i])]
<1>1. Due \subseteq DOMAIN orders
    BY DEF Due, OrdersIn
<1>2. n \in Nat
    BY <1>1, FS_Subset, FS_CardinalityType
<1>3. ASSUME NEW o
      PROVE  StepOK(CompletionOf(o))
    <2> DEFINE st == CompletionOf(o)
    <2>1. /\ st.op = "closeAndBill" /\ st.reason = "CHARGE_COMPLETE" /\ st.target = "FINISHED"
          /\ st.work = "IDLE"
          /\ st.after = RefreshPile(orders[o].pile) \o RefreshMode(orders[o].mode)
        BY DEF CompletionOf, CloseAndBill
    <2> HIDE DEF st
    <2>2. PlainSteps(st.after) /\ KindsIn(st.after, {"refresh"})
        BY <2>1, RefreshIsPlain, StepsJoin, RefreshKinds, KindsJoin
    <2>3. StepOK(st)
        BY <2>1, <2>2 DEF StepOK, EndOK
    <2> QED
        BY <2>3 DEF st
<1>4. q = [i \in 1..n |-> q[i]] /\ \A i \in 1..n : StepOK(q[i])
    BY <1>3
<1>5. Completions = q
    BY DEF Completions
<1> HIDE DEF n, q
<1> QED
    BY <1>2, <1>4, <1>5, StepsEach

\* A batch of assignments goes on, or ends with its refreshes.
LEMMA RemainingOK == ASSUME NEW st, BatchOK(st) PROVE Steps(Remaining(st))
<1>1. st.op = "apply"
    BY DEF BatchOK
<1>2. StepOK(st)
    BY <1>1 DEF StepOK
<1>3. Steps(<<st>>)
    BY <1>2, StepsOne
<1>4. Steps(RefreshPiles(st.touched))
    BY RefreshesArePlain, PlainIsOK DEF BatchOK
<1> QED
    BY <1>3, <1>4 DEF Remaining

\* A batch of assignments begins.
LEMMA ApplyOK ==
    ASSUME NEW plan, NEW mode, NEW movable
    PROVE  Steps(ApplyAssignments(plan, mode, movable))
<1> DEFINE st == [op |-> "apply", plan |-> plan, mode |-> mode, movable |-> movable,
                  applied |-> [p \in Piles |-> 0], started |-> {}, touched |-> {}]
<1>1. BatchOK(st)
    BY FS_EmptySet DEF BatchOK
<1> HIDE DEF st
<1>2. Steps(Remaining(st))
    BY <1>1, RemainingOK
<1> QED
    BY <1>2 DEF ApplyAssignments, st

-----------------------------------------------------------------------------
(* The invariant, and how a slot moves on *)

(* The rows have the shapes that schema.prisma declares, and the line lists *)
(* each queued order once.                                                  *)
OrdersOK ==
    /\ \A o \in DOMAIN orders : orders[o] \in OrderRow
    /\ line \in Seq(OrderIds) /\ Distinct(line)
    /\ ToSet(line) = OrdersIn({"IN_PILE_QUEUE"})

BookRowsOK ==
    /\ \A x \in DOMAIN sessions : sessions[x] \in SessionRow
    /\ \A o \in DOMAIN details : details[o] \in DetailRow
    /\ piles \in [Piles -> PileRow]
    /\ totals \in [Piles -> TotalsRow]

RowsOK == OrdersOK /\ BookRowsOK

TodoOK == DOMAIN todo = Slots /\ \A s \in Slots : Todo(todo[s])

HandlersInv == BooksInv /\ RowsOK /\ TodoOK

(* A slot begins, ends, or goes on with its handler, and takes and gives    *)
(* back no lock.                                                            *)
Moves(s) ==
    /\ UNCHANGED locks
    /\ \/ \E q : Steps(q) /\ Begin(s, q)
       \/ /\ todo[s] # <<>>
          /\ Head(todo[s]).op # "unlock"
          /\ \E q : Steps(q) /\ Goto(s, q)

\* It begins or throws.
LEMMA Begins == ASSUME NEW s, NEW q, Steps(q), Begin(s, q), UNCHANGED locks PROVE Moves(s)
BY DEF Moves

\* It throws.
LEMMA Throws == ASSUME NEW s, Throw(s), UNCHANGED locks PROVE Moves(s)
BY StepsNone DEF Moves, Throw

\* It goes on.
LEMMA GoesOn ==
    ASSUME NEW s, NEW op, At(s, op), op # "unlock", NEW q, Steps(q), Goto(s, q), UNCHANGED locks
    PROVE  Moves(s)
BY DEF Moves, At

\* It is done with the step.
LEMMA GoesNext ==
    ASSUME NEW s, NEW op, At(s, op), op # "unlock", Goto(s, <<>>), UNCHANGED locks
    PROVE  Moves(s)
BY StepsNone DEF Moves, At

\* The step a slot takes is as it was put there.
LEMMA HeadOK ==
    ASSUME TodoOK, NEW s \in Slots, NEW op, At(s, op), op # "unlock"
    PROVE  StepOK(Head(todo[s])) /\ Head(todo[s]).op = op
BY TodoNext DEF TodoOK, At

\* There are finitely many orders.
LEMMA OrdersFinite == ASSUME BooksInv PROVE IsFiniteSet(DOMAIN orders)
BY OrderIdsFinite, FS_Subset DEF BooksInv, RowsLinked

\* nextQueueNo makes a number of its mode, larger than those there are.
LEMMA NextQueueNoOK ==
    ASSUME BooksInv, RowsOK, NEW mode, NEW no, no = NextQueueNo(mode)
    PROVE  /\ mode \in Modes => no \in QueueNo
           /\ no.prefix = mode /\ no.suffixes = 0
           /\ \A o \in DOMAIN orders : orders[o].mode = mode /\ orders[o].no.prefix = mode
                                          => orders[o].no.number < no.number
<1> DEFINE mine == {o \in OrdersIn(Open \cup Terminal) :
                       orders[o].mode = mode /\ orders[o].no.prefix = mode}
           used == {orders[o].no.number : o \in mine}
           all == used \cup {0}
<1>1. mine \subseteq DOMAIN orders
    BY DEF OrdersIn
<1>2. \A o \in mine : orders[o].no.number \in Nat
    BY <1>1 DEF RowsOK, OrdersOK, BookRowsOK, OrderRow, QueueNo
<1>3. IsFiniteSet(mine)
    BY <1>1, OrdersFinite, FS_Subset
<1>4. IsFiniteSet(used)
    <2> DEFINE f == [o \in mine |-> orders[o].no.number]
    <2>1. f \in Surjection(mine, used)
        BY DEF Surjection
    <2> HIDE DEF f, mine, used
    <2> QED
        BY <1>3, <2>1, FS_Surjection
<1>5. all \in SUBSET Nat /\ IsFiniteSet(all) /\ all # {}
    <2>1. used \in SUBSET Nat
        BY <1>2
    <2> HIDE DEF used
    <2> QED
        BY <1>4, <2>1, FS_AddElement
<1>6. no = [prefix |-> mode, number |-> Max(all) + 1, suffixes |-> 0]
    BY DEF NextQueueNo
<1>7. ASSUME NEW o \in DOMAIN orders, orders[o].mode = mode, orders[o].no.prefix = mode
      PROVE  orders[o].no.number \in all
    <2>1. o \in mine
        BY <1>7 DEF RowsOK, OrdersOK, OrderRow, OrdersIn
    <2> QED
        BY <2>1
<1> HIDE DEF all
<1>8. Max(all) \in Nat /\ \A y \in all : y <= Max(all) /\ y \in Nat
    BY <1>5, MaxOfSet
<1>9. mode \in Modes => no \in QueueNo
    BY <1>6, <1>8 DEF QueueNo
<1>10. /\ no.prefix = mode /\ no.suffixes = 0
       /\ \A y \in all : y < no.number
    BY <1>6, <1>8
<1> QED
    BY <1>7, <1>9, <1>10

-----------------------------------------------------------------------------
(* Requests *)

\* A driver's request puts such steps into its slot.
LEMMA DriverMoves ==
    ASSUME HandlersInv, NEW s \in Slots, DriverRequest(s)
    PROVE  Moves(s)
<1>1. ASSUME NEW u \in Users, NEW w \in Wishes, SubmitRequest(s, u, w[1], w[2])
      PROVE  Moves(s)
    <2>1. w[1] \in Modes /\ w[2] \in Nat
        BY WishesAssumption, AmountsAssumption
    <2>2. NextQueueNo(w[1]) \in QueueNo
        BY <2>1, NextQueueNoOK DEF HandlersInv
    <2>3. Steps(CreateCall(u, w[1], w[2], 0))
        BY <2>1, <2>2, StepsOne DEF CreateCall, StepOK
    <2> QED
        BY <1>1, <2>3, Begins DEF SubmitRequest, redis
<1>2. ASSUME NEW o \in DOMAIN orders, NEW mode \in Modes, ModifyMode(s, o, mode)
      PROVE  Moves(s)
    <2> DEFINE st == [op |-> "setMode", order |-> o, from |-> orders[o].mode, mode |-> mode,
                      no |-> NextQueueNo(mode)]
    <2>1. StepOK(st)
        BY NextQueueNoOK DEF HandlersInv, StepOK
    <2>2. Begin(s, <<st>>) /\ UNCHANGED locks
        BY <1>2 DEF ModifyMode, redis
    <2> HIDE DEF st
    <2> QED
        BY <2>1, <2>2, StepsOne, Begins
<1>3. ASSUME NEW o \in DOMAIN orders, NEW amount \in Amounts, ModifyAmount(s, o, amount)
      PROVE  Moves(s)
    <2> DEFINE st == [op |-> "setAmount", order |-> o, amount |-> amount]
    <2>1. StepOK(st)
        BY AmountsAssumption DEF StepOK
    <2>2. Begin(s, <<st>>) /\ UNCHANGED locks
        BY <1>3 DEF ModifyAmount, redis
    <2> HIDE DEF st
    <2> QED
        BY <2>1, <2>2, StepsOne, Begins
<1>4. ASSUME NEW o \in DOMAIN orders, CancelQueued(s, o)
      PROVE  Moves(s)
    <2> DEFINE mode == orders[o].mode
               refresh == IF orders[o].status = "WAITING" THEN RefreshMode(mode)
                          ELSE RefreshPile(orders[o].pile)
               st == [op |-> "setCanceled", order |-> o]
    <2>1. StepOK(st)
        BY DEF StepOK
    <2>2. Begin(s, <<st>> \o refresh \o TriggerBasic(mode)) /\ UNCHANGED locks
        BY <1>4 DEF CancelQueued, redis
    <2>3. Steps(refresh) /\ Steps(TriggerBasic(mode))
        BY RefreshIsPlain, TriggerIsPlain, PlainIsOK
    <2> HIDE DEF st, refresh, mode
    <2>4. Steps(<<st>> \o refresh \o TriggerBasic(mode))
        BY <2>1, <2>3, StepsOne, StepsJoin
    <2> QED
        BY <2>2, <2>4, Begins
<1>5. ASSUME NEW o, NEW reason \in {"USER_STOP", "USER_CANCEL", "FAULT", "CHARGE_COMPLETE"},
             NEW target \in {"FINISHED", "ABORTED"}, NEW mode, UNCHANGED locks,
             Begin(s, <<CloseAndBill(o, reason, target, "IDLE")>> \o TriggerBasic(mode))
      PROVE  Moves(s)
    <2>1. Steps(<<CloseAndBill(o, reason, target, "IDLE")>>)
        BY CloseAndBillOK, StepsOne
    <2>2. Steps(TriggerBasic(mode))
        BY TriggerIsPlain, PlainIsOK
    <2> QED
        BY <1>5, <2>1, <2>2, StepsJoin, Begins
<1>6. ASSUME NEW o \in DOMAIN orders, NEW reason \in {"USER_STOP", "USER_CANCEL", None},
             CancelCharging(s, o, reason)
      PROVE  Moves(s)
    <2> DEFINE target == IF reason = "USER_STOP" THEN "FINISHED" ELSE "ABORTED"
               recorded == IF reason = None THEN "FAULT" ELSE reason
    <2>1. /\ Begin(s, <<CloseAndBill(o, recorded, target, "IDLE")>> \o TriggerBasic(orders[o].mode))
          /\ UNCHANGED locks
        BY <1>6 DEF CancelCharging, redis
    <2>2. /\ recorded \in {"USER_STOP", "USER_CANCEL", "FAULT", "CHARGE_COMPLETE"}
          /\ target \in {"FINISHED", "ABORTED"}
        OBVIOUS
    <2> HIDE DEF target, recorded
    <2> QED
        BY <1>5, <2>1, <2>2
<1>7. ASSUME NEW o \in DOMAIN orders, Start(s, o)
      PROVE  Moves(s)
    <2> DEFINE p == orders[o].pile
               st == [op |-> "start", order |-> o, pile |-> p, ahead |-> AheadOf(o, p)]
    <2>1. StepOK(st)
        BY DEF StepOK
    <2>2. Begin(s, <<st>>) /\ UNCHANGED locks
        BY <1>7 DEF Start, redis
    <2> HIDE DEF st
    <2> QED
        BY <2>1, <2>2, StepsOne, Begins
<1>8. ASSUME NEW o \in DOMAIN orders, Stop(s, o)
      PROVE  Moves(s)
    BY <1>5, <1>8 DEF Stop, redis
<1>9. CASE QueueStatus(s)
    BY <1>9, OrdersFinite, CompletionsOK, Begins DEF HandlersInv, QueueStatus, redis
<1> QED
    BY <1>1, <1>2, <1>3, <1>4, <1>6, <1>7, <1>8, <1>9 DEF DriverRequest

\* An administrator's request does.
LEMMA AdminMoves ==
    ASSUME HandlersInv, NEW s \in Slots, AdminRequest(s)
    PROVE  Moves(s)
<1>1. ASSUME NEW p \in Piles, PowerOn(s, p)
      PROVE  Moves(s)
    <2> DEFINE work == WorkAfterSwitch(p)
               st == [op |-> "setPower", pile |-> p, phys |-> "ON", work |-> work]
               trigger == IF work = "FAULT" THEN <<>> ELSE TriggerBasic(PileType[p])
    <2>1. StepOK(st)
        BY DEF StepOK, WorkAfterSwitch
    <2>2. Begin(s, <<st>> \o RefreshPile(p) \o trigger) /\ UNCHANGED locks
        BY <1>1 DEF PowerOn, redis
    <2>3. Steps(trigger) /\ Steps(RefreshPile(p))
        BY RefreshIsPlain, TriggerIsPlain, PlainIsOK, StepsNone
    <2> HIDE DEF st, trigger
    <2>4. Steps(<<st>> \o RefreshPile(p) \o trigger)
        BY <2>1, <2>3, StepsOne, StepsJoin
    <2> QED
        BY <2>2, <2>4, Begins
<1>2. ASSUME NEW p \in Piles, PowerOff(s, p)
      PROVE  Moves(s)
    <2> DEFINE st == [op |-> "setPower", pile |-> p, phys |-> "OFF", work |-> WorkAfterSwitch(p)]
    <2>1. StepOK(st)
        BY DEF StepOK, WorkAfterSwitch
    <2>2. Begin(s, <<st>> \o RefreshPile(p)) /\ UNCHANGED locks
        BY <1>2 DEF PowerOff, redis
    <2>3. Steps(RefreshPile(p))
        BY RefreshIsPlain, PlainIsOK
    <2> HIDE DEF st
    <2>4. Steps(<<st>> \o RefreshPile(p))
        BY <2>1, <2>3, StepsOne, StepsJoin
    <2> QED
        BY <2>2, <2>4, Begins
<1>3. ASSUME NEW p \in Piles, ReportFault(s, p)
      PROVE  Moves(s)
    <2>0. UNCHANGED locks
        BY <1>3 DEF ReportFault, redis
    <2>1. CASE Begin(s, <<[op |-> "setFault", pile |-> p, continued |-> FALSE]>>)
        <3> DEFINE st == [op |-> "setFault", pile |-> p, continued |-> FALSE]
        <3>1. StepOK(st)
            BY DEF StepOK
        <3>2. Begin(s, <<st>>)
            BY <2>1
        <3> HIDE DEF st
        <3> QED
            BY <2>0, <3>1, <3>2, StepsOne, Begins
    <2>2. ASSUME NEW o \in OnPile(p, {"CHARGING"}),
                 Begin(s, <<CloseAndBill(o, "FAULT", "ABORTED", "FAULT"),
                            [op |-> "remaining", pile |-> p, order |-> o, active |-> orders[o]]>>)
          PROVE  Moves(s)
        <3> DEFINE bill == CloseAndBill(o, "FAULT", "ABORTED", "FAULT")
                   st == [op |-> "remaining", pile |-> p, order |-> o, active |-> orders[o]]
        <3>1. StepOK(bill)
            BY CloseAndBillOK
        <3>2. StepOK(st)
            BY DEF StepOK, HandlersInv, RowsOK, OrdersOK, BookRowsOK, OnPile, OrdersIn
        <3>3. Begin(s, <<bill, st>>)
            BY <2>2
        <3> HIDE DEF bill, st
        <3>5. Steps(<<bill, st>>)
            BY <3>1, <3>2, StepsTwo
        <3> QED
            BY <2>0, <3>3, <3>5, Begins
    <2> QED
        BY <1>3, <2>1, <2>2 DEF ReportFault
<1>4. ASSUME NEW p \in Piles, Recover(s, p)
      PROVE  Moves(s)
    <2> DEFINE then == IF piles[p].phys = "ON"
                       THEN RecoveryReschedule(p) \o TriggerBasic(PileType[p])
                       ELSE <<>>
    <2>1. Begin(s, RefreshPile(p) \o then) /\ UNCHANGED locks
        BY <1>4 DEF Recover, redis
    <2>2. Steps(then) /\ Steps(RefreshPile(p))
        BY RefreshIsPlain, TriggerIsPlain, RescheduleOK, PlainIsOK, StepsNone, StepsJoin
    <2> HIDE DEF then
    <2> QED
        BY <2>1, <2>2, StepsJoin, Begins
<1>5. ASSUME NEW p \in Piles, NEW strategy, Reschedule(s, p, strategy)
      PROVE  Moves(s)
    BY <1>5, RescheduleOK, Begins DEF Reschedule, redis
<1>6. CASE BasicAll(s)
    <2> DEFINE then == AutoComplete \o <<[op |-> "wakeIdlePiles"]>>
                         \o TriggerBasic("FAST") \o TriggerBasic("SLOW")
    <2>1. PlainSteps(then) /\ KindsIn(then, DispatchKinds)
        BY TriggerIsPlain, StepsJoin, TriggerKinds, KindsJoin
    <2>2. Begin(s, Locked(<<"basic">>, then)) /\ UNCHANGED locks
        BY <1>6 DEF BasicAll, redis
    <2> HIDE DEF then
    <2> QED
        BY <2>1, <2>2, LockStepOK, Begins
<1>7. ASSUME NEW mode, Basic(s, mode)
      PROVE  Moves(s)
    BY <1>7, TriggerIsPlain, PlainIsOK, Begins DEF Basic, redis
<1>8. ASSUME NEW mode, NEW n, SingleOptimization(s, mode, n)
      PROVE  Moves(s)
    <2>1. PICK plan : Begin(s, ApplyAssignments(plan, mode, {}) \o RefreshMode(mode))
        BY <1>8 DEF SingleOptimization
    <2>2. Steps(ApplyAssignments(plan, mode, {}) \o RefreshMode(mode))
        BY ApplyOK, RefreshIsPlain, PlainIsOK, StepsJoin
    <2> QED
        BY <1>8, <2>1, <2>2, Begins DEF SingleOptimization, redis
<1>9. ASSUME NEW n, BatchOptimization(s, n)
      PROVE  Moves(s)
    <2>1. PICK plan : Begin(s, ApplyAssignments(plan, None, {}) \o RefreshAll)
        BY <1>9 DEF BatchOptimization
    <2>2. Steps(ApplyAssignments(plan, None, {}) \o RefreshAll)
        BY ApplyOK, RefreshesArePlain, PlainIsOK, StepsJoin
    <2> QED
        BY <1>9, <2>1, <2>2, Begins DEF BatchOptimization, redis
<1> QED
    BY <1>1, <1>2, <1>3, <1>4, <1>5, <1>6, <1>7, <1>8, <1>9 DEF AdminRequest

-----------------------------------------------------------------------------
(* Handlers *)

\* Without closed sessions of the order there is no earlier amount.
LEMMA NothingBefore ==
    ASSUME BooksInv, NEW o, o \notin DOMAIN details, NEW x
    PROVE  PreviousAmount(o, x) = 0
<1> DEFINE earlier == {y \in DOMAIN sessions \ {x} : /\ sessions[y].order = o
                                                   /\ sessions[y].state # "ACTIVE"}
           f == [y \in earlier |-> sessions[y].delivered]
<1>1. earlier = {}
    BY DEF BooksInv, ClosedSessionBilled
<1>2. PreviousAmount(o, x) = SumFunction(f) /\ DOMAIN f = earlier
    BY DEF PreviousAmount
<1> HIDE DEF earlier, f
<1>3. SumFunction(f) = Total(f, {})
    BY <1>1, <1>2, FS_EmptySet, SumIsTotal
<1> QED
    BY <1>2, <1>3, TotalOfNone

\* What is billed is a natural number.
LEMMA ActualAmountOK ==
    ASSUME BooksInv, RowsOK, NEW o, NEW x, x \in ActiveSessions(o)
    PROVE  ActualAmount(o, x) \in Nat
<1>1. x \in DOMAIN sessions /\ sessions[x].order = o
    BY DEF ActiveSessions
<1>2. o \in DOMAIN orders
    BY <1>1 DEF BooksInv, RowsLinked
<1>3. orders[o].amount \in Nat /\ sessions[x].delivered \in Nat
    BY <1>1, <1>2 DEF RowsOK, OrdersOK, BookRowsOK, OrderRow, SessionRow
<1> QED
    BY <1>3, MinOfTwo DEF ActualAmount

\* The active session that is billed is one.
LEMMA FirstActive ==
    ASSUME BooksInv, NEW o, ActiveSessions(o) # {}
    PROVE  Min(ActiveSessions(o)) \in ActiveSessions(o)
<1>1. SessionIds \subseteq Nat
    BY DEF SessionIds
<1>2. ActiveSessions(o) \in SUBSET Nat
    BY <1>1 DEF ActiveSessions, BooksInv, RowsLinked
<1> QED
    BY <1>2, MinOfSet

\* Billing moves on: with the amount, with nothing, or not at all.
LEMMA ReadForBillMoves ==
    ASSUME HandlersInv, NEW s \in Slots, ReadForBill(s)
    PROVE  Moves(s)
<1> DEFINE step == Head(todo[s])
           o == step.order
           x == Min(ActiveSessions(o))
           st == [op |-> "settle", session |-> x, amount |-> ActualAmount(o, x),
                  previous |-> PreviousAmount(o, x), mode |-> orders[o].mode,
                  reason |-> step.reason, target |-> step.target, work |-> step.work,
                  swallow |-> step.swallow, after |-> step.after]
<1>1. At(s, "closeAndBill") /\ UNCHANGED locks
    BY DEF ReadForBill, redis
<1>2. StepOK(step) /\ step.op = "closeAndBill"
    BY <1>1, HeadOK DEF HandlersInv
<1>3. EndOK(step)
    BY <1>2 DEF StepOK
<1>4. Steps(step.after)
    BY <1>3, PlainIsOK DEF EndOK
<1>5. CASE Goto(s, step.after)
    BY <1>1, <1>4, <1>5, GoesOn
<1>6. CASE Fail(s)
    BY <1>1, <1>6, GoesNext, Throws DEF Fail
<1>7. CASE o \notin DOMAIN details /\ ActiveSessions(o) # {} /\ Goto(s, <<st>>)
    <2>1. x \in ActiveSessions(o)
        BY <1>7, FirstActive DEF HandlersInv
    <2>2. ActualAmount(o, x) \in Nat /\ PreviousAmount(o, x) = 0
        BY <1>7, <2>1, ActualAmountOK, NothingBefore DEF HandlersInv
    <2>3. EndOK(st)
        BY <1>3 DEF EndOK
    <2>4. StepOK(st)
        BY <2>2, <2>3 DEF StepOK
    <2>5. Goto(s, <<st>>)
        BY <1>7
    <2> HIDE DEF st
    <2>6. Steps(<<st>>)
        BY <2>4, StepsOne
    <2> QED
        BY <1>1, <2>5, <2>6, GoesOn
<1> QED
    BY <1>5, <1>6, <1>7 DEF ReadForBill

\* So does the transaction.
LEMMA SettleMoves ==
    ASSUME HandlersInv, NEW s \in Slots, Settle(s)
    PROVE  Moves(s)
<1> DEFINE step == Head(todo[s])
           p == sessions[step.session].pile
           q == RefreshMode(step.mode) \o RefreshPile(p) \o step.after
<1>1. At(s, "settle") /\ UNCHANGED locks
    BY DEF Settle, redis
<1>2. StepOK(step) /\ step.op = "settle"
    BY <1>1, HeadOK DEF HandlersInv
<1>3. PlainSteps(step.after)
    BY <1>2 DEF StepOK, EndOK
<1>4. Fail(s) \/ Goto(s, q)
    BY DEF Settle
<1>5. Steps(q)
    BY <1>3, RefreshIsPlain, StepsJoin, PlainIsOK
<1> HIDE DEF q
<1> QED
    BY <1>1, <1>4, <1>5, GoesOn, GoesNext, Throws DEF Fail

(* The batch has counted an assignment to the pile. *)
Tallied(rest, old, p) ==
    /\ DOMAIN rest = DOMAIN old
    /\ "movable" \in DOMAIN old => rest.movable = old.movable
    /\ rest.applied = [old.applied EXCEPT ![p] = @ + 1]

\* The batch that goes on after an assignment is one, and has counted it.
LEMMA AssignGoesOn ==
    ASSUME HandlersInv, NEW s \in Slots, Assign(s)
    PROVE  \E rest : /\ BatchOK(rest) /\ Goto(s, Remaining(rest))
                     /\ Tallied(rest, Head(todo[s]).rest, Head(todo[s]).pile)
<1> DEFINE step == Head(todo[s])
           p == step.pile
           rest == [step.rest EXCEPT
                       !.applied[p] = @ + 1,
                       !.started = IF step.autoStart THEN @ \cup {p} ELSE @,
                       !.touched = @ \cup ({p, step.from} \ {None})]
<1>1. At(s, "assign") /\ Goto(s, Remaining(rest))
    BY DEF Assign
<1>2. BatchOK(step.rest)
    BY <1>1, HeadOK DEF HandlersInv, StepOK
<1>3. BatchOK(rest) /\ Tallied(rest, step.rest, p)
    <2> DEFINE old == step.rest
               touched == old.touched \cup ({p, step.from} \ {None})
               counted == [old EXCEPT !.applied[p] = @ + 1]
               started == [counted EXCEPT !.started = IF step.autoStart THEN @ \cup {p} ELSE @]
    <2>1. /\ DOMAIN rest = DOMAIN old
          /\ rest.op = old.op
          /\ rest.touched = touched
          /\ Tallied(rest, old, p)
        <3>1. /\ DOMAIN counted = DOMAIN old /\ counted.op = old.op
              /\ counted.touched = old.touched
              /\ Tallied(counted, old, p)
            BY <1>2 DEF BatchOK, Tallied
        <3>2. rest = [started EXCEPT !.touched = @ \cup ({p, step.from} \ {None})]
            OBVIOUS
        <3> HIDE DEF counted
        <3>3. /\ DOMAIN started = DOMAIN old /\ started.op = old.op
              /\ started.touched = old.touched
              /\ Tallied(started, old, p)
            BY <1>2, <3>1 DEF BatchOK, Tallied
        <3> HIDE DEF started, rest
        <3> QED
            BY <1>2, <3>2, <3>3 DEF BatchOK, Tallied
    <2>2. IsFiniteSet({p, step.from} \ {None})
        <3>0. IsFiniteSet({p})
            BY FS_Singleton
        <3>1. IsFiniteSet({p} \cup {step.from})
            BY <3>0, FS_AddElement
        <3>2. {p, step.from} \ {None} \subseteq {p} \cup {step.from}
            OBVIOUS
        <3> QED
            BY <3>1, <3>2, FS_Subset
    <2>3. IsFiniteSet(touched)
        BY <1>2, <2>2, FS_Union DEF BatchOK
    <2> HIDE DEF rest, touched
    <2> QED
        BY <1>2, <2>1, <2>3 DEF BatchOK
<1> HIDE DEF rest
<1> QED
    BY <1>1, <1>3

\* A step of an assignment does: the batch stays one.
LEMMA AssignMoves ==
    ASSUME HandlersInv, NEW s \in Slots, ReadAssignment(s) \/ Assign(s)
    PROVE  Moves(s)
<1> DEFINE step == Head(todo[s])
<1>1. CASE ReadAssignment(s)
    <2> DEFINE next == Head(step.plan)
               rest == [step EXCEPT !.plan = Tail(@)]
               st == [op |-> "assign", order |-> next.order, pile |-> next.pile,
                      autoStart |-> AutoStarts(step, next.pile),
                      from |-> orders[next.order].pile, rest |-> rest]
    <2>1. At(s, "apply") /\ UNCHANGED locks
        BY <1>1 DEF ReadAssignment, redis
    <2>2. BatchOK(step)
        BY <2>1, HeadOK DEF HandlersInv, StepOK
    <2>3. BatchOK(rest)
        <3>1. DOMAIN rest = DOMAIN step /\ rest.op = step.op /\ rest.touched = step.touched
            BY <2>2 DEF BatchOK
        <3> HIDE DEF rest
        <3> QED
            BY <2>2, <3>1 DEF BatchOK
    <2>4. \/ CanPlace(step, next.order, next.pile) /\ Goto(s, <<st>>)
          \/ Goto(s, Remaining(rest))
        BY <1>1 DEF ReadAssignment
    <2>5. CASE CanPlace(step, next.order, next.pile) /\ Goto(s, <<st>>)
        <3>1. next.pile \in Piles
            BY <2>5 DEF CanPlace
        <3>2. StepOK(st)
            BY <2>3, <3>1 DEF StepOK
        <3>3. Goto(s, <<st>>)
            BY <2>5
        <3> HIDE DEF st
        <3> QED
            BY <2>1, <3>2, <3>3, StepsOne, GoesOn
    <2>6. CASE Goto(s, Remaining(rest))
        <3> HIDE DEF rest
        <3> QED
            BY <2>1, <2>3, <2>6, RemainingOK, GoesOn
    <2> QED
        BY <2>4, <2>5, <2>6
<1>2. CASE Assign(s)
    <2>1. At(s, "assign") /\ UNCHANGED locks
        BY <1>2 DEF Assign, redis
    <2>2. PICK rest : BatchOK(rest) /\ Goto(s, Remaining(rest))
        BY <1>2, AssignGoesOn
    <2> QED
        BY <2>1, <2>2, RemainingOK, GoesOn
<1> QED
    BY <1>1, <1>2

\* Planning does: it begins batches of assignments, or a call under a lock for
\* each of finitely many piles.
LEMMA PlanMoves ==
    ASSUME HandlersInv, NEW s \in Slots,
           \/ AutoCompleteCharging(s) \/ PlanBasic(s) \/ PlanFault(s) \/ PlanRecovery(s)
           \/ PlanWake(s) \/ Wake(s)
    PROVE  Moves(s)
<1>1. CASE AutoCompleteCharging(s)
    <2>1. At(s, "autoComplete") /\ Goto(s, Completions) /\ UNCHANGED locks
        BY <1>1 DEF AutoCompleteCharging, redis
    <2>2. Steps(Completions)
        BY OrdersFinite, CompletionsOK DEF HandlersInv
    <2> QED
        BY <2>1, <2>2, GoesOn
<1>2. CASE PlanBasic(s)
    <2>1. At(s, "basic") /\ UNCHANGED locks
        BY <1>2 DEF PlanBasic, redis
    <2>2. PICK plan, mode : Goto(s, ApplyAssignments(plan, mode, {}) \o RefreshMode(mode))
        BY <1>2 DEF PlanBasic
    <2>3. Steps(ApplyAssignments(plan, mode, {}) \o RefreshMode(mode))
        BY ApplyOK, RefreshIsPlain, PlainIsOK, StepsJoin
    <2> QED
        BY <2>1, <2>2, <2>3, GoesOn
<1>3. CASE PlanFault(s)
    <2>1. At(s, "fault") /\ UNCHANGED locks
        BY <1>3 DEF PlanFault, redis
    <2> DEFINE p == Head(todo[s]).pile
    <2>2. PICK plan, mode, movable : Goto(s, ApplyAssignments(plan, mode, movable) \o RefreshPile(p))
        BY <1>3 DEF PlanFault
    <2>3. Steps(ApplyAssignments(plan, mode, movable) \o RefreshPile(p))
        BY ApplyOK, RefreshIsPlain, PlainIsOK, StepsJoin
    <2> QED
        BY <2>1, <2>2, <2>3, GoesOn
<1>4. CASE PlanRecovery(s)
    <2>1. At(s, "recovery") /\ UNCHANGED locks
        BY <1>4 DEF PlanRecovery, redis
    <2>2. PICK plan, mode, movable : Goto(s, ApplyAssignments(plan, mode, movable))
        BY <1>4 DEF PlanRecovery
    <2> QED
        BY <2>1, <2>2, ApplyOK, GoesOn
<1>5. CASE PlanWake(s)
    <2> DEFINE idle == {p \in Piles : Wakeable(p)}
               n == Cardinality(idle)
               q == [i \in 1..n |-> WakeCall(ById(idle)[i])]
    <2>1. At(s, "wakeIdlePiles") /\ Goto(s, q) /\ UNCHANGED locks
        BY <1>5 DEF PlanWake, redis
    <2>2. n \in Nat
        BY PilesAssumption, FS_Subset, FS_CardinalityType
    <2>3. q = [i \in 1..n |-> q[i]] /\ \A i \in 1..n : StepOK(q[i])
        BY RescheduleOK
    <2> HIDE DEF n, q
    <2>4. Steps(q)
        BY <2>2, <2>3, StepsEach
    <2> QED
        BY <2>1, <2>4, GoesOn
<1>6. CASE Wake(s)
    <2>1. PICK p : At(s, "wake") /\ Goto(s, RefreshPile(p)) /\ UNCHANGED locks
        BY <1>6 DEF Wake, redis
    <2>2. Steps(RefreshPile(p))
        BY RefreshIsPlain, PlainIsOK
    <2> QED
        BY <2>1, <2>2, GoesOn
<1> QED
    BY <1>1, <1>2, <1>3, <1>4, <1>5, <1>6

\* So do the driver's writes.
LEMMA ChargingMoves ==
    ASSUME HandlersInv, NEW s \in Slots, ServeCharging(s)
    PROVE  Moves(s)
<1> DEFINE step == Head(todo[s])
<1>0. \A mode : Steps(RefreshMode(mode) \o AutoComplete)
    BY RefreshIsPlain, TriggerIsPlain, StepsJoin, PlainIsOK
<1>1. CASE Create(s)
    <2> DEFINE again == [op |-> "retry", user |-> step.user, mode |-> step.mode,
                         amount |-> step.amount, attempt |-> step.attempt + 1]
    <2>1. At(s, "create") /\ UNCHANGED locks
        BY <1>1 DEF Create, redis
    <2>2. StepOK(step) /\ step.op = "create"
        BY <2>1, HeadOK DEF HandlersInv
    <2>3. StepOK(again)
        BY <2>2 DEF StepOK
    <2>4. \/ Throw(s) \/ Goto(s, <<again>>)
          \/ Goto(s, RefreshMode(step.mode) \o AutoComplete)
        BY <1>1 DEF Create
    <2> HIDE DEF again
    <2>5. Steps(<<again>>)
        BY <2>3, StepsOne
    <2> QED
        BY <1>0, <2>1, <2>4, <2>5, Throws, GoesOn
<1>2. CASE Retry(s)
    <2>1. At(s, "retry") /\ UNCHANGED locks
        BY <1>2 DEF Retry, redis
    <2>2. StepOK(step) /\ step.op = "retry"
        BY <2>1, HeadOK DEF HandlersInv
    <2>3. step.user \in Users /\ step.mode \in Modes /\ step.amount \in Nat
        BY <2>2 DEF StepOK
    <2>4. NextQueueNo(step.mode) \in QueueNo
        BY <2>3, NextQueueNoOK DEF HandlersInv
    <2> DEFINE st == [op |-> "create", user |-> step.user, mode |-> step.mode,
                      amount |-> step.amount, attempt |-> step.attempt,
                      no |-> NextQueueNo(step.mode)]
    <2>5. StepOK(st)
        BY <2>3, <2>4 DEF StepOK
    <2>6. Goto(s, <<st>>)
        BY <1>2 DEF Retry, CreateCall
    <2> HIDE DEF st
    <2>7. Steps(<<st>>)
        BY <2>5, StepsOne
    <2> QED
        BY <2>1, <2>6, <2>7, GoesOn
<1>3. CASE SetMode(s)
    <2> DEFINE q == RefreshMode(step.from) \o RefreshMode(step.mode) \o AutoComplete
    <2>1. At(s, "setMode") /\ UNCHANGED locks /\ (Throw(s) \/ Goto(s, q))
        BY <1>3 DEF SetMode, redis
    <2>2. Steps(q)
        BY RefreshIsPlain, TriggerIsPlain, StepsJoin, PlainIsOK
    <2> HIDE DEF q
    <2> QED
        BY <2>1, <2>2, Throws, GoesOn
<1>4. CASE SetAmount(s)
    <2>1. PICK mode : At(s, "setAmount") /\ UNCHANGED locks
                      /\ Goto(s, RefreshMode(mode) \o AutoComplete)
        BY <1>4 DEF SetAmount, redis
    <2> QED
        BY <1>0, <2>1, GoesOn
<1>5. CASE SetCanceled(s)
    BY <1>5, GoesNext DEF SetCanceled, redis
<1>6. CASE StartTransaction(s)
    <2>1. At(s, "start") /\ UNCHANGED locks /\ (Throw(s) \/ Goto(s, RefreshPile(step.pile)))
        BY <1>6 DEF StartTransaction, redis
    <2>2. Steps(RefreshPile(step.pile))
        BY RefreshIsPlain, PlainIsOK
    <2> QED
        BY <2>1, <2>2, Throws, GoesOn
<1> QED
    BY <1>1, <1>2, <1>3, <1>4, <1>5, <1>6 DEF ServeCharging

\* Rounding moves an amount by half a grain at most.
LEMMA RoundedNear ==
    \A x \in Int : /\ Rounded(x) \in Int
                  /\ 2 * (Rounded(x) - x) <= Grain
                  /\ 2 * (x - Rounded(x)) <= Grain
<1> SUFFICES ASSUME NEW x \in Int
             PROVE  /\ Rounded(x) \in Int
                    /\ 2 * (Rounded(x) - x) <= Grain
                    /\ 2 * (x - Rounded(x)) <= Grain
    OBVIOUS
<1>1. Grain \in Int /\ Grain > 0
    BY GrainAssumption
<1>2. \A a, b \in Int : b > 0 => /\ a \div b \in Int
                                /\ b * (a \div b) <= a /\ a < b * (a \div b) + b
    OBVIOUS
<1>3. PICK b \in Int : b = 2 * Grain /\ b > 0
    BY <1>1
<1>4. PICK a \in Int : a = 2 * x + Grain
    BY <1>1
<1>5. PICK q \in Int : q = a \div b /\ b * q <= a /\ a < b * q + b
    BY <1>2, <1>3, <1>4
<1>6. Rounded(x) = Grain * q
    BY <1>3, <1>4, <1>5 DEF Rounded
<1>7. PICK m \in Int : m = Grain * q
    BY <1>1
<1>8. b * q = 2 * m
    BY <1>1, <1>3, <1>7
<1> QED
    BY <1>1, <1>3, <1>4, <1>5, <1>6, <1>7, <1>8

\* So do the administrator's.
LEMMA PileMoves ==
    ASSUME HandlersInv, NEW s \in Slots, ServePile(s)
    PROVE  Moves(s)
<1> DEFINE step == Head(todo[s])
<1>1. CASE SetPower(s)
    BY <1>1, GoesNext DEF SetPower, redis
<1>2. CASE Remainder(s)
    <2> DEFINE fault(continued) == [op |-> "setFault", pile |-> step.pile, continued |-> continued]
               rename == [op |-> "rename", order |-> step.order, no |-> step.active.no]
               continue == [op |-> "continue", active |-> step.active, amount |-> Uncovered(step)]
    <2>1. At(s, "remaining") /\ UNCHANGED locks
        BY <1>2 DEF Remainder, redis
    <2>2. StepOK(step) /\ step.op = "remaining"
        BY <2>1, HeadOK DEF HandlersInv
    <2>3. step.active \in OrderRow
        BY <2>2 DEF StepOK
    <2>4. step.active.no \in QueueNo /\ step.active.amount \in Nat
        BY <2>3 DEF OrderRow
    <2>5. \A c : StepOK(fault(c))
        BY DEF StepOK
    <2>6. StepOK(rename)
        BY <2>4 DEF StepOK
    <2>7. Uncovered(step) \in Int
        <3>1. step.order \in DOMAIN details => details[step.order].amount \in Int
            BY DEF HandlersInv, RowsOK, OrdersOK, BookRowsOK, DetailRow
        <3>2. PICK left \in Int : Uncovered(step) = Rounded(left)
            BY <2>4, <3>1 DEF Uncovered
        <3> QED
            BY <3>2, RoundedNear
    <2>8. \/ Uncovered(step) > 0 /\ Goto(s, <<rename, continue>> \o <<fault(TRUE)>>)
          \/ Goto(s, <<fault(FALSE)>>)
        BY <1>2 DEF Remainder
    <2>9. CASE Uncovered(step) > 0 /\ Goto(s, <<rename, continue>> \o <<fault(TRUE)>>)
        <3>1. Uncovered(step) \in Nat
            BY <2>7, <2>9
        <3>2. StepOK(continue)
            BY <2>3, <3>1 DEF StepOK
        <3>3. Goto(s, <<rename, continue>> \o <<fault(TRUE)>>) /\ StepOK(fault(TRUE))
            BY <2>5, <2>9
        <3> HIDE DEF rename, continue, fault
        <3>4. Steps(<<rename, continue>>) /\ Steps(<<fault(TRUE)>>)
            BY <2>6, <3>2, <3>3, StepsOne, StepsTwo
        <3>5. Steps(<<rename, continue>> \o <<fault(TRUE)>>)
            BY <3>4, StepsJoin
        <3> QED
            BY <2>1, <3>3, <3>5, GoesOn
    <2>10. CASE Goto(s, <<fault(FALSE)>>)
        <3>1. StepOK(fault(FALSE)) /\ Goto(s, <<fault(FALSE)>>)
            BY <2>5, <2>10
        <3> HIDE DEF fault
        <3>2. Steps(<<fault(FALSE)>>)
            BY <3>1, StepsOne
        <3> QED
            BY <2>1, <3>1, <3>2, GoesOn
    <2> QED
        BY <2>8, <2>9, <2>10
<1>3. CASE Rename(s)
    BY <1>3, GoesNext, Throws DEF Rename, redis
<1>4. CASE Continue(s)
    BY <1>4, GoesNext, Throws DEF Continue, redis
<1>5. CASE SetFault(s)
    <2> DEFINE st == [op |-> "affected", pile |-> step.pile, continued |-> step.continued]
    <2>1. At(s, "setFault") /\ Goto(s, <<st>>) /\ UNCHANGED locks
        BY <1>5 DEF SetFault, redis
    <2>2. StepOK(st)
        BY DEF StepOK
    <2> HIDE DEF st
    <2>3. Steps(<<st>>)
        BY <2>2, StepsOne
    <2> QED
        BY <2>1, <2>3, GoesOn
<1>6. CASE Affected(s)
    <2> DEFINE p == step.pile
               queued == QueuedOn(p) # <<>>
               moved == IF queued THEN FaultReschedule(p, "PRIORITY") ELSE <<>>
               filled == IF queued \/ step.continued THEN TriggerBasic(PileType[p]) ELSE <<>>
    <2>1. At(s, "affected") /\ Goto(s, RefreshPile(p) \o moved \o filled) /\ UNCHANGED locks
        BY <1>6 DEF Affected, redis
    <2>2. Steps(RefreshPile(p)) /\ Steps(moved) /\ Steps(filled)
        BY RefreshIsPlain, TriggerIsPlain, RescheduleOK, PlainIsOK, StepsNone
    <2> HIDE DEF moved, filled
    <2>3. Steps(RefreshPile(p) \o moved \o filled)
        BY <2>2, StepsJoin
    <2> QED
        BY <2>1, <2>3, GoesOn
<1> QED
    BY <1>1, <1>2, <1>3, <1>4, <1>5, <1>6 DEF ServePile

\* So do the refreshes of the cache.
LEMMA CacheMoves ==
    ASSUME HandlersInv, NEW s \in Slots, ReadPayload(s) \/ SetJson(s)
    PROVE  Moves(s)
<1>1. CASE ReadPayload(s)
    <2> DEFINE key == Head(todo[s]).key
               st == [op |-> "setJson", key |-> key, payload |-> Payload(key)]
    <2>1. At(s, "refresh") /\ Goto(s, <<st>>) /\ UNCHANGED locks
        BY <1>1 DEF ReadPayload, redis
    <2>2. StepOK(st)
        BY DEF StepOK
    <2> HIDE DEF st
    <2>3. Steps(<<st>>)
        BY <2>2, StepsOne
    <2> QED
        BY <2>1, <2>3, GoesOn
<1>2. CASE SetJson(s)
    BY <1>2, GoesNext DEF SetJson
<1> QED
    BY <1>1, <1>2

\* Every step of a slot but its locks and unlocks does.
LEMMA SlotMoves ==
    ASSUME HandlersInv, NEW s \in Slots, DriverRequest(s) \/ AdminRequest(s) \/ Serve(s)
    PROVE  Moves(s) \/ Lock(s) \/ Unlock(s)
BY DriverMoves, AdminMoves, ReadForBillMoves, SettleMoves, AssignMoves, PlanMoves,
   ChargingMoves, PileMoves, CacheMoves DEF Serve, ServeDispatch

-----------------------------------------------------------------------------
(* What is left to do stays well-formed *)

\* A slot that moves on leaves such steps.
LEMMA MovedTodo == ASSUME TodoOK, NEW s \in Slots, Moves(s) PROVE TodoOK'
<1>1. ASSUME NEW q, Todo(q), todo' = [todo EXCEPT ![s] = q]
      PROVE  TodoOK'
    BY <1>1 DEF TodoOK
<1>2. ASSUME NEW q, Steps(q), Begin(s, q)
      PROVE  TodoOK'
    BY <1>1, <1>2, TodoBegun DEF Begin
<1>3. ASSUME NEW q, Steps(q), Goto(s, q), todo[s] # <<>>
      PROVE  TodoOK'
    <2>1. Todo(q \o Tail(todo[s]))
        BY <1>3, TodoNext, TodoJoin DEF TodoOK
    <2>2. todo' = [todo EXCEPT ![s] = q \o Tail(todo[s])]
        BY <1>3 DEF Goto
    <2> QED
        BY <1>1, <2>1, <2>2
<1> QED
    BY <1>2, <1>3 DEF Moves

\* Taking a lock puts the call under it and its unlock in front.
LEMMA LockedTodo == ASSUME TodoOK, NEW s \in Slots, Lock(s) \/ Unlock(s) PROVE TodoOK'
<1> DEFINE step == Head(todo[s])
<1>1. ASSUME NEW q, Todo(q), todo' = [todo EXCEPT ![s] = q]
      PROVE  TodoOK'
    BY <1>1 DEF TodoOK
<1>2. ASSUME NEW S, NEW q \in Seq(S), \A st \in S : StepOK(st) \/ st.op = "unlock",
             NEW r, Todo(r)
      PROVE  Todo(q \o r)
    <2>1. PICK T : r \in Seq(T) /\ \A st \in T : StepOK(st) \/ st.op = "unlock"
        BY <1>2 DEF Todo
    <2>2. q \in Seq(S \cup T) /\ r \in Seq(S \cup T)
        BY <2>1
    <2>3. q \o r \in Seq(S \cup T)
        BY <2>2
    <2> QED
        BY <1>2, <2>1, <2>3 DEF Todo
<1>3. CASE At(s, "lock") /\ Goto(s, step.then \o <<[op |-> "unlock", key |-> step.key]>>)
    <2> DEFINE last == [op |-> "unlock", key |-> step.key]
    <2>1. StepOK(step) /\ step.op = "lock"
        BY <1>3, HeadOK
    <2>2. PICK S : step.then \in Seq(S) /\ \A st \in S : StepOK(st)
        BY <2>1, PlainIsOK DEF StepOK, Steps
    <2>3. last.op = "unlock"
        OBVIOUS
    <2>4. todo' = [todo EXCEPT ![s] = (step.then \o <<last>>) \o Tail(todo[s])]
        BY <1>3 DEF Goto
    <2> HIDE DEF last
    <2>5. /\ step.then \o <<last>> \in Seq(S \cup {last})
          /\ \A st \in S \cup {last} : StepOK(st) \/ st.op = "unlock"
        <3>1. step.then \in Seq(S \cup {last}) /\ <<last>> \in Seq(S \cup {last})
            BY <2>2
        <3> QED
            BY <2>2, <2>3, <3>1
    <2>6. Todo(Tail(todo[s]))
        BY <1>3, TodoNext DEF TodoOK, At
    <2>7. Todo((step.then \o <<last>>) \o Tail(todo[s]))
        BY <1>2, <2>5, <2>6
    <2> QED
        BY <1>1, <2>4, <2>7
<1>4. CASE todo[s] # <<>> /\ Goto(s, <<>>)
    <2>1. Todo(Tail(todo[s]))
        BY <1>4, TodoNext DEF TodoOK
    <2>2. PICK S : Tail(todo[s]) \in Seq(S)
        BY <2>1 DEF Todo
    <2>3. <<>> \o Tail(todo[s]) = Tail(todo[s])
        BY <2>2
    <2>4. todo' = [todo EXCEPT ![s] = Tail(todo[s])]
        BY <1>4, <2>3 DEF Goto
    <2> QED
        BY <1>1, <2>1, <2>4
<1> QED
    BY <1>3, <1>4 DEF Lock, Unlock, At

\* Around the handlers nothing is put into todo.
LEMMA TodoNextOK == ASSUME HandlersInv, [Next]_vars PROVE TodoOK'
<1>1. CASE \E s \in Slots : DriverRequest(s) \/ AdminRequest(s) \/ Serve(s)
    BY <1>1, SlotMoves, MovedTodo, LockedTodo DEF HandlersInv
<1>2. CASE Restart
    BY <1>2, StepsNone, TodoBegun DEF Restart, TodoOK
<1>3. CASE UNCHANGED todo
    BY <1>3 DEF TodoOK, HandlersInv
<1> QED
    BY <1>1, <1>2, <1>3 DEF Next, Environment, Deliver, Expire, RedisDown, vars

-----------------------------------------------------------------------------
(* What the steps write *)

(* The orders: a row changes and leaves the line, enters it or keeps its    *)
(* place; a row is added.                                                   *)
OrderWrite ==
    \/ UNCHANGED <<orders, line>>
    \/ \E o, row : /\ LeaveLine(o, row)
                   /\ o \in DOMAIN orders => row \in OrderRow /\ row.status # "IN_PILE_QUEUE"
    \/ \E o, row : /\ EnterLine(o, row)
                   /\ row \in OrderRow /\ row.status = "IN_PILE_QUEUE"
    \/ \E o, row : /\ orders' = [orders EXCEPT ![o] = row] /\ UNCHANGED line
                   /\ o \in DOMAIN orders => row \in OrderRow /\ row.status = orders[o].status
    \/ \E u \in Users, mode \in Modes, amount \in Nat, no \in QueueNo :
          NewOrder(u, mode, amount, no) /\ UNCHANGED line

\* Without the order the line is as it was.
LEMMA LineWithout ==
    ASSUME OrdersOK, NEW o
    PROVE  /\ Without(o) \in Seq(OrderIds) /\ Distinct(Without(o))
           /\ ToSet(Without(o)) = ToSet(line) \ {o}
BY TakenOut DEF OrdersOK, Without

\* Such a write keeps the rows typed and the line in order.
LEMMA OrdersStep == ASSUME BooksInv, OrdersOK, OrderWrite PROVE OrdersOK'
<1>1. CASE UNCHANGED <<orders, line>>
    BY <1>1 DEF OrdersOK, OrdersIn
<1>2. ASSUME NEW o, NEW row, LeaveLine(o, row),
             o \in DOMAIN orders => row \in OrderRow /\ row.status # "IN_PILE_QUEUE"
      PROVE  OrdersOK'
    <2>1. orders' = [orders EXCEPT ![o] = row] /\ line' = Without(o)
        BY <1>2 DEF LeaveLine
    <2>2. \A i \in DOMAIN orders' : orders'[i] \in OrderRow
        BY <1>2, <2>1 DEF OrdersOK
    <2>3. OrdersIn({"IN_PILE_QUEUE"})' = OrdersIn({"IN_PILE_QUEUE"}) \ {o}
        BY <1>2, <2>1 DEF OrdersIn
    <2> QED
        BY <2>1, <2>2, <2>3, LineWithout DEF OrdersOK
<1>3. ASSUME NEW o, NEW row \in OrderRow, EnterLine(o, row), row.status = "IN_PILE_QUEUE"
      PROVE  OrdersOK'
    <2>1. /\ orders' = [orders EXCEPT ![o] = row] /\ line' = Append(Without(o), o)
          /\ o \in DOMAIN orders
        BY <1>3 DEF EnterLine
    <2>2. \A i \in DOMAIN orders' : orders'[i] \in OrderRow
        BY <1>3, <2>1 DEF OrdersOK
    <2>3. OrdersIn({"IN_PILE_QUEUE"})' = OrdersIn({"IN_PILE_QUEUE"}) \cup {o}
        BY <1>3, <2>1 DEF OrdersIn
    <2>4. o \in OrderIds
        BY <2>1 DEF BooksInv, RowsLinked
    <2>5. /\ Without(o) \in Seq(OrderIds) /\ Distinct(Without(o))
          /\ ToSet(Without(o)) = ToSet(line) \ {o}
        BY LineWithout
    <2> DEFINE without == Without(o)
    <2> HIDE DEF without
    <2>6. /\ Append(without, o) \in Seq(OrderIds \cup {o}) /\ Distinct(Append(without, o))
          /\ ToSet(Append(without, o)) = ToSet(without) \cup {o}
        BY <2>5, PutLast DEF without
    <2>7. OrderIds \cup {o} = OrderIds
        BY <2>4
    <2>8. line' \in Seq(OrderIds) /\ Distinct(line') /\ ToSet(line') = ToSet(line) \cup {o}
        BY <2>1, <2>5, <2>6, <2>7 DEF without
    <2> QED
        BY <2>2, <2>3, <2>8 DEF OrdersOK, Distinct, ToSet
<1>4. ASSUME NEW o, NEW row, orders' = [orders EXCEPT ![o] = row], UNCHANGED line,
             o \in DOMAIN orders => row \in OrderRow /\ row.status = orders[o].status
      PROVE  OrdersOK'
    <2>1. \A i \in DOMAIN orders' : orders'[i] \in OrderRow
        BY <1>4 DEF OrdersOK
    <2>2. OrdersIn({"IN_PILE_QUEUE"})' = OrdersIn({"IN_PILE_QUEUE"})
        BY <1>4 DEF OrdersIn
    <2> QED
        BY <1>4, <2>1, <2>2 DEF OrdersOK, Distinct, ToSet
<1>5. ASSUME NEW u \in Users, NEW mode \in Modes, NEW amount \in Nat, NEW no \in QueueNo,
             NewOrder(u, mode, amount, no), UNCHANGED line
      PROVE  OrdersOK'
    <2> DEFINE row == [user |-> u, mode |-> mode, amount |-> amount, no |-> no,
                       status |-> "WAITING", pile |-> None]
    <2>1. PICK o \in NextId(orders, OrderIds) : orders' = Insert(orders, o, row)
        BY <1>5 DEF NewOrder
    <2>2. o \notin DOMAIN orders
        BY <2>1 DEF NextId
    <2>3. row \in OrderRow /\ row.status # "IN_PILE_QUEUE"
        BY DEF OrderRow, Open
    <2> HIDE DEF row
    <2>4. /\ DOMAIN orders' = DOMAIN orders \cup {o}
          /\ orders'[o] = row
          /\ \A i \in DOMAIN orders : orders'[i] = orders[i]
        BY <2>1, <2>2 DEF Insert
    <2>5. \A i \in DOMAIN orders' : orders'[i] \in OrderRow
        BY <2>3, <2>4 DEF OrdersOK
    <2>6. OrdersIn({"IN_PILE_QUEUE"})' = OrdersIn({"IN_PILE_QUEUE"})
        BY <2>3, <2>4 DEF OrdersIn
    <2> QED
        BY <1>5, <2>5, <2>6 DEF OrdersOK, Distinct, ToSet
<1> QED
    BY <1>1, <1>2, <1>3, <1>4, <1>5 DEF OrderWrite

\* A driver's writes to the orders are such writes.
LEMMA ChargingWrites ==
    ASSUME HandlersInv, NEW s \in Slots,
           Create(s) \/ SetMode(s) \/ SetAmount(s) \/ SetCanceled(s)
    PROVE  OrderWrite /\ UNCHANGED <<sessions, details, piles, totals>>
<1> DEFINE step == Head(todo[s])
           o == step.order
<1>1. CASE Create(s)
    <2>1. At(s, "create")
        BY <1>1 DEF Create
    <2>2. StepOK(step) /\ step.op = "create"
        BY <2>1, HeadOK DEF HandlersInv
    <2>3. step.user \in Users /\ step.mode \in Modes /\ step.amount \in Nat /\ step.no \in QueueNo
        BY <2>2 DEF StepOK
    <2>4. /\ UNCHANGED orders \/ NewOrder(step.user, step.mode, step.amount, step.no)
          /\ UNCHANGED <<line, sessions, details, piles, totals>>
        BY <1>1 DEF Create
    <2> QED
        BY <2>3, <2>4 DEF OrderWrite
<1>2. CASE SetMode(s)
    <2> DEFINE row == [orders[o] EXCEPT !.mode = step.mode, !.no = step.no]
    <2>1. At(s, "setMode")
        BY <1>2 DEF SetMode
    <2>2. StepOK(step) /\ step.op = "setMode"
        BY <2>1, HeadOK DEF HandlersInv
    <2>3. step.mode \in Modes /\ step.no \in QueueNo
        BY <2>2 DEF StepOK
    <2>4. /\ UNCHANGED orders \/ orders' = [orders EXCEPT ![o] = row]
          /\ UNCHANGED <<line, sessions, details, piles, totals>>
        BY <1>2 DEF SetMode
    <2>5. o \in DOMAIN orders => row \in OrderRow /\ row.status = orders[o].status
        BY <2>3 DEF HandlersInv, RowsOK, OrdersOK, OrderRow
    <2> HIDE DEF row
    <2> QED
        BY <2>4, <2>5 DEF OrderWrite
<1>3. CASE SetAmount(s)
    <2> DEFINE row == [orders[o] EXCEPT !.amount = step.amount]
    <2>1. At(s, "setAmount")
        BY <1>3 DEF SetAmount
    <2>2. StepOK(step) /\ step.op = "setAmount"
        BY <2>1, HeadOK DEF HandlersInv
    <2>3. step.amount \in Nat
        BY <2>2 DEF StepOK
    <2>4. /\ orders' = [orders EXCEPT ![o] = row]
          /\ UNCHANGED <<line, sessions, details, piles, totals>>
        BY <1>3 DEF SetAmount
    <2>5. o \in DOMAIN orders => row \in OrderRow /\ row.status = orders[o].status
        BY <2>3 DEF HandlersInv, RowsOK, OrdersOK, OrderRow
    <2> HIDE DEF row
    <2> QED
        BY <2>4, <2>5 DEF OrderWrite
<1>4. CASE SetCanceled(s)
    <2> DEFINE row == [orders[o] EXCEPT !.status = "CANCELED", !.pile = None]
    <2>1. LeaveLine(o, row) /\ UNCHANGED <<sessions, details, piles, totals>>
        BY <1>4 DEF SetCanceled
    <2>2. o \in DOMAIN orders => row \in OrderRow /\ row.status # "IN_PILE_QUEUE"
        <3>1. ASSUME NEW old \in OrderRow
              PROVE  LET new == [old EXCEPT !.status = "CANCELED", !.pile = None]
                     IN  new \in OrderRow /\ new.status # "IN_PILE_QUEUE"
            BY DEF OrderRow, Terminal
        <3>2. o \in DOMAIN orders => orders[o] \in OrderRow
            BY DEF HandlersInv, RowsOK, OrdersOK
        <3> QED
            BY <3>1, <3>2
    <2> HIDE DEF row, o
    <2> QED
        BY <2>1, <2>2 DEF OrderWrite
<1> QED
    BY <1>1, <1>2, <1>3, <1>4

\* So are those of a fault, and it and the switches keep the piles typed.
LEMMA PileWrites ==
    ASSUME HandlersInv, NEW s \in Slots, ServePile(s)
    PROVE  OrderWrite /\ BookRowsOK'
<1> DEFINE step == Head(todo[s])
<1>0. piles \in [Piles -> PileRow]
    BY DEF HandlersInv, RowsOK, BookRowsOK
<1>1. ASSUME UNCHANGED <<sessions, details, totals>>, piles' \in [Piles -> PileRow]
      PROVE  BookRowsOK'
    BY <1>1 DEF HandlersInv, RowsOK, BookRowsOK
<1>2. ASSUME UNCHANGED <<orders, line, sessions, details, totals>>, piles' \in [Piles -> PileRow]
      PROVE  OrderWrite /\ BookRowsOK'
    BY <1>1, <1>2 DEF OrderWrite
<1>3. CASE Remainder(s) \/ Affected(s)
    BY <1>0, <1>2, <1>3 DEF Remainder, Affected, tables
<1>4. CASE SetPower(s)
    <2> DEFINE p == step.pile
               row == [piles[p] EXCEPT !.phys = step.phys, !.work = step.work]
    <2>1. At(s, "setPower")
        BY <1>4 DEF SetPower
    <2>2. StepOK(step) /\ step.op = "setPower"
        BY <2>1, HeadOK DEF HandlersInv
    <2>3. step.phys \in {"ON", "OFF"} /\ step.work \in {"IDLE", "FAULT"}
        BY <2>2 DEF StepOK
    <2>4. /\ piles' = [piles EXCEPT ![p] = row]
          /\ UNCHANGED <<orders, line, sessions, details, totals>>
        BY <1>4 DEF SetPower
    <2>5. p \in Piles => row \in PileRow
        BY <1>0, <2>3 DEF PileRow
    <2> HIDE DEF row
    <2>6. piles' \in [Piles -> PileRow]
        BY <1>0, <2>4, <2>5
    <2> QED
        BY <1>2, <2>4, <2>6
<1>5. CASE SetFault(s)
    <2> DEFINE p == step.pile
               row == [piles[p] EXCEPT !.work = "FAULT"]
    <2>1. /\ piles' = [piles EXCEPT ![p] = row]
          /\ UNCHANGED <<orders, line, sessions, details, totals>>
        BY <1>5 DEF SetFault
    <2>2. p \in Piles => row \in PileRow
        BY <1>0 DEF PileRow
    <2> HIDE DEF row
    <2>3. piles' \in [Piles -> PileRow]
        BY <1>0, <2>1, <2>2
    <2> QED
        BY <1>2, <2>1, <2>3
<1>6. CASE Rename(s)
    <2> DEFINE o == step.order
               renamed == [step.no EXCEPT !.suffixes = @ + 1]
               row == [orders[o] EXCEPT !.no = renamed]
    <2>1. At(s, "rename")
        BY <1>6 DEF Rename
    <2>2. StepOK(step) /\ step.op = "rename"
        BY <2>1, HeadOK DEF HandlersInv
    <2>3. renamed \in QueueNo
        BY <2>2 DEF StepOK, QueueNo
    <2>4. /\ UNCHANGED orders \/ orders' = [orders EXCEPT ![o] = row]
          /\ UNCHANGED <<line, sessions, details, piles, totals>>
        BY <1>6 DEF Rename
    <2> HIDE DEF renamed
    <2>5. o \in DOMAIN orders => row \in OrderRow /\ row.status = orders[o].status
        BY <2>3 DEF HandlersInv, RowsOK, OrdersOK, OrderRow
    <2> HIDE DEF row, o
    <2> QED
        BY <1>0, <1>1, <2>4, <2>5 DEF OrderWrite
<1>7. CASE Continue(s)
    <2> DEFINE old == step.active
    <2>1. At(s, "continue")
        BY <1>7 DEF Continue
    <2>2. StepOK(step) /\ step.op = "continue"
        BY <2>1, HeadOK DEF HandlersInv
    <2>3. old \in OrderRow /\ step.amount \in Nat
        BY <2>2 DEF StepOK
    <2>4. old.user \in Users /\ old.mode \in Modes /\ old.no \in QueueNo
        BY <2>3 DEF OrderRow
    <2>5. /\ UNCHANGED orders \/ NewOrder(old.user, old.mode, step.amount, old.no)
          /\ UNCHANGED <<line, sessions, details, piles, totals>>
        BY <1>7 DEF Continue
    <2> QED
        BY <1>0, <1>1, <2>3, <2>4, <2>5 DEF OrderWrite
<1> QED
    BY <1>3, <1>4, <1>5, <1>6, <1>7 DEF ServePile

\* To begin charging writes rows of their types.
LEMMA BeginChargingWrites ==
    ASSUME BooksInv, RowsOK, NEW o, NEW row, NEW p, BeginCharging(o, row, p),
           o \in DOMAIN orders => row \in OrderRow /\ row.status = "CHARGING"
    PROVE  OrderWrite /\ BookRowsOK'
<1>1. OrderWrite
    BY DEF BeginCharging, OrderWrite
<1>2. PICK x \in NextId(sessions, SessionIds) :
          sessions' = Insert(sessions, x, Session(o, p, "ACTIVE", 0, None))
    BY DEF BeginCharging
<1>3. o \in OrderIds /\ p \in Piles
    BY DEF BeginCharging, BooksInv, RowsLinked
<1>4. Session(o, p, "ACTIVE", 0, None) \in SessionRow
    BY <1>3 DEF Session, SessionRow
<1>5. \A y \in DOMAIN sessions' : sessions'[y] \in SessionRow
    BY <1>2, <1>4 DEF Insert, RowsOK, BookRowsOK
<1> DEFINE free == [piles[p] EXCEPT !.work = "CHARGING"]
<1>6. piles' = [piles EXCEPT ![p] = free] /\ UNCHANGED <<details, totals>>
    BY DEF BeginCharging
<1>7. free \in PileRow
    BY <1>3 DEF PileRow, RowsOK, BookRowsOK
<1> HIDE DEF free
<1> QED
    BY <1>1, <1>5, <1>6, <1>7 DEF RowsOK, BookRowsOK

\* So does an assignment, and a call of wakeIdlePiles or of start.
LEMMA DispatchWrites ==
    ASSUME HandlersInv, NEW s \in Slots, Assign(s) \/ Wake(s) \/ StartTransaction(s)
    PROVE  OrderWrite /\ BookRowsOK'
<1> DEFINE step == Head(todo[s])
           o == step.order
           p == step.pile
<1>1. CASE Assign(s)
    <2>1. At(s, "assign")
        BY <1>1 DEF Assign
    <2>2. StepOK(step) /\ step.op = "assign"
        BY <2>1, HeadOK DEF HandlersInv
    <2>3. p \in Piles
        BY <2>2 DEF StepOK
    <2> DEFINE row(status) == [orders[o] EXCEPT !.status = status, !.pile = p]
    <2>4. \A status \in Open : o \in DOMAIN orders
                               => row(status) \in OrderRow /\ row(status).status = status
        BY <2>3 DEF HandlersInv, RowsOK, OrdersOK, OrderRow
    <2>5. \/ BeginCharging(o, row("CHARGING"), p)
          \/ EnterLine(o, row("IN_PILE_QUEUE")) /\ UNCHANGED <<sessions, details, piles, totals>>
        BY <1>1 DEF Assign
    <2>6. {"CHARGING", "IN_PILE_QUEUE"} \subseteq Open
        BY DEF Open
    <2> HIDE DEF row
    <2>7. CASE BeginCharging(o, row("CHARGING"), p)
        BY <2>4, <2>6, <2>7, BeginChargingWrites DEF HandlersInv
    <2>8. CASE EnterLine(o, row("IN_PILE_QUEUE")) /\ UNCHANGED <<sessions, details, piles, totals>>
        <3>1. row("IN_PILE_QUEUE") \in OrderRow /\ row("IN_PILE_QUEUE").status = "IN_PILE_QUEUE"
            BY <2>4, <2>6, <2>8 DEF EnterLine
        <3>2. OrderWrite
            BY <2>8, <3>1 DEF OrderWrite
        <3> QED
            BY <2>8, <3>2 DEF HandlersInv, RowsOK, BookRowsOK
    <2> QED
        BY <2>5, <2>7, <2>8
<1>2. CASE Wake(s) \/ StartTransaction(s)
    <2> DEFINE row == [orders[o] EXCEPT !.status = "CHARGING"]
    <2>1. UNCHANGED tables \/ BeginCharging(o, row, p)
        BY <1>2 DEF Wake, StartTransaction
    <2>2. o \in DOMAIN orders => row \in OrderRow /\ row.status = "CHARGING"
        BY DEF HandlersInv, RowsOK, OrdersOK, OrderRow, Open
    <2> HIDE DEF row
    <2>3. CASE UNCHANGED tables
        BY <2>3 DEF tables, OrderWrite, HandlersInv, RowsOK, BookRowsOK
    <2> QED
        BY <2>1, <2>2, <2>3, BeginChargingWrites DEF HandlersInv
<1> QED
    BY <1>1, <1>2

\* What is billed was never billed before: the bill and the pile get the same.
LEMMA SettleBills ==
    ASSUME HandlersInv, NEW s \in Slots, Settle(s), ~UNCHANGED tables
    PROVE  /\ OrderWrite /\ BookRowsOK'
           /\ \E x \in DOMAIN sessions, ended \in {"CLOSED", "ABORTED"}, given \in Nat :
                 /\ totals[sessions[x].pile] \in TotalsRow
                 /\ \E reason : Issues(x, ended, given, given, reason)
<1> DEFINE step == Head(todo[s])
           x == step.session
           o == sessions[x].order
           p == sessions[x].pile
           ended == Ended(step.target)
           row == [orders[o] EXCEPT !.status = step.target]
           amount == step.amount
           closed == Session(o, p, ended, amount, step.reason)
           work == [piles[p] EXCEPT !.work = step.work]
           detail == [session |-> x, amount |-> step.previous + amount]
           credited == [count |-> totals[p].count + 1, amount |-> totals[p].amount + amount]
<1>1. At(s, "settle")
    BY DEF Settle
<1>2. StepOK(step) /\ step.op = "settle"
    BY <1>1, HeadOK DEF HandlersInv
<1>3. EndOK(step) /\ amount \in Nat /\ step.previous = 0
    BY <1>2 DEF StepOK
<1>4. /\ x \in DOMAIN sessions /\ ~Billed(o, x)
      /\ sessions' = [sessions EXCEPT ![x] = closed]
      /\ LeaveLine(o, row)
      /\ piles' = [piles EXCEPT ![p] = work]
      /\ totals' = [totals EXCEPT ![p] = credited]
      /\ details' = Insert(details, o, detail)
    BY DEF Settle
<1>5. x \in SessionIds /\ o \in DOMAIN orders /\ o \in OrderIds /\ p \in Piles
    BY <1>4 DEF HandlersInv, BooksInv, RowsLinked
<1>6. ended \in {"CLOSED", "ABORTED"}
    BY DEF Ended
<1>7. row \in OrderRow /\ row.status # "IN_PILE_QUEUE"
    BY <1>3, <1>5 DEF HandlersInv, RowsOK, OrdersOK, OrderRow, EndOK, Terminal
<1>8. closed \in SessionRow
    BY <1>3, <1>5, <1>6 DEF Session, SessionRow, EndOK
<1>9. work \in PileRow
    BY <1>3, <1>5 DEF HandlersInv, RowsOK, BookRowsOK, PileRow, EndOK
<1>10. detail = [session |-> x, amount |-> amount] /\ detail \in DetailRow
    <2> HIDE DEF step, x, amount
    <2>1. step.previous + amount = amount
        BY <1>3
    <2>2. [session |-> x, amount |-> amount] \in DetailRow
        BY <1>3, <1>5 DEF DetailRow
    <2> QED
        BY <2>1, <2>2
<1>11. totals[p] \in TotalsRow /\ credited \in TotalsRow
    <2>1. totals[p] \in TotalsRow
        BY <1>5 DEF HandlersInv, RowsOK, BookRowsOK
    <2>2. ASSUME NEW old \in TotalsRow, NEW more \in Nat
          PROVE  [count |-> old.count + 1, amount |-> old.amount + more] \in TotalsRow
        BY DEF TotalsRow
    <2> QED
        BY <1>3, <2>1, <2>2
<1>12. totals' = [totals EXCEPT ![p] = [count |-> @.count + 1, amount |-> @.amount + amount]]
    BY <1>4
<1> HIDE DEF ended, row, closed, work, detail, credited
<1>13. OrderWrite
    BY <1>4, <1>7 DEF OrderWrite
<1>14. BookRowsOK'
    <2>1. \A y \in DOMAIN sessions' : sessions'[y] \in SessionRow
        BY <1>4, <1>8 DEF HandlersInv, RowsOK, BookRowsOK
    <2>2. \A y \in DOMAIN details' : details'[y] \in DetailRow
        BY <1>4, <1>10 DEF HandlersInv, RowsOK, BookRowsOK, Insert
    <2>3. piles' \in [Piles -> PileRow] /\ totals' \in [Piles -> TotalsRow]
        BY <1>4, <1>9, <1>11 DEF HandlersInv, RowsOK, BookRowsOK
    <2> QED
        BY <2>1, <2>2, <2>3 DEF BookRowsOK
<1>15. DOMAIN orders' = DOMAIN orders
    BY <1>4 DEF LeaveLine
<1>16. Issues(x, ended, amount, amount, step.reason)
    BY <1>4, <1>10, <1>12, <1>15 DEF Issues, closed
<1> QED
    BY <1>3, <1>4, <1>6, <1>11, <1>13, <1>14, <1>16

\* The meter keeps a session typed.
LEMMA DeliverWrites ==
    ASSUME HandlersInv, NEW x \in DOMAIN sessions, Deliver(x)
    PROVE  OrderWrite /\ BookRowsOK'
<1> DEFINE old == sessions[x]
           row == Session(old.order, old.pile, "ACTIVE", old.delivered + 1, None)
<1>1. sessions' = [sessions EXCEPT ![x] = row] /\ UNCHANGED <<orders, line, details, piles, totals>>
    BY DEF Deliver
<1>2. row \in SessionRow
    BY DEF HandlersInv, RowsOK, BookRowsOK, Session, SessionRow
<1> HIDE DEF row
<1> QED
    BY <1>1, <1>2 DEF OrderWrite, HandlersInv, RowsOK, BookRowsOK

\* Requests write nothing but the pile that recover marks.
LEMMA RequestWrites ==
    ASSUME HandlersInv, NEW s \in Slots, DriverRequest(s) \/ AdminRequest(s)
    PROVE  OrderWrite /\ BookRowsOK'
<1>1. CASE UNCHANGED tables
    BY <1>1 DEF tables, OrderWrite, HandlersInv, RowsOK, BookRowsOK
<1>2. ASSUME NEW p \in Piles, Recover(s, p)
      PROVE  OrderWrite /\ BookRowsOK'
    <2> DEFINE row == [piles[p] EXCEPT !.work = "IDLE"]
    <2>1. /\ piles' = [piles EXCEPT ![p] = row]
          /\ UNCHANGED <<orders, line, sessions, details, totals>>
        BY <1>2 DEF Recover
    <2>2. row \in PileRow
        BY DEF HandlersInv, RowsOK, BookRowsOK, PileRow
    <2> HIDE DEF row
    <2> QED
        BY <2>1, <2>2 DEF OrderWrite, HandlersInv, RowsOK, BookRowsOK
<1>3. CASE DriverRequest(s)
    BY <1>1, <1>3 DEF DriverRequest, SubmitRequest, ModifyMode, ModifyAmount, CancelQueued,
        CancelCharging, Start, Stop, QueueStatus
<1>4. CASE AdminRequest(s)
    BY <1>1, <1>2, <1>4 DEF AdminRequest, PowerOn, PowerOff, ReportFault, Reschedule, BasicAll,
        Basic, SingleOptimization, BatchOptimization
<1> QED
    BY <1>3, <1>4

\* Every step keeps the rows typed.
LEMMA RowsNext == ASSUME HandlersInv, [Next]_vars PROVE RowsOK'
<1>0. ASSUME OrderWrite, BookRowsOK'
      PROVE  RowsOK'
    BY <1>0, OrdersStep DEF HandlersInv, RowsOK
<1>1. CASE UNCHANGED tables
    <2>1. OrderWrite /\ BookRowsOK'
        BY <1>1 DEF tables, OrderWrite, HandlersInv, RowsOK, BookRowsOK
    <2> QED
        BY <1>0, <2>1
<1>2. CASE \E s \in Slots : DriverRequest(s) \/ AdminRequest(s)
    BY <1>0, <1>2, RequestWrites
<1>3. ASSUME NEW s \in Slots, Serve(s)
      PROVE  RowsOK'
    <2>1. CASE Settle(s)
        BY <1>0, <1>1, <2>1, SettleBills
    <2>2. CASE Create(s) \/ SetMode(s) \/ SetAmount(s) \/ SetCanceled(s)
        <3>1. BookRowsOK'
            BY <2>2, ChargingWrites DEF HandlersInv, RowsOK, BookRowsOK
        <3> QED
            BY <1>0, <2>2, <3>1, ChargingWrites
    <2>3. CASE Assign(s) \/ Wake(s) \/ StartTransaction(s)
        BY <1>0, <2>3, DispatchWrites
    <2>4. CASE ServePile(s)
        BY <1>0, <2>4, PileWrites
    <2>5. CASE \/ ReadForBill(s) \/ AutoCompleteCharging(s) \/ PlanBasic(s) \/ PlanFault(s)
               \/ PlanRecovery(s) \/ PlanWake(s) \/ ReadAssignment(s) \/ Retry(s)
               \/ Lock(s) \/ Unlock(s) \/ ReadPayload(s) \/ SetJson(s)
        BY <1>1, <2>5 DEF ReadForBill, AutoCompleteCharging, PlanBasic, PlanFault,
            PlanRecovery, PlanWake, ReadAssignment, Retry, Lock, Unlock, ReadPayload, SetJson
    <2> QED
        BY <1>3, <2>1, <2>2, <2>3, <2>4, <2>5 DEF Serve, ServeDispatch, ServeCharging
<1>4. CASE \E x \in DOMAIN sessions : Deliver(x)
    BY <1>0, <1>4, DeliverWrites
<1>5. CASE (\E key \in locks : Expire(key)) \/ Restart \/ RedisDown \/ UNCHANGED vars
    BY <1>1, <1>5 DEF Expire, Restart, RedisDown, vars, tables
<1> QED
    BY <1>2, <1>3, <1>4, <1>5 DEF Next, Environment

\* The invariant holds of the seeded database.
LEMMA HandlersInit == Init => HandlersInv
<1> SUFFICES ASSUME Init PROVE HandlersInv
    OBVIOUS
<1>1. BooksInv
    BY BooksInit
<1>2. DOMAIN orders = {} /\ DOMAIN sessions = {} /\ DOMAIN details = {} /\ line = <<>>
    BY DEF Init
<1>3. OrdersOK
    <2>1. OrdersIn({"IN_PILE_QUEUE"}) = {}
        BY <1>2 DEF OrdersIn
    <2>2. line \in Seq(OrderIds) /\ Distinct(line) /\ ToSet(line) = {}
        BY <1>2 DEF Distinct, ToSet
    <2> QED
        BY <1>2, <2>1, <2>2 DEF OrdersOK
<1>4. BookRowsOK
    <2>1. piles \in [Piles -> PileRow] /\ totals \in [Piles -> TotalsRow]
        BY DEF Init, PileRow, TotalsRow
    <2> QED
        BY <1>2, <2>1 DEF BookRowsOK
<1>5. TodoOK
    BY StepsNone, TodoBegun DEF Init, TodoOK
<1> QED
    BY <1>1, <1>3, <1>4, <1>5 DEF HandlersInv, RowsOK

\* And every step keeps it.
LEMMA HandlersNext == HandlersInv /\ [Next]_vars => HandlersInv'
BY BooksNext, RowsNext, TodoNextOK DEF HandlersInv

-----------------------------------------------------------------------------
(* Theorems *)

\* The inductive invariant of the handlers: every row has its type, the line
\* lists the queued orders once each, and every step any handler still has to take
\* is one that the code puts there, with values of their types.
THEOREM HandlersHold == Spec => []HandlersInv
BY HandlersInit, HandlersNext, PTL DEF Spec

(* What TypeOK says of Redis. *)
RedisOK == redisUp \in BOOLEAN /\ DOMAIN cache = CacheKeys

\* No step writes another key, or makes Redis anything but there or away.
LEMMA RedisNext == RedisOK /\ [Next]_vars => RedisOK'
<1> SUFFICES ASSUME RedisOK, [Next]_vars PROVE RedisOK'
    OBVIOUS
<1>1. CASE UNCHANGED <<redisUp, cache>>
    BY <1>1 DEF RedisOK
<1>2. ASSUME NEW s \in Slots, DriverRequest(s) \/ AdminRequest(s)
      PROVE  RedisOK'
    <2>1. CASE DriverRequest(s)
        BY <1>1, <2>1 DEF DriverRequest, SubmitRequest, ModifyMode, ModifyAmount, CancelQueued,
            CancelCharging, Start, Stop, QueueStatus, redis
    <2>2. CASE AdminRequest(s)
        BY <1>1, <2>2 DEF AdminRequest, PowerOn, PowerOff, ReportFault, Recover, Reschedule,
            BasicAll, Basic, SingleOptimization, BatchOptimization, redis
    <2> QED
        BY <1>2, <2>1, <2>2
<1>3. ASSUME NEW s \in Slots, Serve(s)
      PROVE  RedisOK'
    <2>1. CASE SetJson(s)
        BY <2>1 DEF SetJson, RedisOK
    <2>2. CASE ServeDispatch(s)
        BY <1>1, <2>2 DEF ServeDispatch, AutoCompleteCharging, PlanBasic, PlanFault,
            PlanRecovery, PlanWake, Wake, ReadAssignment, Assign, redis
    <2>3. CASE ServeCharging(s)
        BY <1>1, <2>3 DEF ServeCharging, Create, Retry, SetMode, SetAmount, SetCanceled,
            StartTransaction, redis
    <2>4. CASE ServePile(s)
        BY <1>1, <2>4 DEF ServePile, SetPower, Remainder, Rename, Continue, SetFault,
            Affected, redis
    <2>5. CASE ReadForBill(s) \/ Settle(s) \/ Lock(s) \/ Unlock(s) \/ ReadPayload(s)
        BY <1>1, <2>5 DEF ReadForBill, Settle, Lock, Unlock, ReadPayload, redis
    <2> QED
        BY <1>3, <2>1, <2>2, <2>3, <2>4, <2>5 DEF Serve
<1>4. CASE Environment \/ UNCHANGED vars
    BY <1>1, <1>4 DEF Environment, Deliver, Expire, Restart, RedisDown, RedisOK, vars, redis
<1> QED
    BY <1>2, <1>3, <1>4 DEF Next

\* The tables hold rows of the declared shapes and the line each queued order
\* once, whatever the handlers interleave and whenever the process dies.
THEOREM TypeOKHolds == Spec => []TypeOK
<1>1. HandlersInv /\ RedisOK => TypeOK
    <2> SUFFICES ASSUME HandlersInv, RedisOK PROVE TypeOK
        OBVIOUS
    <2>1. /\ \A o \in DOMAIN orders : o \in OrderIds /\ orders[o] \in OrderRow
          /\ \A x \in DOMAIN sessions : x \in SessionIds /\ sessions[x] \in SessionRow
        BY DEF HandlersInv, BooksInv, RowsLinked, RowsOK, OrdersOK, BookRowsOK
    <2>2. \A o \in DOMAIN details : o \in DOMAIN orders /\ details[o] \in DetailRow
        BY DEF HandlersInv, BooksInv, RowsLinked, ClosedSessionBilled, RowsOK, BookRowsOK
    <2>3. Cardinality(ToSet(line)) = Len(line)
        BY AsManyAsLong DEF HandlersInv, RowsOK, OrdersOK
    <2> QED
        BY <2>1, <2>2, <2>3 DEF TypeOK, HandlersInv, RowsOK, OrdersOK, BookRowsOK, TodoOK, RedisOK
<1>2. Init => RedisOK
    BY DEF Init, RedisOK
<1>3. Spec => []RedisOK
    BY <1>2, RedisNext, PTL DEF Spec
<1> QED
    BY <1>1, <1>3, HandlersHold, PTL

-----------------------------------------------------------------------------
(* The energy of the piles *)

(* The energy of a set of rows. *)
EnergyOf(S, rows) == SumFunction([o \in S |-> rows[o].amount])

\* Of finitely many rows it is a total.
LEMMA EnergyIsTotal ==
    ASSUME NEW S, IsFiniteSet(S), NEW rows
    PROVE  EnergyOf(S, rows) = Total([o \in S |-> rows[o].amount], S)
<1> DEFINE f == [o \in S |-> rows[o].amount]
<1>1. DOMAIN f = S /\ EnergyOf(S, rows) = SumFunction(f)
    BY DEF EnergyOf
<1> HIDE DEF f
<1>2. SumFunction(f) = Total(f, S)
    BY <1>1, SumIsTotal
<1> QED
    BY <1>1, <1>2 DEF f

\* With one row more it is that row's amount more.
LEMMA EnergyGrows ==
    ASSUME NEW S, IsFiniteSet(S), NEW rows, NEW more, NEW o, o \notin S,
           \A y \in S : more[y] = rows[y] /\ rows[y].amount \in Int,
           NEW given \in Int, more[o].amount = given, NEW T, T = S \cup {o}
    PROVE  EnergyOf(T, more) = EnergyOf(S, rows) + given
<1> DEFINE before == [y \in S |-> rows[y].amount]
           after == [y \in S \cup {o} |-> more[y].amount]
<1>1. /\ \A y \in S : before[y] = after[y] /\ before[y] \in Int
      /\ \A y \in S \cup {o} : after[y] \in Int
      /\ after[o] = more[o].amount
    OBVIOUS
<1>2. IsFiniteSet(S \cup {o})
    BY FS_AddElement
<1>3. EnergyOf(S, rows) = Total(before, S) /\ EnergyOf(T, more) = Total(after, S \cup {o})
    BY <1>2, EnergyIsTotal
<1> HIDE DEF before, after
<1>4. Total(after, S \cup {o}) = after[o] + Total(after, S)
    BY <1>1, TotalAdds
<1>5. Total(before, S) = Total(after, S) /\ Total(before, S) \in Int
    BY <1>1, TotalSame, TotalTakes
<1> QED
    BY <1>1, <1>3, <1>4, <1>5

\* The same of the bills and one bill more.
LEMMA EnergyWithBill ==
    ASSUME NEW S, IsFiniteSet(S), NEW o, o \notin S,
           \A y \in S : details'[y] = details[y] /\ details[y].amount \in Int,
           NEW given \in Nat, details'[o].amount = given, NEW T, T = S \cup {o}
    PROVE  EnergyOf(T, details') = EnergyOf(S, details) + given
BY EnergyGrows

\* A bill credits the pile with what it says, since nothing was billed before.
LEMMA EnergyIssue ==
    ASSUME HandlersInv, PileEnergyMatchesBills, NEW x \in DOMAIN sessions,
           NEW ended \in {"CLOSED", "ABORTED"}, NEW given \in Nat,
           totals[sessions[x].pile] \in TotalsRow,
           NEW reason, Issues(x, ended, given, given, reason)
    PROVE  PileEnergyMatchesBills'
<1> DEFINE o == sessions[x].order
           p == sessions[x].pile
<1>1. /\ DOMAIN sessions' = DOMAIN sessions
      /\ \A y \in DOMAIN sessions : sessions'[y].pile = sessions[y].pile
    BY DEF Issues, Session
<1>2. /\ o \notin DOMAIN details
      /\ \A other \in DOMAIN details : details[other].session # x
    BY DEF Issues, Billed
<1>3. /\ DOMAIN details' = DOMAIN details \cup {o}
      /\ details'[o] = [session |-> x, amount |-> given]
      /\ \A other \in DOMAIN details : details'[other] = details[other]
    BY <1>2 DEF Issues, Insert
<1>4. p \in Piles /\ DOMAIN totals = Piles
    BY DEF HandlersInv, BooksInv, RowsLinked
<1>5. /\ totals'[p].amount = totals[p].amount + given
      /\ \A q \in Piles \ {p} : totals'[q] = totals[q]
    BY <1>4 DEF Issues
<1>6. \A y \in DOMAIN details : /\ details[y].session \in DOMAIN sessions
                                /\ details[y].amount \in Int
    BY DEF HandlersInv, BooksInv, ClosedSessionBilled, RowsOK, BookRowsOK, DetailRow
<1> SUFFICES ASSUME NEW q \in Piles
             PROVE  totals'[q].amount = SumFunction([y \in BillsOf(q)' |-> details'[y].amount])
    BY DEF PileEnergyMatchesBills
<1>7. totals[q].amount = SumFunction([y \in BillsOf(q) |-> details[y].amount])
    BY DEF PileEnergyMatchesBills
<1>8. IsFiniteSet(BillsOf(q))
    BY BillsOfFinite DEF HandlersInv
<1>9. BillsOf(q) \subseteq DOMAIN details
    BY DEF BillsOf
<1>10. CASE q = p
    <2>1. BillsOf(q)' = BillsOf(q) \cup {o} /\ o \notin BillsOf(q)
        BY <1>1, <1>2, <1>3, <1>6, <1>10 DEF BillsOf
    <2>2. details'[o].amount = given
        BY <1>3
    <2>3. \A y \in BillsOf(q) : details'[y] = details[y] /\ details[y].amount \in Int
        BY <1>3, <1>6, <1>9
    <2>4. EnergyOf(BillsOf(q)', details') = EnergyOf(BillsOf(q), details) + given
        BY <1>8, <2>1, <2>2, <2>3, EnergyWithBill
    <2> QED
        BY <1>5, <1>7, <1>10, <2>4 DEF EnergyOf
<1>11. CASE q # p
    <2>1. BillsOf(q)' = BillsOf(q)
        BY <1>1, <1>2, <1>3, <1>6, <1>11 DEF BillsOf
    <2>2. [y \in BillsOf(q)' |-> details'[y].amount] = [y \in BillsOf(q) |-> details[y].amount]
        BY <1>3, <1>9, <2>1
    <2> QED
        BY <1>5, <1>7, <1>11, <2>2
<1> QED
    BY <1>10, <1>11

\* No other step changes a bill, the pile of a billed session or a counter.
LEMMA EnergyKept ==
    ASSUME HandlersInv, PileEnergyMatchesBills, UNCHANGED <<details, totals>>,
           \A x \in DOMAIN sessions : /\ x \in DOMAIN sessions'
                                      /\ sessions'[x].pile = sessions[x].pile
    PROVE  PileEnergyMatchesBills'
<1> SUFFICES ASSUME NEW p \in Piles
             PROVE  totals'[p].amount = SumFunction([o \in BillsOf(p)' |-> details'[o].amount])
    BY DEF PileEnergyMatchesBills
<1>1. \A o \in DOMAIN details : details[o].session \in DOMAIN sessions
    BY DEF HandlersInv, BooksInv, ClosedSessionBilled
<1>2. BillsOf(p)' = BillsOf(p)
    BY <1>1 DEF BillsOf
<1>3. totals[p].amount = SumFunction([o \in BillsOf(p) |-> details[o].amount])
    BY DEF PileEnergyMatchesBills
<1> QED
    BY <1>2, <1>3

\* totalChargeAmount of a pile is the energy of the bills for sessions on it,
\* although it is credited with the amount of the session and the bill is made
\* out for all sessions of its order: an order that has no bill yet has no
\* session that ended, so what was read as previousAmount is nothing.
THEOREM PileEnergyHolds == Spec => []PileEnergyMatchesBills
<1>1. Init => PileEnergyMatchesBills
    <2> SUFFICES ASSUME Init, NEW p \in Piles
                 PROVE  totals[p].amount = SumFunction([o \in BillsOf(p) |-> details[o].amount])
        BY DEF PileEnergyMatchesBills
    <2>1. BillsOf(p) = {} /\ totals[p].amount = 0
        BY DEF Init, BillsOf
    <2>2. EnergyOf({}, details) = 0
        BY FS_EmptySet, EnergyIsTotal, TotalOfNone
    <2> QED
        BY <2>1, <2>2 DEF EnergyOf
<1>2. HandlersInv /\ PileEnergyMatchesBills /\ [Next]_vars => PileEnergyMatchesBills'
    <2> SUFFICES ASSUME HandlersInv, PileEnergyMatchesBills, [Next]_vars
                 PROVE  PileEnergyMatchesBills'
        OBVIOUS
    <2>1. CASE OrdersGrow /\ UNCHANGED books
        BY <2>1, EnergyKept DEF books
    <2>2. ASSUME NEW o, NEW row, NEW p, BeginCharging(o, row, p)
          PROVE  PileEnergyMatchesBills'
        <3>1. PICK x \in NextId(sessions, SessionIds) :
                  sessions' = Insert(sessions, x, Session(o, p, "ACTIVE", 0, None))
            BY <2>2 DEF BeginCharging
        <3>2. \A y \in DOMAIN sessions : y \in DOMAIN sessions' /\ sessions'[y] = sessions[y]
            BY <3>1 DEF Insert, NextId
        <3> QED
            BY <2>2, <3>2, EnergyKept DEF BeginCharging
    <2>3. CASE \E s \in Slots : Settle(s) /\ ~UNCHANGED tables
        BY <2>3, SettleBills, EnergyIssue
    <2>4. ASSUME NEW x \in DOMAIN sessions, Deliver(x)
          PROVE  PileEnergyMatchesBills'
        <3>1. \A y \in DOMAIN sessions : y \in DOMAIN sessions' /\ sessions'[y].pile = sessions[y].pile
            BY <2>4 DEF Deliver, Session
        <3> QED
            BY <2>4, <3>1, EnergyKept DEF Deliver
    <2> QED
        BY <2>1, <2>2, <2>3, <2>4, StepWrites DEF HandlersInv
<1> QED
    BY <1>1, <1>2, HandlersHold, PTL DEF Spec

-----------------------------------------------------------------------------
(* The locks *)

(* Whoever has still to unlock a key holds it: the key is set, and no other *)
(* unlock of it stands anywhere.                                            *)
UnlocksHeld ==
    \A s \in Slots : \A i \in DOMAIN todo[s] :
        todo[s][i].op = "unlock" => todo[s][i].key \in locks

OneUnlock ==
    \A s, t \in Slots : \A i \in DOMAIN todo[s], j \in DOMAIN todo[t] :
        /\ todo[s][i].op = "unlock" /\ todo[t][j].op = "unlock"
        /\ todo[s][i].key = todo[t][j].key
        => s = t /\ i = j

LocksInv == UnlocksHeld /\ OneUnlock

\* Where the steps of a handler that went on come from.
LEMMA WentOn ==
    ASSUME NEW S, NEW q \in Seq(S), NEW r \in Seq(S), r # <<>>
    PROVE  \A i \in DOMAIN (q \o Tail(r)) :
              \/ i \in DOMAIN q /\ (q \o Tail(r))[i] = q[i]
              \/ /\ i - Len(q) + 1 \in DOMAIN r /\ i - Len(q) + 1 # 1
                 /\ (q \o Tail(r))[i] = r[i - Len(q) + 1]
<1> DEFINE n == Len(q)
           m == Len(r)
           left == Tail(r)
           all == q \o left
<1>1. n \in Nat /\ m \in Nat /\ m >= 1 /\ DOMAIN r = 1..m /\ DOMAIN q = 1..n
    OBVIOUS
<1>2. /\ left \in Seq(S) /\ Len(left) = m - 1
      /\ \A i \in 1..(m - 1) : left[i] = r[i + 1]
    OBVIOUS
<1> HIDE DEF left
<1>3. /\ all \in Seq(S) /\ Len(all) = n + Len(left)
      /\ \A i \in 1..n : all[i] = q[i]
      /\ \A i \in 1..Len(left) : all[n + i] = left[i]
    <2>1. left \in Seq(S)
        BY <1>2
    <2> QED
        BY <2>1, Joined
<1>4. DOMAIN all = 1..(n + (m - 1))
    BY <1>2, <1>3
<1> HIDE DEF n, m, all
<1> SUFFICES ASSUME NEW i \in 1..(n + (m - 1)), i \notin 1..n
             PROVE  /\ i - n + 1 \in DOMAIN r /\ i - n + 1 # 1
                    /\ all[i] = r[i - n + 1]
    BY <1>1, <1>3, <1>4 DEF all, left, n
<1> DEFINE k == i - n
<1>5. k \in 1..(m - 1) /\ i = n + k /\ k + 1 \in 1..m /\ k + 1 # 1 /\ i - n + 1 = k + 1
    BY <1>1
<1> HIDE DEF k
<1>6. all[n + k] = left[k] /\ left[k] = r[k + 1]
    BY <1>2, <1>3, <1>5
<1> QED
    BY <1>1, <1>5, <1>6

\* An unlock that a slot has still to take after such a step was there before.
LEMMA UnlockWasThere ==
    ASSUME TodoOK, NEW s \in Slots, todo[s] # <<>>, NEW q, Steps(q), Goto(s, q),
           NEW i \in DOMAIN todo'[s], todo'[s][i].op = "unlock"
    PROVE  /\ i - Len(q) + 1 \in DOMAIN todo[s] /\ i - Len(q) + 1 # 1
           /\ todo'[s][i] = todo[s][i - Len(q) + 1]
           /\ Len(q) \in Nat /\ i \in Nat
<1> DEFINE r == todo[s]
<1>1. PICK S : q \in Seq(S) /\ \A st \in S : StepOK(st)
    BY DEF Steps
<1>2. PICK T : r \in Seq(T)
    BY DEF TodoOK, Todo
<1>3. q \in Seq(S \cup T) /\ r \in Seq(S \cup T)
    BY <1>1, <1>2
<1>4. todo'[s] = q \o Tail(r)
    BY DEF Goto, TodoOK
<1>5. i \in DOMAIN (q \o Tail(r)) /\ (q \o Tail(r))[i].op = "unlock"
    BY <1>4
<1>6. \A k \in DOMAIN q : q[k].op # "unlock"
    BY <1>1 DEF StepOK
<1>7. q \o Tail(r) \in Seq(S \cup T)
    BY <1>3
<1>8. i \in Nat /\ Len(q) \in Nat
    BY <1>1, <1>5, <1>7
<1> HIDE DEF r
<1>9. /\ i - Len(q) + 1 \in DOMAIN r /\ i - Len(q) + 1 # 1
      /\ (q \o Tail(r))[i] = r[i - Len(q) + 1]
    BY <1>3, <1>5, <1>6, WentOn DEF r
<1> QED
    BY <1>4, <1>8, <1>9 DEF r

\* A slot that moves on takes and gives back no lock.
LEMMA MovedLocks ==
    ASSUME TodoOK, LocksInv, NEW s \in Slots, Moves(s)
    PROVE  LocksInv'
<1>1. locks' = locks
    BY DEF Moves
<1>2. ASSUME NEW q, Steps(q), Begin(s, q)
      PROVE  LocksInv'
    <2>1. todo' = [todo EXCEPT ![s] = q] /\ DOMAIN todo = Slots
        BY <1>2 DEF Begin, TodoOK
    <2>2. \A i \in DOMAIN q : q[i].op # "unlock"
        BY <1>2 DEF Steps, StepOK
    <2> QED
        BY <1>1, <2>1, <2>2 DEF LocksInv, UnlocksHeld, OneUnlock
<1>3. ASSUME NEW q, Steps(q), Goto(s, q), todo[s] # <<>>
      PROVE  LocksInv'
    <2>1. \A t \in Slots \ {s} : todo'[t] = todo[t]
        BY <1>3 DEF Goto, TodoOK
    <2> DEFINE before(t, i) == IF t = s THEN i - Len(q) + 1 ELSE i
    <2>2. ASSUME NEW t \in Slots, NEW i \in DOMAIN todo'[t], todo'[t][i].op = "unlock"
          PROVE  before(t, i) \in DOMAIN todo[t] /\ todo'[t][i] = todo[t][before(t, i)]
        BY <1>3, <2>1, <2>2, UnlockWasThere
    <2>3. ASSUME NEW t \in Slots, NEW i \in DOMAIN todo'[t], NEW j \in DOMAIN todo'[t],
                 todo'[t][i].op = "unlock", todo'[t][j].op = "unlock",
                 before(t, i) = before(t, j)
          PROVE  i = j
        <3>1. CASE t = s
            <4>1. i \in Nat /\ j \in Nat /\ Len(q) \in Nat
                BY <1>3, <2>3, <3>1, UnlockWasThere
            <4> QED
                BY <2>3, <3>1, <4>1
        <3> QED
            BY <2>3, <3>1
    <2> HIDE DEF before
    <2>4. UnlocksHeld'
        BY <1>1, <2>2 DEF LocksInv, UnlocksHeld
    <2>5. OneUnlock'
        <3> SUFFICES ASSUME NEW t \in Slots, NEW u \in Slots,
                            NEW i \in DOMAIN todo'[t], NEW j \in DOMAIN todo'[u],
                            todo'[t][i].op = "unlock", todo'[u][j].op = "unlock",
                            todo'[t][i].key = todo'[u][j].key
                     PROVE  t = u /\ i = j
            BY DEF OneUnlock
        <3>1. t = u /\ before(t, i) = before(u, j)
            BY <2>2 DEF LocksInv, OneUnlock
        <3> QED
            BY <2>3, <3>1
    <2> QED
        BY <2>4, <2>5 DEF LocksInv
<1> QED
    BY <1>2, <1>3 DEF Moves

\* SET NX makes the slot that sets a key its only holder.
LEMMA LockedLocks ==
    ASSUME TodoOK, LocksInv, NEW s \in Slots, Lock(s)
    PROVE  LocksInv'
<1> DEFINE step == Head(todo[s])
           key == step.key
           last == [op |-> "unlock", key |-> key]
           q == step.then \o <<last>>
           n == Len(step.then)
<1>1. At(s, "lock") /\ todo[s] # <<>>
    BY DEF Lock, At
<1>2. CASE Goto(s, <<>>) /\ UNCHANGED locks
    BY <1>1, <1>2, GoesNext, MovedLocks
<1>3. CASE Free(key) /\ locks' = locks \cup {key} /\ Goto(s, q)
    <2>1. StepOK(step) /\ step.op = "lock"
        BY <1>1, HeadOK
    <2>2. PICK S : step.then \in Seq(S) /\ \A st \in S : StepOK(st)
        BY <2>1, PlainIsOK DEF StepOK, Steps
    <2>3. last.op = "unlock" /\ last.key = key
        OBVIOUS
    <2>4. PICK T : todo[s] \in Seq(T)
        BY DEF TodoOK, Todo
    <2>5. todo'[s] = q \o Tail(todo[s]) /\ \A t \in Slots \ {s} : todo'[t] = todo[t]
        BY <1>3 DEF Goto, TodoOK
    <2> HIDE DEF last
    <2>6. /\ q \in Seq(S \cup T \cup {last}) /\ todo[s] \in Seq(S \cup T \cup {last})
          /\ Len(q) = n + 1 /\ n \in Nat
          /\ \A i \in 1..n : q[i] = step.then[i]
          /\ q[n + 1] = last
        <3> DEFINE R == S \cup T \cup {last}
        <3>1. step.then \in Seq(R) /\ <<last>> \in Seq(R) /\ todo[s] \in Seq(R)
            BY <2>2, <2>4
        <3> HIDE DEF R
        <3>2. Len(<<last>>) = 1 /\ <<last>>[1] = last /\ n \in Nat
            BY <3>1
        <3>3. /\ q \in Seq(R) /\ Len(q) = n + Len(<<last>>)
              /\ \A i \in 1..n : q[i] = step.then[i]
              /\ \A i \in 1..Len(<<last>>) : q[n + i] = <<last>>[i]
            BY <3>1, Joined
        <3> QED
            BY <3>1, <3>2, <3>3 DEF R
    <2> HIDE DEF q
    <2>7. /\ q[n + 1] = last
          /\ \A i \in DOMAIN q : i = n + 1 \/ q[i].op # "unlock"
        <3>1. \A i \in 1..n : step.then[i] \in S
            BY <2>2
        <3>2. \A i \in DOMAIN q : i = n + 1 \/ i \in 1..n
            <4>1. DOMAIN q = 1..(n + 1) /\ n \in Nat
                BY <2>6
            <4> HIDE DEF n
            <4> QED
                BY <4>1
        <3> QED
            BY <2>2, <2>6, <3>1, <3>2 DEF StepOK
    <2> HIDE DEF n
    <2>8. ASSUME NEW i \in DOMAIN todo'[s], todo'[s][i].op = "unlock", i # n + 1
          PROVE  /\ i - Len(q) + 1 \in DOMAIN todo[s]
                 /\ todo'[s][i] = todo[s][i - Len(q) + 1]
                 /\ i \in Nat /\ Len(q) \in Nat
        <3> DEFINE all == q \o Tail(todo[s])
        <3>1. all \in Seq(S \cup T \cup {last})
            BY <1>1, <2>6
        <3>2. i \in DOMAIN all /\ all = todo'[s]
            BY <2>5, <2>8
        <3>3. i \in Nat /\ Len(q) \in Nat
            BY <2>6, <3>1, <3>2
        <3>4. \/ i \in DOMAIN q /\ all[i] = q[i]
              \/ i - Len(q) + 1 \in DOMAIN todo[s] /\ all[i] = todo[s][i - Len(q) + 1]
            BY <1>1, <2>6, <3>2, WentOn
        <3> HIDE DEF all
        <3> QED
            BY <2>7, <2>8, <3>2, <3>3, <3>4
    <2>9. todo'[s][n + 1].key = key /\ key \notin locks
        <3>1. Tail(todo[s]) \in Seq(S \cup T \cup {last})
            BY <1>1, <2>6
        <3>2. \A i \in 1..Len(q) : (q \o Tail(todo[s]))[i] = q[i]
            BY <2>6, <3>1, Joined
        <3>3. n + 1 \in 1..Len(q)
            BY <2>6
        <3>4. todo'[s][n + 1] = last
            BY <2>5, <2>7, <3>2, <3>3
        <3> QED
            BY <1>3, <2>3, <3>4 DEF Free
    <2> DEFINE new(t, i) == t = s /\ i = n + 1
               before(t, i) == IF t = s THEN i - Len(q) + 1 ELSE i
    <2>10. ASSUME NEW t \in Slots, NEW i \in DOMAIN todo'[t], todo'[t][i].op = "unlock", ~new(t, i)
           PROVE  /\ before(t, i) \in DOMAIN todo[t] /\ todo'[t][i] = todo[t][before(t, i)]
                  /\ todo'[t][i].key \in locks
        <3>1. before(t, i) \in DOMAIN todo[t] /\ todo'[t][i] = todo[t][before(t, i)]
            BY <2>5, <2>8, <2>10
        <3> HIDE DEF before
        <3> QED
            BY <2>10, <3>1 DEF LocksInv, UnlocksHeld
    <2>11. ASSUME NEW t \in Slots, NEW i \in DOMAIN todo'[t], NEW j \in DOMAIN todo'[t],
                  todo'[t][i].op = "unlock", todo'[t][j].op = "unlock",
                  ~new(t, i), ~new(t, j), before(t, i) = before(t, j)
           PROVE  i = j
        <3>1. CASE t = s
            <4>1. i \in Nat /\ j \in Nat /\ Len(q) \in Nat
                BY <2>8, <2>11, <3>1
            <4> QED
                BY <2>11, <3>1, <4>1
        <3> QED
            BY <2>11, <3>1
    <2>12. \A t \in Slots : \A i \in DOMAIN todo'[t] : new(t, i) => todo'[t][i].key = key
        BY <2>9
    <2>13. \A t, u \in Slots : \A i, j : new(t, i) /\ new(u, j) => t = u /\ i = j
        OBVIOUS
    <2> HIDE DEF new, before
    <2>14. UnlocksHeld'
        BY <1>3, <2>10, <2>12 DEF UnlocksHeld
    <2>15. OneUnlock'
        <3> SUFFICES ASSUME NEW t \in Slots, NEW u \in Slots,
                            NEW i \in DOMAIN todo'[t], NEW j \in DOMAIN todo'[u],
                            todo'[t][i].op = "unlock", todo'[u][j].op = "unlock",
                            todo'[t][i].key = todo'[u][j].key
                     PROVE  t = u /\ i = j
            BY DEF OneUnlock
        <3>1. CASE new(t, i) \/ new(u, j)
            BY <2>9, <2>10, <2>12, <2>13, <3>1
        <3>2. CASE ~new(t, i) /\ ~new(u, j)
            <4>1. t = u /\ before(t, i) = before(u, j)
                BY <2>10, <3>2 DEF LocksInv, OneUnlock
            <4> QED
                BY <2>11, <3>2, <4>1
        <3> QED
            BY <3>1, <3>2
    <2> QED
        BY <2>14, <2>15 DEF LocksInv
<1> QED
    BY <1>2, <1>3 DEF Lock

\* DEL frees the key that the slot held, which nobody else was to unlock.
LEMMA UnlockedLocks ==
    ASSUME TodoOK, LocksInv, NEW s \in Slots, Unlock(s)
    PROVE  LocksInv'
<1> DEFINE key == Head(todo[s]).key
           before(t, i) == IF t = s THEN i + 1 ELSE i
<1>1. /\ todo[s] # <<>> /\ Head(todo[s]).op = "unlock"
      /\ locks \ {key} \subseteq locks'
      /\ Goto(s, <<>>)
    BY DEF Unlock, At
<1>2. PICK T : todo[s] \in Seq(T)
    BY DEF TodoOK, Todo
<1>3. 1 \in DOMAIN todo[s] /\ todo[s][1] = Head(todo[s])
    BY <1>1, <1>2
<1>4. todo'[s] = Tail(todo[s]) /\ \A t \in Slots \ {s} : todo'[t] = todo[t]
    <2>1. Tail(todo[s]) \in Seq(T)
        BY <1>1, <1>2
    <2>2. <<>> \o Tail(todo[s]) = Tail(todo[s])
        BY <2>1
    <2> QED
        BY <1>1, <2>2 DEF Goto, TodoOK
<1>5. ASSUME NEW i \in DOMAIN Tail(todo[s])
      PROVE  /\ i \in Nat /\ i + 1 \in DOMAIN todo[s] /\ i + 1 # 1
             /\ Tail(todo[s])[i] = todo[s][i + 1]
    BY <1>1, <1>2
<1>6. ASSUME NEW t \in Slots, NEW i \in DOMAIN todo'[t]
      PROVE  /\ before(t, i) \in DOMAIN todo[t] /\ todo'[t][i] = todo[t][before(t, i)]
             /\ t = s => before(t, i) # 1
    BY <1>4, <1>5
<1>7. ASSUME NEW t \in Slots, NEW i \in DOMAIN todo'[t], NEW j \in DOMAIN todo'[t],
             before(t, i) = before(t, j)
      PROVE  i = j
    <2>1. CASE t = s
        <3>1. i \in Nat /\ j \in Nat
            BY <1>4, <1>5, <2>1
        <3> QED
            BY <1>7, <2>1, <3>1
    <2> QED
        BY <1>7, <2>1
<1> HIDE DEF before
<1>8. UnlocksHeld'
    <2> SUFFICES ASSUME NEW t \in Slots, NEW i \in DOMAIN todo'[t], todo'[t][i].op = "unlock"
                 PROVE  todo'[t][i].key \in locks'
        BY DEF UnlocksHeld
    <2>1. todo'[t][i].key \in locks
        BY <1>6 DEF LocksInv, UnlocksHeld
    <2>2. todo'[t][i].key # key
        BY <1>1, <1>3, <1>6 DEF LocksInv, OneUnlock
    <2> QED
        BY <1>1, <2>1, <2>2
<1>9. OneUnlock'
    <2> SUFFICES ASSUME NEW t \in Slots, NEW u \in Slots,
                        NEW i \in DOMAIN todo'[t], NEW j \in DOMAIN todo'[u],
                        todo'[t][i].op = "unlock", todo'[u][j].op = "unlock",
                        todo'[t][i].key = todo'[u][j].key
                 PROVE  t = u /\ i = j
        BY DEF OneUnlock
    <2>1. t = u /\ before(t, i) = before(u, j)
        BY <1>6 DEF LocksInv, OneUnlock
    <2> QED
        BY <1>7, <2>1
<1> QED
    BY <1>8, <1>9 DEF LocksInv

\* As long as no lock expires, every step keeps the locks so.
LEMMA LocksNext ==
    ASSUME "expiry" \notin Mishaps, HandlersInv, LocksInv, [Next]_vars
    PROVE  LocksInv'
<1>1. CASE \E s \in Slots : DriverRequest(s) \/ AdminRequest(s) \/ Serve(s)
    BY <1>1, SlotMoves, MovedLocks, LockedLocks, UnlockedLocks DEF HandlersInv
<1>2. CASE Restart
    BY <1>2 DEF Restart, LocksInv, UnlocksHeld, OneUnlock
<1>3. CASE UNCHANGED <<locks, todo>>
    BY <1>3 DEF LocksInv, UnlocksHeld, OneUnlock
<1> QED
    BY <1>1, <1>2, <1>3 DEF Next, Environment, Deliver, Expire, RedisDown, vars, redis

\* No two handlers are between lock and unlock of one key, through any restarts
\* and with Redis going away, as long as no lock outlives its TTL.
THEOREM LockExclusiveHolds ==
    ASSUME "expiry" \notin Mishaps
    PROVE  Spec => []LockExclusive
<1>1. Init => LocksInv
    BY DEF Init, LocksInv, UnlocksHeld, OneUnlock
<1>2. HandlersInv /\ LocksInv /\ [Next]_vars => LocksInv'
    BY LocksNext
<1>3. LocksInv => LockExclusive
    <2> SUFFICES ASSUME LocksInv, NEW key \in LockKeys
                 PROVE  Cardinality({s \in Slots : InSection(s, key)}) <= 1
        BY DEF LockExclusive
    <2> DEFINE holders == {s \in Slots : InSection(s, key)}
    <2>1. \A s, t \in holders : s = t
        BY DEF LocksInv, OneUnlock, InSection
    <2>2. CASE holders = {}
        BY <2>2, FS_EmptySet
    <2>3. CASE holders # {}
        <3>1. PICK s : holders = {s}
            BY <2>1, <2>3
        <3> HIDE DEF holders
        <3>2. Cardinality(holders) = 1
            BY <3>1, FS_Singleton
        <3> QED
            BY <3>2 DEF holders
    <2> QED
        BY <2>2, <2>3
<1> QED
    BY <1>1, <1>2, <1>3, HandlersHold, PTL DEF Spec
=============================================================================
