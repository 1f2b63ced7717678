---------------------------- MODULE StationData ----------------------------
(***************************************************************************)
(* The state of the charging station server: the MySQL tables as Prisma    *)
(* declares them, the Redis keys, and the requests in progress.            *)
(*                                                                         *)
(* The server is one Node process.  A handler runs without interruption    *)
(* from one await to the next, and other handlers run while it awaits.     *)
(* todo[s] is what is left of the handler that request slot s runs, as a   *)
(* sequence of steps; the head is the step taken next and carries the      *)
(* handler's local variables.  One step is one Prisma write, transaction   *)
(* or Redis command, or a run of reads that nothing else separates.        *)
(***************************************************************************)
EXTENDS Scheduler, FiniteSets, FiniteSetsExt

CONSTANTS Users, PileType, Amounts,
          Grain,                               \* 0.01 kWh, in the units of a bill
          WaitingAreaSize, ChargingQueueLen,   \* .env: the two capacities
          MaxOrders, MaxSessions,              \* bounds: rows a run may create
          MaxNumber, MaxSuffixes,              \* bounds: of a queueNo
          Slots,                               \* requests in progress at once
          TrackCache,                          \* whether cache refreshes are steps
          None

Modes == {"FAST", "SLOW"}
OrderIds == 1..MaxOrders          \* in the order of submitTime
SessionIds == 1..MaxSessions      \* in the order of startTime

Open == {"WAITING", "IN_PILE_QUEUE", "CHARGING"}
Terminal == {"FINISHED", "CANCELED", "ABORTED"}

ASSUME PileTypeAssumption == PileType \in [Piles -> Modes]
ASSUME AmountsAssumption == Amounts \subseteq Nat \ {0}
ASSUME GrainAssumption == Grain \in Nat \ {0}
ASSUME CapacityAssumption == WaitingAreaSize \in Nat /\ ChargingQueueLen \in Nat
ASSUME BoundsAssumption == {MaxOrders, MaxSessions, MaxNumber, MaxSuffixes} \subseteq Nat

(* The rows of the tables.  A queueNo is F or T, a number, and as many      *)
(* "-A" suffixes as faults interrupted the order.  delivered is the energy  *)
(* the pile has put out in the session so far; once the session is closed   *)
(* it is the actualAmount recorded.                                         *)
QueueNo == [prefix : Modes, number : Nat, suffixes : Nat]
OrderRow == [user : Users, mode : Modes, amount : Nat, no : QueueNo,
             status : Open \cup Terminal, pile : Piles \cup {None}]
SessionRow == [order : OrderIds, pile : Piles, state : {"ACTIVE", "CLOSED", "ABORTED"},
               delivered : Nat, reason : {"USER_STOP", "USER_CANCEL", "FAULT", "CHARGE_COMPLETE", None}]
DetailRow == [session : SessionIds, amount : Nat]
PileRow == [phys : {"ON", "OFF"}, work : {"IDLE", "CHARGING", "FAULT"}]
TotalsRow == [count : Nat, amount : Nat]

ASSUME NoneAssumption == None \notin Piles \cup OrderIds

VARIABLES
    orders,     \* ChargingOrder: id -> row; its domain is the rows there are
    line,       \* the IN_PILE_QUEUE orders by pileQueueEnteredAt
    sessions,   \* ChargingSession: id -> row
    details,    \* BillingDetail: its unique orderId -> row
    piles,      \* ChargingPile: physicalState and workingState
    totals,     \* ChargingPile: totalChargeCount and totalChargeAmount
    locks,      \* Redis: lock keys that are set
    redisUp,    \* RedisService.available
    cache,      \* Redis: waiting:{mode} and pile:{id} payloads
    todo        \* request slot -> remaining steps of its handler

tables == <<orders, line, sessions, details, piles, totals>>
redis == <<locks, redisUp, cache>>
vars == <<tables, redis, todo>>

LockKeys == {<<"basic">>} \cup ({"fault", "recovery", "wake"} \X Piles)
CacheKeys == ({"waiting"} \X Modes) \cup ({"pile"} \X Piles)

-----------------------------------------------------------------------------
(* Queries *)

OrdersIn(statuses) == {o \in DOMAIN orders : orders[o].status \in statuses}

OnPile(p, statuses) == {o \in OrdersIn(statuses) : orders[o].pile = p}

(* A query ordered by id, ascending. *)
ById(ids) ==
    CHOOSE q \in [1..Cardinality(ids) -> ids] : \A i, j \in DOMAIN q : i < j => q[i] < q[j]

(* The queue of a pile: the places in the line that are its orders'. *)
QueuedOn(p) ==
    LET places == ById({i \in DOMAIN line : orders[line[i]].pile = p})
    IN  [k \in DOMAIN places |-> line[places[k]]]

ActiveSessions(o) ==
    {x \in DOMAIN sessions : sessions[x].order = o /\ sessions[x].state = "ACTIVE"}

QueueNoTaken(no, o) == \E other \in DOMAIN orders \ {o} : orders[other].no = no

-----------------------------------------------------------------------------
(* Writes.  No row is ever deleted, and a new row takes the next id; bound: *)
(* a table with MaxOrders or MaxSessions rows takes no more.  Only an order *)
(* that enters a pile queue gets a new pileQueueEnteredAt; every other      *)
(* status leaves the line.  An update of a row that does not exist would    *)
(* fail.                                                                    *)

NextId(table, ids) == {i \in ids \ DOMAIN table : 1..(i - 1) \subseteq DOMAIN table}

Insert(table, id, row) ==
    [i \in DOMAIN table \cup {id} |-> IF i = id THEN row ELSE table[i]]

(* Mutant of Without: the order keeps its old place. *)
WithoutNothing(o) == line

Without(o) == RemoveFirst(line, o)

LeaveLine(o, row) == orders' = [orders EXCEPT ![o] = row] /\ line' = Without(o)
EnterLine(o, row) ==
    /\ o \in DOMAIN orders
    /\ orders' = [orders EXCEPT ![o] = row]
    /\ line' = Append(Without(o), o)

Session(o, p, state, delivered, reason) ==
    [order |-> o, pile |-> p, state |-> state, delivered |-> delivered, reason |-> reason]

(* The transaction that applyAssignments, wakeIdlePiles and start share:    *)
(* the order's update, the pile's workingState, a new session.              *)
BeginCharging(o, row, p) ==
    /\ o \in DOMAIN orders
    /\ p \in Piles
    /\ LeaveLine(o, row)
    /\ piles' = [piles EXCEPT ![p].work = "CHARGING"]
    /\ \E x \in NextId(sessions, SessionIds) :
          sessions' = Insert(sessions, x, Session(o, p, "ACTIVE", 0, None))
    /\ UNCHANGED <<details, totals>>

-----------------------------------------------------------------------------
(* Handlers in progress *)

Idle(s) == todo[s] = <<>>
Quiet == \A s \in Slots : Idle(s)
Busy == {s \in Slots : ~Idle(s)}
At(s, op) == todo[s] # <<>> /\ Head(todo[s]).op = op

Begin(s, steps) == todo' = [todo EXCEPT ![s] = steps]
Goto(s, steps) == todo' = [todo EXCEPT ![s] = steps \o Tail(@)]
Throw(s) == Begin(s, <<>>)

-----------------------------------------------------------------------------
(* RedisService.lock: SET key PX ttl NX, false when the key is set or Redis *)
(* is unavailable.  The caller runs "then" and deletes the key, or does     *)
(* nothing at all.                                                          *)

LockStep(key, then) == [op |-> "lock", key |-> key, then |-> then]
Locked(key, then) == <<LockStep(key, then)>>

(* Mutant of Free: SET without NX. *)
FreeWithoutNX(key) == redisUp

Free(key) == redisUp /\ key \notin locks

Lock(s) ==
    /\ At(s, "lock")
    /\ LET step == Head(todo[s])
       IN  IF Free(step.key)
           THEN /\ locks' = locks \cup {step.key}
                /\ Goto(s, step.then \o <<[op |-> "unlock", key |-> step.key]>>)
           ELSE Goto(s, <<>>) /\ UNCHANGED locks
    /\ UNCHANGED <<tables, redisUp, cache>>

(* RedisService.unlock: DEL key, whoever set it. *)
Unlock(s) ==
    /\ At(s, "unlock")
    /\ locks' = IF redisUp THEN locks \ {Head(todo[s]).key} ELSE locks
    /\ Goto(s, <<>>)
    /\ UNCHANGED <<tables, redisUp, cache>>

-----------------------------------------------------------------------------
(* QueueCacheService: read the tables, then overwrite the key. *)

RefreshStep(key) == [op |-> "refresh", key |-> key]
Refresh(key) == IF TrackCache THEN <<RefreshStep(key)>> ELSE <<>>
RefreshMode(mode) == Refresh(<<"waiting", mode>>)
RefreshPile(p) == Refresh(<<"pile", p>>)
RefreshPiles(ps) ==
    IF TrackCache THEN [i \in 1..Cardinality(ps) |-> RefreshStep(<<"pile", ById(ps)[i]>>)]
    ELSE <<>>
RefreshAll == RefreshMode("FAST") \o RefreshMode("SLOW") \o RefreshPiles(Piles)

WaitingPayload(mode) ==
    LET waiting == ById({o \in OrdersIn({"WAITING"}) : orders[o].mode = mode})
    IN  [i \in DOMAIN waiting |-> [order |-> waiting[i], no |-> orders[waiting[i]].no,
                                   amount |-> orders[waiting[i]].amount]]

PilePayload(p) ==
    [phys |-> piles[p].phys, work |-> piles[p].work,
     charging |-> OnPile(p, {"CHARGING"}), queue |-> QueuedOn(p)]

Payload(key) == IF key[1] = "waiting" THEN WaitingPayload(key[2]) ELSE PilePayload(key[2])

ReadPayload(s) ==
    /\ At(s, "refresh")
    /\ LET key == Head(todo[s]).key
       IN  Goto(s, <<[op |-> "setJson", key |-> key, payload |-> Payload(key)]>>)
    /\ UNCHANGED <<tables, redis>>

SetJson(s) ==
    /\ At(s, "setJson")
    /\ LET step == Head(todo[s])
       IN  cache' = IF redisUp THEN [cache EXCEPT ![step.key] = step.payload] ELSE cache
    /\ Goto(s, <<>>)
    /\ UNCHANGED <<tables, locks, redisUp>>

-----------------------------------------------------------------------------
(* The seeded database: every pile ON and IDLE, no orders. *)
Init ==
    /\ orders = <<>>
    /\ line = <<>>
    /\ sessions = <<>>
    /\ details = <<>>
    /\ piles = [p \in Piles |-> [phys |-> "ON", work |-> "IDLE"]]
    /\ totals = [p \in Piles |-> [count |-> 0, amount |-> 0]]
    /\ locks = {}
    /\ redisUp = TRUE
    /\ cache = [key \in CacheKeys |-> None]
    /\ todo = [s \in Slots |-> <<>>]
=============================================================================
