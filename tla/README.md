# A specification of the charging station system

TLA+ modules for the server of this repository (`src/apps/server`), the scheduling
strategies it shares with `src/services/scheduler`, and the client's pages that act on it
(`src/apps/client`); TLC runs that check them on small instances, and TLAPS proofs about
instances of any size. `PROJECT.json` maps every definition to the lines it models.

## 1. The system

A NestJS server keeps drivers' orders, charging sessions, bills and piles in MySQL
(through Prisma), dispatch locks and cached queues in Redis, and asks a scheduling
function where to put orders. It has no background job: whatever happens, happens inside
the handler of a request. Node runs a handler without interruption from one `await` to
the next, so handlers interleave exactly there.

| Component | Keeps | Operations |
|---|---|---|
| Charging (`charging.service.ts`) | ChargingOrder rows | submit, modify mode / amount, cancel, start, stop, queue status |
| Dispatch (`dispatch.service.ts`) | nothing of its own; places orders, starts sessions | auto-completion, basic dispatch, fault and recovery rescheduling, single and batch optimization, waking idle piles |
| Scheduler (`strategies.py`, the local fallback in `dispatch.service.ts`) | nothing | shortest completion, queue order, batch |
| Billing (`billing.service.ts`) | BillingDetail rows, pile totals | `closeAndBill` |
| Pile (`pile.service.ts`) | physical and working state | power on / off, fault, recovery, reschedule |
| Queue cache (`queue-cache.service.ts`) | `waiting:{mode}`, `pile:{id}` in Redis | refresh of one key or all |
| Redis (`redis.service.ts`) | lock keys, whether Redis is usable | lock, unlock, setJson |
| Clock (`clock.ts`, `charging.ts`) | speed and two bases, in memory | read, set the speed |
| Fees (`billing.service.ts`) | BillingRule rows | `calculateChargeFee` and the fees of a bill |
| Reports (`report.service.ts`, `ReportView.vue`) | nothing | the bills of a day, week or month by pile |
| Authentication (`auth/`) | User rows; signed tokens | register, login, adminLogin, the two guards |
| Driver's page (`UserDashboard.vue`) | its list of orders, the selected one, requests on their way | submit, query, modify, stop, cancel, refresh, select |
| Login form and router (`AuthView.vue`, `router/index.ts`, `http.ts`) | two sessions in localStorage, the open page | login, register, switch forms, logout, navigate |
| Console, monitoring, realtime, transport of the scheduler | | see "Not modelled" |

How they interact: drivers' requests write orders and may call auto-completion or
billing; administrators' requests change piles, and then reschedule (under a lock) and
dispatch; dispatch reads a snapshot, lets the scheduler plan on it, and applies the plan
one order at a time; all of them end by refreshing cache keys. There are no messages and
no callbacks between components: they are calls in one process, and share the tables.

An order goes WAITING -> IN_PILE_QUEUE -> CHARGING -> FINISHED or ABORTED, or is CANCELED
before it charges. A fault aborts the charging order, renames it with the suffix `-A`, and
creates a continuation for the energy not delivered, under the old number.

What is hard here:

- *Check then act.* The checks of submit, modify, cancel, start and of `applyAssignments`
  are reads; the writes follow after an `await`, in most cases without a condition.
- *Plans.* A dispatch applies what it read several awaits ago.
- *One session, several closers.* Stop, cancel, auto-completion and a fault may all be at
  it; only two unique columns of BillingDetail decide who wins.
- *Long handlers.* `reportFault` writes in five steps that no transaction joins. The
  process may die between any two.
- *Locks without an owner,* with a TTL, in a Redis that may be unavailable.
- *Capacities* counted anew for each assignment, with the orders being moved left out.
- *A cache* every service has to refresh by hand.
- *A clock that jumps.* Sessions run by a virtual clock whose speed an administrator
  changes and that starts anew with the process; bills are dated by the real one.
- *Pages of yesterday's state.* The driver's page acts on a list the station has moved on
  from. Clicks overlap, their answers are lost or overtake each other.
- *Handlers that outlive their form.* A login goes on after its form is gone, and saves
  its session wherever the tab is by then.

What makes each component correct: billing -- a session ends with exactly one bill, and
totals agree with the bills; charging -- one unfinished order per driver, final states are
final, changes only while WAITING; dispatch -- one order charging per pile, no pile beyond
its capacity, everything movable moved after a fault; pile -- nothing asked for is lost
or billed twice by a fault; cache -- what Redis holds is what the tables say; locks -- one
holder; clock, fees and reports -- time does not run backwards, the
meter, the bill, the calendar and the report agree; driver's page -- what it shows as ended
has ended, what it offers the server grants unless the order moved on; login -- no page
without its session, no form that stays blocked.

## 2. The modules

    Scheduler          dispatch strategies, as pure operators
    StationData        tables, Redis, handlers in progress; locks; cache refreshes
      Billing          closeAndBill
        Dispatch       snapshots, plans, assignments, completion, waking
          Charging     what drivers ask for
            Pile       what administrators do to a pile
              Station  requests, time, Redis and the process: Next and Spec
    StationProperties  invariants, action properties, refinements, fairness
    MCStation          values of the constants for TLC
    StationProofs      theorems about the tables
    HandlerProofs      theorems about what handlers still have to do
    SerialProofs       theorems about a server that serves one request at a time
    QueueProofs        and about the capacity of its queues
    OrderLifecycle     abstract: the life of an order, as a driver sees it
    BillingLedger      abstract: what closeAndBill promises

    VirtualClock       the clock of the server: speed, bases, restart
    Tariff             fees and report ranges, as pure operators
      Metering         both: sessions, meter, bills, reports
    MCMetering         values of its constants
    MeteringProofs     theorems of all three: what the loop over slices computes, the
                       clock, the meter, bills and reports
    Collections        lemmas: induction over finite sets, sums, sequences without
                       duplicates, finite sets in ascending order; used by
                       HandlerProofs and MeteringProofs

    DriverPage         the driver's page, the network, and the orders it is about
    MCDriverPage       values of its constants; DriverPageProofs its theorems

    Portal             router, login form, sessions, accounts
    PortalProofs       its theorems

Four systems of state, which meet at their edges: `Station` is the server with
interleaved handlers; `Metering` opens up what `Station` abstracts to "energy was
delivered", with one session at a time; `DriverPage` stands outside the server. There a
submission is checked in one step and its order made in a later one, as an
interrupted order ends in one and is continued in another, with anything in between;
every other request is served in one step. `Portal` is what has to be passed before there
is a page.

Every component's module extends the one it calls into, as the services of the server
inject one another. `StationData` declares the whole state; each module adds the handlers
of its service.

**State.** `orders`, `sessions`, `details` are the tables, as functions from ids (in the
order of creation) to rows; a row that does not exist is outside the domain. `line` lists
the IN_PILE_QUEUE orders by `pileQueueEnteredAt`. `piles` and `totals` are ChargingPile's
columns. `locks`, `redisUp` and `cache` are Redis. `todo[s]` is the handler running in
request slot `s`: the sequence of steps it still has, each carrying the local variables
the code carries to that point.

**Steps.** One action is one Prisma write, one transaction, one Redis command, or a run of
reads with what the handler computes from them. The first action of an endpoint
(`SubmitRequest`, `Start`, ...) does the handler's first read and its checks, and puts the
remaining steps in `todo`; a request the checks refuse changes nothing and is no step.
Loops (rows of a plan, due completions, idle piles) are sequences of steps; `Throw` drops
what is left of the handler, `Fail` is `closeAndBill` throwing with or without a caller
that catches.

**What is abstracted.**

- Two reads that follow each other without a write in between are one snapshot
  (`PlanBasic`, `PlanFault`, `ReadAssignment`, `ReadForBill`): another handler's write
  between them is then seen by both or by neither.
- Refreshes awaited together (`Promise.all`) happen one after the other. With
  `TrackCache = FALSE` refreshes are left out: they read, and write only the cache.
- Money, durations and power are reduced to the energy a session received, in whole units
  (`delivered`). `Deliver` lets it grow at any time, up to the amount asked for, which is
  where every use of the meter stops. Rounding matters once: a bill has four decimals,
  what continues an interrupted order two. `Grain` is the number of the model's units in the
  coarser one, and `Rounded` is that `Math.round`. With `Grain` 1 nothing is lost, with 2 and 3
  what is left may be rounded down, up or away. A request of more than four decimals, which
  its validation allows, is not in the model.
- `line` is ordered by its writes. The code orders it by a time stamp taken when a batch
  begins, plus an index. The two differ only if two batches at once queue orders at one pile.
- A queueNo is its letter, its number and its count of `-A` suffixes.
- A cached payload is the ids, numbers and amounts it lists.
- `UiDiscipline` restricts everybody to the buttons shown for the state of the tables: an
  administrator to those of MonitorView and AdminLayout, a driver to those of UserDashboard,
  which does not offer to cancel a charging order. A page that shows an older state can still
  send such a cancel: `DriverPage` has that, and the run `billing_races`, where every endpoint
  may be called at any time.
- The Python service and the local fallback are one set of operators; a call that fails or
  times out ends in the fallback.

**Time and money** (`VirtualClock`, `Tariff`, `Metering`). `real` is Date.now() in hours,
and the clock's three variables are as in the code. Speeds are in tenths, so that virtual
time comes in tenths of an hour; energy is in tenths of a kWh, prices in tenths of a yuan per
kWh, and a fee in cents. With these units every product is an integer, and the only
rounding left is the one of a slice's quotient, `Rounded`. The slices of
`calculateChargeFee` are a recursive function over the cursor; dividing each by the
duration and adding up is replaced by adding up and dividing once, which is the same
number before the rounding to a cent. An order here has one session: the sums over earlier
ones are in `Billing`. Months have 30 days, and day 0 is a Monday and the first of one.
`Plug` is any of the ways a session starts, `AutoComplete` a request that finds a session
due, `Reboot` a new process.

**The driver's page** (`DriverPage`). A click is a handler, `calls[c]` the request it
awaits: `ask`, then `done` or `refused`, then for the list `list`, `listed`; `failed` and
`unlisted` are requests that were lost, before or after the server had handled them.
`shown` and `selected` are the page's refs. `Station` inside this module is the rest of the
world, which moves orders on by any of the ways the server has. A submission that passes the
check is `checked` until its order is made; `unattended` counts the orders being made that
no click waits for: of a submission whose request failed meanwhile, which the server does not
notice, or the continuation of an interrupted order. `overlapped` records that a check was
passed while another order was being made. Whether the waiting area is full is not
known here: a submission may be refused after the check, too.

**The way in** (`Portal`). `userToken` and `adminToken` name the account a token was signed
for; `page` is the route with the state of the component there; `calls` are submissions
on their way, with a flag that tells whether their form is still mounted. `Guard` is
`beforeEach`. A password is right or wrong. A login that follows a registration takes any name,
because it reads the fields again.

**Abstract specifications.** `BillingLedger` knows only meters, a ledger and counters: a
session is opened, and later settled in one step with its bill and its pile's count.
`LedgerHolds` maps the tables to it, and holds with any interleaving and any crash.
`OrderLifecycle` has the status of an order, the place it occupies and the set of
billed orders; `LifecycleHolds` maps the tables to it while one request is served at a
time. With two at once the code does not implement it (section 4).

## 3. The runs that pass

The runs of `Station` instantiate `MCStation`, with `CHECK_DEADLOCK FALSE`, as has
`metering`: the server does stop, it idles until a request comes, and in a run every row,
hour or bill may be used up. `driver_page` and `portal` are checked for deadlock: there is
always something a person can click.

| Run | Slots, ops, bounds | Shows |
|---|---|---|
| `serial_queues` | 1 slot, 4 drivers, 2 fast piles, 4 orders of 2 units, 3 sessions, capacity 2; submit, cancel, start, stop, queue status, dispatch, single optimization, fault, rescheduling by priority | `TypeOK`, `OneUnfinishedOrder`, `PileStoryAgrees`, `RemainderWithinRounding`: after every write orders, sessions and piles tell one story; a fault continues what the bill leaves, but for the rounding (a grain is two units). `QueueWithinCapacity`, `FaultQueueMoved`: a queue never outgrows its pile, and the queue of a faulty pile goes where there is room. Recovery and rescheduling in time order are left out: they do overfill a queue (`time_order_capacity`) |
| `serial_modes` | 1 slot, 2 drivers, a fast and a slow pile, waiting area 1, changes of mode and amount, `start`, both optimizations, recovery and rescheduling in queue order, power on and off, no user's stop; refreshes as steps; a grain of three units, so that a remainder of 1 is dropped and one of 2 rounded up | `WaitingWithinArea`, `PileStoryAgrees`, `LifecycleHolds`, `CacheMatches`: no operation leaves the life of an order, and a request that ends has refreshed every key its writes concern |
| `billing_races` | 2 slots, 2 drivers, 1 pile, 2 orders, 3 sessions; submit, cancel (queued or charging), dispatch and fault, at any time; restarts | `ClosedSessionBilled`, `PileCountsMatchBills`, `PileEnergyMatchesBills`, `BillsFrozen`, `LedgerHolds`, `LockExclusive`: however completion, cancel and fault meet, a session is billed once, and two faults reported at once do not both move the queue |
| `liveness` | 2 slots, 2 drivers, 1 pile, 2 orders, 4 sessions; submit, fault, recovery, with the dispatches they end in; restarts, lock expiry, Redis failure | `HandlersFinish`: a submission that retries because another took its number, a fault that bills, continues and reschedules, a recovery that dispatches: each comes to an end beside any other |
| `metering` | 2 piles, 4 real hours across a midnight that ends a week or a month, speed 1 or 4.7, 1 change of speed, 1 restart, 2 bills, 3 tariffs | `ClockTypeOK`, `ClockRunsOn`, `MeterNeverShrinks`: the meter runs on whatever the speed does. `BillAgreesWithMeter`, `CompletedInFull`, `NothingOwedBack`: the bill is what the meter showed, up to the request, full when completion found it full, and never negative. `BilledByTheCalendar`: every tenth of an hour is charged at its own price. `RevenueAddsUp`, `DayWithinWeekAndMonth`: the reports |
| `driver_page` | 2 orders, 2 clicks at once, 1 unattended creation, any request or answer lost | `EndShownIsEnd`, `OneOpenUnlessOverlap`, `RefusedOnlyIfStale`, `SubmissionShown`, `ClicksAdvance` |
| `portal` | 3 names of which 2 have accounts, 2 submissions on their way | `TypeOK`, `ConsoleServed`, `DriverHasSession`, `LoadingIsOwn`, `PageActsForItsDriver`, `ButtonComesBack` |

In the runs of `Station`, `UiDiscipline` is on except in `billing_races`. Each property of a
passing run has a mutant in `PROJECT.json`: a plausible mistake in one definition with which TLC
finds the property violated under the same configuration. The mutated operators stand before the
definition they replace, and nothing else uses them.

**The bounds and why they are enough.** `MaxOrders` and `MaxSessions` cap the rows of the
tables: a request that would need one more is not started (`RowToSpare`; the two session starts
wait in `NextId`). `MaxNumber` caps the numbers that changes of mode use up, and `MaxSuffixes`
the faults on one number. One pile and two orders are enough for one order to charge while the
next one queues, a second pile for a queue to be moved, a second charge mode for the batch
endpoint to mix them. Capacity 2 is the value of `.env.example`. Four orders fill two piles: an
order then stays at a faulty pile because the other one is full, and a dispatch finds no room,
which three orders never bring about. `FaultQueueMoved` promises no more than the code attempts:
the planner ignores the capacities, so that with three piles an order may be planned on a full
one while another has room, and stays. Switching piles on and off is in `serial_modes`,
`second_fault` and the proofs: it takes a pile out of the plans or into them. A user's stop is
in `serial_queues`, `second_fault` and the proofs; `serial_modes` would be nearly three times as
large with it, and ends a charge by completion, which goes through the same `closeAndBill` and
the same refreshes. `billing_races` has one session more than orders, so that two dispatches at
once can give an order two active sessions: the case in which two bills compete. Users and slots
are interchangeable and are declared symmetric, except where liveness is checked. Piles are not:
their order breaks ties. `CacheMatches` has a premise, `NoMixedPlacement`: after `batch` has put
a slow order on a fast pile the caches do go out of step (section 4).

`metering` starts at nine in the evening of a Sunday, or of the last day of a month: four
hours pass a tariff boundary and midnight, with the speed 4.7 most of a day. Two bills let
one fall before and one after midnight, on one pile or two. Speed 0 stands for a body that
is no number, which the endpoint takes as 1. `driver_page` has two orders, so that the page
has one that ended beside an open one, or one that a fault continues; two clicks let lists
overtake each other and submissions meet. Clicks may follow each other without end. In
`portal` one name has no account yet, and two submissions let an older login arrive over
a younger one; a person switches, navigates, reloads and logs out without bound.

`Grain` is 1 where the properties are not about the remainder, 2 in `serial_queues` and 3 in
`serial_modes`; requests are of two units, deliveries of one at a time. So a remainder is a
whole grain, exactly half of one, or less. `MaxUnattended` is 1: one order being made that no
click waits for, beside two clicks, which are symmetric. In `liveness` a bound must not be what
stops a handler: two orders, each begun by two dispatches at once, need four sessions, and a
continuation a row that the fault has found free.

**Fairness** (`FairSpec`, run `liveness`). A handler that can take its next step does so (`WF`
of `Serve`): the event loop resumes every await that settles, and Prisma and Redis calls settle.
Nothing is assumed of requests, of the energy a pile delivers, of restarts, of Redis failures or
of the TTL of a lock. `HandlersFinish` needs no fairness of other slots, since locks are tried
once and not waited for. In `Portal` requests are handled, and answers and timers arrive (`WF`
of `Handle` and `Respond`): fetch settles, the event loop runs its callbacks. Nobody has to
click, no request has to be lost. `DriverPage` is checked without fairness: `ClicksAdvance` says
that a click can always go on, and only forward, so that it ends if each of its requests
settles, as fetch sees to.

## 4. Where the code departs from what is said of it

Each of these runs checks one property that a comment, a message or the README of the
repository states, and TLC finds a behaviour of the code that violates it. `findings` in
`PROJECT.json` quotes the lines.

| Run | Property | What happens |
|---|---|---|
| `submit_race` | `OneUnfinishedOrder` | two submissions of one driver both pass the check |
| `cancel_race` | `TerminalIsFinal` | a plan read before a cancellation brings the order back |
| `second_fault` | `RemainderContinued` | the second fault on a number renames to the `-A` that is taken; the request fails and the remainder is lost. Nothing runs at the same time |
| `time_order_capacity` | `QueueWithinCapacity` | a rescheduling in queue order leaves the orders it may move out of the count, including the ones it then leaves where they are |
| `overtaking` | `StartsFromHead` | a stop leaves the pile idle; the next `triggerBasic` starts a waiting order there, and the order in the pile's queue, which only `triggerBasicAll` wakes, is overtaken. Nothing runs at the same time |

Two more statements of the repository are not true of the code, and need no run to see it:

- `scripts/acceptance-test.ts:250-262` (part five) submits a slow request and then a fast one
  for one driver, with the first still open, and asserts that the second gets a number that
  begins with F. `ensureUserCanSubmit` (`charging.service.ts:282-291`) refuses every driver with
  an unfinished order, whatever its mode, and the model does so too: that is why
  `OneUnfinishedOrder` holds. The property states what the server's check says; by the script it
  would have to be one order per mode.
- `docs/redis-mysql-guide.md:149-152` and `:199` say that without Redis the server goes on with
  MySQL alone. `lock` then answers `false` (`redis.service.ts:155`), and `triggerBasicAll`,
  `wakeIdlePiles` and the reschedulings after a fault and a recovery take that for a lock
  someone else holds: they do nothing, and the queue of a faulty pile stays although another
  pile has room. Only `triggerBasic` and the optimizations, which take no lock, go on. The model
  has this (`RedisDown`), and `FaultQueueMoved` says nothing of a rescheduling that did not get
  its lock.

The model also has behaviours that no run of the list is about, since each would need a property
only to be violated. They are seen in counterexamples of the same modules with other operations
and constants, with two slots: a `start` and a dispatch that both find the pile idle, after
which two orders charge there (the transaction of `start` checks the queue again, but not the
pile); a mode or an amount that changes after a dispatch has placed the order. And: two
refreshes of one key at once that write in the wrong order; a slow order, put on a fast pile by
batch optimization, whose continuation appears in the slow queue without a refresh of it; a lock
that expires under its holder, whose `DEL` then frees the next holder's; a process that dies
between the bill and the continuation; a fault reported while the driver stops, after which the
finished order is renamed and continued, or the fault forgotten because the stop leaves the pile
idle; a waiting order that is placed while the queue of a faulty pile is stuck; an order
submitted beside an idle pile that waits until someone else's request; `powerOn` called on a
charging pile by the plain API; and a cancellation with the reason USER_CANCEL that ends
ABORTED.

Of the other modules: a session that began by a fast clock and ends after a restart has a
bill of nothing and a negative duration, which the reports add up; a session billed
long after it was full has its energy priced over all that time; a page that shows an
older list after a newer one; and a login answered late, after which a driver's page acts for
another account than the one it was opened for -- the exception `PageActsForItsDriver`
names.

## 5. What is proved

Checked by TLAPS with the SMT and Zenon backends, and LS4 for the temporal steps. The
theorems of `StationProofs` and `HandlerProofs` hold for any finite bounds, any users, slots
and operations and any finite set of piles, with restarts, lock expiry and Redis failure at
any moment (`LockExclusiveHolds` without expiry); those of `SerialProofs` and `QueueProofs`
likewise, but for one slot; those of the other modules for any piles,
speeds, requests and tariffs, any number of orders and clicks, any names and number of
submissions.

| Theorem | States |
|---|---|
| `BooksHold` | the inductive invariant of the books, `BooksInv` |
| `ClosedSessionBilledHolds` | a session is closed exactly when it is the session of its order's bill |
| `PileCountsMatchBillsHolds` | a pile's count is the number of bills of sessions on it |
| `BillsFrozenHolds` | an issued bill is never changed or withdrawn |
| `LedgerRefined` | `Station` implements `BillingLedger` |
| `HandlersHold` | every step that a handler still has to take is one the code puts there, with values of their types |
| `TypeOKHolds` | every row has its shape and its foreign keys, and the line lists each queued order once |
| `PileEnergyHolds` | what a pile is credited with is what the bills of its sessions say |
| `LockExclusiveHolds` | without expiry, no two handlers are between lock and unlock of one key |
| `SerialHolds` | one slot: what each step still to come relies on is as its read left it, and orders, sessions and bills fit together |
| `OneUnfinishedHolds` | one slot: no driver has two unfinished orders |
| `TerminalHolds` | one slot: an order that has ended stays as it ended |
| `PilesHold`, `PileStoryHolds` | one slot, buttons: a pile's state, the order charging there and its session agree after every write |
| `LifecycleRefined` | one slot, buttons: `Station` implements `OrderLifecycle` |
| `NumbersHold` | one slot: no two orders have one number; an interrupted order gives its own up before it is continued |
| `WaitingHolds` | one slot: the waiting area is exceeded only by continuations |
| `RemainderHolds` | one slot: a continuation is of the same driver, and with the bill it comes to what was asked for, within half a grain |
| `QueuesHold`, `QueueCapacityHolds` | one slot, buttons, only faults move queues: no pile has more orders than its capacity |
| `ClockTypeHolds`, `ClockRunsOnHolds` | the clock's type; between restarts it never runs backwards, and a change of speed does not move it |
| `MeterHolds` | the meter of a session never shrinks while the process lives |
| `BillAgreesHolds`, `CompletedHolds`, `NothingOwedHolds` | a bill is what the meter showed, up to the request; the whole request when completion found it full; never negative |
| `PricedTimeIsTotal` | the slices of `calculateChargeFee` cost the sum of their moments, for any rules |
| `BilledHolds` | every bill is priced by the calendar |
| `RevenueHolds`, `DayWithinHolds` | a report's rows add up to its total; a day's report is part of the week's and the month's |
| `EndShownHolds` | an end the page shows is the order's end, with its bill |
| `RefusedHolds` | the server refuses what the page offers only if the order has moved on |
| `OneOpenHolds` | a driver has two open orders only if the check of a submission fell into the making of another order |
| `SubmissionShownHolds` | a click that ends without an error after its submission was accepted leaves the order shown |
| `TypeHolds` | the tab's type: among it, that the administrator's token is one |
| `ConsoleServedHolds`, `DriverSessionHolds` | no page is open without a session the server accepts |
| `PageActsHolds` | a page acts for its driver, but for the one exception |
| `LoadingIsOwnHolds` | the button is disabled exactly while a request of its own form is on its way |

*Assumptions.* Those named in the modules: the bounds and capacities are naturals, every pile
has a type and a power, amounts are positive, the rules of a tariff are minutes of a day and
prices (`PriceRule`), `None` is neither a pile nor the id of an order. TLC evaluates them in
every run. Piles are finitely many naturals, because their order breaks the scheduler's ties; so
are a driver's orders, by the time of submission. `Portal` assumes that administrators come from
the seed, and that `None` is no name and no call, as `DriverPage` does of calls. One theorem has
a hypothesis of its own: `LockExclusiveHolds` is about stations whose locks do not expire under
their holder (`"expiry" \notin Mishaps`), as is the run that checks it. With expiry it is false
(section 4). The theorems of `SerialProofs` and `QueueProofs` are about stations with one slot
(`OneAtATime`): with two, `submit_race` and `cancel_race` show states and steps that contradict
them. The lock, its expiry, restarts, Redis failures and every operation stay in. `PilesHold`,
`PileStoryHolds` and `LifecycleRefined` also assume `UiDiscipline`, as the runs do: `powerOn` of
a pile that is charging is offered by no button, and by the plain API it writes IDLE over
CHARGING. Those of `QueueProofs` assume that too, and `OnlyFaultsMove`: no recovery, and no
fault rescheduled in queue order. With these the capacity is exceeded, as the run
`time_order_capacity` shows.

*Argument, the books.* `ClosedSessionBilled` is not inductive by itself, since a step that opens a
session needs to know that its order and pile exist, and that the ids are fresh. `BooksInv`
adds `RowsLinked` (the foreign keys) and the counters. `StationProofs` assumes nothing of
`todo`: a handler may carry values as stale as it likes, and the proof uses only what a
transaction itself checks or writes -- which is why the billing is safe where the rest of
the server is not. `StepWrites` and `StepKinds` sort the steps of `Next` into four kinds: those that
leave the books alone and at most add an order, `BeginCharging` (opens a session), `Deliver`
(the meter runs) and `Settle` (bills, or rolls back). One lemma for each of them shows that
it preserves `BooksInv`; the count's step is a lemma on the cardinality of `BillsOf`,
which gains exactly one element. The refinement reuses the same kinds: opening is `Open`,
settling is `Issue`, the rest stutters.

*Argument, the handlers.* What a handler writes was computed some awaits ago and carried
in `todo`, so that types, energy and locks need an invariant on the steps that wait there.
`HandlersInv` adds to the books that every row has its type, that `line` lists exactly
the queued orders, each once, and that every step in `todo`, wherever it stands, is
`StepOK`: a statement about one step, which says what it carries and that what it leads to
is steps of the same kind. A handler's
remaining steps are those of a sequence over some set of such steps (`Steps`); the lemmas
`StepsOne`, `StepsJoin` and `StepsEach` build them as the code does, and `Goto` takes off the
first step and puts others in front. There is one lemma for each action. Three facts carry the rest:

- A settlement that is about to be written carries `previous = 0`. The amount billed
  earlier is read for sessions of the order that have ended, and an order with such a
  session has a bill (`ClosedSessionBilled`), with which the handler would have stopped. So
  the bill of an order and the credit of its pile are the same amount, and `PileEnergyMatchesBills`
  follows one bill at a time. The several-sessions branch of `closeAndBill` is never taken
  with an amount.
- `LeaveLine` takes out the first entry of an order, and `EnterLine` puts it at the end
  after taking it out: a line without duplicates stays one (`TakenOut`, `PutLast`).
- An `unlock` is put into `todo` by `Lock` alone, at the moment the key is set. `LocksInv`
  says that the key of every `unlock` still to come is set and that no two of them are for one
  key; with it, `SET NX` is enough.

*Argument, one request at a time.* With one slot a handler still writes on the strength of what
it read several steps earlier, and what stands between is its own: a refresh, a bill, the rest
of a plan. So the invariant is about `todo` as much as about the rows. Each kind of step either
relies on a read (`Relying`), makes one (`Planning`), or is indifferent (`Easy`). `Ordered` says
that no read and no other relying step stands before a relying one, but for those that come from
the same read (`Together`): the wakes of different piles, and what follows the bill of a fault.
`Valid` says what a step relies on: `create` on a driver without an unfinished order, `assign`
on an order that is not charging or ended, `wake` on an order in the queue of the pile. The
proof takes four facts about an action and puts them together once:

- `SlotProceeds`: the steps it leaves are in such an order, and each relying one among them was
  there before, behind the head it belongs with, or is `Fresh`: put there by this very read,
  which writes nothing.
- `FreshValid`: what is fresh is valid, because the read saw it.
- `SlotWrites`, `SlotOutcome`: the tables change in one of seven ways (`Kept`, `Adds`, `Cancels`,
  `Places`, `Charges`, `Ends`, `Marks`), and one that concerns an order finds it in the
  status it needs, because the step was valid.
- `LeftValid`: none of the seven takes away what the steps left behind it rely on. A fault is
  the hard case: its `remaining` waits behind the bill and may count on a driver without an
  unfinished order only once that bill is made out, or finds the order still charging
  (`BillStands`).

`OrdersSerial` adds that a session is active exactly while its order charges, on that pile, and
that billed orders have ended; without it a bill could not be said to end the order. `PilesInv`
does the same for the pile a step is about: a `start`, a `wake` and an automatic start find
it idle and on, `setFault` and `setPower` find nothing charging. The refinement then reads
each of the seven ways as one step of `OrderLifecycle`, or none.

Numbers are a layer of their own, on top of `SerialInv` (`NumbersInv`): `SlotNumbers` says what an
action writes of numbers, modes and amounts, `NumberValid` what a step relies on. A number is fresh
because `NextQueueNo` is larger than those of its letter, and stays so until the order is created.
The hard case is the fault again. `continue` relies on the order it continues (`Covers`): aborted,
of the same driver, its bill and the new amount adding up to what it asked for within half a
grain (`RoundedNear`, the only arithmetic in it). As long as that
order is still called by its own number, `continue` would fail on the unique index; `rename` takes
the number away and so counts the order among the interrupted ones, which is the room the
continuation needs in a waiting area that may be full. Nobody asks there whether it is.

*Argument, queues.* `applyAssignments` checks every assignment of a batch against the pile's
queue without the orders the batch may move, plus what the batch has assigned there so far. That
is less than the queue the write adds to, so the check alone does not keep the capacity.
`Tallies` says why it does after a fault: at a pile that works, the movable orders that stand
there are at most the assignments counted there. At first there are none, because the orders a
fault moves all stand at the faulty pile (`Tame`), and each assignment adds one order and counts
one (`TalliedValid`). `FaultsStay` says that without a recovery a faulty pile stays one, so that
no pile `Tallies` excepts has to be counted for later. The check is still good when the
assignment is written because nothing comes between (`Immediate`: the steps of a batch are taken
as soon as they are put into `todo`). `QueuesInv` says this of all steps, on top of `SerialInv`
and `PilesInv`, and `RoomCounts` does the arithmetic. With a recovery `Tallies` is false from
the start: the orders it may move stand at piles that work.

*Argument, sums.* The sums of the model are folds over a finite set (`SumFunction`), of which the
library proves nothing. `Collections` first turns the library's theorem about natural
numbers into one about finite sets that needs no operator as a parameter (a set of
sets in which the empty one is, and with each set the set with one more element), and
then proves of `Total`, the sum over a set of the values of a function: nothing for the
empty set, one summand more for one element more, additive over disjoint sets, and the
same when summed by groups.

*Argument, time and money.* `VirtualNow` is a product of two variables, so the proof goes through
one lemma each for a clock that advances, is set, and restarts. The meter needs a session
whose start is a number and whose pile exists (`SessionHolds`). `BillsInv` says of every bill
what was known when it was made out. The loop over slices is a recursive function of the
cursor; `PricedTimeIsTotal` shows by induction on the time left that it is the sum of the
prices of the moments, because a boundary lies ahead of the cursor and no rule begins
or ends before it. That a rule covers a minute of the day exactly when the calendar has
one of its spans over the moment, also when it crosses midnight, is the other half of `BilledHolds`.
`RevenueHolds` is the sum by groups: every bill is of one pile.

*Argument, DriverPage.* `EndShownIsEnd` is not inductive: it must also hold of every list on its
way, which is why reordering does no harm. What makes it so is that an order that has ended
never changes, nor its bill. `OneOpenUnlessOverlap` is about the time between a check and its
creation: `OverlapInv` adds that, unless a check fell into another's, at most one order is being
made, and while one is, none is open. A submission is let pass when none is open; a fault closes
the open one before its continuation is made. `RefusedOnlyIfStale` needs that a request asks
with a status its button is offered for (`AskedAsShown`), from the click until the answer.
`SubmissionShown` needs that an order a handler keeps is one the server made, and that a list
asked for later has it (`KeptOrders`): orders are never unmade.

*Argument, Portal.* The invariant says, besides the types, that every token and every
granted request is an account's, a granted `adminLogin` an administrator's (`Accounts`), that
no page is open without its token (`PagesOpen`), and that a request counts as one of the form
only while a form is there (`FormsThere`). `GuardSettles` is the fact about the
router the rest hangs on: where the guard sends one, it would let one stay. `LoadingIsOwn`
is inductive with it: a form that is left takes its flag from its request and its
button with it.

*Only model-checked.* `FaultQueueMoved`: it is about what the strategies return, which is
computed by folds over data. `CacheMatches`, which needs for every key the refreshes still to come.
`ClicksAdvance` and every liveness property (`HandlersFinish`, `ButtonComesBack`): fairness and
ENABLED are beyond the prover.

## 6. Not modelled

- What the console shows between two answers (`AdminLayout.vue`, `MonitorView.vue`,
  `DashboardView.vue`), but for the buttons, the session and the totals: each view is the
  last answer to one request, nothing is pushed, and nothing the server promises depends on
  it. It has lapses that only show: a report can appear under the heading of a type chosen
  later; the waiting list is not loaded again after a fault or a recovery; the orders marked
  as affected are forgotten with the recovery of any pile; a failed change of speed is
  silent; the dashboard's own clock restarts at every change; `waitMinutes` of the pile list
  takes a real time from a virtual one. On the driver's page the area shown is that of the
  last answer to any order, and an older message's timer clears a newer one.
- `AdminDashboardService`, and the list and detail endpoints: they count or list rows.
- The realtime service: `attach` has no caller, so it never has a server to notify, and the
  WebSocket log of the client stays empty.
- DTO validation and password hashing: a request of the model is well formed.
- The expiry of a token after a day, and a second tab that shares localStorage.
- Redis commands without a caller (lists, hashes, publish).
- The transport between the server and the Python service: a call that fails ends in the
  same functions.
- The page that polls: there is none, so nothing in the system obliges anybody to
  dispatch, and the progress of a submitted order cannot be stated.
- Acceptance scripts and tests (`src/scripts`), which drive the system from outside. Part five
  of `acceptance-test.ts` expects what the server refuses (section 4).
- The rest of how two handlers of one server interleave beside the driver's page: there, only a
  submission and an interruption are more than one step, and the races of the server are shown in
  `Station`.

## 7. Plan

Done: the server (Scheduler to Station, two abstract specifications), time and money
(VirtualClock, Tariff, Metering), the driver's page, the way in; the runs and proofs
above.

What would be worth adding:

1. A reference for the strategies: `ShortestDispatch` against the best plan, and
   `BatchDispatch` against all permutations, over bounded inputs.
2. A lock module with owners and TTLs: what is still true of a dispatch whose lock expired.
3. Fault against stop, power and wake in two slots: what happens to a reported fault.
4. Two tabs over one localStorage, with tokens that expire.
5. Proofs of `CacheMatches` from the refreshes still to come, and of
   `FaultQueueMoved` from lemmas on what the strategies return.
