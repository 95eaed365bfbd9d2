# A TLA+ verification of docker-dynamic-limits

The daemon `ddld` watches Docker containers and enforces limits on what they
use: it pauses, disconnects, throttles or stops a container that is over a
limit and undoes it when the usage, or the limit, allows. Limits belong to a
container, to a *segment* (a group of containers) or to the host. A proxy bills
API calls to the container that made them, and a queue shares one Ollama server
between containers by bid. This directory holds TLA+ modules that model the
daemon, TLC runs that check them, and TLAPS proofs about them. `src/` below is
the repository.

`PROJECT.json` has the components, the runs with their properties, a seeded bug
(mutant) per property that TLC must find, the source lines of every definition,
the hazards of the code with the properties aimed at them, the disagreements
between documentation and code (findings), and the theorems.

| Module | Models |
|---|---|
| `Enforcement` | enforcement manager: workers, scope loop, freeze and unfreeze, restart |
| `EnforcementProofs` | types, what is frozen or flagged stays paused, what own limits and scope limits do by themselves |
| `BidQueue` | what the inference queue promises, without its mechanism |
| `OllamaQueue` | the inference queue: requests, processor, API calls, shutdown |
| `OllamaQueueProofs` | types, who may answer a request, and that the queue implements `BidQueue` |
| `Spending` | the money path: proxy, stored totals, budgets, blocked scopes, removal, restart |
| `SpendingProofs` | types, nobody is charged for more than was used, the host's total, the overshoot |
| `Limits` | limits of containers and the host, and the mode that keeps them consistent |
| `Config` | `Limits` with the settings and `config.json` |
| `ConfigProofs` | types, limits within the host's one by one and together, the proxy's copy of a limit, the settings that were accepted |
| `Registry` | registration, clones, removal, segments, freezing of many, listeners, addresses |
| `RegistryProofs` | types, and the agreement of the four copies of the registry |
| `EventStreams` | what the event bus promises its subscribers |
| `EventBus` | the bus, the handler of `/events` and its client |
| `EventBusProofs` | type correctness, and that the bus implements the streams |
| `Metering` | cpu time on its way into the totals of a scope |
| `MeteringProofs` | what was measured is counted once, and a report of it is sound |
| `SumLemmas` | sums over finite sets, for the proofs of `Spending`, `Config` and `Metering` |
| `MC...` | the instances of these for TLC |

To check a run: `tlc -workers 2 -config MCOwn.cfg MCEnforcement.tla`; to check
the proofs of a module: `tlapm EnforcementProofs.tla`.

## 1. Inventory

### Enforcement manager (`internal/enforcement`)

*State*: per container the limit types flagged as enforced and the frozen flag;
per scope (host or segment) the flagged types; accumulated spans of running
time; all in memory, under one mutex. *Operations*: start and stop the worker of
a container; `checkAndEnforce` on each tick of a worker; `checkScopeEnforcement`
on each tick of the scope loop; `Freeze`, `Unfreeze`; restart.
*Interacts with* the store (limits, usage, segment, persistent frozen flag),
Docker and cgroups, the proxy (blocking a scope), the event bus.
*Hard*: the mutex protects single reads and writes of the maps, never a
decision together with the Docker call that carries it out. Worker, scope loop
and freeze handlers all pause and unpause the same container, each believing
what it read before. All flags but the frozen one are lost in a restart, while
the containers stay paused. Docker and the store may fail at each call.
*Correct if*: what is over a limit is stopped and stays so; what is held by
nobody is resumed; what is held by several is not resumed by one of them; what
is frozen stays frozen, across restarts.

### Ollama queue (`internal/ollama`)

*State*: the sequence of entries, the active entry, standing bids; per entry its
bid, a cancelled flag, a context, a channel for one result. *Operations*:
`HandleRequest` (one goroutine per request), the processor goroutine, `SetBid`,
`CancelEntry`, `CancelAllPending`, `RemoveContainer`, `Stop`. *Interacts with*
the proxy (spending), Ollama over HTTP, the API (all the calls above).
*Hard*: an entry is known to its handler, the queue, the processor and anyone
who cancels it; the wake-up channel drops a token when one is there; timeouts,
disconnects and cancellations race with the answer.
*Correct if*: requests are served one at a time, once, by bid and then in order
of arrival; each is answered once and returns; what is given up before Ollama
has answered costs nothing.

### Spending proxy (`internal/proxy`)

*State*: spending, activity and registration per container, scopes that are
blocked, scopes of containers. *Operations*: proxying a call (budget check,
upstream call, charge), `AddSpending`, `SeedSpending`, blocking a scope,
recording activity. *Hard*: the check and the charge are on either side of the
upstream call; the new total is persisted by a callback after the lock is
released; the scopes of containers are not restored at start.
*Correct if*: what was charged survives a restart, and a container over its
budget, or in a blocked scope, gets no further call.

### Store (`internal/store`)

*State*: SQLite tables of containers, limits, usage, scope limits, segments,
bids, frozen flags, with accumulators for what removed containers had used.
*Operations*: CRUD, each one transaction. *Hard*: callers combine several calls
into one decision. *Correct if*: usage is never counted twice or lost when a
container or a segment goes.

### HTTP API (`internal/api`)

*State*: caches of IP addresses; otherwise it acts on the other components.
*Operations*: register, inspect and remove containers, limits (set, increase,
decrease, with the keep-limits-consistent mode), segments (create, delete,
assign, unassign, freeze all), freeze, bids, configuration, clone.
*Hard*: handlers run concurrently and read, decide and write in separate calls.
*Correct if*: limits of containers fit the limit above them when that is asked
for; a container is never in a segment that is gone.

### Event bus (`internal/events`, `api/websocket.go`)

*State*: subscribers, each with a bounded channel. *Operations*: subscribe,
unsubscribe, publish. *Hard*: a slow subscriber loses events, publishing never
blocks, a channel is closed while others publish. *Correct if*: what a
subscriber sees is a subsequence of what was published, in order, and nobody
sends on a closed channel.

### The others

`internal/docker` and `internal/cgroup` wrap Docker and cgroup files: modelled
as the runtime the manager acts on, with the errors its callers handle.
`internal/model` has types and orders. `cmd/ddld` wires the daemon and restores
state at start: the restarts of the modules. `cmd/ddl` is a client; its `events`
command is the client of `EventBus`. The dashboard and `cmd/ddl-guest` keep no
state that matters to the daemon.

## 2. Plan

The modules follow what the daemon is for: what pauses and resumes containers
first, then the queue, then money, then the API that changes limits and
membership, then events.

| Part | State |
|---|---|
| `Enforcement`, its proofs | done |
| `BidQueue`, `OllamaQueue`, the refinement proved | done |
| `Spending`, its proofs | done |
| `Limits`, `Config`, their proofs | done |
| `Registry`, its proofs | done |
| `EventStreams`, `EventBus`, the refinement proved | done |
| `Metering`, its proofs | done |

What would come next:

1. Weaker hypotheses for `EnforcedIsPaused` and `ScopeHolds`: own limits and
   scope limits together, on different types, where no actor is in a window of
   another (section 3 says what each of them excludes now).
2. Restoring the bids at start, and changes of the queue's size and timeout at
   run time.
3. Pure algorithms against reference definitions over bounded inputs: the
   overlap of a sleep with a request (`sleepDuring`), prices and token counts.

## 3. Enforcement

### Correspondence

`call[c]` is the goroutine `enforcementLoop` of container `c`, `call[Loop]` the
goroutine `scopeEnforcementLoop`, `user[u]` a caller of `Freeze` or `Unfreeze`.
Their field `at` is the place between two accesses to shared state:

| Place | Code (`enforcement.go`) | Next access |
|---|---|---|
| `idle`, `inspect` | `enforcementLoop`, `checkAndEnforce` | frozen flag; container and limits |
| `next` | the loop over `AllLimitTypes` | usage and flag of one type |
| `probe` | `isActuallyEnforced` | is it paused? |
| `act`, `mark` | `enforce` | the Docker or cgroup call; the flag |
| `look`, `guard`, `lift`, `clear` | `release` | paused?; other holders; the call; the flag |
| `read`, `pick`, `each`, `unmark` | `checkScopeEnforcement`, `scopeEnforce`, `scopeRelease` | totals; one type; one container; the scope's flag |
| `pause`, `persist`, `flag` | `Freeze` | Docker; store; memory |
| `unpersist`, `unflag`, `inspect`, `unpause` | `Unfreeze` | store; memory and holders; Docker twice |

`level[x][lt]` abstracts usage and limit to the verdict of their comparison:
`none` (no limit), `under`, `over`. A worker reads limits when its tick begins
and usage later, so a verdict that changes in between becomes `stale` and the
comparison may come out either way. A change of numbers that keeps the verdict
is two changes of it. `status`, `netOff` and `throttled` are Docker's and the
cgroup's state. With `MayFail` every Docker or store call may return an error,
and the model goes on as the code does: an inspection that fails reads as "not
paused", a frozen flag that cannot be read as not frozen, a segment that cannot
be found has no flags. `Restart` loses everything in memory, keeps containers
and store, and loads the frozen flags.

Auxiliary: `disturbed` records containers for which two actors were inside a
check-then-act window at once, that were started by their user, or whose frozen
flag failed to load. No guard reads it.

The scope's flag and the proxy's `SetScopeSpendingBlocked` change in one step:
nothing in this module reads the proxy's copy, and `Spending` has the blocking.

Not in this module: users who run `docker pause` themselves; partial
disconnection from networks; the accumulation of running time. The proxy's
reading of `blocked` is in `Spending`, workers that start and stop at run time
are in `Registry` and `Metering`.

### Runs

| Run | Question | Bounds | States |
|---|---|---|---|
| `own` | Does a worker enforce, release and recover? | one container with cpu, disk and byte-second limits, one restart | 48,861 |
| `scopes` | Does the scope loop? | one container in a segment; a cpu limit of the segment and a disk limit of the host; one restart | 8,694 |
| `races` | What holds when everybody interferes? | worker, loop, one user; cpu limit of its own, disk limit of the host; exits, segment changes, errors, one restart | 1,866,822 |
| `levels` | violated: `ScopesReleaseFirst` | one limit type on container and host | |

Containers do not interact except through scopes, and workers touch only their
own, so one container with all its actors shows the races. `races` has one
caller of freeze and unfreeze; the theorem covers any number. One restart is
enough to lose all memory at any point; a second finds the same states.

`own`: a pause flag means a paused container (`EnforcedIsPaused`), what stays over
a limit is stopped for good and what stays under is resumed (`OverLimitStops`,
`UnderLimitsResume`). `scopes`: the same of scope limits (`ScopeOverStops`,
`ScopeUnderResumes`), a flagged scope has no running container (`ScopeHolds`), and a
container is unpaused only when no other scope holds it (`AllLevelsRelease`, here
with a limit of the host and one of the segment on it). `ScopeHolds` holds because
containers neither start nor join nor fail: the loop enforces a scope once, on the
members it read. `ScopeUnderResumes` excludes
restarts: the loop releases only what it flagged, and a container without a
pause limit of its own that a scope paused before a restart stays paused.
`UnderLimitsResume` asks for limits that stay set: one that is removed while
enforced is skipped from then on, and its pause stays.

`races`: what is frozen or flagged is not running, and the stored frozen flag is
the one in memory, for every container that is not `disturbed`. `levels` is a
disagreement with `SEGMENTS.md:335` and needs no race at all:
`isOtherPauseActive` excepts the type being released at every level, so a worker
that releases its container's cpu limit unpauses it under the host's.

Two more instances are kept beside the runs. They state what one might expect
and TLC refutes: `MCFreeze.cfg` (`FrozenStaysPaused`: a container that is frozen
after `release` has looked at the flag is unpaused, so the exception of
`HeldIsPaused` is needed) and `MCThrottle.cfg` (`EnforcedIsThrottled`: releasing
one disk I/O limit clears the `io.max` of the other).

### Fairness

Weak fairness of each worker, of the scope loop and of a user's call that has
begun: goroutines are scheduled, tickers tick, handlers run to their end. None
on the environment, on errors, or on starting calls. Runs with liveness have
`MayFail = FALSE`: no code bounds how often Docker may fail.

### Proofs

`TypeCorrect` (`EnforcementProofs`) goes action by action: lemmas for the steps
of `enforce` and `release` shared by workers and loop, for the worker, the loop,
the user and the environment.

`HeldIsPaused` is not inductive: that `mark` sets a flag only on a container
that is not running rests on nobody having resumed it since `act`. `RacesInv`
adds what each actor in a window relies on (`CallRelies`, `UserRelies`): at
`mark` the container is not running, at `lift` nothing but the limit being
released holds it, at `flag` it is not running and the store is written, at
`unpause` nothing holds it; and that an undisturbed container has at most one
actor in a window. A step of one actor on a container then meets no reliance of
another. `RacesInvariant` proves it inductive, and `HeldWhenUndisturbed` and
`FreezeSurvivesRestart` follow. All for any sets of containers, segments and
users, any bounds on the environment, failures included, from
`EnforcementAssumption` (names are distinct, bounds are typed).

`EnforcedIsPaused`, `ScopeHolds` and `AllLevelsRelease` are false in general, as
`levels` and the refuted instances show. Two named hypotheses on the constants
say where they hold; the instances `own` and `scopes` satisfy them, and the
theorems hold for any number of containers, segments, limits and restarts:

- `OwnPauseLimitsOnly`: no user calls `Freeze`, `Unfreeze` or Docker, and no scope
  has a cpu or disk limit; failures, restarts and moves between segments stay.
  Then only its own worker pauses or resumes a container. `OwnInv` is `RacesInv`
  with nobody disturbed and the loop away from pauses; `EnforcedStaysPaused` follows
  from it. A user who starts a container by hand, or
  freezes it between a worker's look at the flag and its unpause, would break it.
- `ScopePauseLimitsOnly`: no user calls, no moves, no failures; no container has a
  cpu or disk limit of its own, and no type is limited both for the host and for a
  segment. Then only the scope loop pauses or resumes. `ScopeInv` says what the
  pass of the loop relies on (`SweepRelies`): at its effects the flag of the scope is
  set last when it enforces and cleared first when it releases, the members it has
  gone through do not run, and at an unpause no other scope's flag is on the container.
  `ScopesStayHeld` and `ScopeLimitsAllRelease` follow. Each exclusion is needed: a
  pause that fails still flags the scope, a container that joins a flagged segment
  or is started is not paused again, and a type that is limited at two levels is the
  disagreement `levels`.

## 4. The inference queue

### Correspondence

`handler[r]` is where one call of `HandleRequest` is (`check`, `enqueue`,
`signal`, `wait`, `expired` or `left`) or how it ended; `proc` is the processor
and the entry it has: `sleep`, `pop`, `taken` (off the queue, not yet active),
`send`, `run`, `bill`, `reply` or `fail`, `clear`. Every lock region of
`ollama.go` is one action (`CheckOthers`, `Enqueue`, `RemoveEntry`, `PopNext`,
`Activate`, `Deactivate`, `SetBid`, `CancelEntry`, `CancelAllPending`,
`RemoveContainer`, `Drain`), and so is each step on an entry's flag, context or
channel outside it. A call that gives up sets its flag and cancels its context
in one step, as nothing reads both.

Removing and sorting are stated by what they return: `Without(s, R)` is the
rest of `s` in its order, `Sorted(s, b)` its stable sort by bid. Both are sets
with one member, for sequences without repetition.

`processEntry` looks at no status: any answer of Ollama is billed, 4xx and 5xx
included. In the model `Run` therefore ends in `bill` when there is an answer and in
`fail` when the call ended without one: a transport error or a cancelled context.

Data left out: bodies, models, statistics, events. The charge is abstracted to
whether a request was charged; what was charged may have used up the container's
spending limit, so the check before enqueueing may refuse from then on. The
storing of bids, runtime changes of the configuration, and the detection of
sleep (which only shortens the time billed) are left out.

### The abstract queue

`BidQueue` has requests that wait, the one being served, their bids, and the
order of arrival: `Take` serves a request that outranks all others that wait,
by bid, or by arrival when the bids are equal and neither was changed while it
waited (a change re-sorts, and a bid that was changed and changed back may have
moved). `ImplementsBidQueue` maps waiting to the entries that are not cancelled
and serving to the processor's entry. A new entry, a change of bids, a take, the
end of service and any withdrawal map to the abstract actions; all other steps
stutter.

### Runs

| Run | Question | Bounds | States |
|---|---|---|---|
| `queue` | Is it the abstract queue? | three requests of two containers, room for two, one changing its bid, one timing out, one cancelling | 1,509,547 |
| `shutdown` | Does everybody get one answer, and return? | two requests of one container, room for two; timeout, disconnect, cancellations, shutdown | 69,590 |

Three requests let one be served while two wait and are re-ordered, or two wait
and a third finds the queue full. In `shutdown`, two requests of one container
(which the race of `MCOnePer.cfg` allows) meet every way to be answered.

Two instances beside the runs are refuted: `MCOnePer.cfg` (`OnePerContainer`: the
check for another request of the container and the append are separate lock
regions) and `MCTimeout.cfg` (`TimeoutOnlyWaits`: the timer keeps running once
Ollama serves the request, so a request that started in time is answered 408,
and its context is cancelled).

`UnansweredIsFree` says what costs nothing: a request that is given up (refused, timed
out, left by its client, withdrawn by a freeze, a removal or the shutdown, or whose
call failed) before Ollama has answered it is never charged afterwards, wherever the
processor was with it. The other side is what the code does: once Ollama has
answered, the request is billed, also when its caller has been told 408 or has
disconnected between the answer and the billing.

A cancellation misses an entry in `taken`: neither in the queue nor active.
The model has this; it is then served and charged. A request that is enqueued
after the queue was drained waits for its timeout, its client or for ever:
`EveryRequestReturns` ends where the shutdown begins.

### Fairness

Weak fairness of the processor and of each call that has begun: goroutines are
scheduled, a `queue_timeout` fires, and Ollama answers or the call ends by the
`RequestTimeout` of the client. None on the API or the clients:
`EveryRequestReturns` holds because the processor works off a finite number of
requests. With unlimited arrivals of higher bids a low bid may
wait for ever, which the code intends.

### Proofs

`QueueTypeCorrect` includes the capacity of the queue and that the processor
has an entry exactly while it serves one. It rests on lemmas about what
`Without`, `Sorted`, `Append` and `SubSeq` keep: range, length, distinctness.

`AnsweredOnce` is not inductive: that the processor's send is the first rests
on nobody else reaching the entry. `QueueInv` states for each request who can
still answer it (`EntryOK`): while it waits in the queue it is unanswered, its
call has not returned, and the processor does not have it; the processor's
entry is unanswered until it replies; before its call enqueues it nobody has
it; a charge goes with a success. `QueueCorrect` proves it inductive, for any
requests and containers, and `AnsweredAtMostOnce`, `WithdrawnStaysOut` and
`ReturnedIsRemoved` follow. `UnansweredStaysFree` adds that a request that is given
up and not answered stays so: an answer is only taken for the processor's entry with
a live context (`StaysUnanswered`). Assumed: `OllamaAssumption`
(each request has a container, bids and sizes are numbers).

`QueueImplementsBidQueue` is the refinement. A step of the processor that takes the
first entry must be a `Take` of the abstract queue, so the first must outrank
all others that wait. `OrderInv` adds to `QueueInv` that entries have arrived,
that bids are those set or the default, and `Ordered`: who is ahead in the queue
outranks those behind, by bid, or by arrival when the bids are equal and neither
was changed while it waited. `Append` and the stable sort keep it, and so does
removing entries. The other steps map to an abstract action or a stutter one by one.

## 5. Money (`Spending`)

### Correspondence

`call[k]` is one API call inside the proxy: `checked` after `proxyHandler` has
compared budget and spending (`CheckBudget`), `upstream` after the scopes were
looked at (`CheckScopes`), `ollama` after the queue's own check, which reads the
limit from the store and not the proxy's copy (`CheckOllama`), `persist` between
`AddSpending`'s unlock and the callback that writes the new total (`Persist`).
The total that a call persists is the one it saw under the lock. `worker[c]` is
the copying of the total at the end of a tick, in two steps, `stray` the ticks
of workers that `StopContainer` cancelled and did not wait for. `setup[c]` is
`handleRegister` between its store calls and the proxy's `RegisterContainer`,
`update[c]` a limit that is stored and not yet given to the proxy. `StoreRemove`
is one transaction: the row's usage goes to the accumulators of the host and the
segment. `ScopeSum` and `ScopeJudge` are a pass of the scope loop over one
scope. Merged, and named in the module's header: what the scope loop adds up, which
`Metering` has call by call; the limit and the spending that the Ollama queue reads
next to each other; and parts of a registration and of an unassignment, which
`Registry` keeps apart. `Restart` loses what is in memory and seeds the proxy as `main` does:
budgets and totals, and no scopes.

The proxy counts micro-cents, the store milli-cents. `Unit` of the first make
one of the second, and every conversion truncates.

Abstracted: what a call costs is one of a few amounts; prices, token counts, TLS
tunnels, provider routing and error reports are left out. An API call is billed
once or not at all, as in the code: it costs nothing when the response has no
usage in it.

### Runs

| Run | Question | Bounds | States |
|---|---|---|---|
| `spending` | Who is charged, and what does the store know? | seven worlds of one or two containers; two calls at a time; two micro-cents to a milli-cent; one restart | 1,021,622 |
| `segment_block` | violated: `SegmentBlocks` | one container in a segment, one call, one restart | |

Two calls are enough for totals to be persisted in the wrong order and for a
budget to be overshot; a third repeats the second. `Unit = 2` makes the
truncation visible. The worlds charge between one and six micro-cents, enough to
pass the budget and the scope limits.

`NeverOvercharged` compares the count of the proxy and the row with everything
that was ever charged, whatever the order of callbacks, ticks, registrations and
restarts. `OvershootBounded` bounds by how much calls in flight overshoot a
budget: by less than what as many calls as may be at a time can cost. It is
stated up to the first restart, as a restart seeds a lower total if the daemon
stopped between a charge and its callback, and for worlds where no container is
registered again: that, too, sets the proxy's count to the stored total, which may
be lower, and a later registration may raise it again while calls are under way
that were admitted in between. `AccountedOnce`: removing a container
counts nothing twice in the host's total; a container that comes back after its
removal has begun is excepted, as a late tick then writes the old total into
the new row. `StoreCatchesUp`: a stale row is repaired by the worker's copy.
`KillSwitch`: the host stays blocked when its total stays at the limit.

`segment_block` is a disagreement with `SEGMENTS.md:331`: the map from containers
to scopes is filled by registration and assignment alone, so after a restart the
segment is blocked and the calls of its containers go through.

### Fairness

Weak fairness of each worker's tick and of `ScopeJudge`: tickers tick. Strong
fairness of `ScopeSum` for each scope: the loop visits every scope in each pass,
so it is not one scope that is looked at for ever. None on calls: an upstream
may never answer.

### Proofs

`NobodyOvercharged` is `NeverOvercharged` for any containers, calls, costs,
limits, worlds and restarts. The property alone is not inductive, as a total is
copied from place to place before it is stored. `Billed` states for every place
that holds a total — the proxy's count, the row, the worker's and a late tick's
copy, a call on its way to the store, a registration's reading — that it is at
most what was charged; `charged` never falls, so a copy that waits stays right.
With the types of the remaining variables (`RestOK`) it gives `SpendingTypeCorrect`.

`HostAccountedOnce` is `AccountedOnce`. `KeptInv` adds to these that a container
with a call, or that was charged, was registered once, and `Kept`: the host's
accumulator is at most what was charged to the containers that are not registered
now. `StoreRemove` moves a row's usage there and the container out of the
registered ones in the same step; while containers come and do not come back,
the bound only grows.

`OvershootStaysBounded` is `OvershootBounded`. `OverInv` follows each container
from its registration (`FreshOK`: until that is through, every copy of its total
is at most the count, so registering it can only lower the count) and states
`Bounded`: the count and what the calls under way may still add stay below the
largest budget the container was admitted under plus what the calls together may
cost. A call that is admitted adds at most one share, and found the count below
the budget; a charge turns a share into count.

Assumed: `SpendingAssumption` (`Unit` is positive, amounts are numbers, and
there are finitely many containers, calls and costs: sums and the greatest cost
need it).

## 6. Limits and settings (`Limits`, `Config`)

### Correspondence

`req[h]` is a handler of `net/http`: `validate`, `list`, `sum`, `write`, `apply`
for `PUT` of a limit, `read` and `apply` for a registration, `copy` for a clone.
No lock is held between two calls of the store, so each is a step;
`sumContainerLimits` is one step per container and the accumulator is read last.
`Result` is what `set`, `increase` and `decrease` ask for, `Allowed` and `Judge`
what `keep_limits_consistent` makes of it: an increase that does not fit is
refused, a limit that is set is cut down. One limit type is modelled, spending,
as the proxy has a copy of it (`budget`); the others take the same path without
the copy.

A request's value may be below zero, as no handler checks its sign: a decrease by it
raises a limit and is not validated, an increase by it lowers the host's limit
likewise. Reads of the store that fail count as 0 (`ReadOf`), which switches the
validation off or starts a relative change from none; a write that fails ends the
request (`StoreFails`). Sums that overflow an `int64` are beyond the bounds
(`MaxLimit`) and not modelled.

`Config` adds `PUT /config` (`put[h]`), `PUT /providers` and the start of the
daemon (`loading`). The URL of Ollama is applied first and the other keys in any
order, as a Go map is walked; a key that is refused leaves those before it
applied. `persistConfig` reads the file, lays the request over it, truncates the
file and writes it: a crash between the last two leaves a file that is taken for
an empty one. A file that cannot be read is also taken for an empty one, so that the
other settings are overwritten; when it cannot be written, as a whole (`NotWritten`)
or in part (`WrittenInPart`), the request succeeds all the same. The first URL makes
the queue and turns Ollama's provider on (`ApplyKey`).

### Run

`config` (1,833,204 states): two containers, two handlers, limits from -2 to 2,
values -1, 1 and 2, in ten worlds: one request at a time with restarts, crashes,
refusals and changes of the mode; two at once; values below zero; failing calls of
the store; a `config.json` that cannot be read or written. Two handlers are enough to lose an update and to
let two limits that each fit exceed the host's together.

`KeepsConsistent`: with one request at a time, no clone, no increase of the host's
limit, no value below zero and no failing read, the limits together stay within the
host's, but for what removed containers had used beyond their own.
`EachWithinHost`: with any interleaving, but again no value below zero and no failing
read, none alone exceeds it. Without these conditions the code promises neither; see
`MCNegative.cfg` below. `BudgetIsLimit`, also with such values and failures: the proxy's copy is the stored limit once
no request is served for the container, unless two requests of it overlapped
(the one that stored last may be the one that applied first) or the proxy was not
told of the limit: a clone's, of which it learns at the next start, or one that could
not be read. `AcceptedInForce`: what a `PUT /config` answered with success is in
force afterwards and after a restart, when requests come one at a time, unless memory
was changed by a refused request or `PUT /providers`. Where reading or writing
`config.json` fails, the property says what remains: a setting that was not saved
(`unsaved`) holds until the daemon stops, and the settings of a file that stays whole
come back at a start that can read it.

Two instances beside the runs are refuted. `MCDurable.cfg` (`ConfigDurable`):
without these exceptions, settings do not all come back. Those of the queue are
loaded at start only if the queue exists by then, and an error at start leaves the
keys that follow. `MCNegative.cfg` (`WithinHostLimit`, which is README's
keep-limits-consistent mode, `src/README.md:164`): a `PUT` with a decrease by -1
raises a limit above the host's while the mode is on, as `handleLimits` checks no
sign and validates every operation but a decrease (`api.go:557`).

### Proofs

`ConfigTypeCorrect`: a setting of the wrong type never reaches the file: it
stays among the keys to be applied, as it is refused (`Checked`), and a file is
written when none is left. `LimitsStayWithinHost` is `EachWithinHost`: in a
world where the host's limit is constant, `RequestWithin` states for each
request that what it is about to write fits, and that the host's limit it has
read is the one that holds. `BudgetsFollowLimits` is `BudgetIsLimit`: `BudgetOK`
says that a container that was not overlapped has one request at most, that a
request about to tell the proxy carries the stored limit, and that where the two
differ a request is on its way to tell. Both hold for any containers, handlers,
integer amounts and worlds, from `LimitsAssumption` and `ConfigAssumption`
(containers are finitely many, amounts are integers); in worlds where values below
zero and failing reads may occur `EachWithinHost` asks nothing. What such worlds
exclude is a condition of the property, not an assumption of the model: `NoneBelow`
derives from it that no limit and no request is below zero.

`LimitsStayConsistent` is `KeepsConsistent`. While requests come one at a time
(`Calm`), `KeepInv` says of a request at each of its steps (`StepOK`): what it
has added up, with the limits it has still to add, is the sum of the other
limits; and what it is about to write fits under the host's limit with them. A
removal gives back a limit and adds a usage, and `overdrawn` grows by what is
over.

`AcceptedStaysInForce` is `AcceptedInForce`. While requests come one at a time,
without crashes, and either no setting has a wrong type or the mode is never
changed (`Traced`, the worlds of the property), `AcceptInv` says: the file agrees
with what was accepted, but for what is marked as unsaved, and unless it was cut
off; every accepted setting that is neither still to be loaded nor
just replaced by the request that is served is in force; of a request under way
(`PutOK`), what it has applied is in force, and only one that has not yet
applied the mode can be refused; and what is loaded at a start (`LoadOK`) was
accepted, and the mode is not refused, because `KeepInv` held when the daemon
stopped.

## 7. The registry (`Registry`)

### Correspondence

Four parts keep a copy of who is managed and where: the store (`registered`,
`segment`, `frozenRow`, `segments`, `scopeData`, `configured`), the manager
(`workers`, `frozenMem`), the proxy (`scopeOf`) and the server (`listening`,
`file`, `ipMap`). `req[h]` is a handler between two of its calls; its field `at`
names the next one: `row`, `copy`, `segment`, `scope`, `start` for registration
and clone, `stop`, `delete` for a removal, `check`, `segment`, `scope` for an
assignment, `limit` and `config` for those of a segment, `next`, `persist`,
`flag` for the freezing of one container or of all in a scope, `bind`, `keep`,
`close` for a scoped listener. A call of the store that fails ends the request,
or is logged by it, where the handler does so. `refreshIPs` is a step for the
list, one for each inspection, and one that replaces the map.

`INSERT OR REPLACE` of a registered container clears its segment and frozen
flag in the store (`StoreRow`); an `UPDATE` of a row that is gone does nothing
(`SetContainerSegment`, `PersistFrozen`); closing a unix listener unlinks its
path, whoever has bound it since (`CloseListener`). Removing a stale socket and
binding its path are one step (`Bind`); when the path cannot be bound the request
ends and the file that was there is gone (`BindFails`). A TCP address that cannot be
bound makes the handler panic, which `net/http` recovers (`api.go:2172`): the
request ends likewise.

The Docker calls of freezing and unfreezing are in `Enforcement`.

### Run

`registry` (2,154,161 states): ten worlds with two containers, two segments, two
addresses, three listeners of which two want the same socket, and two handlers.
Two requests at a time meet every pair of half-done requests; a third would only
meet the same halves. Two segments let a container change from one to the other.

Each property says where the copies may differ, and the run that they differ
nowhere else. `WorkersMatchRows`: a row has a worker and a worker a row, but
while a request is in between, after one that failed half-way, or after two at
once. `SegmentsSound`: a row names a segment that is there, and limits and usage
are kept only of such, unless the segment was deleted while a request that had
found it was served. `CopiesAgree`: scope and frozen flag are the same
everywhere, except after two requests at once, a restart (which forgets the
proxy's scopes) and a registration that replaced the row. `ListenersReachable`:
a listener that is kept is the one its path leads to, unless two had the path.
`AddressOwner`: an entry of the address map is stale only for a container that
moved after the refresh that made the map began.

### Proofs

All five and the types are proved for any containers, segments, listeners,
handlers and worlds, from `RegistryAssumption`. `SegInv`: a row that is gone has
no segment; a request that found a segment still finds it or it is in `raced`.
`AddressInv`: what the refresh in progress has found is right for what did not
move since it began, and that includes everything that did not move since the
last. `ListenInv`: a listener is in the hands of one request or in the map, and
two that are open at one path have clashed. `RowInv` serves both `WorkersOfRows`
and `CopiesStayEqual`: for a container that was not overlapped it says which
half of a change its only request is in (`RowOK`), and for each row that it has
a worker, or a request that starts one, or is in `abandoned` (`Served`).

## 8. The event bus (`EventStreams`, `EventBus`)

### Correspondence

`Publish` takes the read lock and an event, `Send(p, s)` is one iteration of the
loop over the subscribers (a `select` with a default: full means dropped) and
`RUnlock` its end. `Subscribe` and `Unsubscribe` need the write lock, so no
publisher inside (`NoReader`). `handler[s]` is `handleEvents` of client `s`,
`closeCh` what its read goroutine signals, `client[s]` the client: the `events`
command of `ddl`, which reads, stalls or leaves.

`EventStreams` is the promise in the comments of `events.go`: while a stream is
open it is owed each event it wants, each publisher's in order; an event is put
in line or, when the line is full, lost; a stream is not closed while it is owed
something. The mapping of `EventBus`: the streams that are open are the
subscribers, a line is a channel, and owed is the event of a publisher inside
`Publish` that has not yet visited the subscriber.

### Run and fairness

`events` (63,698 states): two clients, one of which may stall, two publishers, three
events, room for two in a channel, so that events wait in line and one more
is dropped; clients come back any number of times. `ImplementsStreams`;
`PublishersReturn` (whatever clients do, a publisher is done in the end);
`HandlersLeave` (a handler ends when its client has gone or the server stops,
unless the client is there and does not read: a write has no deadline).

Weak fairness of a publisher's loop, a handler's steps and its read goroutine:
goroutines are scheduled. Strong fairness of `HandleLocked`: Go's `RWMutex` lets
no new reader in while a writer waits, so a writer gets the lock although
publishers come and go. Strong fairness of `SeeDone`: `select` picks a ready
case at random. None on clients, `Stop`, or publishing.

### Proofs

`BusTypeCorrect`, and `BusImplementsStreams`: `Spec => Streams!Spec`, for any
clients, publishers, filters and buffer size. It needs that the clients whose
handler is past `Subscribe` are the subscribers, and that those a publisher has
still to visit are subscribed: the read lock keeps them (`BusInv`). Then each step
maps to a step of the streams or a stutter: a visit to a subscriber that does
not want the event changes neither its line nor what it is owed.

## 9. Metering (`Metering`)

A tick of a worker reads the limits (`Tick`), samples the cpu counter of its
container's cgroup (`Sample`) and stores it (`Persist`); the counter is kept in
`Unit`s of a second and truncated. `Stop` waits for no tick: one that is under way
goes on (`stray`), may take its sample only now (`StraySample`) and writes it, even
when the row is gone (`StrayPersist`).
`RemoveContainer` moves the usage to the accumulator in one transaction.
`report` is whoever adds up a total: one call for the list, one per container,
the accumulator last, while everything else goes on.

`metering` (7,608,885 states): two containers, two units to a second, four used,
three registrations. `CountedOnce`: what a worker stored is in the total exactly
once, before and after the removal, whatever a late tick writes; a container
that Docker restarted or that is registered again is excepted, as its counter
starts again or goes on from where it was. `ReportSound`: a total that is added
up call by call is not less than the total was when it began, and exceeds the
one at its end by no more than what was moved or written late meanwhile.

`MeasuredCountedOnce` proves the first for any containers and bounds. `MeterInv`
says of each container that it has a worker only while its row is there and no
late tick while it has one (in its first life), that nothing stored or to be
stored exceeds what was used, and that a late tick writes no less than what is
stored of a container whose row is there, so that it brings the row up to date or
writes where nothing counts it.

`ReportsAreSound` proves the second. `ReportInv`: what the report has added,
with what it has still to add (`Pending`: the rows of the others and the
accumulator), is at least the total at its beginning and at most the total now
plus what has gone since. Every step moves terms between these sums; that a late
tick writes no less than the row has (`Recent`) keeps the total from falling, and
`gone` counts what it writes of a container that is removed.

Assumed: `MeteringAssumption` (`Unit` is positive, containers are finitely many).

## 10. What the models show of the code

Besides the two disagreements with the documentation (`levels`, `segment_block`)
and the one of `MCNegative.cfg` (a decrease by a negative value passes the host's
limit), the models contain the following, which a maintainer may want to know:

- The configuration of a segment survives its deletion; a segment that is
  created with the same id later has it (`store.go:555`).
- The proxy learns of a clone at the next start only (`api.go:699`).
- A container that a scope paused before a restart, without a pause limit of its
  own, is resumed by nobody; likewise one whose limit is removed while enforced.
- Registering a container again continues its cpu counter, so what was
  accumulated at its removal is counted again.
- A tick that outlives its worker makes a usage row for a container that is gone.
- A resource of a container without a limit of its own is not sampled and is
  missing from the totals of its scopes.
- After a restart `keep_limits_consistent` may be refused, when the limits
  together have come to exceed the host's.
- Reads of the store that fail are taken for 0 when limits are validated, and a
  `PUT /config` whose file could not be written is answered 200.
- An answer of Ollama is billed whatever its status, and also when its caller has
  been answered 408 since.
- Two requests of one container may be in the queue at once, and a queue timeout
  also ends a request that is being served.

## 11. Only model-checked, and not modelled

Only by TLC: liveness (`OverLimitStops`, `UnderLimitsResume`, `ScopeOverStops`,
`ScopeUnderResumes`, `EveryRequestReturns`, `StoreCatchesUp`, `KillSwitch`,
`PublishersReturn`, `HandlersLeave`), as fairness and ENABLED are beyond TLAPS.
Every other property of a passing run is the statement of a theorem:
`EnforcedIsPaused`, `ScopeHolds` and `AllLevelsRelease` under the hypotheses of
section 3, all others with the conditions that the property itself states.

Sums are folds of the community modules. Their recursive function on sets is
characterised in `SumLemmas` without the library's induction theorems, which take
an operator: a finite set for which a fact fails has a smallest subset for which it
fails (`SmallestSet`), and there the fact is shown to hold. The facts the proofs
cite are about taking an element out (`SumTake`), changing one term (`SumChange`),
comparing terms (`SumMonotone`) and splitting a set (`SumSplit`).

Not modelled:

- prices and token counts, provider routing, TLS tunnels, and the reporting of
  provider errors in the proxy: parsing, tables and I/O;
- the detection of sleep and the arithmetic of byte-second sources in the
  manager, the meters for memory and I/O, the lookup of network interfaces;
- routing, read-only handlers, self-service by address and webhooks of the API;
- sums and limits that overflow an `int64`;
- the SQL of the store, its migration and its lookup by name or prefix;
- restoring bids at start, changes of the queue's size and timeout at run time;
- the commands of `ddl` but for `events`, the dashboard, `ddl-guest`: clients
  without state that matters to the daemon;
- Docker and cgroup I/O beyond its effect and its errors.
