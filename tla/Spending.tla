------------------------------ MODULE Spending ------------------------------
(***************************************************************************)
(* The money path: the spending proxy (internal/proxy), the usage rows and  *)
(* the accumulators of the store, the worker that copies spending into the  *)
(* store, the scope loop that blocks spending, registration and removal of  *)
(* a container, and the restart of the daemon.                              *)
(*                                                                         *)
(* The proxy counts in micro-cents and everything else in milli-cents: Unit *)
(* micro-cents are one milli-cent.  A usage row that is absent counts as 0, *)
(* as it does in GetUsage.  Every lock region of the proxy and every call   *)
(* of the store is one action, with these exceptions.  One action each are  *)
(* what handleRegister stores before it reads the limit and the usage, those *)
(* two reads, and what an unassignment writes: the registry keeps their      *)
(* parts apart.  The scope loop lists the members and adds up their usage in *)
(* one, as Metering does call by call.  And the queue of Ollama requests     *)
(* reads the limit and, next to it, the spending in one.                    *)
(***************************************************************************)
EXTENDS Naturals, FiniteSets, Functions, FiniteSetsExt

CONSTANTS
    Containers,
    Segments,
    Host,          \* the host scope
    None,          \* no segment
    Calls,         \* the API calls that may be in the proxy at a time
    Unit,          \* micro-cents in a milli-cent
    Costs,         \* what a response may cost, in micro-cents
    OllamaCosts,   \* what an inference may cost, in milli-cents
    Budgets,       \* the spending limits that may be set, 0 is no limit
    ScopeLimit,    \* the spending limit of each scope, 0 is no limit
    \* Bounds on the environment
    MaxRestarts,   \* how often the daemon may be restarted
    Worlds         \* whom a behaviour is about, what may happen in it, and the
                   \* most that is charged in it

Scopes == Segments \cup {Host}

\* What a world may have: requests to Ollama, limits, containers that are registered
\* when they are or were already, removals, scope limits, unassignments, restarts.
Happenings == {"ollama", "limit", "again", "remove", "scope", "unassign", "restart"}

ASSUME SpendingAssumption ==
    /\ Unit \in Nat \ {0}
    /\ Costs \subseteq Nat /\ OllamaCosts \subseteq Nat /\ Budgets \subseteq Nat
    /\ ScopeLimit \in [Scopes -> Nat]
    /\ Host \notin Segments /\ None \notin Scopes
    /\ MaxRestarts \in Nat
    /\ IsFiniteSet(Containers) /\ IsFiniteSet(Calls) /\ IsFiniteSet(Costs) /\ IsFiniteSet(OllamaCosts)
    /\ Worlds \subseteq [who : SUBSET Containers, may : SUBSET Happenings, most : Nat]

VARIABLES
    \* SpendingTracker
    spending,      \* micro-cents charged to each container
    budgets,       \* its budget in micro-cents
    blocked,       \* scopeSpendingBlocked
    scopeOf,       \* containerScopes
    \* the store
    registered,    \* rows of containers
    segment,       \* their segment_id
    limit,         \* the spending limit of each container
    usage,         \* the spending usage of each container
    accum,         \* scope_usage_accum for spending
    \* control
    call,          \* where each API call is
    worker,        \* the step of each container's enforcement worker
    stray,         \* ticks of workers that were stopped
    setup,         \* the step of each container's registration
    update,        \* a limit that is stored and not yet given to the proxy
    removing,      \* containers whose worker is stopped and that are to be deleted
    summed,        \* the total the scope loop has read, and for which scope
    \* auxiliary: read by no guard but those of the bounds, and gone by Addressed
    charged,       \* everything ever charged to each container
    again,         \* a container whose removal had begun was registered
    gone,          \* the containers whose removal has begun
    allowance,     \* the largest budget a call of the container was admitted under
    world,         \* what may happen
    restarts

proxyVars == <<spending, budgets, blocked, scopeOf>>
storeVars == <<registered, segment, limit, usage, accum>>
controlVars == <<call, worker, stray, setup, update, removing, summed>>
auxVars == <<charged, again, gone, allowance, world, restarts>>
vars == <<proxyVars, storeVars, controlVars, auxVars>>

Micro(milli) == milli * Unit
Milli(micro) == micro \div Unit

NoCall == [at |-> "none", c |-> None, total |-> 0]
Nothing == [at |-> "none", value |-> 0]
NoTotal == [scope |-> None, value |-> 0]

Init ==
    /\ spending = [c \in Containers |-> 0]
    /\ budgets = [c \in Containers |-> 0]
    /\ blocked = {}
    /\ scopeOf = [c \in Containers |-> None]
    /\ registered = {}
    /\ segment = [c \in Containers |-> None]
    /\ limit = [c \in Containers |-> 0]
    /\ usage = [c \in Containers |-> 0]
    /\ accum = [s \in Scopes |-> 0]
    /\ call = [k \in Calls |-> NoCall]
    /\ worker = [c \in Containers |-> Nothing]
    /\ stray = {}
    /\ setup = [c \in Containers |-> [at |-> "none", budget |-> 0, spent |-> 0]]
    /\ update = [c \in Containers |-> Nothing]
    /\ removing = {}
    /\ summed = NoTotal
    /\ charged = [c \in Containers |-> 0]
    /\ again = FALSE
    /\ gone = {}
    /\ allowance = [c \in Containers |-> 0]
    /\ world \in Worlds
    /\ restarts = 0

-----------------------------------------------------------------------------
(* Calls of the store. *)

SetUsage(c, milli) == usage' = [usage EXCEPT ![c] = milli]

\* Mutant: the usage is accumulated and the rows are not deleted.
StoreRemoveKeepingRows(c) ==
    /\ accum' = [s \in Scopes |->
                    IF s \in {Host, segment[c]} THEN accum[s] + usage[c] ELSE accum[s]]
    /\ UNCHANGED <<usage, limit, segment, registered>>

\* Mutant: the usage is taken from the accumulators.
StoreRemoveSubtracting(c) ==
    /\ accum' = [s \in Scopes |->
                    IF s \in {Host, segment[c]} THEN accum[s] - usage[c] ELSE accum[s]]
    /\ usage' = [usage EXCEPT ![c] = 0]
    /\ limit' = [limit EXCEPT ![c] = 0]
    /\ segment' = [segment EXCEPT ![c] = None]
    /\ registered' = registered \ {c}

\* RemoveContainer: the usage moves to the accumulators of the host and the segment.
StoreRemove(c) ==
    /\ accum' = [s \in Scopes |->
                    IF s \in {Host, segment[c]} THEN accum[s] + usage[c] ELSE accum[s]]
    /\ usage' = [usage EXCEPT ![c] = 0]
    /\ limit' = [limit EXCEPT ![c] = 0]
    /\ segment' = [segment EXCEPT ![c] = None]
    /\ registered' = registered \ {c}

Members(s) == IF s = Host THEN registered ELSE {c \in registered : segment[c] = s}

UsageOf(C) == SumFunctionOnSet(usage, C)

-----------------------------------------------------------------------------
(* A call of a tracked API through the proxy. *)

CallAt(k, label) == call' = [call EXCEPT ![k].at = label]
NoLongerCalling(k) == call' = [call EXCEPT ![k] = NoCall]

Admitted(c, budget) ==
    allowance' = [allowance EXCEPT ![c] = IF budget > @ THEN budget ELSE @]

\* The containers that resolveByIP may find: those registered, and for a few
\* seconds those that were removed.
Addressed == registered \cup gone

\* Mutant: a container may spend a little more than its budget.
OverBudgetByMore(c) == budgets[c] > 0 /\ spending[c] > budgets[c] + Unit

OverBudget(c) == budgets[c] > 0 /\ spending[c] >= budgets[c]

\* proxyHandler reads budget and spending under one lock.
CheckBudget(k, c) ==
    /\ call[k] = NoCall
    /\ c \in Addressed
    /\ ~OverBudget(c)
    /\ call' = [call EXCEPT ![k] = [NoCall EXCEPT !.at = "checked", !.c = c]]
    /\ Admitted(c, IF budgets[c] = 0 THEN world.most ELSE budgets[c])
    /\ UNCHANGED <<proxyVars, storeVars, worker, stray, setup, update, removing, summed>>
    /\ UNCHANGED <<charged, again, gone, world, restarts>>

isScopeSpendingBlocked(c) == Host \in blocked \/ scopeOf[c] \in blocked

\* The scopes are looked at under another lock, then the call goes upstream.
CheckScopes(k) ==
    /\ call[k].at = "checked"
    /\ IF isScopeSpendingBlocked(call[k].c) THEN NoLongerCalling(k) ELSE CallAt(k, "upstream")
    /\ UNCHANGED <<proxyVars, storeVars, worker, stray, setup, update, removing, summed, auxVars>>

\* The queue of Ollama requests reads the limit from the store, and the spending.
CheckOllama(k, c) ==
    /\ call[k] = NoCall
    /\ "ollama" \in world.may
    /\ c \in Addressed
    /\ ~(limit[c] > 0 /\ Milli(spending[c]) >= limit[c])
    /\ call' = [call EXCEPT ![k] = [NoCall EXCEPT !.at = "ollama", !.c = c]]
    /\ Admitted(c, IF limit[c] = 0 THEN world.most ELSE Micro(limit[c]))
    /\ UNCHANGED <<proxyVars, storeVars, worker, stray, setup, update, removing, summed>>
    /\ UNCHANGED <<charged, again, gone, world, restarts>>

TotalCharged == SumFunctionOnSet(charged, Containers)

\* Mutant: the total passed on is the one before this charge, in micro-cents.
ChargeUnconverted(k, micro) ==
    LET c == call[k].c IN
    /\ spending' = [spending EXCEPT ![c] = @ + micro]
    /\ charged' = [charged EXCEPT ![c] = @ + micro]
    /\ call' = [call EXCEPT ![k] = [at |-> "persist", c |-> c, total |-> spending[c] + micro]]

Charge(k, micro) ==
    LET c == call[k].c IN
    /\ spending' = [spending EXCEPT ![c] = @ + micro]
    /\ charged' = [charged EXCEPT ![c] = @ + micro]
    /\ call' = [call EXCEPT ![k] = [at |-> "persist", c |-> c, total |-> Milli(spending[c] + micro)]]

\* The response is parsed and charged; the total is passed on after the unlock.
Respond(k, cost) ==
    /\ call[k].at = "upstream"
    /\ cost > 0
    /\ TotalCharged + cost <= world.most
    /\ Charge(k, cost)
    /\ UNCHANGED <<budgets, blocked, scopeOf, storeVars, worker, stray, setup, update, removing, summed>>
    /\ UNCHANGED <<again, gone, allowance, world, restarts>>

\* AddSpending for the wall-clock time of an inference.
Bill(k, cost) ==
    /\ call[k].at = "ollama"
    /\ cost > 0
    /\ TotalCharged + Micro(cost) <= world.most
    /\ Charge(k, Micro(cost))
    /\ UNCHANGED <<budgets, blocked, scopeOf, storeVars, worker, stray, setup, update, removing, summed>>
    /\ UNCHANGED <<again, gone, allowance, world, restarts>>

\* The provider fails, or the response has no usage in it.
Free(k) ==
    /\ call[k].at \in {"upstream", "ollama"}
    /\ NoLongerCalling(k)
    /\ UNCHANGED <<proxyVars, storeVars, worker, stray, setup, update, removing, summed, auxVars>>

\* onSpendingUpdate, called without a lock.
Persist(k) ==
    /\ call[k].at = "persist"
    /\ SetUsage(call[k].c, call[k].total)
    /\ NoLongerCalling(k)
    /\ UNCHANGED <<proxyVars, registered, segment, limit, accum>>
    /\ UNCHANGED <<worker, stray, setup, update, removing, summed, auxVars>>

-----------------------------------------------------------------------------
(* The worker of a container, and a tick that outlives it. *)

WorkerAt(c, w) == worker' = [worker EXCEPT ![c] = w]

\* Mutant: usage is only refreshed for containers with a limit.
TickReadWithLimit(c) ==
    /\ worker[c].at = "idle"
    /\ limit[c] > 0
    /\ WorkerAt(c, [at |-> "write", value |-> Milli(spending[c])])
    /\ UNCHANGED <<proxyVars, storeVars, call, stray, setup, update, removing, summed, auxVars>>

\* In a tick of a running container that is not frozen: getCurrentUsage when there
\* is a limit, and the copy made at the end of each tick.
TickRead(c) ==
    /\ worker[c].at = "idle"
    /\ limit[c] > 0 \/ Milli(spending[c]) > 0
    /\ WorkerAt(c, [at |-> "write", value |-> Milli(spending[c])])
    /\ UNCHANGED <<proxyVars, storeVars, call, stray, setup, update, removing, summed, auxVars>>

TickWrite(c) ==
    /\ worker[c].at = "write"
    /\ SetUsage(c, worker[c].value)
    /\ WorkerAt(c, [at |-> "idle", value |-> 0])
    /\ UNCHANGED <<proxyVars, registered, segment, limit, accum>>
    /\ UNCHANGED <<call, stray, setup, update, removing, summed, auxVars>>

\* StopContainer cancels the worker's context and does not wait for it: a tick may
\* be past the check that the container runs, or have read what it is to write.
InFlight(c) == CASE worker[c].at = "none"  -> {}
                 [] worker[c].at = "idle"  -> {[at |-> "begun", value |-> 0]}
                 [] worker[c].at = "write" -> {worker[c]}

StrayRead(t) ==
    /\ t.at = "begun"
    /\ stray' = (stray \ {t}) \cup
                (IF Milli(spending[t.c]) > 0
                 THEN {[c |-> t.c, at |-> "write", value |-> Milli(spending[t.c])]} ELSE {})
    /\ UNCHANGED <<proxyVars, storeVars, call, worker, setup, update, removing, summed, auxVars>>

StrayWrite(t) ==
    /\ t.at = "write"
    /\ SetUsage(t.c, t.value)
    /\ stray' = stray \ {t}
    /\ UNCHANGED <<proxyVars, registered, segment, limit, accum>>
    /\ UNCHANGED <<call, worker, setup, update, removing, summed, auxVars>>

-----------------------------------------------------------------------------
(* handleRegister, of a new container or of one that is registered. *)

SetupAt(c, label) == setup' = [setup EXCEPT ![c].at = label]

\* INSERT OR REPLACE: the row of a container that is registered loses its segment.
RegisterStore(c, s) ==
    /\ setup[c].at = "none"
    /\ c \in world.who
    /\ c \in registered \cup gone => "again" \in world.may
    /\ registered' = registered \cup {c}
    /\ segment' = [segment EXCEPT ![c] = s]
    /\ scopeOf' = IF s = None THEN scopeOf ELSE [scopeOf EXCEPT ![c] = s]
    /\ worker' = [worker EXCEPT ![c] = IF @.at = "none" THEN [at |-> "idle", value |-> 0] ELSE @]
    /\ SetupAt(c, "stored")
    /\ again' = (again \/ c \in gone)
    /\ UNCHANGED <<spending, budgets, blocked, limit, usage, accum>>
    /\ UNCHANGED <<call, stray, update, removing, summed, charged, gone, allowance, world, restarts>>

RegisterRead(c) ==
    /\ setup[c].at = "stored"
    /\ setup' = [setup EXCEPT ![c] = [at |-> "read", budget |-> limit[c], spent |-> usage[c]]]
    /\ UNCHANGED <<proxyVars, storeVars, call, worker, stray, update, removing, summed, auxVars>>

\* Mutant: what was spent before is added to what is counted.
RegisterProxyAdding(c) ==
    /\ setup[c].at = "read"
    /\ spending' = [spending EXCEPT ![c] = @ + Micro(setup[c].spent)]
    /\ budgets' = [budgets EXCEPT ![c] = Micro(setup[c].budget)]
    /\ SetupAt(c, "none")
    /\ UNCHANGED <<blocked, scopeOf, storeVars, call, worker, stray, update, removing, summed, auxVars>>

RegisterProxy(c) ==
    /\ setup[c].at = "read"
    /\ spending' = [spending EXCEPT ![c] = Micro(setup[c].spent)]
    /\ budgets' = [budgets EXCEPT ![c] = Micro(setup[c].budget)]
    /\ SetupAt(c, "none")
    /\ UNCHANGED <<blocked, scopeOf, storeVars, call, worker, stray, update, removing, summed, auxVars>>

-----------------------------------------------------------------------------
(* Limits and removal. *)

\* handleLimits stores the limit, then hands it to the proxy.
LimitStore(c, b) ==
    /\ "limit" \in world.may
    /\ c \in registered
    /\ update[c].at = "none"
    /\ limit' = [limit EXCEPT ![c] = b]
    /\ update' = [update EXCEPT ![c] = [at |-> "stored", value |-> b]]
    /\ UNCHANGED <<proxyVars, registered, segment, usage, accum>>
    /\ UNCHANGED <<call, worker, stray, setup, removing, summed, auxVars>>

UpdateBudget(c) ==
    /\ update[c].at = "stored"
    /\ budgets' = [budgets EXCEPT ![c] = Micro(update[c].value)]
    /\ update' = [update EXCEPT ![c] = Nothing]
    /\ UNCHANGED <<spending, blocked, scopeOf, storeVars>>
    /\ UNCHANGED <<call, worker, stray, setup, removing, summed, auxVars>>

\* handleSegmentUnassign: the container's usage leaves the segment with it.
Unassign(c) ==
    /\ "unassign" \in world.may
    /\ c \in registered /\ segment[c] # None
    /\ segment' = [segment EXCEPT ![c] = None]
    /\ scopeOf' = [scopeOf EXCEPT ![c] = Host]
    /\ UNCHANGED <<spending, budgets, blocked, registered, limit, usage, accum, controlVars, auxVars>>

\* The proxy keeps the spending, the budget and the scope of a removed container.
RemoveStop(c) ==
    /\ "remove" \in world.may
    /\ c \in registered \ gone
    /\ removing' = removing \cup {c}
    /\ worker' = [worker EXCEPT ![c] = Nothing]
    /\ stray' \in {stray \cup {[c |-> c, at |-> w.at, value |-> w.value]} : w \in InFlight(c)} \cup
                  (IF worker[c].at = "write" THEN {} ELSE {stray})
    /\ gone' = gone \cup {c}
    /\ UNCHANGED <<proxyVars, storeVars, call, setup, update, summed>>
    /\ UNCHANGED <<charged, again, allowance, world, restarts>>

Remove(c) ==
    /\ c \in removing
    /\ StoreRemove(c)
    /\ removing' = removing \ {c}
    /\ UNCHANGED <<proxyVars, call, worker, stray, setup, update, summed, auxVars>>

-----------------------------------------------------------------------------
(* The scope loop: usage of the members, then the accumulator and the verdict. *)

ScopeSum(s) ==
    /\ summed = NoTotal
    /\ "scope" \in world.may /\ ScopeLimit[s] > 0
    /\ summed' = [scope |-> s, value |-> UsageOf(Members(s))]
    /\ UNCHANGED <<proxyVars, storeVars, call, worker, stray, setup, update, removing, auxVars>>

\* Mutant: the usage of removed containers is forgotten.
ScopeExceededByMembers(s, total) == total >= ScopeLimit[s]

ScopeExceeded(s, total) == total + accum[s] >= ScopeLimit[s]

\* scopeEnforced of the manager and the proxy's flag change together.
ScopeJudge ==
    /\ summed # NoTotal
    /\ blocked' = IF ScopeExceeded(summed.scope, summed.value)
                  THEN blocked \cup {summed.scope} ELSE blocked \ {summed.scope}
    /\ summed' = NoTotal
    /\ UNCHANGED <<spending, budgets, scopeOf, storeVars>>
    /\ UNCHANGED <<call, worker, stray, setup, update, removing, auxVars>>

-----------------------------------------------------------------------------
(* main: what is only in memory is lost, and each row gets its proxy entry again. *)
Restart ==
    /\ "restart" \in world.may
    /\ restarts < MaxRestarts
    /\ spending' = [c \in Containers |-> IF c \in registered THEN Micro(usage[c]) ELSE 0]
    /\ budgets' = [c \in Containers |-> IF c \in registered THEN Micro(limit[c]) ELSE 0]
    /\ blocked' = {}
    /\ scopeOf' = [c \in Containers |-> None]
    /\ call' = [k \in Calls |-> NoCall]
    /\ worker' = [c \in Containers |-> IF c \in registered THEN [at |-> "idle", value |-> 0] ELSE Nothing]
    /\ stray' = {}
    /\ setup' = [c \in Containers |-> [at |-> "none", budget |-> 0, spent |-> 0]]
    /\ update' = [c \in Containers |-> Nothing]
    /\ removing' = {}
    /\ summed' = NoTotal
    /\ restarts' = restarts + 1
    /\ UNCHANGED <<storeVars, charged, again, gone, allowance, world>>

Proxy(k) ==
    \/ \E c \in Containers : CheckBudget(k, c) \/ CheckOllama(k, c)
    \/ CheckScopes(k) \/ Free(k) \/ Persist(k)
    \/ \E cost \in Costs : Respond(k, cost)
    \/ \E cost \in OllamaCosts : Bill(k, cost)

Worker(c) == TickRead(c) \/ TickWrite(c)

Admin(c) ==
    \/ \E s \in Segments \cup {None} : RegisterStore(c, s)
    \/ RegisterRead(c) \/ RegisterProxy(c)
    \/ \E b \in Budgets : LimitStore(c, b)
    \/ UpdateBudget(c) \/ Unassign(c) \/ RemoveStop(c) \/ Remove(c)

Next ==
    \/ \E k \in Calls : Proxy(k)
    \/ \E c \in Containers : Worker(c) \/ Admin(c)
    \/ \E t \in stray : StrayRead(t) \/ StrayWrite(t)
    \/ \E s \in Scopes : ScopeSum(s)
    \/ ScopeJudge
    \/ Restart

\* The tickers of the workers and of the scope loop do not stop, and the scope loop
\* visits every scope in turn.
Fairness ==
    /\ \A c \in Containers : WF_vars(Worker(c))
    /\ WF_vars(ScopeJudge)
    /\ \A s \in Scopes : SF_vars(ScopeSum(s))

Spec == Init /\ [][Next]_vars
FairSpec == Spec /\ Fairness

-----------------------------------------------------------------------------
(* Properties. *)

TypeOK ==
    /\ spending \in [Containers -> Nat] /\ budgets \in [Containers -> Nat]
    /\ blocked \subseteq Scopes
    /\ scopeOf \in [Containers -> Scopes \cup {None}]
    /\ registered \subseteq Containers
    /\ segment \in [Containers -> Segments \cup {None}]
    /\ limit \in [Containers -> Nat] /\ usage \in [Containers -> Nat]
    /\ accum \in [Scopes -> Nat]
    /\ call \in [Calls -> [at : {"none", "checked", "upstream", "ollama", "persist"},
                           c : Containers \cup {None}, total : Nat]]
    /\ \A k \in Calls : call[k].at # "none" => call[k].c \in Containers
    /\ worker \in [Containers -> [at : {"none", "idle", "write"}, value : Nat]]
    /\ stray \subseteq [c : Containers, at : {"begun", "write"}, value : Nat]
    /\ setup \in [Containers -> [at : {"none", "stored", "read"}, budget : Nat, spent : Nat]]
    /\ update \in [Containers -> [at : {"none", "stored"}, value : Nat]]
    /\ removing \subseteq Containers
    /\ summed \in [scope : Scopes \cup {None}, value : Nat]
    /\ charged \in [Containers -> Nat] /\ allowance \in [Containers -> Nat]
    /\ again \in BOOLEAN /\ gone \subseteq Containers /\ world \in Worlds /\ restarts \in Nat

\* Nobody pays for more than was used: neither the proxy's count nor the stored row
\* of a container is ever above what its calls cost, whatever order totals are
\* persisted, copied by the worker and restored in.
NeverOvercharged ==
    \A c \in Containers : spending[c] <= charged[c] /\ Micro(usage[c]) <= charged[c]

\* The budget is checked before a call and charged after it (proxyHandler): a
\* container spends beyond the largest budget it was admitted under by less than
\* what as many calls as there may be at a time can cost; unless it is registered
\* again or the daemon restarted, when the proxy counts on from what was stored by then.
MaxCost == Max(Costs \cup {Micro(m) : m \in OllamaCosts})
OvershootBounded ==
    \A c \in Containers :
        charged[c] > 0 /\ restarts = 0 /\ "again" \notin world.may =>
            spending[c] < allowance[c] + Cardinality(Calls) * MaxCost

Total(s) == UsageOf(Members(s)) + accum[s]

\* RemoveContainer moves usage to the host's accumulator and nothing is counted
\* twice there, as long as no container comes back after its removal has begun.
AccountedOnce == ~again => Micro(Total(Host)) <= TotalCharged

\* A stale total in the store is repaired by the worker's copy at the end of each
\* tick: once nothing else writes it, the row of a running container is exact.
Quiet(c) ==
    /\ c \in registered \ removing
    /\ worker[c].at # "none" /\ setup[c].at = "none"
    /\ \A k \in Calls : call[k].c # c
    /\ \A t \in stray : t.c # c
StoreCatchesUp ==
    \A c \in Containers :
        <>[]Quiet(c) => <>[](Milli(spending[c]) = 0 \/ usage[c] = Milli(spending[c]))

\* The scope loop blocks the spending of the host when its total stays at the limit.
KillSwitch ==
    <>[](/\ "scope" \in world.may
         /\ ScopeLimit[Host] > 0
         /\ Total(Host) >= ScopeLimit[Host])
        => <>[](Host \in blocked)

\* SEGMENTS.md: when the segment's limit is exceeded, all proxy API calls for
\* its containers are refused.
SegmentBlocks ==
    [][\A k \in Calls, s \in Segments :
            (call[k].at = "checked" /\ call'[k].at = "upstream" /\ segment[call[k].c] = s)
                => s \notin blocked]_vars
=============================================================================
