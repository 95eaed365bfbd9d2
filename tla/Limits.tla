------------------------------- MODULE Limits -------------------------------
(***************************************************************************)
(* Setting limits through the HTTP API (internal/api): a container's limit, *)
(* the host's, cloning, registering and removing containers, with the mode  *)
(* keep_limits_consistent.  One type of limit is modelled, the spending     *)
(* limit, which the proxy keeps a copy of.                                  *)
(*                                                                         *)
(* net/http runs every request in a goroutine of its own and no lock is     *)
(* held from one call of the store to the next, so each call of the store   *)
(* or of the proxy is one action, in the order of the handler.              *)
(*                                                                         *)
(* A request's value is a number of either sign: the handlers check no sign. *)
(* Of a read of the store that fails the handlers take 0 for what they read; *)
(* a write that fails ends the request.  Sums that overflow an int64 are     *)
(* beyond the bound MaxLimit.                                               *)
(***************************************************************************)
EXTENDS Integers, FiniteSets, FiniteSetsExt, Functions

CONSTANTS
    Containers,
    None,          \* no container
    Handlers,      \* the goroutines that serve requests
    Amounts,       \* the values of requests, of either sign
    \* Bounds on the environment
    MaxLimit,      \* the furthest limit from none
    MaxUsage,      \* the most a container spends
    Worlds         \* what may happen in a behaviour, and how it starts

\* What a world may have: several requests at once, changes of the host's limit, its
\* increase, clones, registrations, removals, restarts, changes of the mode, settings,
\* a provider's switch, the Ollama URL, settings that are refused, crashes; values below
\* zero, calls of the store that fail, a config.json that cannot be read or written.
Happenings == {"together", "host", "grow", "clone", "register", "remove", "restart",
               "mode", "plain", "switch", "url", "refuse", "crash",
               "negative", "fail", "badfile"}

ASSUME LimitsAssumption ==
    /\ None \notin Containers /\ IsFiniteSet(Containers)
    /\ Amounts \subseteq Int /\ MaxLimit \in Nat /\ MaxUsage \in Nat
    /\ Worlds \subseteq [may : SUBSET Happenings, managed : SUBSET Containers,
                         keep : BOOLEAN, host : 0 .. MaxLimit]

VARIABLES
    \* the store
    registered,    \* the rows of containers
    limit,         \* the limit of each container, 0 is none
    usage,         \* the usage of each container
    hostLimit,     \* the host's limit, 0 is none
    accum,         \* the usage of removed containers
    \* the proxy
    budget,        \* its copy of each container's limit
    \* the server
    keep,          \* keepLimitsConsistent
    req,           \* the request each handler serves
    \* auxiliary: read by no guard but those of the bounds
    untold,        \* containers whose limit the proxy has not been told of
    overlapped,    \* containers two of whose requests were served at once
    overdrawn,     \* what removed containers had used beyond their limits
    world

storeVars == <<registered, limit, usage, hostLimit, accum>>
limitsVars == <<storeVars, budget, keep, req, untold, overlapped, overdrawn, world>>

Ops == {"set", "increase", "decrease"}

\* The new limit a request asks for.
Result(op, old, amount) ==
    CASE op = "set"      -> amount
      [] op = "increase" -> old + amount
      [] op = "decrease" -> Max({old - amount, 0})

NoReq == [at |-> "none", c |-> None, op |-> "set", new |-> 0, host |-> 0, sum |-> 0, todo |-> {}]

LimitsInit ==
    /\ world \in Worlds
    /\ registered = world.managed
    /\ limit = [c \in Containers |-> 0]
    /\ usage = [c \in Containers |-> 0]
    /\ hostLimit = world.host
    /\ accum = 0
    /\ budget = [c \in Containers |-> 0]
    /\ keep = world.keep
    /\ req = [h \in Handlers |-> NoReq]
    /\ untold = {}
    /\ overlapped = {}
    /\ overdrawn = 0

-----------------------------------------------------------------------------
(* Control of a request. *)

Idle(h) == req[h] = NoReq
Quiet == \A h \in Handlers : Idle(h)

\* A request is accepted: at any time in a world with several at once.
Accept(h, r) ==
    /\ Idle(h)
    /\ Quiet \/ "together" \in world.may
    /\ req' = [req EXCEPT ![h] = r]
    /\ overlapped' = IF \E g \in Handlers \ {h} : req[g].c = r.c /\ r.c # None
                     THEN overlapped \cup {r.c} ELSE overlapped

Proceed(h, r) == req' = [req EXCEPT ![h] = r] /\ UNCHANGED overlapped
GoTo(h, label) == Proceed(h, [req[h] EXCEPT !.at = label])
Finish(h) == Proceed(h, NoReq)

MayFail == "fail" \in world.may

\* What a handler makes of a value of the store: 0, when the read fails.
ReadOf(value) == {value} \cup (IF MayFail THEN {0} ELSE {})

-----------------------------------------------------------------------------
(* PUT of a container's limit (handleLimits) and of the host's (handleGlobalLimits). *)

MaySend(amount) == amount >= 0 \/ "negative" \in world.may
InBound(value) == value \in -MaxLimit .. MaxLimit

PutLimit(h, c, op, amount) ==
    /\ c \in registered /\ MaySend(amount)
    /\ \E old \in ReadOf(limit[c]) :
            /\ InBound(Result(op, old, amount))
            /\ Accept(h, [NoReq EXCEPT !.at = "validate", !.c = c, !.op = op,
                                       !.new = Result(op, old, amount)])
    /\ UNCHANGED <<storeVars, budget, keep, untold, overdrawn, world>>

PutHost(h, op, amount) ==
    /\ "host" \in world.may
    /\ op = "increase" => "grow" \in world.may
    /\ MaySend(amount)
    /\ \E old \in ReadOf(hostLimit) :
            /\ InBound(Result(op, old, amount))
            /\ Accept(h, [NoReq EXCEPT !.at = "validate", !.op = op,
                                       !.new = Result(op, old, amount)])
    /\ UNCHANGED <<storeVars, budget, keep, untold, overdrawn, world>>

OfHost(h) == req[h].c = None

\* The mode, and for a container the host's limit, decide whether sums are needed.
\* Mutant: an increase is the only operation that is validated.
NeedsSumOfIncrease(h, host) ==
    /\ keep
    /\ IF OfHost(h) THEN req[h].op # "increase" ELSE req[h].op = "increase" /\ host > 0

NeedsSum(h, host) ==
    /\ keep
    /\ IF OfHost(h) THEN req[h].op # "increase" ELSE req[h].op # "decrease" /\ host > 0

Validate(h) ==
    /\ req[h].at = "validate"
    /\ \E host \in ReadOf(hostLimit) :
            Proceed(h, [req[h] EXCEPT !.at = IF NeedsSum(h, host) THEN "list" ELSE "write",
                                      !.host = host])
    /\ UNCHANGED <<storeVars, budget, keep, untold, overdrawn, world>>

\* sumContainerLimits: the containers but the one that is changed, then their limits.
ListContainers(h) ==
    /\ req[h].at = "list"
    /\ \E listed \in {registered} \cup (IF MayFail THEN {{}} ELSE {}) :
            Proceed(h, [req[h] EXCEPT !.at = "sum", !.todo = listed \ {req[h].c}])
    /\ UNCHANGED <<storeVars, budget, keep, untold, overdrawn, world>>

AddLimit(h, c) ==
    /\ req[h].at = "sum" /\ c \in req[h].todo
    /\ \E value \in ReadOf(limit[c]) :
            Proceed(h, [req[h] EXCEPT !.sum = @ + value, !.todo = @ \ {c}])
    /\ UNCHANGED <<storeVars, budget, keep, untold, overdrawn, world>>

\* Mutant: what the container may have is not reduced by the usage of removed ones.
AllowedWithoutAccum(h, removed) == Max({req[h].host - req[h].sum, 0})

Allowed(h, removed) == Max({req[h].host - req[h].sum - removed, 0})

\* The accumulator is read last.  A host limit below the sum is refused, as is an
\* increase beyond what is left; a limit that is set is cut down to what is left.
Judge(h) ==
    /\ req[h].at = "sum" /\ req[h].todo = {}
    /\ \E removed \in ReadOf(accum) :
        IF OfHost(h)
        THEN IF req[h].sum + removed > 0 /\ req[h].new < req[h].sum + removed
             THEN Finish(h) ELSE GoTo(h, "write")
        ELSE IF req[h].new > Allowed(h, removed) /\ req[h].op = "increase"
             THEN Finish(h)
             ELSE Proceed(h, [req[h] EXCEPT !.at = "write", !.new = Min({@, Allowed(h, removed)})])
    /\ UNCHANGED <<storeVars, budget, keep, untold, overdrawn, world>>

WriteHost(h) ==
    /\ req[h].at = "write" /\ OfHost(h)
    /\ hostLimit' = req[h].new
    /\ Finish(h)
    /\ UNCHANGED <<registered, limit, usage, accum, budget, keep, untold, overdrawn, world>>

WriteLimit(h) ==
    /\ req[h].at = "write" /\ ~OfHost(h)
    /\ limit' = [limit EXCEPT ![req[h].c] = req[h].new]
    /\ GoTo(h, "apply")
    /\ UNCHANGED <<registered, usage, hostLimit, accum, budget, keep, untold, overdrawn, world>>

\* SetLimit, SetScopeLimit or CopyLimits fails: the request ends, nothing is stored.
StoreFails(h) ==
    /\ MayFail
    /\ req[h].at \in {"write", "copy"}
    /\ Finish(h)
    /\ UNCHANGED <<storeVars, budget, keep, untold, overdrawn, world>>

\* UpdateBudget of a limit, RegisterContainer of the proxy in a registration.
ApplyBudget(h) ==
    /\ req[h].at = "apply"
    /\ budget' = [budget EXCEPT ![req[h].c] = req[h].new]
    /\ Finish(h)
    /\ UNCHANGED <<storeVars, keep, untold, overdrawn, world>>

-----------------------------------------------------------------------------
(* Registering, cloning and removing a container; what it spends. *)

\* handleRegister stores the container, then reads its limit for the proxy.
Register(h, c) ==
    /\ "register" \in world.may
    /\ Accept(h, [NoReq EXCEPT !.at = "read", !.c = c])
    /\ registered' = registered \cup {c}
    /\ untold' = untold \ {c}
    /\ UNCHANGED <<limit, usage, hostLimit, accum, budget, keep, overdrawn, world>>

\* Mutant: the proxy is told of a container without a budget.
ReadLimitAsNone(h) ==
    /\ req[h].at = "read"
    /\ Proceed(h, [req[h] EXCEPT !.at = "apply", !.new = 0])
    /\ UNCHANGED <<storeVars, budget, keep, untold, overdrawn, world>>

ReadLimit(h) ==
    /\ req[h].at = "read"
    /\ \E value \in ReadOf(limit[req[h].c]) :
            /\ Proceed(h, [req[h] EXCEPT !.at = "apply", !.new = value])
            /\ untold' = IF value = limit[req[h].c] THEN untold ELSE untold \cup {req[h].c}
    /\ UNCHANGED <<storeVars, budget, keep, overdrawn, world>>

\* A container Docker has just created: nothing is stored of it.
IsNew(d) ==
    /\ d \notin registered
    /\ limit[d] = 0 /\ budget[d] = 0
    /\ \A h \in Handlers : req[h].c # d

\* handleClone registers the new container and copies the limits.  The proxy is not
\* told of the clone.
Clone(h, d) ==
    /\ "clone" \in world.may
    /\ IsNew(d)
    /\ \E c \in registered :
            Accept(h, [NoReq EXCEPT !.at = "copy", !.c = d, !.todo = {c}])
    /\ registered' = registered \cup {d}
    /\ untold' = untold \cup {d}
    /\ UNCHANGED <<limit, usage, hostLimit, accum, budget, keep, overdrawn, world>>

CopyLimits(h) ==
    /\ req[h].at = "copy"
    /\ \E c \in req[h].todo : limit' = [limit EXCEPT ![req[h].c] = limit[c]]
    /\ Finish(h)
    /\ UNCHANGED <<registered, usage, hostLimit, accum, budget, keep, untold, overdrawn, world>>

\* RemoveContainer: the usage is kept in the accumulator.
Remove(c) ==
    /\ "remove" \in world.may
    /\ Quiet \/ "together" \in world.may
    /\ c \in registered
    /\ registered' = registered \ {c}
    /\ accum' = accum + usage[c]
    /\ usage' = [usage EXCEPT ![c] = 0]
    /\ limit' = [limit EXCEPT ![c] = 0]
    /\ overdrawn' = overdrawn + Max({usage[c] - limit[c], 0})
    /\ UNCHANGED <<hostLimit, budget, keep, req, untold, overlapped, world>>

\* The container spends; the proxy bounds that only loosely.
Use(c) ==
    /\ "remove" \in world.may
    /\ c \in registered /\ usage[c] < MaxUsage
    /\ usage' = [usage EXCEPT ![c] = @ + 1]
    /\ UNCHANGED <<registered, limit, hostLimit, accum, budget, keep, req, untold, overlapped, overdrawn, world>>

\* main restores the proxy from the store, as far as it can read that.
RestoreProxy ==
    /\ \E told \in IF MayFail THEN SUBSET registered ELSE {registered} :
            /\ budget' = [c \in Containers |-> IF c \in told THEN limit[c] ELSE 0]
            /\ untold' = registered \ told
    /\ req' = [h \in Handlers |-> NoReq]
    /\ overlapped' = {}
    /\ UNCHANGED <<storeVars, overdrawn, world>>

Serve(h) ==
    \/ \E op \in Ops, amount \in Amounts :
            PutHost(h, op, amount) \/ \E c \in Containers : PutLimit(h, c, op, amount)
    \/ \E c \in Containers : Register(h, c) \/ Clone(h, c) \/ AddLimit(h, c)
    \/ Validate(h) \/ ListContainers(h) \/ Judge(h) \/ WriteHost(h) \/ WriteLimit(h)
    \/ ApplyBudget(h) \/ ReadLimit(h) \/ CopyLimits(h) \/ StoreFails(h)

LimitsNext ==
    \/ \E h \in Handlers : Serve(h)
    \/ \E c \in Containers : Remove(c) \/ Use(c)

-----------------------------------------------------------------------------
(* Properties. *)

LimitsTypeOK ==
    /\ registered \subseteq Containers
    /\ limit \in [Containers -> Int] /\ usage \in [Containers -> Nat]
    /\ hostLimit \in Int /\ accum \in Nat
    /\ budget \in [Containers -> Int]
    /\ keep \in BOOLEAN
    /\ req \in [Handlers -> [at : {"none", "validate", "list", "sum", "write", "apply", "read", "copy"},
                             c : Containers \cup {None}, op : Ops, new : Int, host : Int, sum : Int,
                             todo : SUBSET Containers]]
    /\ \A h \in Handlers : req[h].at \in {"apply", "read", "copy"} => req[h].c \in Containers
    /\ untold \subseteq Containers /\ overlapped \subseteq Containers
    /\ overdrawn \in Nat /\ world \in Worlds

Promised == SumFunctionOnSet(limit, registered) + accum

\* README: while the mode is on, limits stay within the host's.  That needs one
\* request at a time; no clone, which copies a limit unchecked; no increase of the
\* host's limit, from none to a small one; no value below zero, of which a decrease
\* raises a limit unchecked (WithinHostLimit); and no read that fails, which counts as a
\* limit of none.  And a container that is removed takes what it used beyond its limit
\* out of what is left for the others.
KeepsConsistent ==
    /\ keep /\ hostLimit > 0 /\ Quiet
    /\ world.may \cap {"together", "clone", "grow", "negative", "fail"} = {}
    => Promised <= hostLimit + overdrawn

\* However requests interleave, no single limit passes the host's while the mode is
\* on and the host's limit does not change.  Restarts are left out: together the limits
\* may pass the host's, and then the mode is refused at start.  So are values below
\* zero and reads that fail, as in KeepsConsistent.
EachWithinHost ==
    /\ world.keep /\ world.host > 0
    /\ world.may \cap {"host", "mode", "restart", "crash", "negative", "fail"} = {}
    => \A c \in Containers : limit[c] <= hostLimit

\* README: when the mode is on, the API validates that limits of containers stay
\* within those of the host.
WithinHostLimit ==
    keep /\ hostLimit > 0 => \A c \in registered : limit[c] <= hostLimit

\* The proxy's budget is the stored limit once no request is served for the
\* container, unless two of its requests were served at once, which may store and
\* apply in different orders, or the proxy has not been told of the limit.
BudgetIsLimit ==
    \A c \in registered \ (overlapped \cup untold) :
        (\A h \in Handlers : req[h].c # c) => budget[c] = limit[c]
=============================================================================
