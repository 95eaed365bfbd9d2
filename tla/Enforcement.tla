---------------------------- MODULE Enforcement ----------------------------
(***************************************************************************)
(* The enforcement manager of the daemon (internal/enforcement): one       *)
(* worker goroutine per registered container, one goroutine that enforces  *)
(* the limits of the host and of the segments, the freeze and unfreeze     *)
(* handlers, and the container runtime they all act on.                    *)
(*                                                                         *)
(* The manager's mutex protects single reads and writes of its maps, never *)
(* a decision together with the Docker call that carries it out, so every  *)
(* action below is one access to shared state: a lock region, a Docker     *)
(* call or a store access; but the proxy's block of a scope is set and      *)
(* lifted together with the flag that the scope loop writes next to it.     *)
(*                                                                         *)
(* Usage and limits are abstracted to the verdict on them: no limit,       *)
(* usage under the limit, or usage at or over it.                          *)
(***************************************************************************)
EXTENDS Naturals, Sequences

CONSTANTS
    Containers,   \* the registered containers
    Segments,     \* the segments that exist
    Users,        \* concurrent callers of the freeze and unfreeze handlers
    Host,         \* model.ScopeHost
    Loop,         \* the goroutine running scopeEnforcementLoop
    None,         \* no segment, no container, no limit type
    \* Bounds on the environment
    Limitable,    \* the <<target, limit type>> pairs that may get a limit
    Stoppable,    \* containers that may exit and be started by their user
    Movable,      \* containers whose segment may change
    MayFail,      \* whether a Docker or store call may return an error
    MaxRestarts   \* how often the daemon may crash and come back

PauseTypes == {"cpu", "disk"}
NetTypes   == {"net"}
IOTypes    == {"disk-io-bytes", "disk-io-ops"}
KillTypes  == {"ram-usage-bsec", "disk-usage-bsec",
               "ram-request-bsec", "disk-request-bsec"}
LimitTypes == PauseTypes \cup NetTypes \cup IOTypes \cup KillTypes
              \cup {"ram", "spending"}

\* model.AllLimitTypes, the order in which a worker goes through the limits.
AllLimitTypes ==
    <<"cpu", "ram", "disk", "net", "disk-io-bytes", "disk-io-ops", "spending",
      "ram-usage-bsec", "disk-usage-bsec", "ram-request-bsec", "disk-request-bsec">>

Before(a, b) ==
    \E i, j \in DOMAIN AllLimitTypes :
        i < j /\ AllLimitTypes[i] = a /\ AllLimitTypes[j] = b

Scopes  == {Host} \cup Segments
Targets == Containers \cup Scopes
Procs   == Containers \cup {Loop}
Actors  == Procs \cup Users
Verdicts == {"none", "under", "over"}
Snapshots == Verdicts \cup {"stale"}

ASSUME EnforcementAssumption ==
    /\ Host \notin Containers \cup Segments
    /\ Loop \notin Containers
    /\ None \notin Containers \cup Segments \cup LimitTypes
    /\ Containers \cap Segments = {}
    /\ Users \cap Procs = {}
    /\ MayFail \in BOOLEAN
    /\ MaxRestarts \in Nat

VARIABLES
    \* the container runtime
    status,         \* Docker's State.Running and State.Paused
    netOff,         \* disconnected from its networks
    throttled,      \* io.max of its cgroup is set
    \* the store
    level,          \* verdict on the usage and the limit of each target and type
    segOf,          \* containers.segment_id
    storeFrozen,    \* containers.frozen
    \* the manager's maps, all in memory
    enforced,       \* limit types flagged as enforced, per container
    frozen,         \* frozen flag, per container
    scopeEnforced,  \* limit types flagged as enforced, per scope
    blocked,        \* scopes whose proxied API calls are refused
    \* program counters and locals
    call,           \* per worker and for the loop: where it is, and on what
    seen,           \* the verdicts its limit snapshot implies, still to be acted on;
                    \* "stale" once the limit or the usage has changed since
    sweep,          \* the scope loop's position
    user,           \* the freeze and unfreeze calls in flight
    restarts,
    \* auxiliary: read by no guard, see Observe
    disturbed       \* containers two actors worked on at once, or started again

runtime  == <<status, netOff, throttled>>
stored   == <<level, segOf, storeFrozen>>
flags    == <<enforced, frozen, scopeEnforced, blocked>>
vars == <<runtime, stored, flags, call, seen, sweep, user, restarts, disturbed>>

NoVerdicts == [lt \in LimitTypes |-> "none"]
IdleCall(p) == [at |-> "idle", c |-> IF p = Loop THEN None ELSE p, lt |-> None]
IdleSweep == [scope |-> Host, todo |-> {}, members |-> {}, rest |-> {},
              lt |-> None, enforcing |-> FALSE]
IdleUser == [at |-> "idle", c |-> None]

Init ==
    /\ status = [c \in Containers |-> "running"]
    /\ netOff = [c \in Containers |-> FALSE]
    /\ throttled = [c \in Containers |-> FALSE]
    /\ level = [x \in Targets |-> NoVerdicts]
    /\ segOf \in [Containers -> Segments \cup {None}]
    /\ storeFrozen = [c \in Containers |-> FALSE]
    /\ enforced = [c \in Containers |-> {}]
    /\ frozen = [c \in Containers |-> FALSE]
    /\ scopeEnforced = [s \in Scopes |-> {}]
    /\ blocked = {}
    /\ call = [p \in Procs |-> IdleCall(p)]
    /\ seen = [p \in Procs |-> NoVerdicts]
    /\ sweep = IdleSweep
    /\ user = [u \in Users |-> IdleUser]
    /\ restarts = 0
    /\ disturbed = [c \in Containers |-> FALSE]

-----------------------------------------------------------------------------
(***************************************************************************)
(* Observer.  A pause and the write of the flag that justifies it are       *)
(* separate steps, and so are the check that nothing else holds a container *)
(* and the unpause.  `disturbed' records for which containers two actors    *)
(* were ever inside such a sequence at the same time, that their user       *)
(* started again, or whose frozen flag the daemon failed to load.           *)
(***************************************************************************)

CallWindow(p, c) ==
    /\ call[p].c = c
    /\ call[p].lt \in PauseTypes
    /\ call[p].at \in {"mark", "lift", "clear"}

UserWindow(u, c) ==
    /\ user[u].c = c
    /\ user[u].at \in {"persist", "flag", "unflag", "inspect", "unpause"}

InWindow(a, c) == IF a \in Procs THEN CallWindow(a, c) ELSE UserWindow(a, c)

Overlap(c) == \E a, b \in Actors : a # b /\ InWindow(a, c) /\ InWindow(b, c)

Observe ==
    disturbed' = [c \in Containers |->
        \/ disturbed[c]
        \/ Overlap(c)'
        \/ status[c] = "exited" /\ status'[c] = "running"
        \/ restarts' # restarts /\ frozen'[c] # storeFrozen[c]]

-----------------------------------------------------------------------------
(* Helpers *)

Goto(p, label) == call' = [call EXCEPT ![p].at = label]

\* enforce and release return to the loop that called them.
Return(p) ==
    call' = [call EXCEPT ![p] =
        [IdleCall(p) EXCEPT !.at = IF p = Loop THEN "each" ELSE "next"]]

\* The flags of the host and of the container's segment.
ScopeFlags(c) ==
    scopeEnforced[Host] \cup IF segOf[c] = None THEN {} ELSE scopeEnforced[segOf[c]]

\* The scope flags that are looked at: the segment's are passed over when the
\* store cannot tell which segment it is.
FoundScopeFlags(c) ==
    {ScopeFlags(c)} \cup IF MayFail THEN {scopeEnforced[Host]} ELSE {}

\* Mutants of OtherPauseActive: no other flag is looked at; the freeze is not
\* looked at; the type being released is not excepted.
OtherPauseActiveFrozenOnly(c, except, scopes) == frozen[c]
OtherPauseActiveNotFrozen(c, except, scopes) ==
    (PauseTypes \ {except}) \cap (enforced[c] \cup scopes) # {}
OtherPauseActiveAny(c, except, scopes) ==
    frozen[c] \/ PauseTypes \cap (enforced[c] \cup scopes) # {}

\* Something else than the limit being released holds the container paused.  The
\* type being released is excepted at every level.
OtherPauseActive(c, except, scopes) ==
    frozen[c] \/ (PauseTypes \ {except}) \cap (enforced[c] \cup scopes) # {}

\* The first step of release: only pauses are looked at before being lifted.
ReleaseEntry(lt) == IF lt \in PauseTypes THEN "look" ELSE "lift"

-----------------------------------------------------------------------------
(* enforce and release, run by a worker or by the scope loop. *)

CanApply(c, lt) == lt \in PauseTypes \cup IOTypes => status[c] # "exited"

\* enforce: pausing an already paused container counts as success, a byte-second
\* limit stops the container, ram and spending change nothing in the runtime
\* that is modelled here.
Apply(c, lt) ==
    /\ status' = [status EXCEPT ![c] = IF lt \in PauseTypes THEN "paused"
                                       ELSE IF lt \in KillTypes THEN "exited" ELSE @]
    /\ netOff' = [netOff EXCEPT ![c] = @ \/ lt \in NetTypes]
    /\ throttled' = [throttled EXCEPT ![c] = (@ \/ lt \in IOTypes) /\ lt \notin KillTypes]

\* The scope loop goes on when it did not find the container's cgroup: the disk
\* I/O limits then count as enforced, or released, with nothing done.
WithoutCgroup(p) ==
    p = Loop /\ call[p].lt \in IOTypes /\ (MayFail \/ status[call[p].c] = "exited")

Act(p) ==
    LET c == call[p].c   lt == call[p].lt IN
    /\ call[p].at = "act"
    /\ \/ CanApply(c, lt) /\ Apply(c, lt) /\ Goto(p, "mark")
       \/ WithoutCgroup(p) /\ Goto(p, "mark") /\ UNCHANGED runtime
       \/ (MayFail \/ ~CanApply(c, lt)) /\ Return(p) /\ UNCHANGED runtime
    /\ UNCHANGED <<stored, flags, seen, sweep, user, restarts>>
    /\ Observe

Mark(p) ==
    /\ call[p].at = "mark"
    /\ enforced' = [enforced EXCEPT ![call[p].c] = @ \cup {call[p].lt}]
    /\ Return(p)
    /\ UNCHANGED <<runtime, stored, frozen, scopeEnforced, blocked, seen, sweep, user, restarts>>
    /\ Observe

\* release: an inspection that fails reads as "not paused" and the flag is cleared.
Look(p) ==
    /\ call[p].at = "look"
    /\ \/ status[call[p].c] = "paused" /\ Goto(p, "guard")
       \/ (MayFail \/ status[call[p].c] # "paused") /\ Goto(p, "clear")
    /\ UNCHANGED <<runtime, stored, flags, seen, sweep, user, restarts>>
    /\ Observe

Guard(p) ==
    /\ call[p].at = "guard"
    /\ \E scopes \in FoundScopeFlags(call[p].c) :
          Goto(p, IF OtherPauseActive(call[p].c, call[p].lt, scopes) THEN "clear" ELSE "lift")
    /\ UNCHANGED <<runtime, stored, flags, seen, sweep, user, restarts>>
    /\ Observe

\* Docker refuses to unpause what is not paused and to connect what is connected.
CanLift(c, lt) ==
    /\ lt \in PauseTypes => status[c] = "paused"
    /\ lt \in NetTypes => netOff[c]
    /\ lt \in IOTypes => status[c] # "exited"

LiftEffect(c, lt) ==
    /\ status' = [status EXCEPT ![c] = IF lt \in PauseTypes THEN "running" ELSE @]
    /\ netOff' = [netOff EXCEPT ![c] = @ /\ lt \notin NetTypes]
    /\ throttled' = [throttled EXCEPT ![c] = @ /\ lt \notin IOTypes]

Lift(p) ==
    LET c == call[p].c   lt == call[p].lt IN
    /\ call[p].at = "lift"
    /\ \/ CanLift(c, lt) /\ LiftEffect(c, lt) /\ Goto(p, "clear")
       \/ WithoutCgroup(p) /\ Goto(p, "clear") /\ UNCHANGED runtime
       \/ (MayFail \/ ~CanLift(c, lt)) /\ Return(p) /\ UNCHANGED runtime
    /\ UNCHANGED <<stored, flags, seen, sweep, user, restarts>>
    /\ Observe

\* Mutant: release forgets to clear the flag.
ClearKeepsFlag(p) ==
    /\ call[p].at = "clear"
    /\ Return(p)
    /\ UNCHANGED <<runtime, stored, flags, seen, sweep, user, restarts>>
    /\ Observe

Clear(p) ==
    /\ call[p].at = "clear"
    /\ enforced' = [enforced EXCEPT ![call[p].c] = @ \ {call[p].lt}]
    /\ Return(p)
    /\ UNCHANGED <<runtime, stored, frozen, scopeEnforced, blocked, seen, sweep, user, restarts>>
    /\ Observe

EffectStep(p) == Act(p) \/ Mark(p) \/ Look(p) \/ Guard(p) \/ Lift(p) \/ Clear(p)

-----------------------------------------------------------------------------
(* A container's worker: enforcementLoop and checkAndEnforce. *)

\* A tick of a frozen container's worker does nothing.
Tick(c) ==
    /\ call[c].at = "idle"
    /\ ~frozen[c]
    /\ Goto(c, "inspect")
    /\ UNCHANGED <<runtime, stored, flags, seen, sweep, user, restarts>>
    /\ Observe

\* IsContainerRunning (true of a paused container) and GetAllLimits.
Inspect(c) ==
    /\ call[c].at = "inspect"
    /\ \/ /\ status[c] # "exited"
          /\ seen' = [seen EXCEPT ![c] = level[c]]
          /\ Goto(c, "next")
       \/ /\ MayFail \/ status[c] = "exited"
          /\ Goto(c, "idle")
          /\ UNCHANGED seen
    /\ UNCHANGED <<runtime, stored, flags, sweep, user, restarts>>
    /\ Observe

Pending(p) == {lt \in LimitTypes : seen[p][lt] # "none"}
IsFirst(lt, S) == lt \in S /\ \A o \in S \ {lt} : Before(lt, o)

\* The limit was read when the tick began, the usage is read now: if either has
\* changed in between, the comparison may come out either way.  The usage of a
\* byte-second limit that cannot be read counts as zero.
Verdict(c, lt) ==
    (IF seen[c][lt] = "stale" THEN {"under", "over"} ELSE {seen[c][lt]})
    \cup (IF MayFail /\ lt \in KillTypes THEN {"under"} ELSE {})

\* Mutant: a paused container without the flag is left alone.
DecisionNoReconcile(lt, verdict, flagged) ==
    IF verdict = "over" THEN (IF flagged THEN "next" ELSE "act")
    ELSE IF flagged THEN ReleaseEntry(lt) ELSE "next"

\* Mutant: the reconciliation with the runtime is not restricted to pauses.
DecisionProbesAll(lt, verdict, flagged) ==
    IF verdict = "over" THEN (IF flagged THEN "next" ELSE "act")
    ELSE IF flagged THEN ReleaseEntry(lt) ELSE "probe"

\* What checkAndEnforce does about a limit, from the verdict and the flag.
Decision(lt, verdict, flagged) ==
    IF verdict = "over" THEN (IF flagged THEN "next" ELSE "act")
    ELSE IF flagged THEN ReleaseEntry(lt)
    ELSE IF lt \in PauseTypes THEN "probe" ELSE "next"

Decide(c) ==
    /\ call[c].at = "next"
    /\ \E lt \in Pending(c) :
        /\ IsFirst(lt, Pending(c))
        /\ seen' = [seen EXCEPT ![c][lt] = "none"]
        /\ \/ \E v \in Verdict(c, lt) :
                LET label == Decision(lt, v, lt \in enforced[c]) IN
                call' = [call EXCEPT ![c] = [at |-> label, c |-> c,
                                             lt |-> IF label = "next" THEN None ELSE lt]]
           \/ MayFail /\ lt \notin KillTypes /\ UNCHANGED call    \* usage not read
    /\ UNCHANGED <<runtime, stored, flags, sweep, user, restarts>>
    /\ Observe

\* isActuallyEnforced: a paused container without the flag is taken for one that
\* an earlier run of the daemon paused.
Probe(c) ==
    /\ call[c].at = "probe"
    /\ \/ status[c] = "paused" /\ Goto(c, "look")
       \/ (MayFail \/ status[c] # "paused") /\ Return(c)
    /\ UNCHANGED <<runtime, stored, flags, seen, sweep, user, restarts>>
    /\ Observe

TickEnd(c) ==
    /\ call[c].at = "next"
    /\ Pending(c) = {}
    /\ Goto(c, "idle")
    /\ UNCHANGED <<runtime, stored, flags, seen, sweep, user, restarts>>
    /\ Observe

Worker(c) ==
    Tick(c) \/ Inspect(c) \/ Decide(c) \/ Probe(c) \/ TickEnd(c) \/ EffectStep(c)

-----------------------------------------------------------------------------
(* The scope loop: scopeEnforcementLoop, checkScopeEnforcement, scopeEnforce *)
(* and scopeRelease.                                                         *)

\* Mutant: the host only sees the containers of no segment.
MembersUnassigned(s) ==
    {c \in Containers : segOf[c] = IF s = Host THEN None ELSE s}

Members(s) == IF s = Host THEN Containers ELSE {c \in Containers : segOf[c] = s}

\* The host first, then the segments one after the other.
ScopeTick ==
    /\ call[Loop].at = "idle"
    /\ Goto(Loop, "read")
    /\ sweep' = [sweep EXCEPT !.scope = Host, !.todo = Segments]
    /\ UNCHANGED <<runtime, stored, flags, seen, user, restarts>>
    /\ Observe

\* A container whose usage cannot be read is left out of the totals.
TotalsRead(s) ==
    LET over == {lt \in LimitTypes : MayFail /\ level[s][lt] = "over"} IN
    {[lt \in LimitTypes |-> IF lt \in low THEN "under" ELSE level[s][lt]] : low \in SUBSET over}

\* Limits, members and total usage of the scope are read once, before any limit
\* is acted on.
ScopeRead ==
    /\ call[Loop].at = "read"
    /\ \/ /\ \E totals \in TotalsRead(sweep.scope) : seen' = [seen EXCEPT ![Loop] = totals]
          /\ sweep' = [sweep EXCEPT !.members = Members(sweep.scope)]
       \/ MayFail /\ UNCHANGED <<seen, sweep>>
    /\ Goto(Loop, "pick")
    /\ UNCHANGED <<runtime, stored, flags, user, restarts>>
    /\ Observe

\* Go iterates over the map of scope limits in any order.
ScopePick ==
    /\ call[Loop].at = "pick"
    /\ \E lt \in Pending(Loop) :
        LET over == seen[Loop][lt] = "over"
            was  == lt \in scopeEnforced[sweep.scope] IN
        /\ seen' = [seen EXCEPT ![Loop][lt] = "none"]
        /\ IF over = was
           THEN UNCHANGED <<call, sweep>>
           ELSE /\ Goto(Loop, IF over THEN "each" ELSE "unmark")
                /\ sweep' = [sweep EXCEPT !.lt = lt, !.enforcing = over,
                                          !.rest = sweep.members]
    /\ UNCHANGED <<runtime, stored, flags, user, restarts>>
    /\ Observe

\* Mutant: scopeRelease leaves the scope flagged.
ScopeUnmarkKeepsFlag ==
    /\ call[Loop].at = "unmark"
    /\ Goto(Loop, "each")
    /\ UNCHANGED <<runtime, stored, flags, seen, sweep, user, restarts>>
    /\ Observe

\* scopeRelease lifts the block and the flag before it releases any container.
ScopeUnmark ==
    /\ call[Loop].at = "unmark"
    /\ scopeEnforced' = [scopeEnforced EXCEPT ![sweep.scope] = @ \ {sweep.lt}]
    /\ blocked' = IF sweep.lt = "spending" THEN blocked \ {sweep.scope} ELSE blocked
    /\ Goto(Loop, "each")
    /\ UNCHANGED <<runtime, stored, enforced, frozen, seen, sweep, user, restarts>>
    /\ Observe

\* Containers that are not running are passed over.
ScopeEach ==
    /\ call[Loop].at = "each"
    /\ \E c \in sweep.rest :
        /\ sweep' = [sweep EXCEPT !.rest = @ \ {c}]
        /\ \/ /\ status[c] # "exited"
              /\ call' = [call EXCEPT ![Loop] =
                    [at |-> IF sweep.enforcing THEN "act" ELSE ReleaseEntry(sweep.lt),
                     c |-> c, lt |-> sweep.lt]]
           \/ (MayFail \/ status[c] = "exited") /\ UNCHANGED call
    /\ UNCHANGED <<runtime, stored, flags, seen, user, restarts>>
    /\ Observe

\* scopeEnforce flags the scope last, whatever became of the single containers.
ScopeDone ==
    /\ call[Loop].at = "each"
    /\ sweep.rest = {}
    /\ IF sweep.enforcing
       THEN /\ scopeEnforced' = [scopeEnforced EXCEPT ![sweep.scope] = @ \cup {sweep.lt}]
            /\ blocked' = IF sweep.lt = "spending" THEN blocked \cup {sweep.scope} ELSE blocked
       ELSE UNCHANGED <<scopeEnforced, blocked>>
    /\ sweep' = [sweep EXCEPT !.lt = None, !.enforcing = FALSE]
    /\ Goto(Loop, "pick")
    /\ UNCHANGED <<runtime, stored, enforced, frozen, seen, user, restarts>>
    /\ Observe

ScopeNext ==
    /\ call[Loop].at = "pick"
    /\ Pending(Loop) = {}
    /\ \/ /\ sweep.todo = {} \/ (MayFail /\ sweep.scope = Host)  \* ListSegments failed
          /\ sweep' = IdleSweep
          /\ Goto(Loop, "idle")
       \/ \E s \in sweep.todo :
            /\ sweep' = [sweep EXCEPT !.scope = s, !.todo = @ \ {s}, !.members = {}]
            /\ Goto(Loop, "read")
    /\ UNCHANGED <<runtime, stored, flags, seen, user, restarts>>
    /\ Observe

ScopeLoop ==
    \/ ScopeTick \/ ScopeRead \/ ScopePick \/ ScopeUnmark
    \/ ScopeEach \/ ScopeDone \/ ScopeNext \/ EffectStep(Loop)

-----------------------------------------------------------------------------
(* Freeze and Unfreeze. *)

UserAt(u, label) == user' = [user EXCEPT ![u].at = label]
UserDone(u) == user' = [user EXCEPT ![u] = IdleUser]

FreezeCall(u, c) ==
    /\ user[u].at = "idle"
    /\ ~frozen[c]
    /\ user' = [user EXCEPT ![u] = [at |-> "pause", c |-> c]]
    /\ UNCHANGED <<runtime, stored, flags, call, seen, sweep, restarts>>
    /\ Observe

FreezePause(u) ==
    LET c == user[u].c IN
    /\ user[u].at = "pause"
    /\ \/ /\ status[c] # "exited"
          /\ status' = [status EXCEPT ![c] = "paused"]
          /\ UserAt(u, "persist")
       \/ (MayFail \/ status[c] = "exited") /\ UserDone(u) /\ UNCHANGED status
    /\ UNCHANGED <<netOff, throttled, stored, flags, call, seen, sweep, restarts>>
    /\ Observe

\* Mutant: Freeze ignores that its flag was not stored.
FreezePersistIgnoresError(u) ==
    /\ user[u].at = "persist"
    /\ \/ storeFrozen' = [storeFrozen EXCEPT ![user[u].c] = TRUE]
       \/ MayFail /\ UNCHANGED storeFrozen
    /\ UserAt(u, "flag")
    /\ UNCHANGED <<runtime, level, segOf, flags, call, seen, sweep, restarts>>
    /\ Observe

FreezePersist(u) ==
    /\ user[u].at = "persist"
    /\ \/ storeFrozen' = [storeFrozen EXCEPT ![user[u].c] = TRUE] /\ UserAt(u, "flag")
       \/ MayFail /\ UserDone(u) /\ UNCHANGED storeFrozen
    /\ UNCHANGED <<runtime, level, segOf, flags, call, seen, sweep, restarts>>
    /\ Observe

FreezeFlag(u) ==
    /\ user[u].at = "flag"
    /\ frozen' = [frozen EXCEPT ![user[u].c] = TRUE]
    /\ UserDone(u)
    /\ UNCHANGED <<runtime, stored, enforced, scopeEnforced, blocked, call, seen, sweep, restarts>>
    /\ Observe

UnfreezeCall(u, c) ==
    /\ user[u].at = "idle"
    /\ frozen[c]
    /\ user' = [user EXCEPT ![u] = [at |-> "unpersist", c |-> c]]
    /\ UNCHANGED <<runtime, stored, flags, call, seen, sweep, restarts>>
    /\ Observe

UnfreezePersist(u) ==
    /\ user[u].at = "unpersist"
    /\ \/ storeFrozen' = [storeFrozen EXCEPT ![user[u].c] = FALSE] /\ UserAt(u, "unflag")
       \/ MayFail /\ UserDone(u) /\ UNCHANGED storeFrozen
    /\ UNCHANGED <<runtime, level, segOf, flags, call, seen, sweep, restarts>>
    /\ Observe

\* The flag is cleared and the pause flags are examined under one lock.
UnfreezeFlag(u) ==
    LET c == user[u].c IN
    /\ user[u].at = "unflag"
    /\ frozen' = [frozen EXCEPT ![c] = FALSE]
    /\ \E scopes \in FoundScopeFlags(c) :
          IF PauseTypes \cap (enforced[c] \cup scopes) = {} THEN UserAt(u, "inspect")
          ELSE UserDone(u)
    /\ UNCHANGED <<runtime, stored, enforced, scopeEnforced, blocked, call, seen, sweep, restarts>>
    /\ Observe

UnfreezeInspect(u) ==
    /\ user[u].at = "inspect"
    /\ \/ status[user[u].c] = "paused" /\ UserAt(u, "unpause")
       \/ (MayFail \/ status[user[u].c] # "paused") /\ UserDone(u)
    /\ UNCHANGED <<runtime, stored, flags, call, seen, sweep, restarts>>
    /\ Observe

UnfreezeUnpause(u) ==
    LET c == user[u].c IN
    /\ user[u].at = "unpause"
    /\ \/ status[c] = "paused" /\ status' = [status EXCEPT ![c] = "running"]
       \/ (MayFail \/ status[c] # "paused") /\ UNCHANGED status
    /\ UserDone(u)
    /\ UNCHANGED <<netOff, throttled, stored, flags, call, seen, sweep, restarts>>
    /\ Observe

\* The steps of a call that has begun.
UserStep(u) ==
    \/ FreezePause(u) \/ FreezePersist(u) \/ FreezeFlag(u)
    \/ UnfreezePersist(u) \/ UnfreezeFlag(u) \/ UnfreezeInspect(u) \/ UnfreezeUnpause(u)

UserCall(u, c) == FreezeCall(u, c) \/ UnfreezeCall(u, c)

-----------------------------------------------------------------------------
(* The environment: limits and usage change, containers exit and are started, *)
(* containers change segment, the daemon restarts.                            *)

\* The limit or the usage of a target changes, and the verdict with it (a change
\* that keeps the verdict is two of these).  A worker that has read the limit
\* compares the old one with the new usage; the scope loop has read both already.
SetLevel(x, lt, v) ==
    /\ <<x, lt>> \in Limitable
    /\ level[x][lt] # v
    /\ level' = [level EXCEPT ![x][lt] = v]
    /\ seen' = IF x \in Containers /\ seen[x][lt] # "none"
               THEN [seen EXCEPT ![x][lt] = "stale"] ELSE seen
    /\ UNCHANGED <<runtime, segOf, storeFrozen, flags, call, sweep, user, restarts>>
    /\ Observe

Exit(c) ==
    /\ c \in Stoppable
    /\ status[c] # "exited"
    /\ status' = [status EXCEPT ![c] = "exited"]
    /\ throttled' = [throttled EXCEPT ![c] = FALSE]
    /\ UNCHANGED <<netOff, stored, flags, call, seen, sweep, user, restarts>>
    /\ Observe

Start(c) ==
    /\ c \in Stoppable
    /\ status[c] = "exited"
    /\ status' = [status EXCEPT ![c] = "running"]
    /\ UNCHANGED <<netOff, throttled, stored, flags, call, seen, sweep, user, restarts>>
    /\ Observe

\* A container is assigned from no segment and unassigned to none.
Move(c, s) ==
    /\ c \in Movable
    /\ segOf[c] # s
    /\ segOf[c] = None \/ s = None
    /\ segOf' = [segOf EXCEPT ![c] = s]
    /\ UNCHANGED <<runtime, level, storeFrozen, flags, call, seen, sweep, user, restarts>>
    /\ Observe

\* StartContainer loads the frozen flag of each container; one that cannot be
\* read stays down.
LoadFrozen ==
    {f \in [Containers -> BOOLEAN] :
        \A c \in Containers : f[c] = storeFrozen[c] \/ (MayFail /\ ~f[c])}

\* The daemon stops at any point and comes back: NewManager, StartAll (which
\* loads the frozen flags) and StartScopeEnforcement.
Restart ==
    /\ restarts < MaxRestarts
    /\ restarts' = restarts + 1
    /\ enforced' = [c \in Containers |-> {}]
    /\ frozen' \in LoadFrozen
    /\ scopeEnforced' = [s \in Scopes |-> {}]
    /\ blocked' = {}
    /\ call' = [p \in Procs |-> IdleCall(p)]
    /\ seen' = [p \in Procs |-> NoVerdicts]
    /\ sweep' = IdleSweep
    /\ user' = [u \in Users |-> IdleUser]
    /\ UNCHANGED <<runtime, stored>>
    /\ Observe

Environment ==
    \/ \E x \in Targets, lt \in LimitTypes, v \in Verdicts : SetLevel(x, lt, v)
    \/ \E c \in Containers : Exit(c) \/ Start(c)
    \/ \E c \in Containers, s \in Segments \cup {None} : Move(c, s)
    \/ Restart

Next ==
    \/ \E c \in Containers : Worker(c)
    \/ ScopeLoop
    \/ \E u \in Users : UserStep(u)
    \/ \E u \in Users, c \in Containers : UserCall(u, c)
    \/ Environment

Spec == Init /\ [][Next]_vars

\* Goroutines and handlers that have begun are scheduled until they finish, and
\* the tickers keep ticking.
Fairness ==
    /\ \A c \in Containers : WF_vars(Worker(c))
    /\ WF_vars(ScopeLoop)
    /\ \A u \in Users : WF_vars(UserStep(u))

FairSpec == Spec /\ Fairness
-----------------------------------------------------------------------------
(* Properties *)

EffectLabels == {"act", "mark", "look", "guard", "lift", "clear"}
WorkerLabels == {"idle", "inspect", "next", "probe"} \cup EffectLabels
LoopLabels   == {"idle", "read", "pick", "unmark", "each"} \cup EffectLabels
UserLabels   == {"idle", "pause", "persist", "flag",
                 "unpersist", "unflag", "inspect", "unpause"}

RuntimeOK ==
    /\ status \in [Containers -> {"running", "paused", "exited"}]
    /\ netOff \in [Containers -> BOOLEAN]
    /\ throttled \in [Containers -> BOOLEAN]

StoredOK ==
    /\ level \in [Targets -> [LimitTypes -> Verdicts]]
    /\ segOf \in [Containers -> Segments \cup {None}]
    /\ storeFrozen \in [Containers -> BOOLEAN]

FlagsOK ==
    /\ enforced \in [Containers -> SUBSET LimitTypes]
    /\ frozen \in [Containers -> BOOLEAN]
    /\ scopeEnforced \in [Scopes -> SUBSET LimitTypes]
    /\ blocked \subseteq Scopes

\* A call past its decision names the container and the type it is about, and a
\* worker only ever acts on its own container.
CallOK(p) ==
    /\ call[p].at \in IF p = Loop THEN LoopLabels ELSE WorkerLabels
    /\ p # Loop => call[p].c = p
    /\ call[p].at \in EffectLabels \cup {"probe"} =>
          call[p].c \in Containers /\ call[p].lt \in LimitTypes
    /\ call[p].at \in {"guard", "probe", "look"} => call[p].lt \in PauseTypes

CallsOK ==
    /\ call \in [Procs -> [at : WorkerLabels \cup LoopLabels,
                           c : Containers \cup {None}, lt : LimitTypes \cup {None}]]
    /\ \A p \in Procs : CallOK(p)

SweepOK ==
    /\ sweep \in [scope : Scopes, todo : SUBSET Segments, members : SUBSET Containers,
                  rest : SUBSET Containers, lt : LimitTypes \cup {None}, enforcing : BOOLEAN]
    /\ call[Loop].at \in EffectLabels \cup {"unmark", "each"} => sweep.lt \in LimitTypes

UsersOK ==
    /\ user \in [Users -> [at : UserLabels, c : Containers \cup {None}]]
    /\ \A u \in Users : user[u].at # "idle" => user[u].c \in Containers

\* Types of the variables, and the shape of the calls in flight.
TypeOK ==
    /\ RuntimeOK
    /\ StoredOK
    /\ FlagsOK
    /\ CallsOK
    /\ SweepOK
    /\ UsersOK
    /\ seen \in [Procs -> [LimitTypes -> Snapshots]]
    /\ restarts \in 0..MaxRestarts
    /\ disturbed \in [Containers -> BOOLEAN]

Lifted(c) == status[c] = "paused" /\ status'[c] = "running"

\* SEGMENTS.md: "A container won't be unpaused until ALL enforcement levels
\* release it -- per-container, segment, and host."  Between a segment and the host
\* that limit different types, the release of one leaves a container that is over the
\* other's limit paused: when a container is unpaused, both scopes' flags are down, and
\* of the flags enforce left on it at most the one whose release unpauses it (it is
\* cleared after the Docker call) is up.  For one type at two levels see
\* ScopesReleaseFirst.
AllLevelsRelease ==
    [][\A c \in Containers : Lifted(c) =>
          /\ ScopeFlags(c) \cap PauseTypes = {}
          /\ \E lt \in PauseTypes : enforced[c] \cap PauseTypes \subseteq {lt}]_vars

\* A container flagged as enforced by a pause type is not running, unless the
\* release that has just unpaused it is about to clear the flag.  model.go says
\* of the flag: "true if limit is currently being enforced (paused/blocked)".
EnforcedIsPaused ==
    \A c \in Containers :
        enforced[c] \cap PauseTypes # {} /\ status[c] = "running" =>
            \E p \in Procs : call[p].at = "clear" /\ call[p].c = c

\* A container that stays over a limit is eventually paused, or stopped for a
\* byte-second limit, and stays so, whatever restarts of the daemon there were.
OverLimitStops ==
    \A c \in Containers, lt \in PauseTypes \cup KillTypes :
        <>[](level[c][lt] = "over") =>
            <>[](status[c] \in IF lt \in KillTypes THEN {"exited"} ELSE {"paused", "exited"})

\* A container that stays under all its pause limits is eventually not paused any
\* more, even when the daemon lost its flags in a restart.
UnderLimitsResume ==
    \A c \in Containers :
        <>[](\A lt \in PauseTypes : level[c][lt] = "under") => <>[](status[c] # "paused")

\* While a scope is flagged for a pause type, none of its containers runs.
ScopeHolds ==
    \A s \in Scopes : scopeEnforced[s] \cap PauseTypes # {} =>
        \A c \in Containers : s \in {Host, segOf[c]} => status[c] # "running"

\* The containers of a scope that stays over a pause limit are eventually paused
\* for good.
ScopeOverStops ==
    \A s \in Scopes, lt \in PauseTypes :
        <>[](level[s][lt] = "over") =>
            <>[](\A c \in Containers : s \in {Host, segOf[c]} => status[c] # "running")

\* When every scope with a pause limit stays under it and the daemon does not lose
\* its flags, no container stays paused.
ScopeUnderResumes ==
    <>[](/\ restarts = 0
         /\ \A x \in Targets, lt \in PauseTypes :
               <<x, lt>> \in Limitable => level[x][lt] = "under")
      => <>[](\A c \in Containers : status[c] # "paused")

\* README, "Freeze vs enforcement-pause": "Enforcement releases on frozen container
\* | Clear enforced flag, container stays Docker-paused".
FrozenStaysPaused == \A c \in Containers : frozen[c] => status[c] # "running"

\* model.go: an enforced limit is "currently being enforced (paused/blocked)".  For
\* the disk I/O limits this is the throttling of the container's cgroup.
EnforcedIsThrottled ==
    \A c \in Containers :
        enforced[c] \cap IOTypes # {} /\ call[c].at = "idle" => throttled[c]

\* A running container is not frozen, in memory or in the store, and carries a
\* pause flag only while the release that unpaused it is about to clear it.
HeldIsPausedAt(c) ==
    status[c] = "running" =>
        /\ ~frozen[c]
        /\ ~storeFrozen[c]
        /\ \A lt \in enforced[c] \cap PauseTypes :
              \E p \in Procs : call[p] = [at |-> "clear", c |-> c, lt |-> lt]

\* Undisturbed, what is frozen or flagged is paused: this is what Freeze, enforce
\* and release are for (README, "Freeze vs enforcement-pause").
HeldIsPaused == \A c \in Containers : ~disturbed[c] => HeldIsPausedAt(c)

FreezeDurableAt(c) ==
    frozen[c] # storeFrozen[c] =>
        \E u \in Users : user[u].c = c /\ user[u].at \in {"flag", "unflag"}

\* Undisturbed, the frozen flag that a restart would load is the one in memory,
\* except while a freeze or an unfreeze stands between writing the two.
FreezeDurable == \A c \in Containers : ~disturbed[c] => FreezeDurableAt(c)

\* SEGMENTS.md: "A container won't be unpaused until ALL enforcement levels
\* release it -- per-container, segment, and host."  Here, only of the levels
\* above the container and of unpauses that no other actor interfered with.
ScopesReleaseFirst ==
    [][\A c \in Containers :
          Lifted(c) /\ ~disturbed'[c] => ScopeFlags(c) \cap PauseTypes = {}]_vars

-----------------------------------------------------------------------------
(* The inductive invariant: what each actor in a window relies on. *)

CallRelies(p, c) ==
    call[p].c = c /\ call[p].lt \in PauseTypes =>
        /\ call[p].at = "mark" => status[c] # "running"
        /\ call[p].at = "lift" =>
              ~frozen[c] /\ enforced[c] \cap PauseTypes \subseteq {call[p].lt}

UserRelies(u, c) ==
    user[u].c = c =>
        /\ user[u].at \in {"persist", "flag"} => status[c] # "running"
        /\ user[u].at = "flag" => storeFrozen[c]
        /\ user[u].at = "unflag" => ~storeFrozen[c]
        /\ user[u].at \in {"inspect", "unpause"} =>
              ~frozen[c] /\ enforced[c] \cap PauseTypes = {}

Undisturbed(c) ==
    /\ ~Overlap(c)
    /\ HeldIsPausedAt(c)
    /\ FreezeDurableAt(c)
    /\ \A p \in Procs : CallRelies(p, c)
    /\ \A u \in Users : UserRelies(u, c)

\* Every undisturbed container satisfies what the actors working on it rely on.
\* It is inductive, and HeldIsPaused and FreezeDurable follow from it.
RacesInv ==
    /\ TypeOK
    /\ \A c \in Containers : ~disturbed[c] => Undisturbed(c)
=============================================================================
