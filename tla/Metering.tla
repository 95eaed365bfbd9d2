------------------------------ MODULE Metering ------------------------------
(***************************************************************************)
(* How cpu time, which is never given back, gets into the totals of the host *)
(* or of a segment: the worker of each container samples a counter of the    *)
(* container's cgroup and stores it, removing a container moves what is      *)
(* stored to the accumulator of the scope, and whoever wants the total -     *)
(* checkScopeEnforcement and the handlers of the API - adds it up with one   *)
(* call of the store after the other.                                       *)
(***************************************************************************)
EXTENDS Naturals, FiniteSets, FiniteSetsExt, Functions

CONSTANTS
    Containers,
    Unit,          \* microseconds to a second, as coarse as the check needs it
    MaxUse,        \* a bound on what the containers use together
    MaxLives       \* a bound on registrations

ASSUME MeteringAssumption ==
    Unit \in Nat \ {0} /\ MaxUse \in Nat /\ MaxLives \in Nat /\ IsFiniteSet(Containers)

VARIABLES
    registered,    \* the rows of containers
    limited,       \* those with a limit of their own for the resource
    usage,         \* the usage row of each container, 0 if there is none
    accum,         \* what the accumulator got from each container
    counter,       \* the counter of each container's cgroup
    worker,        \* what each worker does, and the sample it has
    stray,         \* ticks of workers that were stopped
    report,        \* somebody who adds up
    \* auxiliary
    used,          \* what each container has used in its life
    metered,       \* the last sample its worker stored
    lives,         \* how often each was registered
    restarted,     \* containers that Docker restarted
    before,        \* the total when the report began
    gone           \* the usage of containers that were removed since, and of late ticks of them

storeVars == <<registered, limited, usage, accum>>
reportVars == <<report, before, gone>>
vars == <<storeVars, counter, worker, stray, used, metered, lives, restarted, reportVars>>

Off == [at |-> "off", sample |-> 0]
Waiting == [at |-> "wait", sample |-> 0]
NoReport == [at |-> "none", todo |-> {}, sum |-> 0]

Init ==
    /\ registered = {} /\ limited = {}
    /\ usage = [c \in Containers |-> 0] /\ accum = [c \in Containers |-> 0]
    /\ counter = [c \in Containers |-> 0] /\ worker = [c \in Containers |-> Off]
    /\ stray = {} /\ report = NoReport
    /\ used = [c \in Containers |-> 0] /\ metered = [c \in Containers |-> 0]
    /\ lives = [c \in Containers |-> 0] /\ restarted = {} /\ before = 0 /\ gone = 0

\* The host's total as the store has it.
Total == SumFunctionOnSet(usage, registered) + SumFunction(accum)

-----------------------------------------------------------------------------
(* Containers. *)

Use(c) ==
    /\ SumFunction(used) < MaxUse
    /\ used' = [used EXCEPT ![c] = @ + 1] /\ counter' = [counter EXCEPT ![c] = @ + 1]
    /\ UNCHANGED <<storeVars, worker, stray, metered, lives, restarted, reportVars>>

\* A container that is restarted gets a new cgroup.
DockerRestart(c) ==
    /\ counter[c] > 0
    /\ counter' = [counter EXCEPT ![c] = 0]
    /\ restarted' = restarted \cup {c}
    /\ UNCHANGED <<storeVars, worker, stray, used, metered, lives, reportVars>>

Register(c) ==
    /\ c \notin registered /\ SumFunction(lives) < MaxLives
    /\ registered' = registered \cup {c}
    /\ worker' = [worker EXCEPT ![c] = Waiting]
    /\ lives' = [lives EXCEPT ![c] = @ + 1]
    /\ UNCHANGED <<limited, usage, accum, counter, stray, used, metered, restarted, reportVars>>

SetLimit(c) ==
    /\ c \in registered
    /\ limited' \in {limited \cup {c}, limited \ {c}}
    /\ UNCHANGED <<registered, usage, accum, counter, worker, stray, used, metered, lives, restarted, reportVars>>

-----------------------------------------------------------------------------
(* checkAndEnforce, as far as usage goes. *)

CPUUsageMicroseconds(c) == counter[c]

\* What getCurrentUsage makes of it: whole seconds.
CurrentUsage(c) == CPUUsageMicroseconds(c) \div Unit

\* A tick reads the limits, and passes over what has none.
Tick(c) ==
    /\ worker[c].at = "wait" /\ c \in limited
    /\ worker' = [worker EXCEPT ![c].at = "sample"]
    /\ UNCHANGED <<storeVars, counter, stray, used, metered, lives, restarted, reportVars>>

Sample(c) ==
    /\ worker[c].at = "sample"
    /\ worker' = [worker EXCEPT ![c] = [at |-> "write", sample |-> CurrentUsage(c)]]
    /\ UNCHANGED <<storeVars, counter, stray, used, metered, lives, restarted, reportVars>>

\* Mutant: what was sampled is added, as for byte-seconds.
PersistAdding(c) ==
    /\ worker[c].at = "write"
    /\ usage' = [usage EXCEPT ![c] = @ + worker[c].sample]
    /\ worker' = [worker EXCEPT ![c] = Waiting]
    /\ metered' = [metered EXCEPT ![c] = worker[c].sample]
    /\ UNCHANGED <<registered, limited, accum, counter, stray, used, lives, restarted, reportVars>>

\* SetUsage.
Persist(c) ==
    /\ worker[c].at = "write"
    /\ usage' = [usage EXCEPT ![c] = worker[c].sample]
    /\ worker' = [worker EXCEPT ![c] = Waiting]
    /\ metered' = [metered EXCEPT ![c] = worker[c].sample]
    /\ UNCHANGED <<registered, limited, accum, counter, stray, used, lives, restarted, reportVars>>

\* StopContainer does not wait for the tick that is going on.
Stop(c) ==
    /\ worker[c] # Off
    /\ worker' = [worker EXCEPT ![c] = Off]
    /\ stray' = IF worker[c].at = "wait" THEN stray
                ELSE stray \cup {[c |-> c, at |-> worker[c].at, sample |-> worker[c].sample]}
    /\ UNCHANGED <<storeVars, counter, used, metered, lives, restarted, reportVars>>

\* It may have its sample yet to take.
StraySample(t) ==
    /\ t \in stray /\ t.at = "sample"
    /\ stray' = (stray \ {t}) \cup {[c |-> t.c, at |-> "write", sample |-> CurrentUsage(t.c)]}
    /\ UNCHANGED <<storeVars, counter, worker, used, metered, lives, restarted, reportVars>>

\* It makes a usage row though the container's row may be gone.
StrayPersist(t) ==
    /\ t \in stray /\ t.at = "write"
    /\ stray' = stray \ {t}
    /\ usage' = [usage EXCEPT ![t.c] = t.sample]
    /\ gone' = IF report = NoReport \/ t.c \in registered THEN gone ELSE gone + t.sample
    /\ UNCHANGED <<registered, limited, accum, counter, worker, used, metered, lives, restarted, report, before>>

\* Mutant: what was used is lost.
RemoveContainerLosing(c) ==
    /\ c \in registered /\ worker[c] = Off
    /\ registered' = registered \ {c} /\ limited' = limited \ {c}
    /\ usage' = [usage EXCEPT ![c] = 0]
    /\ gone' = IF report = NoReport THEN gone ELSE gone + usage[c]
    /\ UNCHANGED <<accum, counter, worker, stray, used, metered, lives, restarted, report, before>>

\* One transaction.
RemoveContainer(c) ==
    /\ c \in registered /\ worker[c] = Off
    /\ registered' = registered \ {c} /\ limited' = limited \ {c}
    /\ accum' = [accum EXCEPT ![c] = @ + usage[c]]
    /\ usage' = [usage EXCEPT ![c] = 0]
    /\ gone' = IF report = NoReport THEN gone ELSE gone + usage[c]
    /\ UNCHANGED <<counter, worker, stray, used, metered, lives, restarted, report, before>>

-----------------------------------------------------------------------------
(* Adding up. *)

ListContainers ==
    /\ report = NoReport
    /\ report' = [at |-> "sum", todo |-> registered, sum |-> 0]
    /\ before' = Total /\ gone' = 0
    /\ UNCHANGED <<storeVars, counter, worker, stray, used, metered, lives, restarted>>

\* GetAllUsage of one container.
AddUsage(c) ==
    /\ report.at = "sum" /\ c \in report.todo
    /\ report' = [report EXCEPT !.sum = @ + usage[c], !.todo = @ \ {c}]
    /\ UNCHANGED <<storeVars, counter, worker, stray, used, metered, lives, restarted, before, gone>>

\* The accumulator comes last.
AddAccum ==
    /\ report.at = "sum" /\ report.todo = {}
    /\ report' = [report EXCEPT !.sum = @ + SumFunction(accum), !.at = "done"]
    /\ UNCHANGED <<storeVars, counter, worker, stray, used, metered, lives, restarted, before, gone>>

\* What is done with it then is in module Enforcement.
Reported ==
    /\ report.at = "done"
    /\ report' = NoReport /\ before' = 0 /\ gone' = 0
    /\ UNCHANGED <<storeVars, counter, worker, stray, used, metered, lives, restarted>>

Next ==
    \/ \E c \in Containers :
          \/ Use(c) \/ DockerRestart(c) \/ Register(c) \/ SetLimit(c) \/ Tick(c) \/ Sample(c)
          \/ Persist(c) \/ Stop(c) \/ RemoveContainer(c) \/ AddUsage(c)
    \/ \E t \in stray : StraySample(t) \/ StrayPersist(t)
    \/ ListContainers \/ AddAccum \/ Reported

Spec == Init /\ [][Next]_vars

-----------------------------------------------------------------------------
(* Properties. *)

Samples == [c : Containers, at : {"sample", "write"}, sample : Nat]
Counts == [Containers -> Nat]

TypeOK ==
    /\ registered \subseteq Containers /\ limited \subseteq registered
    /\ usage \in Counts /\ accum \in Counts /\ counter \in Counts
    /\ worker \in [Containers -> {Off} \cup [at : {"wait", "sample", "write"}, sample : Nat]]
    /\ stray \subseteq Samples
    /\ report \in [at : {"none", "sum", "done"}, todo : SUBSET Containers, sum : Nat]
    /\ used \in Counts /\ metered \in Counts
    /\ lives \in Counts /\ restarted \subseteq Containers
    /\ before \in Nat /\ gone \in Nat

Again == {c \in Containers : lives[c] > 1}

Counted(c) == accum[c] + (IF c \in registered THEN usage[c] ELSE 0)

\* README, "Usage accumulation": what a worker stored is in the total once, before and after
\* the container is removed, and whatever a tick that was going on writes then; unless
\* Docker restarted the container, or it is registered again, when its counter goes on
\* from where it was.
CountedOnce ==
    /\ \A c \in Containers \ Again : Unit * Counted(c) <= used[c]
    /\ \A c \in Containers \ (Again \cup restarted) : metered[c] <= Counted(c)

\* The calls of a report are no snapshot.  It is never less than the total was when it
\* began, and more than the total is now by no more than what was moved to the
\* accumulator, or written by a late tick of a removed container, meanwhile; unless
\* Docker restarted a container or one came again.
ReportSound ==
    report.at = "done" /\ Again \cup restarted = {} =>
        before <= report.sum /\ report.sum <= Total + gone
=============================================================================
