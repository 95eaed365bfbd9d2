------------------------- MODULE EnforcementProofs -------------------------
(***************************************************************************)
(* Theorems about Enforcement, for any containers, segments and callers:    *)
(*  - type correctness;                                                    *)
(*  - what is frozen or flagged stays paused, and the frozen flag survives  *)
(*    a restart, for every container that no two actors worked on at the    *)
(*    same time (RacesInv is the inductive invariant);                      *)
(*  - where only the containers have cpu and disk limits, what is flagged   *)
(*    is paused and is resumed by the release of the last limit (OwnInv);   *)
(*  - where only the host and the segments have them, a flagged scope holds *)
(*    all its containers, and these too are resumed last (ScopeInv).        *)
(***************************************************************************)
EXTENDS Enforcement, TLAPS

\* Facts about the sets of limit types that the backends need again and again.
LEMMA LimitTypeFacts ==
    /\ PauseTypes \subseteq LimitTypes
    /\ PauseTypes \cap KillTypes = {}
    /\ "spending" \in LimitTypes
BY DEF LimitTypes, PauseTypes, KillTypes

LEMMA ProcFacts ==
    /\ Loop \in Procs
    /\ Containers \subseteq Procs
    /\ \A p \in Procs : p # Loop => p \in Containers
    /\ Loop \notin Containers
BY EnforcementAssumption DEF Procs

-----------------------------------------------------------------------------
(* Type correctness. *)

LEMMA InitTypeOK == Init => TypeOK
<1> SUFFICES ASSUME Init PROVE TypeOK
    OBVIOUS
<1> USE DEF Init
<1>1. RuntimeOK
    BY DEF RuntimeOK
<1>2. StoredOK
    BY DEF StoredOK, NoVerdicts, Verdicts
<1>3. FlagsOK
    BY DEF FlagsOK
<1>4. CallsOK
    BY ProcFacts DEF CallsOK, CallOK, IdleCall, WorkerLabels, LoopLabels, EffectLabels
<1>5. SweepOK
    BY ProcFacts DEF SweepOK, IdleSweep, Scopes, IdleCall, EffectLabels
<1>6. UsersOK
    BY DEF UsersOK, IdleUser, UserLabels
<1>7. seen \in [Procs -> [LimitTypes -> Snapshots]]
    BY DEF NoVerdicts, Snapshots, Verdicts
<1>8. restarts \in 0..MaxRestarts
    BY EnforcementAssumption
<1> QED
    BY <1>1, <1>2, <1>3, <1>4, <1>5, <1>6, <1>7, <1>8 DEF TypeOK

\* The observer keeps its type whatever the step.
LEMMA ObserveType == Observe => disturbed' \in [Containers -> BOOLEAN]
BY DEF Observe

\* Moving a call to a label that asks nothing new of it keeps the calls' shape.
LEMMA GotoOK ==
    ASSUME CallsOK, NEW p \in Procs, NEW label,
           label \in IF p = Loop THEN LoopLabels ELSE WorkerLabels,
           label \in EffectLabels \cup {"probe"} =>
               call[p].c \in Containers /\ call[p].lt \in LimitTypes,
           label \in {"guard", "probe", "look"} => call[p].lt \in PauseTypes,
           Goto(p, label)
    PROVE  CallsOK'
BY DEF CallsOK, CallOK, Goto

LEMMA ReturnOK ==
    ASSUME CallsOK, NEW p \in Procs, Return(p)
    PROVE  CallsOK'
BY ProcFacts DEF CallsOK, CallOK, Return, IdleCall, WorkerLabels, LoopLabels, EffectLabels

\* enforce and release keep the types.
LEMMA EffectTypeOK ==
    ASSUME TypeOK, NEW p \in Procs, EffectStep(p)
    PROVE  TypeOK'
<1> DEFINE c == call[p].c
           lt == call[p].lt
<1>0. /\ RuntimeOK /\ StoredOK /\ FlagsOK /\ CallsOK /\ SweepOK /\ UsersOK
      /\ seen \in [Procs -> [LimitTypes -> Snapshots]]
      /\ restarts \in 0..MaxRestarts
    BY DEF TypeOK
<1>a. call[p].at \in EffectLabels
    BY DEF EffectStep, Act, Mark, Look, Guard, Lift, Clear, EffectLabels
<1>b. c \in Containers /\ lt \in LimitTypes
    BY <1>0, <1>a DEF CallsOK, CallOK
<1>1. RuntimeOK'
    BY <1>0, <1>b DEF RuntimeOK, EffectStep, Act, Apply, Mark, Look, Guard, Lift, LiftEffect, Clear, runtime
<1>2. StoredOK'
    BY <1>0 DEF StoredOK, EffectStep, Act, Mark, Look, Guard, Lift, Clear, stored
<1>3. FlagsOK'
    BY <1>0, <1>b DEF FlagsOK, EffectStep, Act, Mark, Look, Guard, Lift, Clear, flags
<1>4. CallsOK'
    <2>1. \A l \in {"mark", "guard", "lift", "clear"} :
            /\ l \in IF p = Loop THEN LoopLabels ELSE WorkerLabels
            /\ l \in {"guard", "probe", "look"} => l = "guard"
        BY DEF WorkerLabels, LoopLabels, EffectLabels
    <2>2. call[p].at = "look" => lt \in PauseTypes
        BY <1>0 DEF CallsOK, CallOK
    <2>3. CASE Return(p)
        BY <1>0, <2>3, ReturnOK
    <2>4. CASE \E l \in {"mark", "lift", "clear"} : Goto(p, l)
        BY <1>0, <1>b, <2>1, <2>4, GotoOK
    <2>5. CASE call[p].at = "look" /\ Goto(p, "guard")
        BY <1>0, <1>b, <2>1, <2>2, <2>5, GotoOK
    <2> QED
        BY <2>3, <2>4, <2>5 DEF EffectStep, Act, Mark, Look, Guard, Lift, Clear
<1>5. SweepOK'
    <2>1. sweep' = sweep
        BY DEF EffectStep, Act, Mark, Look, Guard, Lift, Clear
    <2>2. p = Loop => sweep.lt \in LimitTypes
        BY <1>0, <1>a DEF SweepOK
    <2>3. p # Loop => call'[Loop] = call[Loop]
        BY <1>0, ProcFacts DEF CallsOK, EffectStep, Act, Mark, Look, Guard, Lift, Clear, Goto, Return
    <2> QED
        BY <1>0, <2>1, <2>2, <2>3 DEF SweepOK
<1>6. UsersOK'
    BY <1>0 DEF UsersOK, EffectStep, Act, Mark, Look, Guard, Lift, Clear
<1>7. /\ seen' \in [Procs -> [LimitTypes -> Snapshots]]
      /\ restarts' \in 0..MaxRestarts
    BY <1>0 DEF EffectStep, Act, Mark, Look, Guard, Lift, Clear
<1>8. disturbed' \in [Containers -> BOOLEAN]
    BY ObserveType DEF EffectStep, Act, Mark, Look, Guard, Lift, Clear
<1> QED
    BY <1>1, <1>2, <1>3, <1>4, <1>5, <1>6, <1>7, <1>8 DEF TypeOK

\* A worker's own steps keep the types.
LEMMA WorkerTypeOK ==
    ASSUME TypeOK, NEW p \in Containers, Worker(p)
    PROVE  TypeOK'
<1>0. /\ RuntimeOK /\ StoredOK /\ FlagsOK /\ CallsOK /\ SweepOK /\ UsersOK
      /\ seen \in [Procs -> [LimitTypes -> Snapshots]]
      /\ restarts \in 0..MaxRestarts
      /\ p \in Procs /\ p # Loop
    BY ProcFacts DEF TypeOK
<1>1. CASE EffectStep(p)
    BY <1>0, <1>1, EffectTypeOK
<1>2. CASE Tick(p) \/ Inspect(p) \/ Decide(p) \/ Probe(p) \/ TickEnd(p)
    <2>1. RuntimeOK' /\ StoredOK' /\ FlagsOK' /\ UsersOK'
        BY <1>0, <1>2 DEF RuntimeOK, StoredOK, FlagsOK, UsersOK, Tick, Inspect, Decide, Probe,
                          TickEnd, runtime, stored, flags
    <2>2. CallsOK'
        <3>1. \A l \in {"idle", "inspect", "next"} :
                /\ l \in WorkerLabels
                /\ l \notin EffectLabels \cup {"guard", "probe", "look"}
            BY DEF WorkerLabels, EffectLabels
        <3>2. CASE \E l \in {"idle", "inspect", "next"} : Goto(p, l)
            BY <1>0, <3>1, <3>2, GotoOK
        <3>3. CASE Probe(p)
            <4>1. call[p].c \in Containers /\ call[p].lt \in PauseTypes
                BY <1>0, <3>3 DEF CallsOK, CallOK, Probe
            <4>2. CASE Goto(p, "look")
                BY <1>0, <4>1, <4>2, GotoOK, LimitTypeFacts DEF WorkerLabels, EffectLabels
            <4>3. CASE Return(p)
                BY <1>0, <4>3, ReturnOK
            <4> QED
                BY <3>3, <4>2, <4>3 DEF Probe
        <3>4. CASE Decide(p)
            <4>1. CASE UNCHANGED call
                BY <1>0, <4>1 DEF CallsOK, CallOK
            <4>2. CASE \E lt \in LimitTypes, v \in {"none", "under", "over"} :
                          LET label == Decision(lt, v, lt \in enforced[p]) IN
                          call' = [call EXCEPT ![p] =
                             [at |-> label, c |-> p,
                              lt |-> IF label = "next" THEN None ELSE lt]]
                <5>1. PICK lt \in LimitTypes, v \in {"none", "under", "over"} :
                          LET label == Decision(lt, v, lt \in enforced[p]) IN
                          call' = [call EXCEPT ![p] =
                             [at |-> label, c |-> p,
                              lt |-> IF label = "next" THEN None ELSE lt]]
                    BY <4>2
                <5> DEFINE label == Decision(lt, v, lt \in enforced[p])
                <5>2. /\ label \in {"next", "act", "look", "lift", "probe"}
                      /\ label \in {"look", "probe"} => lt \in PauseTypes
                    BY DEF Decision, ReleaseEntry
                <5>3. /\ label \in WorkerLabels
                      /\ label # "guard"
                      /\ "next" \notin EffectLabels \cup {"guard", "probe", "look"}
                    BY <5>2 DEF WorkerLabels, EffectLabels
                <5> HIDE DEF label
                <5>4. call' = [call EXCEPT ![p] = [at |-> label, c |-> p,
                                  lt |-> IF label = "next" THEN None ELSE lt]]
                    BY <5>1 DEF label
                <5> QED
                    BY <1>0, <5>2, <5>3, <5>4 DEF CallsOK, CallOK
            <4>3. \A lt \in LimitTypes : Verdict(p, lt) \subseteq {"none", "under", "over"}
                BY <1>0 DEF Verdict, Snapshots, Verdicts
            <4>4. PICK lt \in LimitTypes :
                    \/ \E v \in Verdict(p, lt) :
                         LET label == Decision(lt, v, lt \in enforced[p]) IN
                         call' = [call EXCEPT ![p] =
                            [at |-> label, c |-> p,
                             lt |-> IF label = "next" THEN None ELSE lt]]
                    \/ UNCHANGED call
                BY <3>4 DEF Decide, Pending
            <4> QED
                BY <4>1, <4>2, <4>3, <4>4
        <3> QED
            BY <1>2, <3>2, <3>3, <3>4 DEF Tick, Inspect, TickEnd
    <2>3. SweepOK'
        <3>1. sweep' = sweep
            BY <1>2 DEF Tick, Inspect, Decide, Probe, TickEnd
        <3>2. call'[Loop] = call[Loop]
            <4>1. \A v : [call EXCEPT ![p] = v][Loop] = call[Loop]
                BY <1>0 DEF CallsOK
            <4>2. \A v : [call EXCEPT ![p].at = v][Loop] = call[Loop]
                BY <1>0 DEF CallsOK
            <4>3. CASE Tick(p) \/ Inspect(p) \/ TickEnd(p) \/ Probe(p)
                BY <4>1, <4>2, <4>3 DEF Tick, Inspect, TickEnd, Probe, Goto, Return
            <4>4. CASE Decide(p)
                BY <4>1, <4>4 DEF Decide
            <4> QED
                BY <1>2, <4>3, <4>4
        <3> QED
            BY <1>0, <3>1, <3>2 DEF SweepOK
    <2>4. seen' \in [Procs -> [LimitTypes -> Snapshots]]
        BY <1>0, <1>2 DEF Tick, Inspect, Decide, Probe, TickEnd, StoredOK, Targets, Snapshots, Verdicts
    <2>5. restarts' \in 0..MaxRestarts /\ disturbed' \in [Containers -> BOOLEAN]
        BY <1>0, <1>2, ObserveType DEF Tick, Inspect, Decide, Probe, TickEnd
    <2> QED
        BY <2>1, <2>2, <2>3, <2>4, <2>5 DEF TypeOK
<1> QED
    BY <1>1, <1>2 DEF Worker

\* The scope loop keeps the types.
LEMMA ScopeLoopTypeOK ==
    ASSUME TypeOK, ScopeLoop
    PROVE  TypeOK'
<1>0. /\ RuntimeOK /\ StoredOK /\ FlagsOK /\ CallsOK /\ SweepOK /\ UsersOK
      /\ seen \in [Procs -> [LimitTypes -> Snapshots]]
      /\ restarts \in 0..MaxRestarts
      /\ Loop \in Procs
    BY ProcFacts DEF TypeOK
<1>1. CASE EffectStep(Loop)
    BY <1>0, <1>1, EffectTypeOK
<1>2. CASE ScopeTick \/ ScopeRead \/ ScopePick \/ ScopeUnmark \/ ScopeEach \/ ScopeDone \/ ScopeNext
    <2>1. RuntimeOK' /\ StoredOK' /\ UsersOK'
        BY <1>0, <1>2 DEF RuntimeOK, StoredOK, UsersOK, ScopeTick, ScopeRead, ScopePick,
                          ScopeUnmark, ScopeEach, ScopeDone, ScopeNext, runtime, stored
    <2>2. call[Loop].at \in {"unmark", "each"} => sweep.lt \in LimitTypes
        BY <1>0 DEF SweepOK
    <2>3. FlagsOK'
        <3>1. CASE ScopeTick \/ ScopeRead \/ ScopePick \/ ScopeEach \/ ScopeNext
            BY <1>0, <3>1 DEF FlagsOK, ScopeTick, ScopeRead, ScopePick, ScopeEach, ScopeNext, flags
        <3>2. CASE ScopeUnmark
            BY <1>0, <3>2 DEF FlagsOK, ScopeUnmark
        <3>3. CASE ScopeDone
            <4>1. sweep.lt \in LimitTypes /\ sweep.scope \in Scopes
                BY <1>0, <2>2, <3>3 DEF SweepOK, ScopeDone
            <4>2. CASE sweep.enforcing
                BY <1>0, <3>3, <4>1, <4>2 DEF FlagsOK, ScopeDone
            <4>3. CASE ~sweep.enforcing
                BY <1>0, <3>3, <4>3 DEF FlagsOK, ScopeDone
            <4> QED
                BY <4>2, <4>3
        <3> QED
            BY <1>2, <3>1, <3>2, <3>3
    <2>4. CallsOK'
        <3>1. \A l \in {"idle", "read", "pick", "unmark", "each"} :
                /\ l \in LoopLabels
                /\ l \notin EffectLabels \cup {"guard", "probe", "look"}
            BY DEF LoopLabels, EffectLabels
        <3>2. CASE \E l \in {"idle", "read", "pick", "unmark", "each"} : Goto(Loop, l)
            BY <1>0, <3>1, <3>2, GotoOK
        <3>3. CASE UNCHANGED call
            BY <1>0, <3>3 DEF CallsOK, CallOK
        <3>4. CASE ScopeEach /\ ~UNCHANGED call
            <4>1. PICK c \in sweep.rest :
                    call' = [call EXCEPT ![Loop] =
                       [at |-> IF sweep.enforcing THEN "act" ELSE ReleaseEntry(sweep.lt),
                        c |-> c, lt |-> sweep.lt]]
                BY <3>4 DEF ScopeEach
            <4> DEFINE label == IF sweep.enforcing THEN "act" ELSE ReleaseEntry(sweep.lt)
            <4>2. c \in Containers /\ sweep.lt \in LimitTypes
                BY <1>0, <2>2, <3>4 DEF SweepOK, ScopeEach
            <4>3. /\ label \in {"act", "look", "lift"}
                  /\ label = "look" => sweep.lt \in PauseTypes
                BY DEF ReleaseEntry
            <4>4. label \in LoopLabels
                BY <4>3 DEF LoopLabels, EffectLabels
            <4> HIDE DEF label
            <4>5. call' = [call EXCEPT ![Loop] = [at |-> label, c |-> c, lt |-> sweep.lt]]
                BY <4>1 DEF label
            <4> QED
                BY <1>0, <4>2, <4>3, <4>4, <4>5 DEF CallsOK, CallOK
        <3> QED
            BY <1>2, <3>2, <3>3, <3>4 DEF ScopeTick, ScopeRead, ScopePick, ScopeUnmark,
                                          ScopeEach, ScopeDone, ScopeNext
    <2>5. SweepOK'
        <3>1. \A l \in {"idle", "read", "pick"} : l \notin EffectLabels \cup {"unmark", "each"}
            BY DEF EffectLabels
        <3>2. CASE ScopePick
            <4>1. PICK lt \in LimitTypes :
                    \/ UNCHANGED <<call, sweep>>
                    \/ sweep' = [sweep EXCEPT !.lt = lt, !.enforcing = (seen[Loop][lt] = "over"),
                                              !.rest = sweep.members]
                BY <3>2 DEF ScopePick, Pending
            <4>2. CASE UNCHANGED <<call, sweep>>
                BY <1>0, <4>2 DEF SweepOK
            <4>3. CASE sweep' = [sweep EXCEPT !.lt = lt,
                                              !.enforcing = (seen[Loop][lt] = "over"),
                                              !.rest = sweep.members]
                BY <1>0, <4>3 DEF SweepOK
            <4> QED
                BY <4>1, <4>2, <4>3
        <3>3. CASE ScopeUnmark \/ ScopeEach
            <4>1. sweep.lt \in LimitTypes
                BY <1>0, <3>3 DEF SweepOK, ScopeUnmark, ScopeEach
            <4>2. CASE UNCHANGED sweep
                BY <1>0, <4>1, <4>2 DEF SweepOK
            <4>3. CASE \E c \in sweep.rest : sweep' = [sweep EXCEPT !.rest = @ \ {c}]
                BY <1>0, <4>1, <4>3 DEF SweepOK
            <4> QED
                BY <3>3, <4>2, <4>3 DEF ScopeUnmark, ScopeEach
        <3>4. CASE ScopeTick \/ ScopeRead \/ ScopeDone \/ ScopeNext
            <4>1. call'[Loop].at \in {"idle", "read", "pick"}
                <5>1. \E l \in {"idle", "read", "pick"} : Goto(Loop, l)
                    BY <3>4 DEF ScopeTick, ScopeRead, ScopeDone, ScopeNext
                <5> QED
                    BY <1>0, <5>1, ProcFacts DEF CallsOK, Goto
            <4>2. sweep' \in [scope : Scopes, todo : SUBSET Segments, members : SUBSET Containers,
                              rest : SUBSET Containers, lt : LimitTypes \cup {None},
                              enforcing : BOOLEAN]
                <5>1. CASE ScopeTick
                    BY <1>0, <5>1 DEF SweepOK, ScopeTick, Scopes
                <5>2. CASE ScopeRead
                    BY <1>0, <5>2 DEF SweepOK, ScopeRead, Members
                <5>3. CASE ScopeDone
                    BY <1>0, <5>3 DEF SweepOK, ScopeDone
                <5>4. CASE ScopeNext
                    <6>1. CASE sweep' = IdleSweep
                        BY <6>1 DEF IdleSweep, Scopes
                    <6>2. CASE \E s \in sweep.todo :
                                sweep' = [sweep EXCEPT !.scope = s, !.todo = @ \ {s}, !.members = {}]
                        BY <1>0, <6>2 DEF SweepOK, Scopes
                    <6> QED
                        BY <5>4, <6>1, <6>2 DEF ScopeNext
                <5> QED
                    BY <3>4, <5>1, <5>2, <5>3, <5>4
            <4> QED
                BY <3>1, <4>1, <4>2 DEF SweepOK
        <3> QED
            BY <1>2, <3>2, <3>3, <3>4
    <2>6. seen' \in [Procs -> [LimitTypes -> Snapshots]]
        <3>1. CASE ScopeRead
            <4>1. level[sweep.scope] \in [LimitTypes -> Verdicts]
                BY <1>0 DEF StoredOK, SweepOK, Targets
            <4>2. TotalsRead(sweep.scope) \subseteq [LimitTypes -> Snapshots]
                BY <4>1 DEF TotalsRead, Snapshots, Verdicts
            <4> QED
                BY <1>0, <3>1, <4>2 DEF ScopeRead
        <3>2. CASE ScopePick
            <4>1. PICK lt \in LimitTypes : seen' = [seen EXCEPT ![Loop][lt] = "none"]
                BY <3>2 DEF ScopePick, Pending
            <4>2. "none" \in Snapshots
                BY DEF Snapshots, Verdicts
            <4> QED
                BY <1>0, <4>1, <4>2
        <3>3. CASE ScopeTick \/ ScopeUnmark \/ ScopeEach \/ ScopeDone \/ ScopeNext
            BY <1>0, <3>3 DEF ScopeTick, ScopeUnmark, ScopeEach, ScopeDone, ScopeNext
        <3> QED
            BY <1>2, <3>1, <3>2, <3>3
    <2>7. restarts' \in 0..MaxRestarts /\ disturbed' \in [Containers -> BOOLEAN]
        BY <1>0, <1>2, ObserveType DEF ScopeTick, ScopeRead, ScopePick, ScopeUnmark, ScopeEach,
                          ScopeDone, ScopeNext
    <2> QED
        BY <2>1, <2>3, <2>4, <2>5, <2>6, <2>7 DEF TypeOK
<1> QED
    BY <1>1, <1>2 DEF ScopeLoop

\* The freeze and unfreeze handlers keep the types.
LEMMA UserTypeOK ==
    ASSUME TypeOK, NEW u \in Users,
           UserStep(u) \/ \E c \in Containers : UserCall(u, c)
    PROVE  TypeOK'
<1>0. /\ RuntimeOK /\ StoredOK /\ FlagsOK /\ CallsOK /\ SweepOK /\ UsersOK
      /\ seen \in [Procs -> [LimitTypes -> Snapshots]]
      /\ restarts \in 0..MaxRestarts
    BY DEF TypeOK
<1> DEFINE moved == /\ UNCHANGED <<call, seen, sweep, restarts>>
                    /\ disturbed' \in [Containers -> BOOLEAN]
<1>1. CASE UserStep(u)
    <2>1. user[u].at # "idle" /\ user[u].c \in Containers
        BY <1>0, <1>1 DEF UsersOK, UserStep, FreezePause, FreezePersist, FreezeFlag,
                          UnfreezePersist, UnfreezeFlag, UnfreezeInspect, UnfreezeUnpause
    <2>2. RuntimeOK'
        BY <1>0, <1>1, <2>1 DEF RuntimeOK, UserStep, FreezePause, FreezePersist, FreezeFlag, runtime,
                          UnfreezePersist, UnfreezeFlag, UnfreezeInspect, UnfreezeUnpause
    <2>3. StoredOK'
        BY <1>0, <1>1, <2>1 DEF StoredOK, UserStep, FreezePause, FreezePersist, FreezeFlag, stored,
                          UnfreezePersist, UnfreezeFlag, UnfreezeInspect, UnfreezeUnpause
    <2>4. FlagsOK'
        BY <1>0, <1>1, <2>1 DEF FlagsOK, UserStep, FreezePause, FreezePersist, FreezeFlag, flags,
                          UnfreezePersist, UnfreezeFlag, UnfreezeInspect, UnfreezeUnpause
    <2>5. UsersOK'
        <3>1. CASE UserDone(u)
            BY <1>0, <3>1 DEF UsersOK, UserDone, IdleUser, UserLabels
        <3>2. CASE \E l \in {"persist", "flag", "unflag", "inspect", "unpause"} : UserAt(u, l)
            BY <1>0, <2>1, <3>2 DEF UsersOK, UserAt, UserLabels
        <3> QED
            BY <1>1, <3>1, <3>2 DEF UserStep, FreezePause, FreezePersist, FreezeFlag,
                          UnfreezePersist, UnfreezeFlag, UnfreezeInspect, UnfreezeUnpause
    <2>6. moved
        BY <1>1, ObserveType DEF UserStep, FreezePause, FreezePersist, FreezeFlag,
                          UnfreezePersist, UnfreezeFlag, UnfreezeInspect, UnfreezeUnpause
    <2> QED
        BY <1>0, <2>2, <2>3, <2>4, <2>5, <2>6 DEF TypeOK, CallsOK, CallOK, SweepOK
<1>2. ASSUME NEW c \in Containers, UserCall(u, c)
      PROVE  TypeOK'
    <2>1. RuntimeOK' /\ StoredOK' /\ FlagsOK'
        BY <1>0, <1>2 DEF RuntimeOK, StoredOK, FlagsOK, UserCall, FreezeCall, UnfreezeCall,
                          runtime, stored, flags
    <2>2. UsersOK'
        BY <1>0, <1>2 DEF UsersOK, UserCall, FreezeCall, UnfreezeCall, UserLabels
    <2>3. moved
        BY <1>2, ObserveType DEF UserCall, FreezeCall, UnfreezeCall
    <2> QED
        BY <1>0, <2>1, <2>2, <2>3 DEF TypeOK, CallsOK, CallOK, SweepOK
<1> QED
    BY <1>1, <1>2

\* The environment, a restart of the daemon included, keeps the types.
LEMMA EnvironmentTypeOK ==
    ASSUME TypeOK, Environment
    PROVE  TypeOK'
<1>0. /\ RuntimeOK /\ StoredOK /\ FlagsOK /\ CallsOK /\ SweepOK /\ UsersOK
      /\ seen \in [Procs -> [LimitTypes -> Snapshots]]
      /\ restarts \in 0..MaxRestarts
    BY DEF TypeOK
<1>1. ASSUME NEW x \in Targets, NEW lt \in LimitTypes, NEW v \in Verdicts, SetLevel(x, lt, v)
      PROVE  TypeOK'
    <2>1. seen' \in [Procs -> [LimitTypes -> Snapshots]]
        BY <1>0, <1>1 DEF SetLevel, Snapshots
    <2>2. StoredOK'
        BY <1>0, <1>1 DEF SetLevel, StoredOK
    <2>3. RuntimeOK' /\ FlagsOK' /\ CallsOK' /\ SweepOK' /\ UsersOK' /\ restarts' \in 0..MaxRestarts
        BY <1>0, <1>1 DEF SetLevel, RuntimeOK, FlagsOK, CallsOK, CallOK, SweepOK, UsersOK, runtime, flags
    <2>4. disturbed' \in [Containers -> BOOLEAN]
        BY <1>1, ObserveType DEF SetLevel
    <2> QED
        BY <2>1, <2>2, <2>3, <2>4 DEF TypeOK
<1>2. ASSUME NEW c \in Containers, Exit(c) \/ Start(c)
      PROVE  TypeOK'
    <2>1. RuntimeOK'
        BY <1>0, <1>2 DEF Exit, Start, RuntimeOK
    <2>2. StoredOK' /\ FlagsOK' /\ UsersOK'
        BY <1>0, <1>2 DEF Exit, Start, StoredOK, FlagsOK, UsersOK, stored, flags
    <2>3. CallsOK' /\ SweepOK' /\ UNCHANGED <<seen, restarts>>
        BY <1>0, <1>2 DEF Exit, Start, CallsOK, CallOK, SweepOK
    <2>4. disturbed' \in [Containers -> BOOLEAN]
        BY <1>2, ObserveType DEF Exit, Start
    <2> QED
        BY <1>0, <2>1, <2>2, <2>3, <2>4 DEF TypeOK
<1>3. ASSUME NEW c \in Containers, NEW s \in Segments \cup {None}, Move(c, s)
      PROVE  TypeOK'
    BY <1>0, <1>3, ObserveType DEF TypeOK, Move, RuntimeOK, StoredOK, FlagsOK, CallsOK, CallOK,
                                   SweepOK, UsersOK, runtime, flags
<1>4. ASSUME Restart
      PROVE  TypeOK'
    <2>1. RuntimeOK' /\ StoredOK'
        BY <1>0, <1>4 DEF Restart, RuntimeOK, StoredOK, runtime, stored
    <2>2. FlagsOK'
        BY <1>0, <1>4 DEF Restart, FlagsOK, StoredOK, LoadFrozen
    <2>3. CallsOK'
        BY <1>4, ProcFacts DEF Restart, CallsOK, CallOK, IdleCall, WorkerLabels, LoopLabels,
                               EffectLabels
    <2>4. SweepOK'
        BY <1>4, ProcFacts DEF Restart, SweepOK, IdleSweep, Scopes, IdleCall, EffectLabels
    <2>5. UsersOK'
        BY <1>4 DEF Restart, UsersOK, IdleUser, UserLabels
    <2>6. seen' \in [Procs -> [LimitTypes -> Snapshots]]
        BY <1>4 DEF Restart, NoVerdicts, Snapshots, Verdicts
    <2>7. restarts' \in 0..MaxRestarts /\ disturbed' \in [Containers -> BOOLEAN]
        BY <1>0, <1>4, ObserveType, EnforcementAssumption DEF Restart
    <2> QED
        BY <2>1, <2>2, <2>3, <2>4, <2>5, <2>6, <2>7 DEF TypeOK
<1> QED
    BY <1>1, <1>2, <1>3, <1>4 DEF Environment

LEMMA StepTypeOK == TypeOK /\ [Next]_vars => TypeOK'
<1> SUFFICES ASSUME TypeOK, [Next]_vars PROVE TypeOK'
    OBVIOUS
<1>1. CASE Next
    <2>1. CASE \E c \in Containers : Worker(c)
        BY <2>1, WorkerTypeOK
    <2>2. CASE \E u \in Users : UserStep(u)
        BY <2>2, UserTypeOK
    <2>3. CASE \E u \in Users, c \in Containers : UserCall(u, c)
        BY <2>3, UserTypeOK
    <2> QED
        BY <1>1, <2>1, <2>2, <2>3, ScopeLoopTypeOK, EnvironmentTypeOK DEF Next
<1>2. CASE UNCHANGED vars
    BY <1>2 DEF vars, runtime, stored, flags, TypeOK, RuntimeOK, StoredOK, FlagsOK, CallsOK, CallOK,
                SweepOK, UsersOK
<1> QED
    BY <1>1, <1>2

\* The variables keep their types, and every call in flight names what it is about.
THEOREM TypeCorrect == Spec => []TypeOK
BY InitTypeOK, StepTypeOK, PTL DEF Spec

-----------------------------------------------------------------------------
(* What is frozen or flagged stays paused. *)

\* What an absence of overlap says of calls and users, one kind at a time.
Alone(c) ==
    /\ \A p, q \in Procs : p # q /\ CallWindow(p, c) => ~CallWindow(q, c)
    /\ \A p \in Procs, u \in Users : CallWindow(p, c) => ~UserWindow(u, c)
    /\ \A u, v \in Users : u # v /\ UserWindow(u, c) => ~UserWindow(v, c)

LEMMA AloneWithoutOverlap ==
    ASSUME NEW c
    PROVE  /\ ~Overlap(c) => Alone(c)
           /\ ~Overlap(c)' => Alone(c)'
<1>1. /\ Procs \cup Users = Actors
      /\ Procs \cap Users = {}
    BY EnforcementAssumption DEF Actors
<1>2. ~Overlap(c) => Alone(c)
    BY <1>1 DEF Overlap, InWindow, Alone
<1>3. ~Overlap(c)' => Alone(c)'
    BY <1>1 DEF Overlap, InWindow, Alone
<1> QED
    BY <1>2, <1>3

\* The parts of Undisturbed that a step has to re-establish.
LEMMA UndisturbedParts ==
    ASSUME NEW c, ~Overlap(c)', HeldIsPausedAt(c)', FreezeDurableAt(c)',
           \A p \in Procs : CallRelies(p, c)', \A u \in Users : UserRelies(u, c)'
    PROVE  Undisturbed(c)'
BY DEF Undisturbed

\* A step that moves one call, which is not about to clear a flag, to a place
\* whose assumptions hold, and touches nothing that anybody relies on.
LEMMA CallMoves ==
    ASSUME NEW c, NEW p \in Procs, Undisturbed(c), ~Overlap(c)',
           UNCHANGED <<status, storeFrozen, enforced, frozen, user>>,
           \A q \in Procs \ {p} : call'[q] = call[q],
           call[p].at # "clear",
           CallRelies(p, c)'
    PROVE  Undisturbed(c)'
<1>1. HeldIsPausedAt(c)'
    BY DEF Undisturbed, HeldIsPausedAt
<1>2. FreezeDurableAt(c)'
    BY DEF Undisturbed, FreezeDurableAt
<1>3. ASSUME NEW q \in Procs PROVE CallRelies(q, c)'
    BY DEF Undisturbed, CallRelies
<1>4. ASSUME NEW u \in Users PROVE UserRelies(u, c)'
    BY DEF Undisturbed, UserRelies
<1> QED
    BY <1>1, <1>2, <1>3, <1>4, UndisturbedParts

\* One call changes place, the others stay.
LEMMA GotoStays ==
    ASSUME CallsOK, NEW p \in Procs, NEW label, Goto(p, label)
    PROVE  /\ \A q \in Procs \ {p} : call'[q] = call[q]
           /\ call'[p] = [at |-> label, c |-> call[p].c, lt |-> call[p].lt]
           /\ call'[p].at = label
           /\ call'[p].c = call[p].c
           /\ call'[p].lt = call[p].lt
BY DEF CallsOK, Goto

LEMMA ReturnStays ==
    ASSUME CallsOK, NEW p \in Procs, Return(p)
    PROVE  /\ \A q \in Procs \ {p} : call'[q] = call[q]
           /\ call'[p].at \in {"each", "next"}
BY DEF CallsOK, Return, IdleCall

-----------------------------------------------------------------------------
(* enforce and release. *)

\* A call on another container leaves this one alone.
LEMMA EffectElsewhere ==
    ASSUME TypeOK, NEW c \in Containers, NEW p \in Procs, EffectStep(p), call[p].c # c,
           Undisturbed(c), ~Overlap(c)'
    PROVE  Undisturbed(c)'
<1>0. CallsOK /\ RuntimeOK /\ FlagsOK /\ call[p].c \in Containers
    BY DEF TypeOK, CallsOK, CallOK, EffectStep, Act, Mark, Look, Guard, Lift, Clear, EffectLabels
<1>1. /\ \A q \in Procs \ {p} : call'[q] = call[q]
      /\ call'[p].c = c => call'[p].at \in {"each", "next"}
    <2>1. Return(p) \/ \E l \in {"mark", "guard", "lift", "clear"} : Goto(p, l)
        BY DEF EffectStep, Act, Mark, Look, Guard, Lift, Clear
    <2>2. CASE Return(p)
        BY <1>0, <2>2, ReturnStays
    <2>3. ASSUME NEW l \in {"mark", "guard", "lift", "clear"}, Goto(p, l)
          PROVE  /\ \A q \in Procs \ {p} : call'[q] = call[q]
                 /\ call'[p].c # c
        BY <1>0, <2>3, GotoStays
    <2> QED
        BY <2>1, <2>2, <2>3
<1>2. status'[c] = status[c] /\ enforced'[c] = enforced[c]
    BY <1>0 DEF RuntimeOK, FlagsOK, EffectStep, Act, Apply, Mark, Look, Guard, Lift, LiftEffect, Clear,
                runtime, flags
<1>3. UNCHANGED <<storeFrozen, frozen, user>>
    BY DEF EffectStep, Act, Mark, Look, Guard, Lift, Clear, stored, flags
<1>4. HeldIsPausedAt(c)'
    BY <1>1, <1>2, <1>3 DEF Undisturbed, HeldIsPausedAt
<1>5. FreezeDurableAt(c)'
    BY <1>3 DEF Undisturbed, FreezeDurableAt
<1>6. ASSUME NEW q \in Procs PROVE CallRelies(q, c)'
    BY <1>1, <1>2, <1>3 DEF Undisturbed, CallRelies
<1>7. ASSUME NEW u \in Users PROVE UserRelies(u, c)'
    BY <1>2, <1>3 DEF Undisturbed, UserRelies
<1> QED
    BY <1>4, <1>5, <1>6, <1>7, UndisturbedParts

\* Pausing, disconnecting, throttling or stopping never starts a container.
LEMMA ActUndisturbed ==
    ASSUME TypeOK, NEW c \in Containers, NEW p \in Procs, Act(p), call[p].c = c,
           Undisturbed(c), ~Overlap(c)'
    PROVE  Undisturbed(c)'
<1>0. CallsOK /\ RuntimeOK /\ call[p].at = "act"
    BY DEF TypeOK, Act
<1>1. UNCHANGED <<storeFrozen, enforced, frozen, user>>
    BY DEF Act, stored, flags
<1>2. /\ \A q \in Procs \ {p} : call'[q] = call[q]
      /\ \/ call'[p].at \in {"each", "next"}
         \/ call'[p].at = "mark" /\ call'[p].lt = call[p].lt
    <2>1. CASE Return(p)
        BY <1>0, <2>1, ReturnStays
    <2>2. CASE Goto(p, "mark")
        BY <1>0, <2>2, GotoStays
    <2> QED
        BY <2>1, <2>2 DEF Act
<1>3. /\ status'[c] = "running" => status[c] = "running"
      /\ call'[p].at = "mark" /\ call[p].lt \in PauseTypes => status'[c] # "running"
    <2>1. CASE Apply(c, call[p].lt)
        BY <1>0, <2>1 DEF Apply, RuntimeOK
    <2>2. CASE WithoutCgroup(p) /\ UNCHANGED runtime
        BY <2>2 DEF WithoutCgroup, runtime, PauseTypes, IOTypes
    <2>3. CASE Return(p) /\ UNCHANGED runtime
        BY <1>0, <2>3, ReturnStays DEF runtime
    <2> QED
        BY <2>1, <2>2, <2>3 DEF Act
<1>4. HeldIsPausedAt(c)'
    BY <1>0, <1>1, <1>2, <1>3 DEF Undisturbed, HeldIsPausedAt
<1>5. FreezeDurableAt(c)'
    BY <1>1 DEF Undisturbed, FreezeDurableAt
<1>6. ASSUME NEW q \in Procs PROVE CallRelies(q, c)'
    <2>1. CASE q = p
        BY <1>2, <1>3, <2>1 DEF CallRelies
    <2>2. CASE q # p
        BY <1>1, <1>2, <1>3, <2>2 DEF Undisturbed, CallRelies
    <2> QED
        BY <2>1, <2>2
<1>7. ASSUME NEW u \in Users PROVE UserRelies(u, c)'
    BY <1>1, <1>3 DEF Undisturbed, UserRelies
<1> QED
    BY <1>4, <1>5, <1>6, <1>7, UndisturbedParts

\* The flag goes up while the container is paused, and while nobody else stands
\* between seeing no flag and unpausing.
LEMMA MarkUndisturbed ==
    ASSUME TypeOK, NEW c \in Containers, NEW p \in Procs, Mark(p), call[p].c = c,
           Undisturbed(c), ~Overlap(c)'
    PROVE  Undisturbed(c)'
<1> DEFINE lt == call[p].lt
<1>0. CallsOK /\ FlagsOK /\ call[p].at = "mark"
    BY DEF TypeOK, Mark
<1>1. UNCHANGED <<status, storeFrozen, frozen, user>>
    BY DEF Mark, runtime, stored
<1>2. /\ \A q \in Procs \ {p} : call'[q] = call[q]
      /\ call'[p].at \in {"each", "next"}
    BY <1>0, ReturnStays DEF Mark
<1>3. enforced'[c] = enforced[c] \cup {lt}
    BY <1>0 DEF Mark, FlagsOK
<1>4. Alone(c)
    BY AloneWithoutOverlap DEF Undisturbed
<1>5. lt \in PauseTypes => CallWindow(p, c)
    BY <1>0 DEF CallWindow
<1>6. HeldIsPausedAt(c)'
    <2>1. CASE lt \in PauseTypes
        BY <1>0, <1>1, <2>1 DEF Undisturbed, CallRelies, HeldIsPausedAt
    <2>2. CASE lt \notin PauseTypes
        <3>1. enforced'[c] \cap PauseTypes = enforced[c] \cap PauseTypes
            BY <1>3, <2>2
        <3> QED
            BY <1>0, <1>1, <1>2, <3>1 DEF Undisturbed, HeldIsPausedAt
    <2> QED
        BY <2>1, <2>2
<1>7. FreezeDurableAt(c)'
    BY <1>1 DEF Undisturbed, FreezeDurableAt
<1>8. ASSUME NEW q \in Procs PROVE CallRelies(q, c)'
    <2>1. CASE q = p
        BY <1>2, <2>1 DEF CallRelies
    <2>2. CASE q # p /\ lt \in PauseTypes
        <3>1. ~CallWindow(q, c)
            BY <1>4, <1>5, <2>2 DEF Alone
        <3> QED
            BY <1>1, <1>2, <2>2, <3>1 DEF Undisturbed, CallRelies, CallWindow
    <2>3. CASE q # p /\ lt \notin PauseTypes
        BY <1>1, <1>2, <1>3, <2>3 DEF Undisturbed, CallRelies
    <2> QED
        BY <2>1, <2>2, <2>3
<1>9. ASSUME NEW u \in Users PROVE UserRelies(u, c)'
    <2>1. CASE lt \in PauseTypes
        <3>1. ~UserWindow(u, c)
            BY <1>4, <1>5, <2>1 DEF Alone
        <3> QED
            BY <1>1, <3>1 DEF Undisturbed, UserRelies, UserWindow
    <2>2. CASE lt \notin PauseTypes
        BY <1>1, <1>3, <2>2 DEF Undisturbed, UserRelies
    <2> QED
        BY <2>1, <2>2
<1> QED
    BY <1>6, <1>7, <1>8, <1>9, UndisturbedParts

\* The inspection moves on, and the guard leads to an unpause only when neither
\* the freeze nor another pause flag of the container is up.
LEMMA LookGuardUndisturbed ==
    ASSUME TypeOK, NEW c \in Containers, NEW p \in Procs, Look(p) \/ Guard(p), call[p].c = c,
           Undisturbed(c), ~Overlap(c)'
    PROVE  Undisturbed(c)'
<1>0. CallsOK /\ call[p].at \in {"look", "guard"}
    BY DEF TypeOK, Look, Guard
<1>1. UNCHANGED <<status, storeFrozen, enforced, frozen, user>>
    BY DEF Look, Guard, runtime, stored, flags
<1>2. PICK l \in {"guard", "clear", "lift"} :
          /\ Goto(p, l)
          /\ l = "lift" => ~frozen[c] /\ enforced[c] \cap PauseTypes \subseteq {call[p].lt}
    <2>1. CASE Look(p)
        BY <2>1 DEF Look
    <2>2. CASE Guard(p)
        <3>1. PICK scopes : Goto(p, IF OtherPauseActive(c, call[p].lt, scopes) THEN "clear" ELSE "lift")
            BY <2>2 DEF Guard
        <3> QED
            BY <3>1 DEF OtherPauseActive
    <2> QED
        BY <2>1, <2>2
<1>3. /\ \A q \in Procs \ {p} : call'[q] = call[q]
      /\ call'[p].at = l
      /\ call'[p].lt = call[p].lt
    BY <1>0, <1>2, GotoStays
<1>4. CallRelies(p, c)'
    BY <1>1, <1>2, <1>3 DEF CallRelies
<1> QED
    BY <1>0, <1>1, <1>3, <1>4, CallMoves

\* The unpause happens with the freeze flag down, in memory and in the store, and
\* with no pause flag up but the one this release is about to clear.
LEMMA LiftUndisturbed ==
    ASSUME TypeOK, NEW c \in Containers, NEW p \in Procs, Lift(p), call[p].c = c,
           Undisturbed(c), ~Overlap(c)'
    PROVE  Undisturbed(c)'
<1> DEFINE lt == call[p].lt
<1>0. CallsOK /\ RuntimeOK /\ call[p].at = "lift"
    BY DEF TypeOK, Lift
<1>1. UNCHANGED <<storeFrozen, enforced, frozen, user>>
    BY DEF Lift, stored, flags
<1>2. CASE status'[c] = status[c]
    <2>1. /\ \A q \in Procs \ {p} : call'[q] = call[q]
          /\ call'[p].at \in {"each", "next", "clear"}
        <3>1. CASE Return(p)
            BY <1>0, <3>1, ReturnStays
        <3>2. CASE Goto(p, "clear")
            BY <1>0, <3>2, GotoStays
        <3> QED
            BY <3>1, <3>2 DEF Lift
    <2>2. HeldIsPausedAt(c)'
        BY <1>0, <1>1, <1>2, <2>1 DEF Undisturbed, HeldIsPausedAt
    <2>3. FreezeDurableAt(c)'
        BY <1>1 DEF Undisturbed, FreezeDurableAt
    <2>4. ASSUME NEW q \in Procs PROVE CallRelies(q, c)'
        BY <1>1, <1>2, <2>1 DEF Undisturbed, CallRelies
    <2>5. ASSUME NEW u \in Users PROVE UserRelies(u, c)'
        BY <1>1, <1>2 DEF Undisturbed, UserRelies
    <2> QED
        BY <2>2, <2>3, <2>4, <2>5, UndisturbedParts
<1>3. CASE status'[c] # status[c]
    <2>1. lt \in PauseTypes /\ Goto(p, "clear")
        BY <1>0, <1>3 DEF Lift, LiftEffect, RuntimeOK, runtime
    <2>2. /\ \A q \in Procs \ {p} : call'[q] = call[q]
          /\ call'[p] = [at |-> "clear", c |-> c, lt |-> lt]
          /\ call'[p].at = "clear"
        BY <1>0, <2>1, GotoStays
    <2>3. CallWindow(p, c) /\ Alone(c)
        BY <1>0, <2>1, AloneWithoutOverlap DEF CallWindow, Undisturbed
    <2>4. /\ \A q \in Procs \ {p} : ~CallWindow(q, c)
          /\ \A u \in Users : ~UserWindow(u, c)
        BY <2>3 DEF Alone
    <2>5. ~frozen[c] /\ enforced[c] \cap PauseTypes \subseteq {lt}
        BY <1>0, <2>1 DEF Undisturbed, CallRelies
    <2>6. ~storeFrozen[c]
        BY <2>4, <2>5 DEF Undisturbed, FreezeDurableAt, UserWindow, TypeOK, FlagsOK, StoredOK
    <2>7. HeldIsPausedAt(c)'
        BY <1>1, <2>2, <2>5, <2>6 DEF HeldIsPausedAt
    <2>8. FreezeDurableAt(c)'
        BY <1>1 DEF Undisturbed, FreezeDurableAt
    <2>9. ASSUME NEW q \in Procs PROVE CallRelies(q, c)'
        BY <1>1, <2>2, <2>4 DEF CallRelies, CallWindow
    <2>10. ASSUME NEW u \in Users PROVE UserRelies(u, c)'
        BY <1>1, <2>4 DEF UserRelies, UserWindow
    <2> QED
        BY <2>7, <2>8, <2>9, <2>10, UndisturbedParts
<1> QED
    BY <1>2, <1>3

\* Only the flag that the release is about is cleared.
LEMMA ClearUndisturbed ==
    ASSUME TypeOK, NEW c \in Containers, NEW p \in Procs, Clear(p), call[p].c = c,
           Undisturbed(c), ~Overlap(c)'
    PROVE  Undisturbed(c)'
<1> DEFINE lt == call[p].lt
<1>0. CallsOK /\ FlagsOK
    BY DEF TypeOK
<1>1. UNCHANGED <<status, storeFrozen, frozen, user>>
    BY DEF Clear, runtime, stored
<1>2. /\ \A q \in Procs \ {p} : call'[q] = call[q]
      /\ call'[p].at \in {"each", "next"}
    BY <1>0, ReturnStays DEF Clear
<1>3. enforced'[c] = enforced[c] \ {lt}
    BY <1>0 DEF Clear, FlagsOK
<1>4. HeldIsPausedAt(c)'
    <2> SUFFICES ASSUME status[c] = "running", NEW l \in enforced'[c] \cap PauseTypes
                 PROVE  \E q \in Procs : call'[q] = [at |-> "clear", c |-> c, lt |-> l]
        BY <1>1 DEF Undisturbed, HeldIsPausedAt
    <2>1. PICK q \in Procs : call[q] = [at |-> "clear", c |-> c, lt |-> l]
        BY <1>3 DEF Undisturbed, HeldIsPausedAt
    <2>2. q # p
        BY <1>3, <2>1
    <2> QED
        BY <1>2, <2>1, <2>2
<1>5. FreezeDurableAt(c)'
    BY <1>1 DEF Undisturbed, FreezeDurableAt
<1>6. ASSUME NEW q \in Procs PROVE CallRelies(q, c)'
    BY <1>1, <1>2, <1>3 DEF Undisturbed, CallRelies
<1>7. ASSUME NEW u \in Users PROVE UserRelies(u, c)'
    BY <1>1, <1>3 DEF Undisturbed, UserRelies
<1> QED
    BY <1>4, <1>5, <1>6, <1>7, UndisturbedParts

LEMMA EffectUndisturbed ==
    ASSUME TypeOK, NEW c \in Containers, NEW p \in Procs, EffectStep(p),
           Undisturbed(c), ~Overlap(c)'
    PROVE  Undisturbed(c)'
<1>1. CASE call[p].c # c
    BY <1>1, EffectElsewhere
<1>2. CASE call[p].c = c
    BY <1>2, ActUndisturbed, MarkUndisturbed, LookGuardUndisturbed, LiftUndisturbed,
       ClearUndisturbed DEF EffectStep
<1> QED
    BY <1>1, <1>2

-----------------------------------------------------------------------------
(* The worker and the scope loop outside enforce and release. *)

LEMMA WorkerUndisturbed ==
    ASSUME TypeOK, NEW c \in Containers, NEW w \in Containers, Worker(w),
           Undisturbed(c), ~Overlap(c)'
    PROVE  Undisturbed(c)'
<1>0. CallsOK /\ w \in Procs
    BY ProcFacts DEF TypeOK
<1>1. CASE EffectStep(w)
    BY <1>0, <1>1, EffectUndisturbed
<1>2. CASE Tick(w) \/ Inspect(w) \/ Decide(w) \/ Probe(w) \/ TickEnd(w)
    <2>1. UNCHANGED <<status, storeFrozen, enforced, frozen, user>> /\ call[w].at # "clear"
        BY <1>2 DEF Tick, Inspect, Decide, Probe, TickEnd, runtime, stored, flags
    <2>2. /\ \A q \in Procs \ {w} : call'[q] = call[q]
          /\ \/ call'[w].at \notin {"mark", "lift"}
             \/ call'[w].lt \notin PauseTypes
        <3>1. CASE Return(w)
            BY <1>0, <3>1, ReturnStays
        <3>2. CASE \E l \in {"idle", "inspect", "next", "look"} : Goto(w, l)
            <4>1. PICK l \in {"idle", "inspect", "next", "look"} : Goto(w, l)
                BY <3>2
            <4> QED
                BY <1>0, <4>1, GotoStays
        <3>3. CASE UNCHANGED call /\ call[w].at = "next"
            BY <3>3
        <3>4. CASE \E lt, v : LET label == Decision(lt, v, lt \in enforced[w]) IN
                     call' = [call EXCEPT ![w] =
                        [at |-> label, c |-> w, lt |-> IF label = "next" THEN None ELSE lt]]
            <4>1. PICK lt, v : LET label == Decision(lt, v, lt \in enforced[w]) IN
                     call' = [call EXCEPT ![w] =
                        [at |-> label, c |-> w, lt |-> IF label = "next" THEN None ELSE lt]]
                BY <3>4
            <4> DEFINE label == Decision(lt, v, lt \in enforced[w])
            <4>2. /\ label \in {"next", "act", "look", "lift", "probe"}
                  /\ label = "lift" => lt \notin PauseTypes
                BY DEF Decision, ReleaseEntry
            <4> HIDE DEF label
            <4>3. call' = [call EXCEPT ![w] =
                        [at |-> label, c |-> w, lt |-> IF label = "next" THEN None ELSE lt]]
                BY <4>1 DEF label
            <4> QED
                BY <1>0, <4>2, <4>3 DEF CallsOK
        <3>5. Decide(w) => \/ UNCHANGED call /\ call[w].at = "next"
                           \/ \E lt, v : LET label == Decision(lt, v, lt \in enforced[w]) IN
                                call' = [call EXCEPT ![w] =
                                   [at |-> label, c |-> w, lt |-> IF label = "next" THEN None ELSE lt]]
            BY DEF Decide
        <3> QED
            BY <1>2, <3>1, <3>2, <3>3, <3>4, <3>5 DEF Tick, Inspect, Probe, TickEnd
    <2>3. CallRelies(w, c)'
        BY <2>2 DEF CallRelies
    <2> QED
        BY <1>0, <2>1, <2>2, <2>3, CallMoves
<1> QED
    BY <1>1, <1>2 DEF Worker

LEMMA ScopeLoopUndisturbed ==
    ASSUME TypeOK, NEW c \in Containers, ScopeLoop, Undisturbed(c), ~Overlap(c)'
    PROVE  Undisturbed(c)'
<1>0. CallsOK /\ Loop \in Procs
    BY ProcFacts DEF TypeOK
<1>1. CASE EffectStep(Loop)
    BY <1>0, <1>1, EffectUndisturbed
<1>2. CASE ScopeTick \/ ScopeRead \/ ScopePick \/ ScopeUnmark \/ ScopeEach \/ ScopeDone \/ ScopeNext
    <2>1. UNCHANGED <<status, storeFrozen, enforced, frozen, user>> /\ call[Loop].at # "clear"
        BY <1>2 DEF ScopeTick, ScopeRead, ScopePick, ScopeUnmark, ScopeEach, ScopeDone, ScopeNext,
                    runtime, stored, flags
    <2>2. /\ \A q \in Procs \ {Loop} : call'[q] = call[q]
          /\ \/ call'[Loop].at \notin {"mark", "lift"}
             \/ call'[Loop].lt \notin PauseTypes
        <3>1. CASE \E l \in {"idle", "read", "pick", "each", "unmark"} : Goto(Loop, l)
            <4>1. PICK l \in {"idle", "read", "pick", "each", "unmark"} : Goto(Loop, l)
                BY <3>1
            <4> QED
                BY <1>0, <4>1, GotoStays
        <3>2. CASE UNCHANGED call /\ call[Loop].at \in {"pick", "each"}
            BY <3>2
        <3>3. CASE \E d : call' = [call EXCEPT ![Loop] =
                        [at |-> IF sweep.enforcing THEN "act" ELSE ReleaseEntry(sweep.lt),
                         c |-> d, lt |-> sweep.lt]]
            <4> DEFINE label == IF sweep.enforcing THEN "act" ELSE ReleaseEntry(sweep.lt)
            <4>1. /\ label \in {"act", "look", "lift"}
                  /\ label = "lift" => sweep.lt \notin PauseTypes
                BY DEF ReleaseEntry
            <4>2. PICK d : call' = [call EXCEPT ![Loop] = [at |-> label, c |-> d, lt |-> sweep.lt]]
                BY <3>3
            <4> HIDE DEF label
            <4> QED
                BY <1>0, <4>1, <4>2 DEF CallsOK
        <3> QED
            BY <1>2, <3>1, <3>2, <3>3 DEF ScopeTick, ScopeRead, ScopePick, ScopeUnmark, ScopeEach,
                                          ScopeDone, ScopeNext
    <2>3. CallRelies(Loop, c)'
        BY <2>2 DEF CallRelies
    <2> QED
        BY <1>0, <2>1, <2>2, <2>3, CallMoves
<1> QED
    BY <1>1, <1>2 DEF ScopeLoop

-----------------------------------------------------------------------------
(* Freeze and Unfreeze. *)

\* Only the caller's own entry changes, and what it says of the container.
LEMMA UserStays ==
    ASSUME UsersOK, NEW u \in Users
    PROVE  /\ \A label : UserAt(u, label) =>
                 /\ \A v \in Users \ {u} : user'[v] = user[v]
                 /\ user'[u].at = label
                 /\ user'[u].c = user[u].c
           /\ UserDone(u) => /\ \A v \in Users \ {u} : user'[v] = user[v]
                             /\ user'[u].at = "idle"
BY DEF UsersOK, UserAt, UserDone, IdleUser

\* A call on another container, or one that has not begun its work.
LEMMA UserElsewhere ==
    ASSUME NEW c \in Containers, NEW u \in Users, Undisturbed(c), ~Overlap(c)',
           UNCHANGED call,
           status'[c] = status[c], enforced'[c] = enforced[c],
           frozen'[c] = frozen[c], storeFrozen'[c] = storeFrozen[c],
           \A v \in Users \ {u} : user'[v] = user[v],
           user[u].c = c => user[u].at \notin {"flag", "unflag"},
           user'[u].c = c => \/ user'[u].at \in {"idle", "pause", "unpersist"}
                             \/ UserRelies(u, c)'
    PROVE  Undisturbed(c)'
<1>1. HeldIsPausedAt(c)'
    BY DEF Undisturbed, HeldIsPausedAt
<1>2. FreezeDurableAt(c)'
    BY DEF Undisturbed, FreezeDurableAt
<1>3. ASSUME NEW q \in Procs PROVE CallRelies(q, c)'
    BY DEF Undisturbed, CallRelies
<1>4. ASSUME NEW v \in Users PROVE UserRelies(v, c)'
    BY DEF Undisturbed, UserRelies
<1> QED
    BY <1>1, <1>2, <1>3, <1>4, UndisturbedParts

\* A call that begins, that gives up before it has changed anything, that has
\* finished or that only inspects.
LEMMA UserQuietUndisturbed ==
    ASSUME TypeOK, NEW c \in Containers, NEW u \in Users, Undisturbed(c), ~Overlap(c)',
           \/ \E d \in Containers : UserCall(u, d)
           \/ UnfreezeInspect(u)
           \/ UserStep(u) /\ user[u].c # c
    PROVE  Undisturbed(c)'
<1>0. UsersOK /\ RuntimeOK /\ StoredOK /\ FlagsOK
    BY DEF TypeOK
<1>1. CASE \E d \in Containers : UserCall(u, d)
    <2>1. /\ UNCHANGED <<call, status, enforced, frozen, storeFrozen>>
          /\ user[u].at = "idle"
          /\ \A v \in Users \ {u} : user'[v] = user[v]
          /\ user'[u].at \in {"pause", "unpersist"}
        BY <1>0, <1>1 DEF UserCall, FreezeCall, UnfreezeCall, UsersOK, runtime, stored, flags
    <2> QED
        BY <2>1, UserElsewhere
<1>2. CASE UnfreezeInspect(u)
    <2>1. /\ UNCHANGED <<call, status, enforced, frozen, storeFrozen>>
          /\ user[u].at = "inspect"
        BY <1>2 DEF UnfreezeInspect, runtime, stored, flags
    <2>2. /\ \A v \in Users \ {u} : user'[v] = user[v]
          /\ \/ user'[u].at = "idle"
             \/ user'[u].at = "unpause" /\ user'[u].c = user[u].c
        BY <1>0, <1>2, UserStays DEF UnfreezeInspect
    <2>3. user'[u].c = c => user'[u].at = "idle" \/ UserRelies(u, c)'
        BY <2>1, <2>2 DEF Undisturbed, UserRelies
    <2> QED
        BY <2>1, <2>2, <2>3, UserElsewhere
<1>3. CASE UserStep(u) /\ user[u].c # c
    <2>1. user[u].c \in Containers /\ UNCHANGED <<call, enforced>>
        BY <1>0, <1>3 DEF UsersOK, UserStep, FreezePause, FreezePersist, FreezeFlag, UnfreezePersist,
                          UnfreezeFlag, UnfreezeInspect, UnfreezeUnpause, flags
    <2>2. /\ status'[c] = status[c]
          /\ frozen'[c] = frozen[c]
          /\ storeFrozen'[c] = storeFrozen[c]
        BY <1>0, <1>3, <2>1 DEF RuntimeOK, StoredOK, FlagsOK, UserStep, FreezePause, FreezePersist,
                          FreezeFlag, UnfreezePersist, UnfreezeFlag, UnfreezeInspect,
                          UnfreezeUnpause, runtime, stored, flags
    <2>3. /\ \A v \in Users \ {u} : user'[v] = user[v]
          /\ user'[u].at = "idle" \/ user'[u].c # c
        BY <1>0, <1>3, UserStays DEF UserStep, FreezePause, FreezePersist, FreezeFlag, UnfreezePersist,
                          UnfreezeFlag, UnfreezeInspect, UnfreezeUnpause
    <2> QED
        BY <1>3, <2>1, <2>2, <2>3, UserElsewhere
<1> QED
    BY <1>1, <1>2, <1>3

\* Freeze: the container is paused before either flag is written.
LEMMA FreezeUndisturbed ==
    ASSUME TypeOK, NEW c \in Containers, NEW u \in Users, user[u].c = c,
           FreezePause(u) \/ FreezePersist(u) \/ FreezeFlag(u),
           Undisturbed(c), ~Overlap(c)'
    PROVE  Undisturbed(c)'
<1>0. UsersOK /\ RuntimeOK /\ StoredOK /\ FlagsOK
    BY DEF TypeOK
<1>a. UNCHANGED <<call, enforced>>
    BY DEF FreezePause, FreezePersist, FreezeFlag, flags
<1>b. UserWindow(u, c) => /\ \A p \in Procs : ~CallWindow(p, c)
                          /\ \A v \in Users \ {u} : ~UserWindow(v, c)
    BY AloneWithoutOverlap DEF Undisturbed, Alone
<1>1. CASE UserDone(u) /\ UNCHANGED <<status, frozen, storeFrozen>> /\ user[u].at # "flag"
    <2>1. user[u].at # "unflag"
        BY DEF FreezePause, FreezePersist, FreezeFlag
    <2>2. /\ \A v \in Users \ {u} : user'[v] = user[v]
          /\ user'[u].at = "idle"
        BY <1>0, <1>1, UserStays
    <2> QED
        BY <1>1, <1>a, <2>1, <2>2, UserElsewhere
<1>2. CASE FreezePause(u) /\ UserAt(u, "persist") /\ status' = [status EXCEPT ![c] = "paused"]
    <2>1. /\ status'[c] = "paused"
          /\ UNCHANGED <<frozen, storeFrozen>>
          /\ user[u].at = "pause"
          /\ \A v \in Users \ {u} : user'[v] = user[v]
          /\ user'[u].at = "persist"
        BY <1>0, <1>2, UserStays DEF RuntimeOK, FreezePause, stored, flags
    <2>2. HeldIsPausedAt(c)'
        BY <2>1 DEF HeldIsPausedAt
    <2>3. FreezeDurableAt(c)'
        BY <2>1 DEF Undisturbed, FreezeDurableAt
    <2>4. ASSUME NEW q \in Procs PROVE CallRelies(q, c)'
        BY <1>a, <2>1 DEF Undisturbed, CallRelies
    <2>5. ASSUME NEW v \in Users PROVE UserRelies(v, c)'
        BY <1>a, <2>1 DEF Undisturbed, UserRelies
    <2> QED
        BY <2>2, <2>3, <2>4, <2>5, UndisturbedParts
<1>3. CASE FreezePersist(u) /\ UserAt(u, "flag") /\ storeFrozen' = [storeFrozen EXCEPT ![c] = TRUE]
    <2>1. /\ storeFrozen'[c] = TRUE
          /\ UNCHANGED <<status, frozen>>
          /\ user[u].at = "persist"
          /\ \A v \in Users \ {u} : user'[v] = user[v]
          /\ user'[u].at = "flag"
          /\ user'[u].c = c
        BY <1>0, <1>3, UserStays DEF StoredOK, FreezePersist, runtime, flags
    <2>2. status[c] # "running"
        BY <2>1 DEF Undisturbed, UserRelies
    <2>3. \A v \in Users \ {u} : ~UserWindow(v, c)
        BY <1>b, <2>1 DEF UserWindow
    <2>4. HeldIsPausedAt(c)'
        BY <2>1, <2>2 DEF HeldIsPausedAt
    <2>5. FreezeDurableAt(c)'
        BY <2>1 DEF FreezeDurableAt
    <2>6. ASSUME NEW q \in Procs PROVE CallRelies(q, c)'
        BY <1>a, <2>1 DEF Undisturbed, CallRelies
    <2>7. ASSUME NEW v \in Users PROVE UserRelies(v, c)'
        BY <2>1, <2>2, <2>3 DEF UserRelies, UserWindow
    <2> QED
        BY <2>4, <2>5, <2>6, <2>7, UndisturbedParts
<1>4. CASE FreezeFlag(u)
    <2>1. /\ frozen'[c] = TRUE
          /\ UNCHANGED <<status, storeFrozen>>
          /\ user[u].at = "flag"
          /\ \A v \in Users \ {u} : user'[v] = user[v]
          /\ user'[u].at = "idle"
        BY <1>0, <1>4, UserStays DEF FlagsOK, FreezeFlag, runtime, stored
    <2>2. status[c] # "running" /\ storeFrozen[c] = TRUE
        BY <1>0, <2>1 DEF Undisturbed, UserRelies, StoredOK
    <2>3. /\ \A p \in Procs : ~CallWindow(p, c)
          /\ \A v \in Users \ {u} : ~UserWindow(v, c)
        BY <1>b, <2>1 DEF UserWindow
    <2>4. HeldIsPausedAt(c)'
        BY <2>1, <2>2 DEF HeldIsPausedAt
    <2>5. FreezeDurableAt(c)'
        BY <2>1, <2>2 DEF FreezeDurableAt
    <2>6. ASSUME NEW q \in Procs PROVE CallRelies(q, c)'
        BY <1>a, <2>1, <2>2, <2>3 DEF CallRelies, CallWindow
    <2>7. ASSUME NEW v \in Users PROVE UserRelies(v, c)'
        BY <2>1, <2>2, <2>3 DEF UserRelies, UserWindow
    <2> QED
        BY <2>4, <2>5, <2>6, <2>7, UndisturbedParts
<1> QED
    BY <1>1, <1>2, <1>3, <1>4 DEF FreezePause, FreezePersist, stored, flags, runtime

\* Unfreeze: both flags are down before the pause flags are examined, and the
\* container is unpaused with all of them down.
LEMMA UnfreezeUndisturbed ==
    ASSUME TypeOK, NEW c \in Containers, NEW u \in Users, user[u].c = c,
           UnfreezePersist(u) \/ UnfreezeFlag(u) \/ UnfreezeUnpause(u),
           Undisturbed(c), ~Overlap(c)'
    PROVE  Undisturbed(c)'
<1>0. UsersOK /\ RuntimeOK /\ StoredOK /\ FlagsOK
    BY DEF TypeOK
<1>a. UNCHANGED <<call, enforced>>
    BY DEF UnfreezePersist, UnfreezeFlag, UnfreezeUnpause, flags
<1>b. UserWindow(u, c) => /\ \A p \in Procs : ~CallWindow(p, c)
                          /\ \A v \in Users \ {u} : ~UserWindow(v, c)
    BY AloneWithoutOverlap DEF Undisturbed, Alone
<1>1. CASE UserDone(u) /\ UNCHANGED <<status, frozen, storeFrozen>> /\ user[u].at # "unflag"
    <2>1. user[u].at # "flag"
        BY DEF UnfreezePersist, UnfreezeFlag, UnfreezeUnpause
    <2>2. /\ \A v \in Users \ {u} : user'[v] = user[v]
          /\ user'[u].at = "idle"
        BY <1>0, <1>1, UserStays
    <2> QED
        BY <1>1, <1>a, <2>1, <2>2, UserElsewhere
<1>2. CASE UnfreezePersist(u) /\ UserAt(u, "unflag") /\ storeFrozen' = [storeFrozen EXCEPT ![c] = FALSE]
    <2>1. /\ storeFrozen'[c] = FALSE
          /\ UNCHANGED <<status, frozen>>
          /\ user[u].at = "unpersist"
          /\ \A v \in Users \ {u} : user'[v] = user[v]
          /\ user'[u].at = "unflag"
          /\ user'[u].c = c
        BY <1>0, <1>2, UserStays DEF StoredOK, UnfreezePersist, runtime, flags
    <2>2. \A v \in Users \ {u} : ~UserWindow(v, c)'
        <3>1. UserWindow(u, c)'
            BY <2>1 DEF UserWindow
        <3> QED
            BY <3>1, AloneWithoutOverlap DEF Alone
    <2>3. HeldIsPausedAt(c)'
        BY <1>a, <2>1 DEF Undisturbed, HeldIsPausedAt
    <2>4. FreezeDurableAt(c)'
        BY <2>1 DEF FreezeDurableAt
    <2>5. ASSUME NEW q \in Procs PROVE CallRelies(q, c)'
        BY <1>a, <2>1 DEF Undisturbed, CallRelies
    <2>6. ASSUME NEW v \in Users PROVE UserRelies(v, c)'
        BY <2>1, <2>2 DEF UserRelies, UserWindow
    <2> QED
        BY <2>3, <2>4, <2>5, <2>6, UndisturbedParts
<1>3. CASE UnfreezeFlag(u)
    <2>1. /\ frozen'[c] = FALSE
          /\ UNCHANGED <<status, storeFrozen>>
          /\ user[u].at = "unflag"
          /\ \A v \in Users \ {u} : user'[v] = user[v]
          /\ \/ user'[u].at = "idle"
             \/ user'[u].at = "inspect" /\ PauseTypes \cap enforced[c] = {}
        BY <1>0, <1>3, UserStays DEF FlagsOK, UnfreezeFlag, runtime, stored
    <2>2. storeFrozen[c] = FALSE
        BY <1>0, <2>1 DEF Undisturbed, UserRelies, StoredOK
    <2>3. HeldIsPausedAt(c)'
        BY <1>a, <2>1 DEF Undisturbed, HeldIsPausedAt
    <2>4. FreezeDurableAt(c)'
        BY <2>1, <2>2 DEF FreezeDurableAt
    <2>5. ASSUME NEW q \in Procs PROVE CallRelies(q, c)'
        BY <1>a, <2>1 DEF Undisturbed, CallRelies
    <2>6. ASSUME NEW v \in Users PROVE UserRelies(v, c)'
        BY <1>a, <2>1 DEF Undisturbed, UserRelies
    <2> QED
        BY <2>3, <2>4, <2>5, <2>6, UndisturbedParts
<1>4. CASE UnfreezeUnpause(u) /\ status' = [status EXCEPT ![c] = "running"]
    <2>1. /\ UNCHANGED <<frozen, storeFrozen>>
          /\ user[u].at = "unpause"
          /\ \A v \in Users \ {u} : user'[v] = user[v]
          /\ user'[u].at = "idle"
        BY <1>0, <1>4, UserStays DEF UnfreezeUnpause, stored, flags
    <2>2. /\ \A p \in Procs : ~CallWindow(p, c)
          /\ \A v \in Users \ {u} : ~UserWindow(v, c)
        BY <1>b, <2>1 DEF UserWindow
    <2>3. ~frozen[c] /\ enforced[c] \cap PauseTypes = {}
        BY <2>1 DEF Undisturbed, UserRelies
    <2>4. ~storeFrozen[c]
        BY <1>0, <2>1, <2>2, <2>3 DEF Undisturbed, FreezeDurableAt, UserWindow, FlagsOK, StoredOK
    <2>5. HeldIsPausedAt(c)'
        BY <1>a, <2>1, <2>3, <2>4 DEF HeldIsPausedAt
    <2>6. FreezeDurableAt(c)'
        BY <1>0, <2>1, <2>3, <2>4 DEF FreezeDurableAt, FlagsOK, StoredOK
    <2>7. ASSUME NEW q \in Procs PROVE CallRelies(q, c)'
        BY <1>a, <2>1, <2>2 DEF CallRelies, CallWindow, Undisturbed
    <2>8. ASSUME NEW v \in Users PROVE UserRelies(v, c)'
        BY <1>a, <2>1, <2>2 DEF UserRelies, UserWindow, Undisturbed
    <2> QED
        BY <2>5, <2>6, <2>7, <2>8, UndisturbedParts
<1> QED
    BY <1>1, <1>2, <1>3, <1>4 DEF UnfreezePersist, UnfreezeUnpause, stored, flags, runtime

LEMMA UserUndisturbed ==
    ASSUME TypeOK, NEW c \in Containers, NEW u \in Users, Undisturbed(c), ~Overlap(c)',
           UserStep(u) \/ \E d \in Containers : UserCall(u, d)
    PROVE  Undisturbed(c)'
<1>1. CASE UserStep(u) /\ user[u].c = c
    BY <1>1, FreezeUndisturbed, UnfreezeUndisturbed, UserQuietUndisturbed DEF UserStep
<1>2. CASE UserStep(u) /\ user[u].c # c
    BY <1>2, UserQuietUndisturbed
<1>3. CASE \E d \in Containers : UserCall(u, d)
    BY <1>3, UserQuietUndisturbed
<1> QED
    BY <1>1, <1>2, <1>3

-----------------------------------------------------------------------------
(* The environment and the daemon's restart. *)

\* A restart loses every flag but the stored one, and every call in flight.
LEMMA EnvironmentUndisturbed ==
    ASSUME TypeOK, NEW c \in Containers, Environment, Undisturbed(c), ~Overlap(c)',
           ~(status[c] = "exited" /\ status'[c] = "running"),
           restarts' # restarts => frozen'[c] = storeFrozen[c]
    PROVE  Undisturbed(c)'
<1>0. RuntimeOK /\ StoredOK /\ restarts \in Nat
    BY EnforcementAssumption DEF TypeOK
<1>1. CASE Restart
    <2>1. /\ UNCHANGED <<status, storeFrozen>>
          /\ enforced'[c] = {}
          /\ frozen'[c] = storeFrozen[c]
          /\ \A p \in Procs : call'[p].at = "idle"
          /\ \A u \in Users : user'[u].at = "idle"
        BY <1>0, <1>1 DEF Restart, runtime, stored, IdleCall, IdleUser
    <2>2. HeldIsPausedAt(c)'
        BY <2>1 DEF Undisturbed, HeldIsPausedAt
    <2>3. FreezeDurableAt(c)'
        BY <2>1 DEF FreezeDurableAt
    <2>4. ASSUME NEW q \in Procs PROVE CallRelies(q, c)'
        BY <2>1 DEF CallRelies
    <2>5. ASSUME NEW v \in Users PROVE UserRelies(v, c)'
        BY <2>1 DEF UserRelies
    <2> QED
        BY <2>2, <2>3, <2>4, <2>5, UndisturbedParts
<1>2. CASE ~Restart
    <2>1. /\ UNCHANGED <<storeFrozen, enforced, frozen, call, user>>
          /\ status'[c] = "running" => status[c] = "running"
        BY <1>0, <1>2 DEF Environment, SetLevel, Exit, Start, Move, RuntimeOK, runtime, stored, flags
    <2>2. HeldIsPausedAt(c)'
        BY <2>1 DEF Undisturbed, HeldIsPausedAt
    <2>3. FreezeDurableAt(c)'
        BY <2>1 DEF Undisturbed, FreezeDurableAt
    <2>4. ASSUME NEW q \in Procs PROVE CallRelies(q, c)'
        BY <2>1 DEF Undisturbed, CallRelies
    <2>5. ASSUME NEW v \in Users PROVE UserRelies(v, c)'
        BY <2>1 DEF Undisturbed, UserRelies
    <2> QED
        BY <2>2, <2>3, <2>4, <2>5, UndisturbedParts
<1> QED
    BY <1>1, <1>2

-----------------------------------------------------------------------------
(* The theorems. *)

LEMMA InitRaces == Init => RacesInv
<1> SUFFICES ASSUME Init, NEW c \in Containers PROVE Undisturbed(c)
    BY InitTypeOK DEF RacesInv
<1> USE DEF Init
<1>1. ~Overlap(c)
    BY EnforcementAssumption
       DEF Overlap, InWindow, CallWindow, UserWindow, IdleCall, IdleUser, Actors
<1>2. HeldIsPausedAt(c) /\ FreezeDurableAt(c)
    BY DEF HeldIsPausedAt, FreezeDurableAt
<1>3. ASSUME NEW p \in Procs PROVE CallRelies(p, c)
    BY DEF CallRelies, IdleCall
<1>4. ASSUME NEW u \in Users PROVE UserRelies(u, c)
    BY DEF UserRelies, IdleUser
<1> QED
    BY <1>1, <1>2, <1>3, <1>4 DEF Undisturbed

\* Every step is observed.
LEMMA NextObserves ==
    ASSUME Next PROVE Observe
<1>1. ASSUME NEW p, EffectStep(p) PROVE Observe
    BY <1>1 DEF EffectStep, Act, Mark, Look, Guard, Lift, Clear
<1>2. ASSUME NEW c, Worker(c) PROVE Observe
    BY <1>1, <1>2 DEF Worker, Tick, Inspect, Decide, Probe, TickEnd
<1>3. CASE ScopeLoop
    <2>1. CASE ScopeTick \/ ScopeRead \/ ScopeUnmark \/ ScopeEach
        BY <2>1 DEF ScopeTick, ScopeRead, ScopeUnmark, ScopeEach
    <2>2. CASE ScopePick
        BY <2>2 DEF ScopePick
    <2>3. CASE ScopeDone
        BY <2>3 DEF ScopeDone
    <2>4. CASE ScopeNext
        BY <2>4, Zenon DEF ScopeNext
    <2> QED
        BY <1>1, <1>3, <2>1, <2>2, <2>3, <2>4 DEF ScopeLoop
<1>4. ASSUME NEW u, UserStep(u) PROVE Observe
    BY <1>4 DEF UserStep, FreezePause, FreezePersist, FreezeFlag, UnfreezePersist, UnfreezeFlag,
                UnfreezeInspect, UnfreezeUnpause
<1>5. ASSUME NEW u, NEW c, UserCall(u, c) PROVE Observe
    BY <1>5 DEF UserCall, FreezeCall, UnfreezeCall
<1>6. CASE Environment
    BY <1>6 DEF Environment, SetLevel, Exit, Start, Move, Restart
<1> QED
    BY <1>2, <1>3, <1>4, <1>5, <1>6 DEF Next

LEMMA StepRaces == RacesInv /\ [Next]_vars => RacesInv'
<1> SUFFICES ASSUME RacesInv, [Next]_vars, NEW c \in Containers, ~disturbed'[c]
             PROVE  Undisturbed(c)'
    BY StepTypeOK DEF RacesInv
<1>0. TypeOK
    BY DEF RacesInv
<1>1. CASE Next
    <2>1. Observe
        BY <1>1, NextObserves
    <2>2. /\ ~disturbed[c]
          /\ ~Overlap(c)'
          /\ ~(status[c] = "exited" /\ status'[c] = "running")
          /\ restarts' # restarts => frozen'[c] = storeFrozen[c]
        BY <2>1 DEF Observe
    <2>3. Undisturbed(c)
        BY <2>2 DEF RacesInv
    <2>4. CASE \E w \in Containers : Worker(w)
        BY <1>0, <2>2, <2>3, <2>4, WorkerUndisturbed
    <2>5. CASE ScopeLoop
        BY <1>0, <2>2, <2>3, <2>5, ScopeLoopUndisturbed
    <2>6. CASE \E u \in Users : UserStep(u) \/ \E d \in Containers : UserCall(u, d)
        BY <1>0, <2>2, <2>3, <2>6, UserUndisturbed
    <2>7. CASE Environment
        BY <1>0, <2>2, <2>3, <2>7, EnvironmentUndisturbed
    <2> QED
        BY <1>1, <2>4, <2>5, <2>6, <2>7 DEF Next
<1>2. CASE UNCHANGED vars
    <2>1. Undisturbed(c)
        BY <1>2 DEF RacesInv, vars
    <2> QED
        BY <1>2, <2>1 DEF Undisturbed, Overlap, InWindow, CallWindow, UserWindow, HeldIsPausedAt,
                          FreezeDurableAt, CallRelies, UserRelies, vars, runtime, stored, flags
<1> QED
    BY <1>1, <1>2

\* What every actor in a freeze, an unfreeze, an enforce or a release relies on
\* holds, for every container that no two of them worked on at once.
THEOREM RacesInvariant == Spec => []RacesInv
BY InitRaces, StepRaces, PTL DEF Spec

\* Undisturbed, a frozen container or one flagged for cpu or disk does not run,
\* however many containers, segments, callers and restarts there are.
THEOREM HeldWhenUndisturbed == Spec => []HeldIsPaused
<1>1. RacesInv => HeldIsPaused
    BY DEF RacesInv, HeldIsPaused, Undisturbed
<1> QED
    BY <1>1, RacesInvariant, PTL

\* Undisturbed, the flag a restart would load is the one in memory, except in the
\* middle of a freeze or an unfreeze.
THEOREM FreezeSurvivesRestart == Spec => []FreezeDurable
<1>1. RacesInv => FreezeDurable
    BY DEF RacesInv, FreezeDurable, Undisturbed
<1> QED
    BY <1>1, RacesInvariant, PTL

-----------------------------------------------------------------------------
(* A daemon whose only pause limits are the containers' own. *)

\* No scope has a cpu or disk limit, nobody freezes or restarts a container by hand:
\* only its own worker ever pauses a container or resumes it.
OwnPauseLimitsOnly ==
    /\ Users = {}
    /\ Stoppable = {}
    /\ \A s \in Scopes, lt \in PauseTypes : <<s, lt>> \notin Limitable

\* The scope loop has nothing to do with pauses, and nothing is disturbed.
OwnInv ==
    /\ RacesInv
    /\ \A s \in Scopes, lt \in PauseTypes : level[s][lt] = "none" /\ lt \notin scopeEnforced[s]
    /\ \A lt \in PauseTypes : seen[Loop][lt] = "none"
    /\ sweep.lt \notin PauseTypes /\ call[Loop].lt \notin PauseTypes
    /\ \A c \in Containers : ~disturbed[c] /\ ~storeFrozen[c] /\ ~frozen[c]

\* It holds at the start.
LEMMA InitOwn == Init => OwnInv
<1> SUFFICES ASSUME Init PROVE OwnInv
    OBVIOUS
<1>1. \A s \in Scopes : s \in Targets
    BY DEF Targets
<1>2. None \notin PauseTypes
    BY EnforcementAssumption, LimitTypeFacts
<1> QED
    BY <1>1, <1>2, InitRaces, ProcFacts, LimitTypeFacts DEF OwnInv, Init, NoVerdicts, IdleSweep, IdleCall

\* Only the loop and a container's worker ever stand in its way, and the loop does not.
LEMMA OwnAlone ==
    ASSUME OwnPauseLimitsOnly, TypeOK', call'[Loop].lt \notin PauseTypes, NEW c \in Containers
    PROVE  ~Overlap(c)'
<1>1. SUFFICES ASSUME NEW a \in Actors, NEW b \in Actors, a # b, InWindow(a, c)', InWindow(b, c)'
               PROVE  FALSE
    BY DEF Overlap
<1>2. a \in Procs /\ b \in Procs
    BY DEF OwnPauseLimitsOnly, Actors
<1>3. ASSUME NEW p \in Procs, CallWindow(p, c)' PROVE p = c
    <2>1. p # Loop
        BY <1>3 DEF CallWindow
    <2> QED
        BY <1>3, <2>1 DEF CallWindow, TypeOK, CallsOK, CallOK
<1> QED
    BY <1>1, <1>2, <1>3 DEF InWindow

\* What the loop's steps outside enforce and release leave alone.
LEMMA LoopLeaves ==
    ASSUME ScopeTick \/ ScopeRead \/ ScopePick \/ ScopeUnmark \/ ScopeEach \/ ScopeDone \/ ScopeNext
    PROVE  UNCHANGED <<runtime, stored, frozen, restarts>>
<1>1. CASE ScopeTick
    BY <1>1 DEF ScopeTick, flags
<1>2. CASE ScopeRead
    BY <1>2 DEF ScopeRead, flags
<1>3. CASE ScopePick
    <2>1. UNCHANGED <<runtime, stored, flags, user, restarts>>
        BY <1>3, Zenon DEF ScopePick
    <2> QED
        BY <2>1 DEF flags
<1>4. CASE ScopeUnmark
    BY <1>4 DEF ScopeUnmark
<1>5. CASE ScopeEach
    <2>1. UNCHANGED <<runtime, stored, flags, seen, user, restarts>>
        BY <1>5, Zenon DEF ScopeEach
    <2> QED
        BY <2>1 DEF flags
<1>6. CASE ScopeDone
    BY <1>6 DEF ScopeDone
<1>7. CASE ScopeNext
    <2>1. UNCHANGED <<runtime, stored, flags, seen, user, restarts>>
        BY <1>7, Zenon DEF ScopeNext
    <2> QED
        BY <2>1 DEF flags
<1> QED
    BY <1>1, <1>2, <1>3, <1>4, <1>5, <1>6, <1>7

\* A call that goes to a label, and the position of the loop when some of it changes.
LEMMA SweepMoves ==
    ASSUME SweepOK
    PROVE  /\ \A lt, e : sweep' = [sweep EXCEPT !.lt = lt, !.enforcing = e, !.rest = sweep.members] =>
                 /\ sweep'.lt = lt /\ sweep'.enforcing = e /\ sweep'.rest = sweep.members
                 /\ sweep'.scope = sweep.scope /\ sweep'.members = sweep.members
           /\ \A s : sweep' = [sweep EXCEPT !.scope = s, !.todo = @ \ {s}, !.members = {}] =>
                 /\ sweep'.lt = sweep.lt /\ sweep'.rest = sweep.rest
<1>1. ASSUME NEW lt, NEW e, sweep' = [sweep EXCEPT !.lt = lt, !.enforcing = e, !.rest = sweep.members]
      PROVE  /\ sweep'.lt = lt /\ sweep'.enforcing = e /\ sweep'.rest = sweep.members
             /\ sweep'.scope = sweep.scope /\ sweep'.members = sweep.members
    BY <1>1 DEF SweepOK
<1>2. ASSUME NEW s, sweep' = [sweep EXCEPT !.scope = s, !.todo = @ \ {s}, !.members = {}]
      PROVE  sweep'.lt = sweep.lt /\ sweep'.rest = sweep.rest
    BY <1>2 DEF SweepOK
<1> QED
    BY <1>1, <1>2, Zenon

\* What ScopePick does to the loop's position.
LEMMA PickMoves ==
    ASSUME TypeOK, ScopePick
    PROVE  \E lt \in Pending(Loop) :
             /\ seen' = [seen EXCEPT ![Loop][lt] = "none"]
             /\ \/ UNCHANGED <<call, sweep>>
                \/ /\ call'[Loop].lt = call[Loop].lt
                   /\ call'[Loop].at = IF seen[Loop][lt] = "over" THEN "each" ELSE "unmark"
                   /\ sweep'.lt = lt
                   /\ sweep'.enforcing = (seen[Loop][lt] = "over")
                   /\ sweep'.scope = sweep.scope
                   /\ sweep'.members = sweep.members
                   /\ sweep'.rest = sweep.members
<1>0. CallsOK /\ SweepOK /\ Loop \in Procs
    BY ProcFacts DEF TypeOK
<1>1. PICK lt \in Pending(Loop) :
        /\ seen' = [seen EXCEPT ![Loop][lt] = "none"]
        /\ \/ UNCHANGED <<call, sweep>>
           \/ /\ Goto(Loop, IF seen[Loop][lt] = "over" THEN "each" ELSE "unmark")
              /\ sweep' = [sweep EXCEPT !.lt = lt, !.enforcing = (seen[Loop][lt] = "over"),
                                        !.rest = sweep.members]
    BY Zenon DEF ScopePick
<1>2. CASE UNCHANGED <<call, sweep>>
    BY <1>1, <1>2
<1>3. CASE /\ Goto(Loop, IF seen[Loop][lt] = "over" THEN "each" ELSE "unmark")
           /\ sweep' = [sweep EXCEPT !.lt = lt, !.enforcing = (seen[Loop][lt] = "over"),
                                     !.rest = sweep.members]
    <2>. DEFINE label == IF seen[Loop][lt] = "over" THEN "each" ELSE "unmark"
    <2>1. Goto(Loop, label)
        BY <1>3
    <2>2. /\ sweep'.lt = lt /\ sweep'.enforcing = (seen[Loop][lt] = "over")
          /\ sweep'.rest = sweep.members
          /\ sweep'.scope = sweep.scope /\ sweep'.members = sweep.members
        BY <1>0, <1>3, SweepMoves, Zenon
    <2>3. call'[Loop].at = label /\ call'[Loop].lt = call[Loop].lt
        <3>. HIDE DEF label
        <3>. QED  BY <1>0, <2>1, GotoStays
    <2> QED
        BY <1>1, <2>2, <2>3, Zenon
<1> QED
    BY <1>1, <1>2, <1>3

\* What ScopeNext and ScopeTick do to it.
LEMMA NextMoves ==
    ASSUME TypeOK, ScopeNext \/ ScopeTick
    PROVE  /\ call'[Loop].lt = call[Loop].lt
           /\ call'[Loop].at \in {"idle", "read"}
           /\ sweep'.lt \in {sweep.lt, None}
           /\ sweep'.rest \in {sweep.rest, {}}
<1>0. CallsOK /\ SweepOK /\ Loop \in Procs
    BY ProcFacts DEF TypeOK
<1>1. CASE ScopeTick
    BY <1>0, <1>1 DEF ScopeTick, Goto, CallsOK, SweepOK
<1>2. CASE ScopeNext
    <2>1. \/ sweep' = IdleSweep /\ Goto(Loop, "idle")
          \/ /\ \E s \in sweep.todo :
                   sweep' = [sweep EXCEPT !.scope = s, !.todo = @ \ {s}, !.members = {}]
             /\ Goto(Loop, "read")
        BY <1>2, Zenon DEF ScopeNext
    <2>2. CASE sweep' = IdleSweep /\ Goto(Loop, "idle")
        BY <1>0, <2>2 DEF IdleSweep, Goto, CallsOK
    <2>3. CASE /\ \E s \in sweep.todo :
                    sweep' = [sweep EXCEPT !.scope = s, !.todo = @ \ {s}, !.members = {}]
               /\ Goto(Loop, "read")
        <3>1. sweep'.lt = sweep.lt /\ sweep'.rest = sweep.rest
            BY <1>0, <2>3, SweepMoves, Zenon
        <3>2. call'[Loop].lt = call[Loop].lt /\ call'[Loop].at = "read"
            BY <1>0, <2>3, GotoStays
        <3> QED
            BY <3>1, <3>2
    <2> QED
        BY <2>1, <2>2, <2>3, Zenon
<1> QED
    BY <1>1, <1>2

\* Nothing but its user starts a container that has exited.
LEMMA OnlyUsersStart ==
    ASSUME TypeOK, Stoppable = {}, [Next]_vars, NEW c \in Containers
    PROVE  ~(status[c] = "exited" /\ status'[c] = "running")
<1>0. RuntimeOK
    BY DEF TypeOK
<1>1. ASSUME NEW p \in Procs, EffectStep(p)
      PROVE  ~(status[c] = "exited" /\ status'[c] = "running")
    BY <1>0, <1>1 DEF EffectStep, Act, Apply, Mark, Look, Guard, Lift, CanLift, LiftEffect, Clear,
                      RuntimeOK, runtime
<1>2. CASE \E w \in Containers : Worker(w)
    BY <1>1, <1>2, ProcFacts DEF Worker, Tick, Inspect, Decide, Probe, TickEnd, runtime
<1>3. CASE ScopeLoop
    BY <1>1, <1>3, ProcFacts, LoopLeaves DEF ScopeLoop, runtime
<1>4. ASSUME NEW u \in Users, UserStep(u)
      PROVE  ~(status[c] = "exited" /\ status'[c] = "running")
    BY <1>0, <1>4 DEF UserStep, FreezePause, FreezePersist, FreezeFlag,
                UnfreezePersist, UnfreezeFlag, UnfreezeInspect, UnfreezeUnpause, RuntimeOK, runtime
<1>5. ASSUME NEW u \in Users, NEW d \in Containers, UserCall(u, d)
      PROVE  UNCHANGED status
    BY <1>5 DEF UserCall, FreezeCall, UnfreezeCall, runtime
<1>6. CASE Environment
    <2>1. ASSUME NEW d \in Containers, Exit(d) \/ Start(d)
          PROVE  ~(status[c] = "exited" /\ status'[c] = "running")
        BY <1>0, <2>1 DEF Exit, Start, RuntimeOK
    <2>2. ASSUME NEW x, NEW lt, NEW v, SetLevel(x, lt, v) PROVE UNCHANGED status
        BY <2>2 DEF SetLevel, runtime
    <2>3. ASSUME NEW d, NEW s, Move(d, s) PROVE UNCHANGED status
        BY <2>3 DEF Move, runtime
    <2>4. CASE Restart
        BY <2>4 DEF Restart, runtime
    <2> QED
        BY <1>6, <2>1, <2>2, <2>3, <2>4 DEF Environment
<1>7. CASE UNCHANGED vars
    BY <1>7 DEF vars, runtime
<1> QED
    BY <1>2, <1>3, <1>4, <1>5, <1>6, <1>7 DEF Next

\* Every step that is not the environment's leaves what is stored alone, and with no
\* callers nothing but a restart touches the frozen flags.
LEMMA FrozenUntouched ==
    ASSUME Users = {}, [Next]_vars
    PROVE  \/ UNCHANGED <<storeFrozen, frozen, restarts>>
           \/ UNCHANGED storeFrozen /\ frozen' \in LoadFrozen
<1>1. ASSUME NEW p \in Procs, EffectStep(p) PROVE UNCHANGED <<storeFrozen, frozen, restarts>>
    BY <1>1 DEF EffectStep, Act, Mark, Look, Guard, Lift, Clear, stored, flags
<1>2. CASE \E w \in Containers : Worker(w)
    BY <1>1, <1>2, ProcFacts DEF Worker, Tick, Inspect, Decide, Probe, TickEnd, stored, flags
<1>3. CASE ScopeLoop
    BY <1>1, <1>3, ProcFacts, LoopLeaves DEF ScopeLoop, stored
<1>4. CASE Environment
    <2>1. ASSUME NEW d, Exit(d) \/ Start(d) PROVE UNCHANGED <<storeFrozen, frozen, restarts>>
        BY <2>1 DEF Exit, Start, stored, flags
    <2>2. ASSUME NEW x, NEW lt, NEW v, SetLevel(x, lt, v) PROVE UNCHANGED <<storeFrozen, frozen, restarts>>
        BY <2>2 DEF SetLevel, flags
    <2>3. ASSUME NEW d, NEW s, Move(d, s) PROVE UNCHANGED <<storeFrozen, frozen, restarts>>
        BY <2>3 DEF Move, flags
    <2>4. CASE Restart
        BY <2>4 DEF Restart, stored
    <2> QED
        BY <1>4, <2>1, <2>2, <2>3, <2>4 DEF Environment
<1>5. CASE UNCHANGED vars
    BY <1>5 DEF vars, stored, flags
<1> QED
    BY <1>2, <1>3, <1>4, <1>5 DEF Next

\* The loop's own steps keep it away from pauses.
LEMMA LoopStaysAway ==
    ASSUME TypeOK, [Next]_vars, OwnPauseLimitsOnly, OwnInv
    PROVE  /\ \A s \in Scopes, lt \in PauseTypes : level'[s][lt] = "none" /\ lt \notin scopeEnforced'[s]
           /\ \A lt \in PauseTypes : seen'[Loop][lt] = "none"
           /\ sweep'.lt \notin PauseTypes /\ call'[Loop].lt \notin PauseTypes
<1>0. /\ CallsOK /\ StoredOK /\ FlagsOK /\ SweepOK /\ seen \in [Procs -> [LimitTypes -> Snapshots]]
      /\ None \notin PauseTypes
      /\ \A s \in Scopes : s \in Targets /\ s \notin Containers
    BY EnforcementAssumption, LimitTypeFacts DEF TypeOK, Scopes, Targets
<1>1. ASSUME NEW w \in Containers, Worker(w)
      PROVE  /\ UNCHANGED <<level, scopeEnforced, sweep>>
             /\ seen'[Loop] = seen[Loop] /\ call'[Loop] = call[Loop]
    BY <1>0, <1>1, ProcFacts DEF Worker, Tick, Inspect, Decide, Probe, TickEnd, EffectStep, Act, Mark, Look, Guard,
        Lift, Clear, Goto, Return, stored, flags, CallsOK
<1>2. CASE EffectStep(Loop)
    <2>1. UNCHANGED <<level, scopeEnforced, sweep, seen>>
        BY <1>2 DEF EffectStep, Act, Mark, Look, Guard, Lift, Clear, stored, flags
    <2>2. call'[Loop].lt \in {call[Loop].lt, None}
        BY <1>0, <1>2, ProcFacts DEF EffectStep, Act, Mark, Look, Guard, Lift, Clear, Goto, Return, IdleCall, CallsOK
    <2> QED
        BY <1>0, <2>1, <2>2 DEF OwnInv
<1>3. CASE ScopeRead
    <2>1. /\ UNCHANGED <<level, scopeEnforced>> /\ sweep'.lt = sweep.lt
          /\ call'[Loop].lt = call[Loop].lt
        BY <1>0, <1>3, ProcFacts DEF ScopeRead, Goto, CallsOK, stored, flags, SweepOK
    <2>2. ASSUME NEW lt \in PauseTypes PROVE seen'[Loop][lt] = "none"
        <3>1. sweep.scope \in Scopes /\ level[sweep.scope][lt] = "none"
            BY <1>0 DEF SweepOK, OwnInv
        <3>2. CASE seen' = seen
            BY <3>2 DEF OwnInv
        <3>3. CASE \E totals \in TotalsRead(sweep.scope) : seen' = [seen EXCEPT ![Loop] = totals]
            BY <1>0, <3>1, <3>3, ProcFacts, LimitTypeFacts DEF TotalsRead
        <3> QED
            BY <1>3, <3>2, <3>3 DEF ScopeRead
    <2> QED
        BY <2>1, <2>2 DEF OwnInv
<1>4. CASE ScopePick
    <2>1. PICK lt \in Pending(Loop) :
            /\ seen' = [seen EXCEPT ![Loop][lt] = "none"]
            /\ sweep' = sweep \/ sweep'.lt = lt
            /\ call'[Loop].lt = call[Loop].lt
        BY <1>4, PickMoves
    <2>2. lt \notin PauseTypes
        BY <2>1 DEF Pending, OwnInv
    <2>3. \A l \in PauseTypes : seen'[Loop][l] = "none"
        BY <1>0, <2>1, <2>2, ProcFacts, LimitTypeFacts DEF OwnInv
    <2>4. UNCHANGED <<level, scopeEnforced>>
        BY <1>4 DEF ScopePick, stored, flags
    <2> QED
        BY <2>1, <2>2, <2>3, <2>4 DEF OwnInv
<1>5. CASE ScopeUnmark \/ ScopeEach \/ ScopeDone
    <2>1. UNCHANGED <<level, seen>>
        BY <1>5 DEF ScopeUnmark, ScopeEach, ScopeDone, stored
    <2>2. sweep'.lt \in {sweep.lt, None} /\ call'[Loop].lt \in {call[Loop].lt, sweep.lt}
        <3>1. sweep'.lt \in {sweep.lt, None}
            BY <1>0, <1>5 DEF ScopeUnmark, ScopeEach, ScopeDone, SweepOK
        <3>2. call'[Loop].lt \in {call[Loop].lt, sweep.lt}
            BY <1>0, <1>5, ProcFacts DEF ScopeUnmark, ScopeEach, ScopeDone, Goto, CallsOK
        <3> QED
            BY <3>1, <3>2
    <2>3. \A s \in Scopes : scopeEnforced'[s] \subseteq scopeEnforced[s] \cup {sweep.lt}
        BY <1>0, <1>5 DEF ScopeUnmark, ScopeEach, ScopeDone, FlagsOK, flags
    <2> QED
        BY <1>0, <2>1, <2>2, <2>3 DEF OwnInv
<1>6. CASE ScopeTick \/ ScopeNext
    <2>1. UNCHANGED <<level, seen, scopeEnforced>>
        <3>1. UNCHANGED <<runtime, stored, flags, seen, user, restarts>>
            BY <1>6, Zenon DEF ScopeTick, ScopeNext
        <3> QED
            BY <3>1 DEF stored, flags
    <2>2. sweep'.lt \in {sweep.lt, None} /\ call'[Loop].lt = call[Loop].lt
        BY <1>6, NextMoves
    <2> QED
        BY <1>0, <2>1, <2>2 DEF OwnInv
<1>7. ASSUME NEW x \in Targets, NEW l \in LimitTypes, NEW v \in Verdicts, SetLevel(x, l, v)
      PROVE  /\ UNCHANGED <<scopeEnforced, sweep, call>>
             /\ seen'[Loop] = seen[Loop]
             /\ \A s \in Scopes, lt \in PauseTypes : level'[s][lt] = level[s][lt]
    <2>1. seen'[Loop] = seen[Loop] /\ UNCHANGED <<scopeEnforced, sweep, call>>
        BY <1>0, <1>7, ProcFacts DEF SetLevel, flags
    <2>2. ASSUME NEW s \in Scopes, NEW lt \in PauseTypes PROVE level'[s][lt] = level[s][lt]
        <3>1. ~(x = s /\ l = lt)
            BY <1>7 DEF SetLevel, OwnPauseLimitsOnly
        <3> QED
            BY <1>0, <1>7, <3>1, LimitTypeFacts DEF SetLevel, StoredOK
    <2> QED
        BY <2>1, <2>2
<1>8. CASE Restart
    BY <1>0, <1>8, ProcFacts, LimitTypeFacts
    DEF Restart, stored, OwnInv, NoVerdicts, IdleCall, IdleSweep
<1>9. CASE \E c \in Containers, s \in Segments \cup {None} : Exit(c) \/ Start(c) \/ Move(c, s)
    BY <1>9 DEF Exit, Start, Move, stored, flags, OwnInv
<1>10. CASE UNCHANGED vars
    BY <1>10 DEF vars, stored, flags, OwnInv
<1>11. CASE \E w \in Containers : Worker(w)
    BY <1>1, <1>11 DEF OwnInv
<1>12. CASE ScopeLoop
    BY <1>2, <1>3, <1>4, <1>5, <1>6, <1>12 DEF ScopeLoop
<1>13. CASE Environment
    <2>1. CASE \E x \in Targets, l \in LimitTypes, v \in Verdicts : SetLevel(x, l, v)
        BY <1>7, <2>1 DEF OwnInv
    <2>2. CASE \E c \in Containers : Exit(c) \/ Start(c)
        BY <1>9, <2>2
    <2> QED
        BY <1>8, <1>9, <1>13, <2>1, <2>2 DEF Environment
<1> QED
    BY <1>10, <1>11, <1>12, <1>13 DEF Next, OwnPauseLimitsOnly

\* Every step keeps the invariant.
LEMMA StepOwn ==
    ASSUME OwnPauseLimitsOnly, OwnInv, [Next]_vars
    PROVE  OwnInv'
<1>1. TypeOK /\ RacesInv' /\ TypeOK'
    BY StepRaces DEF OwnInv, RacesInv
<1>2. /\ \A s \in Scopes, lt \in PauseTypes : level'[s][lt] = "none" /\ lt \notin scopeEnforced'[s]
      /\ \A lt \in PauseTypes : seen'[Loop][lt] = "none"
      /\ sweep'.lt \notin PauseTypes /\ call'[Loop].lt \notin PauseTypes
    BY <1>1, LoopStaysAway
<1>3. ASSUME NEW c \in Containers PROVE ~storeFrozen'[c] /\ ~frozen'[c]
    BY FrozenUntouched DEF OwnPauseLimitsOnly, OwnInv, LoadFrozen
<1>4. ASSUME NEW c \in Containers PROVE ~disturbed'[c]
    <2>1. ~Overlap(c)'
        BY <1>1, <1>2, OwnAlone
    <2>2. ~(status[c] = "exited" /\ status'[c] = "running")
        BY <1>1, OnlyUsersStart DEF OwnPauseLimitsOnly
    <2>3. ~(frozen'[c] # storeFrozen[c])
        BY <1>1, <1>3 DEF OwnInv, TypeOK, FlagsOK, StoredOK
    <2>4. CASE Observe
        BY <2>1, <2>2, <2>3, <2>4 DEF Observe, OwnInv
    <2>5. CASE UNCHANGED vars
        BY <2>5 DEF vars, OwnInv
    <2> QED
        BY <2>4, <2>5, NextObserves
<1> QED
    BY <1>1, <1>2, <1>3, <1>4 DEF OwnInv

\* Whose pause limits are the containers' own sees nothing pause but the worker, which
\* then has flagged the container, and nothing resume but the worker that released the
\* last of these limits.
LEMMA OwnInvImplies == OwnInv => EnforcedIsPaused
<1> SUFFICES ASSUME OwnInv, NEW c \in Containers, enforced[c] \cap PauseTypes # {},
                    status[c] = "running"
             PROVE  \E p \in Procs : call[p].at = "clear" /\ call[p].c = c
    BY DEF EnforcedIsPaused
<1>1. HeldIsPausedAt(c)
    BY DEF OwnInv, RacesInv, Undisturbed
<1>2. PICK lt \in enforced[c] \cap PauseTypes :
          \E p \in Procs : call[p] = [at |-> "clear", c |-> c, lt |-> lt]
    BY <1>1 DEF HeldIsPausedAt
<1> QED
    BY <1>2

\* The step that resumes a container.
LEMMA LiftedByRelease ==
    ASSUME TypeOK, Users = {}, [Next]_vars, NEW c \in Containers, Lifted(c)
    PROVE  \E p \in Procs : Lift(p) /\ call[p].c = c /\ call[p].lt \in PauseTypes
<1>0. RuntimeOK
    BY DEF TypeOK
<1>1. ASSUME NEW p \in Procs, EffectStep(p)
      PROVE  Lift(p) /\ call[p].c = c /\ call[p].lt \in PauseTypes
    <2>1. Lift(p)
        BY <1>0, <1>1 DEF EffectStep, Act, Apply, Mark, Look, Guard, Clear, RuntimeOK, runtime, Lifted
    <2> QED
        BY <1>0, <2>1 DEF Lift, LiftEffect, RuntimeOK, runtime, Lifted
<1>2. UNCHANGED status => FALSE
    BY DEF Lifted
<1>3. CASE \E w \in Containers : Worker(w)
    BY <1>1, <1>2, <1>3, ProcFacts DEF Worker, Tick, Inspect, Decide, Probe, TickEnd, runtime
<1>4. CASE ScopeLoop
    BY <1>1, <1>2, <1>4, ProcFacts, LoopLeaves DEF ScopeLoop, runtime
<1>5. CASE Environment
    <2>1. ASSUME NEW d \in Containers, Exit(d) \/ Start(d) PROVE FALSE
        BY <1>0, <2>1 DEF Exit, Start, RuntimeOK, Lifted
    <2>2. ASSUME NEW x, NEW lt, NEW v, SetLevel(x, lt, v) PROVE UNCHANGED status
        BY <2>2 DEF SetLevel, runtime
    <2>3. ASSUME NEW d, NEW s, Move(d, s) PROVE UNCHANGED status
        BY <2>3 DEF Move, runtime
    <2>4. CASE Restart
        BY <1>2, <2>4 DEF Restart, runtime
    <2> QED
        BY <1>2, <1>5, <2>1, <2>2, <2>3, <2>4 DEF Environment
<1>6. CASE UNCHANGED vars
    BY <1>2, <1>6 DEF vars, runtime
<1> QED
    BY <1>3, <1>4, <1>5, <1>6 DEF Next

\* Where only the containers have cpu and disk limits, a container flagged as enforced
\* does not run, except for the moment between its release's unpause and the clearing of
\* the flag, however many containers, restarts and failing Docker calls there are.
THEOREM EnforcedStaysPaused ==
    ASSUME OwnPauseLimitsOnly PROVE Spec => []EnforcedIsPaused
<1>1. OwnInv /\ [Next]_vars => OwnInv'
    BY StepOwn
<1> QED
    BY InitOwn, <1>1, OwnInvImplies, PTL DEF Spec

-----------------------------------------------------------------------------
(* A daemon whose pause limits are those of the scopes. *)

\* No container has a cpu or disk limit of its own, no pause type is limited both for
\* the host and for a segment, nobody freezes, restarts or moves a container, and no
\* Docker or store call fails: only the scope loop pauses or resumes a container.
ScopePauseLimitsOnly ==
    /\ Users = {}
    /\ Stoppable = {}
    /\ Movable = {}
    /\ ~MayFail
    /\ \A c \in Containers, lt \in PauseTypes : <<c, lt>> \notin Limitable
    /\ \A s \in Segments, lt \in PauseTypes : ~(<<s, lt>> \in Limitable /\ <<Host, lt>> \in Limitable)

\* The workers have nothing to do with pauses.
WorkersStayAway ==
    \A c \in Containers, lt \in PauseTypes :
        level[c][lt] = "none" /\ seen[c][lt] = "none" /\ call[c].lt # lt

\* Only what is limited for a scope is looked at and flagged.
ScopeLimited ==
    /\ \A s \in Scopes, lt \in PauseTypes :
           level[s][lt] # "none" \/ lt \in scopeEnforced[s] => <<s, lt>> \in Limitable
    /\ \A lt \in PauseTypes : seen[Loop][lt] # "none" => <<sweep.scope, lt>> \in Limitable

Sweeping == call[Loop].at \in EffectLabels \cup {"each", "unmark"}

\* Where the loop is, and the containers it goes through.
SweepShape ==
    /\ call[Loop].at = "idle" => sweep.scope = Host
    /\ call[Loop].at = "pick" \/ Sweeping => sweep.members = Members(sweep.scope)
    /\ Sweeping => sweep.rest \subseteq sweep.members
    /\ call[Loop].at \in EffectLabels =>
           call[Loop].lt = sweep.lt /\ call[Loop].c \in sweep.members
    /\ Sweeping /\ sweep.lt \in PauseTypes =>
           /\ <<sweep.scope, sweep.lt>> \in Limitable
           /\ sweep.enforcing => call[Loop].at \in {"each", "act", "mark"}
           /\ ~sweep.enforcing => call[Loop].at \notin {"act", "mark"}

\* While the scope is being enforced, those it has gone through do not run; while it is
\* being released, it is not flagged, and a container about to be unpaused is held by
\* no other flag.
SweepRelies ==
    Sweeping /\ sweep.lt \in PauseTypes =>
        /\ sweep.enforcing =>
               \A c \in sweep.members \ sweep.rest :
                   status[c] = "running" => call[Loop].at = "act" /\ call[Loop].c = c
        /\ ~sweep.enforcing /\ call[Loop].at # "unmark" => sweep.lt \notin scopeEnforced[sweep.scope]
        /\ call[Loop].at = "lift" =>
               /\ ScopeFlags(call[Loop].c) \cap PauseTypes = {}
               /\ enforced[call[Loop].c] \cap PauseTypes \subseteq {sweep.lt}

ScopeInv ==
    /\ TypeOK
    /\ WorkersStayAway
    /\ ScopeLimited
    /\ SweepShape
    /\ SweepRelies
    /\ ScopeHolds

\* It holds at the start.
LEMMA InitScope == Init => ScopeInv
<1> SUFFICES ASSUME Init PROVE ScopeInv
    OBVIOUS
<1>0. /\ \A s \in Scopes : s \in Targets
      /\ \A c \in Containers : c \in Targets /\ c \in Procs /\ c # Loop
      /\ Loop \in Procs /\ None \notin LimitTypes /\ PauseTypes \subseteq LimitTypes
    BY EnforcementAssumption, LimitTypeFacts, ProcFacts DEF Targets
<1>1. WorkersStayAway
    BY <1>0 DEF WorkersStayAway, Init, NoVerdicts, IdleCall
<1>2. ScopeLimited
    BY <1>0 DEF ScopeLimited, Init, NoVerdicts
<1>3. call[Loop].at = "idle" /\ ~Sweeping
    BY <1>0 DEF Init, IdleCall, Sweeping, EffectLabels
<1>4. SweepShape /\ SweepRelies
    BY <1>3 DEF SweepShape, SweepRelies, EffectLabels, Init, IdleSweep
<1>5. ScopeHolds
    BY DEF ScopeHolds, Init
<1> QED
    BY <1>1, <1>2, <1>4, <1>5, InitTypeOK DEF ScopeInv

\* A step of somebody else that starts no container leaves what the loop relies on.
LEMMA LoopUndisturbed ==
    ASSUME ScopeInv, call'[Loop] = call[Loop], UNCHANGED <<sweep, segOf, scopeEnforced>>,
           \A c \in Containers : enforced'[c] \cap PauseTypes = enforced[c] \cap PauseTypes,
           \A c \in Containers : status'[c] = "running" => status[c] = "running"
    PROVE  SweepShape' /\ SweepRelies' /\ ScopeHolds'
<1>1. \A s : Members(s)' = Members(s)
    BY DEF Members
<1>2. \A c : ScopeFlags(c)' = ScopeFlags(c)
    BY DEF ScopeFlags
<1>3. SweepOK
    BY DEF ScopeInv, TypeOK
<1>4. Sweeping' <=> Sweeping
    BY DEF Sweeping
<1>5. SweepShape'
    BY <1>1, <1>4 DEF ScopeInv, SweepShape
<1>6. SweepRelies'
    BY <1>2, <1>3, <1>4 DEF ScopeInv, SweepRelies, SweepShape, SweepOK, Sweeping, EffectLabels
<1>7. ScopeHolds'
    BY DEF ScopeInv, ScopeHolds
<1> QED
    BY <1>5, <1>6, <1>7

\* The workers.
LEMMA WorkerScope ==
    ASSUME ScopeInv, NEW w \in Containers, Worker(w)
    PROVE  WorkersStayAway' /\ ScopeLimited' /\ SweepShape' /\ SweepRelies' /\ ScopeHolds'
<1>0. /\ CallsOK /\ RuntimeOK /\ FlagsOK /\ seen \in [Procs -> [LimitTypes -> Snapshots]]
      /\ w \in Procs /\ Loop \in Procs /\ w # Loop /\ None \notin PauseTypes
      /\ \A c \in Containers : c \in Procs
    BY ProcFacts, EnforcementAssumption, LimitTypeFacts DEF ScopeInv, TypeOK
<1>1. /\ \A q \in Procs \ {w} : call'[q] = call[q] /\ seen'[q] = seen[q]
      /\ UNCHANGED <<sweep, segOf, level, scopeEnforced>>
    BY <1>0 DEF Worker, Tick, Inspect, Decide, Probe, TickEnd, EffectStep, Act, Mark, Look, Guard,
        Lift, Clear, Goto, Return, stored, flags, CallsOK
<1>2. /\ \A lt \in PauseTypes : seen'[w][lt] = "none"
      /\ call'[w].lt \notin PauseTypes
    <2>1. CASE Decide(w)
        <3>1. PICK lt \in Pending(w) :
                /\ seen' = [seen EXCEPT ![w][lt] = "none"]
                /\ \/ UNCHANGED call
                   \/ \E label :
                         call' = [call EXCEPT ![w] = [at |-> label, c |-> w,
                                                      lt |-> IF label = "next" THEN None ELSE lt]]
            BY <2>1, Zenon DEF Decide
        <3>2. lt \notin PauseTypes
            BY <3>1 DEF Pending, ScopeInv, WorkersStayAway
        <3>3. \A l \in PauseTypes : seen'[w][l] = "none"
            BY <1>0, <3>1, <3>2, LimitTypeFacts DEF ScopeInv, WorkersStayAway
        <3>4. call'[w].lt \notin PauseTypes
            BY <1>0, <3>1, <3>2 DEF CallsOK, ScopeInv, WorkersStayAway
        <3> QED
            BY <3>3, <3>4
    <2>2. CASE Inspect(w)
        <3>1. seen' = seen \/ seen' = [seen EXCEPT ![w] = level[w]]
            BY <2>2 DEF Inspect
        <3>2. call'[w].lt = call[w].lt
            BY <1>0, <2>2 DEF Inspect, Goto, CallsOK
        <3> QED
            BY <1>0, <3>1, <3>2 DEF ScopeInv, WorkersStayAway
    <2>3. CASE Tick(w) \/ Probe(w) \/ TickEnd(w) \/ EffectStep(w)
        <3>1. UNCHANGED seen
            BY <2>3 DEF Tick, Probe, TickEnd, EffectStep, Act, Mark, Look, Guard, Lift, Clear
        <3>2. call'[w].lt \in {call[w].lt, None}
            BY <1>0, <2>3 DEF Tick, Probe, TickEnd, EffectStep, Act, Mark, Look, Guard, Lift, Clear,
                              Goto, Return, IdleCall, CallsOK
        <3> QED
            BY <1>0, <3>1, <3>2 DEF ScopeInv, WorkersStayAway
    <2> QED
        BY <2>1, <2>2, <2>3 DEF Worker
<1>3. WorkersStayAway'
    BY <1>0, <1>1, <1>2 DEF ScopeInv, WorkersStayAway
<1>4. ScopeLimited'
    BY <1>0, <1>1 DEF ScopeInv, ScopeLimited
<1>5. ASSUME NEW c \in Containers, status'[c] = "running" PROVE status[c] = "running"
    <2>1. CASE EffectStep(w)
        <3>1. ~(Lift(w) /\ call[w].lt \in PauseTypes)
            BY DEF ScopeInv, WorkersStayAway
        <3> QED
            BY <1>0, <1>5, <2>1, <3>1 DEF EffectStep, Act, Apply, Mark, Look, Guard, Lift, LiftEffect, Clear,
                                    RuntimeOK, runtime
    <2>2. CASE Tick(w) \/ Inspect(w) \/ Decide(w) \/ Probe(w) \/ TickEnd(w)
        BY <1>5, <2>2 DEF Tick, Inspect, Decide, Probe, TickEnd, runtime
    <2> QED
        BY <2>1, <2>2 DEF Worker
<1>6. \A c \in Containers : enforced'[c] \cap PauseTypes = enforced[c] \cap PauseTypes
    <2>1. CASE EffectStep(w)
        BY <1>0, <2>1 DEF EffectStep, Act, Mark, Look, Guard, Lift, Clear, flags, FlagsOK,
                          ScopeInv, WorkersStayAway
    <2>2. CASE Tick(w) \/ Inspect(w) \/ Decide(w) \/ Probe(w) \/ TickEnd(w)
        BY <2>2 DEF Tick, Inspect, Decide, Probe, TickEnd, flags
    <2> QED
        BY <2>1, <2>2 DEF Worker
<1> QED
    BY <1>0, <1>1, <1>3, <1>4, <1>5, <1>6, LoopUndisturbed

\* No other flag holds a container of the scope being released when none of the types
\* but this one is flagged above it.
LEMMA HeldByNoScope ==
    ASSUME ScopePauseLimitsOnly, ScopeInv, Sweeping, sweep.lt \in PauseTypes, ~sweep.enforcing,
           call[Loop].at # "unmark", NEW c \in sweep.members,
           (PauseTypes \ {sweep.lt}) \cap ScopeFlags(c) = {}
    PROVE  ScopeFlags(c) \cap PauseTypes = {}
<1>1. /\ sweep.scope \in Scopes /\ c \in Containers /\ segOf[c] \in Segments \cup {None}
      /\ None \notin Segments /\ Host \notin Segments
    BY EnforcementAssumption DEF ScopeInv, TypeOK, SweepOK, StoredOK
<1>2. c \in Members(sweep.scope) /\ <<sweep.scope, sweep.lt>> \in Limitable
    BY DEF ScopeInv, SweepShape
<1>3. sweep.lt \notin scopeEnforced[sweep.scope]
    BY DEF ScopeInv, SweepRelies
<1>4. \A s \in Scopes : sweep.lt \in scopeEnforced[s] => <<s, sweep.lt>> \in Limitable
    BY DEF ScopeInv, ScopeLimited
<1>5. sweep.lt \notin ScopeFlags(c)
    <2>1. CASE sweep.scope = Host
        <3>1. \A s \in Segments : sweep.lt \notin scopeEnforced[s]
            BY <1>2, <1>4, <2>1 DEF ScopePauseLimitsOnly, Scopes
        <3> QED
            BY <1>1, <1>3, <2>1, <3>1 DEF ScopeFlags
    <2>2. CASE sweep.scope # Host
        <3>1. sweep.scope \in Segments /\ segOf[c] = sweep.scope
            BY <1>1, <1>2, <2>2 DEF Scopes, Members
        <3>2. sweep.lt \notin scopeEnforced[Host]
            BY <1>2, <1>4, <3>1 DEF ScopePauseLimitsOnly, Scopes
        <3> QED
            BY <1>1, <1>3, <3>1, <3>2 DEF ScopeFlags
    <2> QED
        BY <2>1, <2>2
<1> QED
    BY <1>5

\* What the loop's call does to a container.
LEMMA LoopEffect ==
    ASSUME TypeOK, EffectStep(Loop)
    PROVE  /\ call[Loop].at \in EffectLabels
           /\ UNCHANGED <<level, segOf, scopeEnforced, seen, sweep>>
           /\ \A w \in Containers : call'[w] = call[w]
           /\ \/ call'[Loop].at = "each"
              \/ /\ call'[Loop].at \in EffectLabels
                 /\ call'[Loop].c = call[Loop].c /\ call'[Loop].lt = call[Loop].lt
<1>0. CallsOK /\ Loop \in Procs /\ \A w \in Containers : w \in Procs /\ w # Loop
    BY ProcFacts, EnforcementAssumption DEF TypeOK
<1>1. UNCHANGED <<level, segOf, scopeEnforced, seen, sweep>>
    BY DEF EffectStep, Act, Mark, Look, Guard, Lift, Clear, stored, flags
<1>2. \/ Return(Loop)
      \/ \E label \in EffectLabels : Goto(Loop, label)
    BY DEF EffectStep, Act, Mark, Look, Guard, Lift, Clear, EffectLabels
<1>3. \A w \in Containers : call'[w] = call[w]
    BY <1>0, <1>2 DEF Return, Goto, CallsOK
<1>4. CASE Return(Loop)
    <2>1. call'[Loop].at = "each"
        BY <1>0, <1>4 DEF Return, IdleCall, CallsOK
    <2> QED
        BY <1>1, <1>3, <2>1 DEF EffectStep, Act, Mark, Look, Guard, Lift, Clear, EffectLabels
<1>5. ASSUME NEW label \in EffectLabels, Goto(Loop, label)
      PROVE  /\ call'[Loop].at \in EffectLabels
             /\ call'[Loop].c = call[Loop].c /\ call'[Loop].lt = call[Loop].lt
    BY <1>0, <1>5 DEF Goto, CallsOK
<1>6. call[Loop].at \in EffectLabels
    BY DEF EffectStep, Act, Mark, Look, Guard, Lift, Clear, EffectLabels
<1> QED
    BY <1>1, <1>2, <1>3, <1>4, <1>5, <1>6

\* While the loop acts on a pause type, enforcing pauses the container, releasing resumes
\* only what no scope holds.
LEMMA LoopPauses ==
    ASSUME ScopePauseLimitsOnly, ScopeInv, EffectStep(Loop), sweep.lt \in PauseTypes
    PROVE  /\ SweepRelies'
           /\ sweep.enforcing => call'[Loop].at \in {"mark", "each"}
           /\ ~sweep.enforcing => call'[Loop].at \notin {"act", "mark"}
           /\ \A d \in Containers : status[d] # "running" /\ status'[d] = "running" =>
                 ScopeFlags(d) \cap PauseTypes = {}
<1>. DEFINE c == call[Loop].c
<1>0. /\ CallsOK /\ RuntimeOK /\ SweepOK /\ Loop \in Procs
      /\ c \in sweep.members /\ sweep.members \subseteq Containers
      /\ call[Loop].lt = sweep.lt /\ sweep.lt \notin IOTypes /\ sweep.lt \notin KillTypes
      /\ Sweeping /\ call[Loop].at # "unmark"
    BY LoopEffect, ProcFacts
    DEF ScopeInv, TypeOK, SweepShape, SweepOK, Sweeping, EffectLabels, PauseTypes, IOTypes, KillTypes
<1>1. /\ sweep.enforcing => call[Loop].at \in {"act", "mark"}
      /\ ~sweep.enforcing => call[Loop].at \notin {"act", "mark"}
    BY <1>0, LoopEffect DEF ScopeInv, TypeOK, SweepShape, Sweeping, EffectLabels
<1>2. UNCHANGED <<sweep, scopeEnforced, segOf>> /\ \A d : ScopeFlags(d)' = ScopeFlags(d)
    BY LoopEffect DEF ScopeInv, ScopeFlags
<1>3. CASE sweep.enforcing
    <2>1. /\ \A d \in sweep.members \ sweep.rest :
                status[d] = "running" => call[Loop].at = "act" /\ d = c
          /\ call[Loop].at \in {"act", "mark"}
        BY <1>0, <1>1, <1>3 DEF ScopeInv, SweepRelies
    <2>2. CASE Act(Loop)
        <3>1. /\ status'[c] # "running"
              /\ \A d \in Containers : status'[d] = "running" => status[d] = "running"
              /\ call'[Loop].at \in {"mark", "each"}
            <4>1. \/ CanApply(c, sweep.lt) /\ Apply(c, sweep.lt) /\ Goto(Loop, "mark")
                  \/ ~CanApply(c, sweep.lt) /\ Return(Loop) /\ UNCHANGED runtime
                BY <1>0, <2>2 DEF Act, WithoutCgroup, ScopePauseLimitsOnly
            <4>2. CASE CanApply(c, sweep.lt) /\ Apply(c, sweep.lt) /\ Goto(Loop, "mark")
                <5>1. status' = [status EXCEPT ![c] = "paused"]
                    BY <4>2 DEF Apply
                <5>2. call'[Loop].at = "mark"
                    BY <1>0, <4>2 DEF Goto, CallsOK
                <5> QED
                    BY <1>0, <5>1, <5>2 DEF RuntimeOK
            <4>3. CASE ~CanApply(c, sweep.lt) /\ Return(Loop) /\ UNCHANGED runtime
                <5>1. status[c] = "exited" /\ status' = status
                    BY <4>3 DEF CanApply, runtime
                <5>2. call'[Loop].at = "each"
                    BY <1>0, <4>3 DEF Return, IdleCall, CallsOK
                <5> QED
                    BY <5>1, <5>2
            <4> QED
                BY <4>1, <4>2, <4>3
        <3>2. \A d \in sweep.members \ sweep.rest : status'[d] # "running"
            BY <1>0, <2>1, <3>1
        <3> QED
            BY <1>2, <1>3, <3>1, <3>2 DEF SweepRelies
    <2>3. CASE Mark(Loop)
        <3>1. status' = status /\ call'[Loop].at = "each" /\ call[Loop].at = "mark"
            BY <1>0, <2>3 DEF Mark, Return, IdleCall, CallsOK, runtime
        <3> QED
            BY <1>0, <1>2, <1>3, <2>1, <3>1 DEF SweepRelies
    <2> QED
        BY <2>1, <2>2, <2>3 DEF EffectStep, Look, Guard, Lift, Clear
<1>4. CASE ~sweep.enforcing
    <2>1. sweep.lt \notin scopeEnforced[sweep.scope]
        BY <1>0, <1>4 DEF ScopeInv, SweepRelies
    <2>2. CASE Lift(Loop)
        <3>1. ScopeFlags(c) \cap PauseTypes = {}
            BY <1>0, <1>4, <2>2 DEF ScopeInv, SweepRelies, Lift
        <3>2. /\ \A d \in Containers \ {c} : status'[d] = status[d]
              /\ call'[Loop].at \in {"clear", "each"}
            BY <1>0, <2>2 DEF Lift, LiftEffect, Goto, Return, IdleCall, CallsOK, RuntimeOK, runtime
        <3> QED
            BY <1>2, <1>4, <2>1, <3>1, <3>2 DEF SweepRelies
    <2>3. CASE Guard(Loop)
        <3>1. /\ UNCHANGED <<status, enforced>>
              /\ call'[Loop].c = c
              /\ \/ call'[Loop].at = "clear"
                 \/ /\ call'[Loop].at = "lift"
                    /\ (PauseTypes \ {sweep.lt}) \cap ScopeFlags(c) = {}
                    /\ enforced[c] \cap PauseTypes \subseteq {sweep.lt}
            <4>1. FoundScopeFlags(c) = {ScopeFlags(c)}
                BY DEF FoundScopeFlags, ScopePauseLimitsOnly
            <4>2. Goto(Loop, IF OtherPauseActive(c, sweep.lt, ScopeFlags(c)) THEN "clear" ELSE "lift")
                BY <1>0, <2>3, <4>1 DEF Guard
            <4>3. CASE OtherPauseActive(c, sweep.lt, ScopeFlags(c))
                BY <1>0, <2>3, <4>2, <4>3 DEF Guard, Goto, CallsOK, runtime, flags
            <4>4. CASE ~OtherPauseActive(c, sweep.lt, ScopeFlags(c))
                <5>1. /\ (PauseTypes \ {sweep.lt}) \cap ScopeFlags(c) = {}
                      /\ enforced[c] \cap PauseTypes \subseteq {sweep.lt}
                    BY <4>4 DEF OtherPauseActive
                <5> QED
                    BY <1>0, <2>3, <4>2, <4>4, <5>1 DEF Guard, Goto, CallsOK, runtime, flags
            <4> QED
                BY <4>3, <4>4
        <3>2. call'[Loop].at = "lift" => ScopeFlags(c) \cap PauseTypes = {}
            BY <1>0, <1>4, <3>1, HeldByNoScope
        <3> QED
            BY <1>2, <1>4, <2>1, <3>1, <3>2 DEF SweepRelies
    <2>4. CASE Look(Loop) \/ Clear(Loop)
        <3>1. status' = status /\ call'[Loop].at \in {"guard", "clear", "each"}
            BY <1>0, <2>4 DEF Look, Clear, Goto, Return, IdleCall, CallsOK, runtime
        <3> QED
            BY <1>2, <1>4, <2>1, <3>1 DEF SweepRelies
    <2> QED
        BY <1>1, <1>4, <2>2, <2>3, <2>4 DEF EffectStep, Act, Mark
<1> QED
    BY <1>3, <1>4

\* enforce and release, called by the loop.
LEMMA EffectScope ==
    ASSUME ScopePauseLimitsOnly, ScopeInv, EffectStep(Loop)
    PROVE  WorkersStayAway' /\ ScopeLimited' /\ SweepShape' /\ SweepRelies' /\ ScopeHolds'
<1>0. /\ CallsOK /\ RuntimeOK /\ SweepOK /\ StoredOK /\ Loop \in Procs
      /\ call[Loop].at \in EffectLabels
      /\ UNCHANGED <<level, segOf, scopeEnforced, seen, sweep>>
      /\ \A w \in Containers : call'[w] = call[w]
      /\ \A s : Members(s)' = Members(s)
    BY LoopEffect, ProcFacts DEF ScopeInv, TypeOK, Members
<1>1. Sweeping /\ Sweeping'
    BY <1>0, LoopEffect DEF ScopeInv, Sweeping
<1>2. WorkersStayAway' /\ ScopeLimited'
    BY <1>0 DEF ScopeInv, WorkersStayAway, ScopeLimited
<1>3. /\ call'[Loop].at = "each" \/ (/\ call'[Loop].at \in EffectLabels
                                    /\ call'[Loop].c = call[Loop].c /\ call'[Loop].lt = call[Loop].lt)
    BY LoopEffect DEF ScopeInv
<1>4. /\ sweep.members = Members(sweep.scope) /\ sweep.rest \subseteq sweep.members
      /\ call[Loop].lt = sweep.lt /\ call[Loop].c \in sweep.members
      /\ sweep.lt \in PauseTypes => <<sweep.scope, sweep.lt>> \in Limitable
    BY <1>0, <1>1 DEF ScopeInv, SweepShape
<1>5. CASE sweep.lt \in PauseTypes
    <2>1. /\ SweepRelies'
          /\ sweep.enforcing => call'[Loop].at \in {"mark", "each"}
          /\ ~sweep.enforcing => call'[Loop].at \notin {"act", "mark"}
          /\ \A d \in Containers : status[d] # "running" /\ status'[d] = "running" =>
                ScopeFlags(d) \cap PauseTypes = {}
        BY <1>5, LoopPauses
    <2>2. SweepShape'
        BY <1>0, <1>3, <1>4, <2>1 DEF SweepShape, EffectLabels
    <2>3. ScopeHolds'
        <3> SUFFICES ASSUME NEW s \in Scopes, scopeEnforced[s] \cap PauseTypes # {},
                            NEW d \in Containers, s \in {Host, segOf[d]}, status'[d] = "running"
                     PROVE  FALSE
            BY <1>0 DEF ScopeHolds
        <3>1. scopeEnforced[s] \subseteq ScopeFlags(d)
            BY EnforcementAssumption DEF ScopeFlags, Scopes
        <3> QED
            BY <2>1, <3>1 DEF ScopeInv, ScopeHolds
    <2> QED
        BY <1>2, <2>1, <2>2, <2>3
<1>6. CASE sweep.lt \notin PauseTypes
    <2>1. SweepShape' /\ SweepRelies'
        BY <1>0, <1>3, <1>4, <1>6 DEF SweepShape, SweepRelies, EffectLabels
    <2>2. \A d \in Containers : status'[d] = "running" => status[d] = "running"
        BY <1>0, <1>4, <1>6 DEF EffectStep, Act, Apply, Mark, Look, Guard, Lift, LiftEffect, Clear,
                                RuntimeOK, runtime
    <2>3. ScopeHolds'
        BY <1>0, <2>2 DEF ScopeInv, ScopeHolds
    <2> QED
        BY <1>2, <2>1, <2>3
<1> QED
    BY <1>5, <1>6

\* Reading a scope: only what is limited for it has a verdict.
LEMMA ReadScope ==
    ASSUME ScopePauseLimitsOnly, ScopeInv, ScopeRead
    PROVE  ScopeLimited' /\ SweepShape' /\ SweepRelies'
<1>0. /\ CallsOK /\ SweepOK /\ StoredOK /\ seen \in [Procs -> [LimitTypes -> Snapshots]] /\ Loop \in Procs
      /\ \A s \in Scopes : s \in Targets
    BY ProcFacts DEF ScopeInv, TypeOK, Targets
<1>1. PICK totals \in TotalsRead(sweep.scope) :
        /\ seen' = [seen EXCEPT ![Loop] = totals]
        /\ sweep' = [sweep EXCEPT !.members = Members(sweep.scope)]
    BY DEF ScopeRead, ScopePauseLimitsOnly
<1>2. /\ sweep'.scope = sweep.scope /\ sweep'.members = Members(sweep.scope)
      /\ sweep'.lt = sweep.lt
    BY <1>0, <1>1 DEF SweepOK
<1>3. UNCHANGED <<level, segOf, scopeEnforced>> /\ Members(sweep.scope)' = Members(sweep'.scope)
    BY DEF ScopeRead, stored, flags, Members
<1>4. call'[Loop].at = "pick"
    BY <1>0 DEF ScopeRead, Goto, CallsOK
<1>5. \A lt \in LimitTypes : totals[lt] = level[sweep.scope][lt]
    BY DEF TotalsRead, ScopePauseLimitsOnly
<1>6. ScopeLimited'
    BY <1>0, <1>1, <1>2, <1>3, <1>5, LimitTypeFacts DEF ScopeInv, ScopeLimited, SweepOK
<1>7. SweepShape'
    BY <1>2, <1>3, <1>4 DEF SweepShape, Sweeping, EffectLabels, Members
<1>8. SweepRelies'
    BY <1>4 DEF SweepRelies, Sweeping, EffectLabels
<1> QED
    BY <1>6, <1>7, <1>8

\* Taking up one of the scope's limits.
LEMMA PickScope ==
    ASSUME ScopePauseLimitsOnly, ScopeInv, ScopePick
    PROVE  ScopeLimited' /\ SweepShape' /\ SweepRelies'
<1>0. /\ SweepOK /\ seen \in [Procs -> [LimitTypes -> Snapshots]] /\ Loop \in Procs
      /\ call[Loop].at = "pick" /\ sweep.members = Members(sweep.scope)
    BY ProcFacts DEF ScopeInv, TypeOK, ScopePick, SweepShape
<1>1. PICK lt \in Pending(Loop) :
        /\ seen' = [seen EXCEPT ![Loop][lt] = "none"]
        /\ \/ UNCHANGED <<call, sweep>>
           \/ /\ call'[Loop].at = IF seen[Loop][lt] = "over" THEN "each" ELSE "unmark"
              /\ sweep'.lt = lt
              /\ sweep'.enforcing = (seen[Loop][lt] = "over")
              /\ sweep'.scope = sweep.scope
              /\ sweep'.members = sweep.members
              /\ sweep'.rest = sweep.members
    BY PickMoves DEF ScopeInv
<1>2. UNCHANGED <<level, segOf, scopeEnforced>> /\ \A s : Members(s)' = Members(s)
    BY LoopLeaves DEF stored, Members, ScopePick, flags
<1>3. sweep'.scope = sweep.scope
    BY <1>1
<1>4. \A l \in PauseTypes : seen'[Loop][l] # "none" => seen[Loop][l] # "none"
    BY <1>0, <1>1, LimitTypeFacts DEF Pending
<1>5. ScopeLimited'
    BY <1>2, <1>3, <1>4 DEF ScopeInv, ScopeLimited
<1>6. CASE UNCHANGED <<call, sweep>>
    <2>1. call'[Loop].at = "pick" /\ ~Sweeping'
        BY <1>0, <1>6 DEF Sweeping, EffectLabels
    <2>2. SweepShape'
        BY <1>0, <1>2, <1>6, <2>1 DEF SweepShape, EffectLabels
    <2>3. SweepRelies'
        BY <2>1 DEF SweepRelies
    <2> QED
        BY <1>5, <2>2, <2>3
<1>7. CASE /\ call'[Loop].at = IF seen[Loop][lt] = "over" THEN "each" ELSE "unmark"
           /\ sweep'.lt = lt
           /\ sweep'.enforcing = (seen[Loop][lt] = "over")
           /\ sweep'.scope = sweep.scope
           /\ sweep'.members = sweep.members
           /\ sweep'.rest = sweep.members
    <2>1. lt \in PauseTypes => <<sweep.scope, lt>> \in Limitable
        BY <1>1 DEF Pending, ScopeInv, ScopeLimited
    <2>2. /\ sweep'.enforcing => call'[Loop].at = "each"
          /\ ~sweep'.enforcing => call'[Loop].at = "unmark"
        BY <1>7
    <2>3. SweepShape'
        BY <1>0, <1>2, <1>7, <2>1, <2>2 DEF SweepShape, EffectLabels
    <2>4. SweepRelies'
        BY <1>7, <2>2 DEF SweepRelies
    <2> QED
        BY <1>5, <2>3, <2>4
<1> QED
    BY <1>1, <1>6, <1>7

\* Taking the flag down.
LEMMA UnmarkScope ==
    ASSUME ScopePauseLimitsOnly, ScopeInv, ScopeUnmark
    PROVE  ScopeLimited' /\ SweepShape' /\ SweepRelies' /\ ScopeHolds'
<1>0. /\ CallsOK /\ SweepOK /\ FlagsOK /\ Loop \in Procs
      /\ call[Loop].at = "unmark" /\ Sweeping
      /\ UNCHANGED <<level, segOf, seen, sweep, runtime>>
    BY ProcFacts DEF ScopeInv, TypeOK, ScopeUnmark, Sweeping, stored
<1>1. /\ \A s \in Scopes : scopeEnforced'[s] \subseteq scopeEnforced[s]
      /\ sweep.lt \notin scopeEnforced'[sweep.scope]
    BY <1>0 DEF ScopeUnmark, FlagsOK, SweepOK
<1>2. call'[Loop].at = "each" /\ \A s : Members(s)' = Members(s)
    BY <1>0 DEF ScopeUnmark, Goto, CallsOK, Members
<1>3. ScopeLimited'
    BY <1>0, <1>1 DEF ScopeInv, ScopeLimited
<1>4. SweepShape'
    BY <1>0, <1>2 DEF ScopeInv, SweepShape, EffectLabels
<1>5. SweepRelies'
    BY <1>0, <1>1, <1>2 DEF ScopeInv, SweepRelies, SweepShape
<1>6. ScopeHolds'
    BY <1>0, <1>1 DEF ScopeInv, ScopeHolds, runtime
<1> QED
    BY <1>3, <1>4, <1>5, <1>6

\* Going on to the next container.
LEMMA EachScope ==
    ASSUME ScopePauseLimitsOnly, ScopeInv, ScopeEach
    PROVE  SweepShape' /\ SweepRelies'
<1>0. /\ CallsOK /\ SweepOK /\ FlagsOK /\ Loop \in Procs
      /\ call[Loop].at = "each" /\ Sweeping
      /\ UNCHANGED <<level, segOf, status, scopeEnforced>> /\ \A s : Members(s)' = Members(s)
    BY ProcFacts DEF ScopeInv, TypeOK, ScopeEach, Sweeping, stored, runtime, flags, Members
<1>1. PICK c \in sweep.rest :
        /\ sweep' = [sweep EXCEPT !.rest = @ \ {c}]
        /\ \/ call' = [call EXCEPT ![Loop] =
                    [at |-> IF sweep.enforcing THEN "act" ELSE ReleaseEntry(sweep.lt),
                     c |-> c, lt |-> sweep.lt]]
           \/ status[c] = "exited" /\ UNCHANGED call
    BY Zenon DEF ScopeEach, ScopePauseLimitsOnly
<1>2. /\ sweep'.scope = sweep.scope /\ sweep'.members = sweep.members /\ sweep'.lt = sweep.lt
      /\ sweep'.enforcing = sweep.enforcing /\ sweep'.rest = sweep.rest \ {c}
    BY <1>0, <1>1 DEF SweepOK
<1>3. \/ status[c] = "exited" /\ call'[Loop] = call[Loop]
      \/ /\ call'[Loop].c = c /\ call'[Loop].lt = sweep.lt
         /\ call'[Loop].at = IF sweep.enforcing THEN "act" ELSE ReleaseEntry(sweep.lt)
    BY <1>0, <1>1 DEF CallsOK
<1>4. /\ sweep.rest \subseteq sweep.members /\ sweep.members = Members(sweep.scope)
      /\ sweep.lt \in PauseTypes => <<sweep.scope, sweep.lt>> \in Limitable
    BY <1>0 DEF ScopeInv, SweepShape
<1>5. /\ ReleaseEntry(sweep.lt) \in {"look", "lift"}
      /\ sweep.lt \in PauseTypes => ReleaseEntry(sweep.lt) = "look"
    BY DEF ReleaseEntry
<1>6. SweepShape'
    <2>1. CASE call'[Loop] = call[Loop]
        BY <1>0, <1>2, <1>4, <2>1 DEF SweepShape, EffectLabels
    <2>2. CASE /\ call'[Loop].c = c /\ call'[Loop].lt = sweep.lt
               /\ call'[Loop].at = IF sweep.enforcing THEN "act" ELSE ReleaseEntry(sweep.lt)
        BY <1>0, <1>2, <1>4, <1>5, <2>2 DEF SweepShape, EffectLabels
    <2> QED
        BY <1>3, <2>1, <2>2
<1>7. SweepRelies'
    <2> SUFFICES ASSUME sweep.lt \in PauseTypes PROVE SweepRelies'
        BY <1>2 DEF SweepRelies
    <2>1. /\ sweep.enforcing => \A d \in sweep.members \ sweep.rest : status[d] # "running"
          /\ ~sweep.enforcing => sweep.lt \notin scopeEnforced[sweep.scope]
        BY <1>0 DEF ScopeInv, SweepRelies
    <2>2. CASE sweep.enforcing
        BY <1>0, <1>2, <1>3, <2>1, <2>2 DEF SweepRelies
    <2>3. CASE ~sweep.enforcing
        <3>1. call'[Loop].at \in {"each", "look"}
            BY <1>0, <1>3, <1>5, <2>3
        <3> QED
            BY <1>0, <1>2, <2>1, <2>3, <3>1 DEF SweepRelies
    <2> QED
        BY <2>2, <2>3
<1> QED
    BY <1>6, <1>7

\* The scope is flagged when all of its containers are held.
LEMMA DoneScope ==
    ASSUME ScopePauseLimitsOnly, ScopeInv, ScopeDone
    PROVE  ScopeLimited' /\ SweepShape' /\ SweepRelies' /\ ScopeHolds'
<1>0. /\ CallsOK /\ SweepOK /\ FlagsOK /\ StoredOK /\ Loop \in Procs
      /\ call[Loop].at = "each" /\ Sweeping /\ sweep.rest = {}
      /\ UNCHANGED <<level, segOf, status, seen>> /\ \A s : Members(s)' = Members(s)
      /\ sweep.members = Members(sweep.scope)
    BY ProcFacts DEF ScopeInv, TypeOK, ScopeDone, Sweeping, stored, runtime, flags, Members, SweepShape
<1>1. sweep'.scope = sweep.scope /\ sweep'.members = sweep.members
    BY <1>0 DEF ScopeDone, SweepOK
<1>2. call'[Loop].at = "pick" /\ ~Sweeping'
    BY <1>0 DEF ScopeDone, Goto, CallsOK, Sweeping, EffectLabels
<1>3. \/ UNCHANGED scopeEnforced
      \/ sweep.enforcing /\ scopeEnforced' = [scopeEnforced EXCEPT ![sweep.scope] = @ \cup {sweep.lt}]
    BY DEF ScopeDone
<1>4. ASSUME NEW s \in Scopes, NEW lt \in PauseTypes, lt \in scopeEnforced'[s]
      PROVE  lt \in scopeEnforced[s] \/ (s = sweep.scope /\ lt = sweep.lt /\ sweep.enforcing)
    BY <1>0, <1>3, <1>4 DEF FlagsOK, SweepOK
<1>5. sweep.lt \in PauseTypes => <<sweep.scope, sweep.lt>> \in Limitable
    BY <1>0 DEF ScopeInv, SweepShape
<1>6. ScopeLimited'
    BY <1>0, <1>1, <1>4, <1>5 DEF ScopeInv, ScopeLimited
<1>7. SweepShape' /\ SweepRelies'
    BY <1>0, <1>1, <1>2 DEF SweepShape, SweepRelies, EffectLabels
<1>8. ScopeHolds'
    <2> SUFFICES ASSUME NEW s \in Scopes, NEW lt \in PauseTypes, lt \in scopeEnforced'[s],
                        NEW c \in Containers, s \in {Host, segOf[c]}
                 PROVE  status[c] # "running"
        BY <1>0 DEF ScopeHolds
    <2>1. CASE lt \in scopeEnforced[s]
        BY <2>1 DEF ScopeInv, ScopeHolds
    <2>2. CASE s = sweep.scope /\ lt = sweep.lt /\ sweep.enforcing
        <3>1. c \in sweep.members \ sweep.rest
            BY <1>0, <2>2 DEF Members
        <3> QED
            BY <1>0, <2>2, <3>1 DEF ScopeInv, SweepRelies
    <2> QED
        BY <1>4, <2>1, <2>2
<1> QED
    BY <1>6, <1>7, <1>8

\* Going to the next scope, or starting over: nothing is pending of the one before.
LEMMA NextScope ==
    ASSUME ScopePauseLimitsOnly, ScopeInv, ScopeTick \/ ScopeNext
    PROVE  ScopeLimited' /\ SweepShape' /\ SweepRelies'
<1>0. /\ CallsOK /\ SweepOK /\ seen \in [Procs -> [LimitTypes -> Snapshots]] /\ Loop \in Procs
    BY ProcFacts DEF ScopeInv, TypeOK
<1>1. UNCHANGED <<level, segOf, scopeEnforced, seen>>
    <2>1. UNCHANGED <<runtime, stored, flags, seen, user, restarts>>
        BY Zenon DEF ScopeTick, ScopeNext
    <2> QED
        BY <2>1 DEF stored, flags
<1>2. \/ \A lt \in PauseTypes : seen[Loop][lt] = "none"
      \/ sweep'.scope = sweep.scope
    <2>1. CASE ScopeTick
        BY <1>0, <2>1 DEF ScopeTick, ScopeInv, SweepShape, SweepOK
    <2>2. CASE ScopeNext
        <3>1. Pending(Loop) = {}
            BY <2>2, Zenon DEF ScopeNext
        <3> QED
            BY <3>1, LimitTypeFacts DEF Pending
    <2> QED
        BY <2>1, <2>2
<1>3. call'[Loop].at \in {"idle", "read"} /\ (call'[Loop].at = "idle" => sweep'.scope = Host)
    <2>1. CASE ScopeTick
        BY <1>0, <2>1 DEF ScopeTick, Goto, CallsOK
    <2>2. CASE ScopeNext
        <3>1. \/ sweep' = IdleSweep /\ Goto(Loop, "idle")
              \/ Goto(Loop, "read")
            BY <2>2, Zenon DEF ScopeNext
        <3> QED
            BY <1>0, <3>1 DEF IdleSweep, Goto, CallsOK
    <2> QED
        BY <2>1, <2>2
<1>4. ~Sweeping' /\ call'[Loop].at \notin EffectLabels /\ call'[Loop].at # "pick"
    BY <1>3 DEF Sweeping, EffectLabels
<1>5. ScopeLimited'
    BY <1>1, <1>2 DEF ScopeInv, ScopeLimited
<1> QED
    BY <1>3, <1>4, <1>5 DEF SweepShape, SweepRelies

\* The loop.
LEMMA LoopScope ==
    ASSUME ScopePauseLimitsOnly, ScopeInv, ScopeLoop
    PROVE  WorkersStayAway' /\ ScopeLimited' /\ SweepShape' /\ SweepRelies' /\ ScopeHolds'
<1>0. /\ CallsOK /\ seen \in [Procs -> [LimitTypes -> Snapshots]]
      /\ \A c \in Containers : c \in Procs /\ c # Loop
    BY ProcFacts, EnforcementAssumption DEF ScopeInv, TypeOK
<1>1. CASE EffectStep(Loop)
    BY <1>1, EffectScope
<1>2. CASE ScopeTick \/ ScopeRead \/ ScopePick \/ ScopeUnmark \/ ScopeEach \/ ScopeDone \/ ScopeNext
    <2>1. UNCHANGED <<runtime, stored, frozen, restarts>>
        BY <1>2, LoopLeaves
    <2>2. /\ \A c \in Containers : call'[c] = call[c] /\ seen'[c] = seen[c]
        <3>1. CASE ScopePick
            <4>1. /\ \E lt \in Pending(Loop) : seen' = [seen EXCEPT ![Loop][lt] = "none"]
                  /\ UNCHANGED call \/ \E label : Goto(Loop, label)
                BY <3>1, Zenon DEF ScopePick
            <4> QED
                BY <1>0, <4>1 DEF Goto, CallsOK
        <3>2. CASE ScopeEach
            <4>1. UNCHANGED seen /\ (UNCHANGED call \/ \E v : call' = [call EXCEPT ![Loop] = v])
                BY <3>2, Zenon DEF ScopeEach
            <4> QED
                BY <1>0, <4>1 DEF CallsOK
        <3>3. CASE ScopeNext
            <4>1. UNCHANGED seen /\ \E label : Goto(Loop, label)
                BY <3>3, Zenon DEF ScopeNext
            <4> QED
                BY <1>0, <4>1 DEF Goto, CallsOK
        <3>4. CASE ScopeTick \/ ScopeRead \/ ScopeUnmark \/ ScopeDone
            BY <1>0, <3>4 DEF ScopeTick, ScopeRead, ScopeUnmark, ScopeDone, Goto, CallsOK
        <3> QED
            BY <1>2, <3>1, <3>2, <3>3, <3>4
    <2>3. WorkersStayAway'
        BY <2>1, <2>2 DEF ScopeInv, WorkersStayAway, stored
    <2>4. CASE ScopeUnmark
        BY <2>3, <2>4, UnmarkScope
    <2>5. CASE ScopeDone
        BY <2>3, <2>5, DoneScope
    <2>6. CASE ScopeTick \/ ScopeRead \/ ScopePick \/ ScopeEach \/ ScopeNext
        <3>1. UNCHANGED scopeEnforced
            <4>1. UNCHANGED flags
                BY <2>6, Zenon DEF ScopeTick, ScopeRead, ScopePick, ScopeEach, ScopeNext
            <4> QED
                BY <4>1 DEF flags
        <3>2. ScopeHolds'
            BY <2>1, <3>1 DEF ScopeInv, ScopeHolds, runtime, stored
        <3>3. CASE ScopeEach
            <4>1. ScopeLimited'
                <5>1. UNCHANGED seen /\ \E c : sweep' = [sweep EXCEPT !.rest = @ \ {c}]
                    BY <3>3, Zenon DEF ScopeEach
                <5>2. sweep'.scope = sweep.scope
                    BY <5>1 DEF ScopeInv, TypeOK, SweepOK
                <5> QED
                    BY <2>1, <3>1, <5>1, <5>2 DEF ScopeInv, ScopeLimited, stored
            <4> QED
                BY <2>3, <3>2, <3>3, <4>1, EachScope
        <3> QED
            BY <2>3, <2>6, <3>2, <3>3, ReadScope, PickScope, NextScope
    <2> QED
        BY <1>2, <2>4, <2>5, <2>6
<1> QED
    BY <1>1, <1>2 DEF ScopeLoop

\* The environment: usage and limits change, the daemon restarts.
LEMMA EnvironmentScope ==
    ASSUME ScopePauseLimitsOnly, ScopeInv, Environment
    PROVE  WorkersStayAway' /\ ScopeLimited' /\ SweepShape' /\ SweepRelies' /\ ScopeHolds'
<1>0. /\ CallsOK /\ StoredOK /\ seen \in [Procs -> [LimitTypes -> Snapshots]] /\ Loop \in Procs
      /\ None \notin PauseTypes
      /\ \A c \in Containers : c \in Procs /\ c # Loop /\ c \in Targets
      /\ \A s \in Scopes : s \in Targets /\ s \notin Containers
    BY ProcFacts, EnforcementAssumption, LimitTypeFacts DEF ScopeInv, TypeOK, Scopes, Targets
<1>1. ASSUME NEW x \in Targets, NEW l \in LimitTypes, NEW v \in Verdicts, SetLevel(x, l, v)
      PROVE  WorkersStayAway' /\ ScopeLimited' /\ SweepShape' /\ SweepRelies' /\ ScopeHolds'
    <2>1. <<x, l>> \in Limitable /\ level' = [level EXCEPT ![x][l] = v]
        BY <1>1 DEF SetLevel
    <2>2. UNCHANGED <<status, segOf, enforced, scopeEnforced, call, sweep>>
        BY <1>1 DEF SetLevel, runtime, flags
    <2>3. /\ seen'[Loop] = seen[Loop]
          /\ \A c \in Containers, lt \in PauseTypes : seen'[c][lt] = "none"
        <3>1. CASE seen' = seen
            BY <3>1 DEF ScopeInv, WorkersStayAway
        <3>2. CASE x \in Containers /\ seen' = [seen EXCEPT ![x][l] = "stale"]
            <4>1. l \notin PauseTypes
                BY <2>1, <3>2 DEF ScopePauseLimitsOnly
            <4> QED
                BY <1>0, <3>2, <4>1, LimitTypeFacts DEF ScopeInv, WorkersStayAway
        <3> QED
            BY <1>1, <3>1, <3>2 DEF SetLevel
    <2>4. ASSUME NEW y \in Targets, NEW lt \in PauseTypes, level'[y][lt] # "none"
          PROVE  level[y][lt] # "none" \/ <<y, lt>> \in Limitable
        BY <1>0, <2>1, <2>4, LimitTypeFacts DEF StoredOK
    <2>5. WorkersStayAway'
        BY <1>0, <2>2, <2>3, <2>4 DEF ScopeInv, WorkersStayAway, ScopePauseLimitsOnly
    <2>6. ScopeLimited'
        BY <1>0, <2>2, <2>3, <2>4 DEF ScopeInv, ScopeLimited
    <2> QED
        BY <2>2, <2>5, <2>6, LoopUndisturbed
<1>2. ASSUME NEW d \in Containers, Exit(d) \/ Start(d) PROVE FALSE
    BY <1>2 DEF Exit, Start, ScopePauseLimitsOnly
<1>3. ASSUME NEW d \in Containers, NEW s, Move(d, s) PROVE FALSE
    BY <1>3 DEF Move, ScopePauseLimitsOnly
<1>4. CASE Restart
    <2>1. /\ UNCHANGED <<level, status, segOf>> /\ sweep' = IdleSweep
          /\ scopeEnforced' = [s \in Scopes |-> {}]
          /\ call' = [p \in Procs |-> IdleCall(p)] /\ seen' = [p \in Procs |-> NoVerdicts]
        BY <1>4 DEF Restart, runtime, stored
    <2>2. /\ call'[Loop].at = "idle"
          /\ \A p \in Procs : call'[p].lt = None
          /\ \A p \in Procs, lt \in LimitTypes : seen'[p][lt] = "none"
        BY <1>0, <2>1 DEF IdleCall, NoVerdicts
    <2>3. WorkersStayAway'
        BY <1>0, <2>1, <2>2, LimitTypeFacts DEF ScopeInv, WorkersStayAway
    <2>4. ScopeLimited'
        BY <1>0, <2>1, <2>2, LimitTypeFacts DEF ScopeInv, ScopeLimited
    <2>5. SweepShape' /\ SweepRelies'
        BY <2>1, <2>2 DEF SweepShape, SweepRelies, Sweeping, EffectLabels, IdleSweep
    <2>6. ScopeHolds'
        BY <2>1 DEF ScopeHolds
    <2> QED
        BY <2>3, <2>4, <2>5, <2>6
<1> QED
    BY <1>1, <1>2, <1>3, <1>4 DEF Environment

\* Every step keeps the invariant.
LEMMA StepScope ==
    ASSUME ScopePauseLimitsOnly, ScopeInv, [Next]_vars
    PROVE  ScopeInv'
<1>1. TypeOK'
    BY StepTypeOK DEF ScopeInv
<1>2. CASE \E w \in Containers : Worker(w)
    BY <1>1, <1>2, WorkerScope DEF ScopeInv
<1>3. CASE ScopeLoop
    BY <1>1, <1>3, LoopScope DEF ScopeInv
<1>4. CASE Environment
    BY <1>1, <1>4, EnvironmentScope DEF ScopeInv
<1>5. CASE UNCHANGED vars
    <2>1. WorkersStayAway' /\ ScopeLimited'
        BY <1>5 DEF vars, stored, flags, ScopeInv, WorkersStayAway, ScopeLimited
    <2>2. SweepShape' /\ SweepRelies' /\ ScopeHolds'
        BY <1>5, LoopUndisturbed DEF vars, stored, flags, runtime
    <2> QED
        BY <1>1, <2>1, <2>2 DEF ScopeInv
<1> QED
    BY <1>2, <1>3, <1>4, <1>5 DEF Next, ScopePauseLimitsOnly

\* Where the cpu and disk limits are those of the host and of the segments, every
\* container of a scope that is flagged for one of them is held, however many
\* containers, segments and restarts there are.
THEOREM ScopesStayHeld ==
    ASSUME ScopePauseLimitsOnly PROVE Spec => []ScopeHolds
<1>1. ScopeInv /\ [Next]_vars => ScopeInv'
    BY StepScope
<1>2. ScopeInv => ScopeHolds
    BY DEF ScopeInv
<1> QED
    BY InitScope, <1>1, <1>2, PTL DEF Spec

\* There, too, the release that unpauses a container is the release of the last scope
\* that held it.
THEOREM ScopeLimitsAllRelease ==
    ASSUME ScopePauseLimitsOnly PROVE Spec => AllLevelsRelease
<1>1. ScopeInv /\ [Next]_vars => ScopeInv'
    BY StepScope
<1>2. ASSUME ScopeInv, [Next]_vars, NEW c \in Containers, Lifted(c)
      PROVE  /\ ScopeFlags(c) \cap PauseTypes = {}
             /\ \E lt \in PauseTypes : enforced[c] \cap PauseTypes \subseteq {lt}
    <2>1. PICK p \in Procs : Lift(p) /\ call[p].c = c /\ call[p].lt \in PauseTypes
        BY <1>2, LiftedByRelease DEF ScopePauseLimitsOnly, ScopeInv
    <2>2. p = Loop
        BY <1>2, <2>1 DEF Procs, ScopeInv, WorkersStayAway
    <2>3. Sweeping /\ call[Loop].at = "lift"
        BY <2>1, <2>2 DEF Lift, Sweeping, EffectLabels
    <2>4. sweep.lt \in PauseTypes /\ ~sweep.enforcing
        BY <1>2, <2>1, <2>2, <2>3 DEF ScopeInv, SweepShape, EffectLabels
    <2> QED
        BY <1>2, <2>1, <2>2, <2>3, <2>4 DEF ScopeInv, SweepRelies
<1>3. ScopeInv /\ [Next]_vars =>
        [\A c \in Containers : Lifted(c) =>
            /\ ScopeFlags(c) \cap PauseTypes = {}
            /\ \E lt \in PauseTypes : enforced[c] \cap PauseTypes \subseteq {lt}]_vars
    BY <1>2
<1> QED
    BY InitScope, <1>1, <1>3, PTL DEF Spec, AllLevelsRelease
=============================================================================
