---------------------------- MODULE MeteringProofs ----------------------------
(***************************************************************************)
(* What a worker measured is in the total once, for any containers, unit and *)
(* bounds.  A container in its first life has a worker only while its row is *)
(* there, and late ticks only once the worker is stopped for good: so what a *)
(* late tick writes is as recent as what was stored, and it can do no more   *)
(* than repeat it, into the row or where nothing counts it.                 *)
(***************************************************************************)
EXTENDS Metering, SumLemmas

LEMMA UnitFact == Unit \in Nat \ {0}
<1>. QED  BY MeteringAssumption DEF MeteringAssumption

LEMMA ContainersFinite == IsFiniteSet(Containers)
<1>. QED  BY MeteringAssumption DEF MeteringAssumption

-----------------------------------------------------------------------------
(* Whole seconds. *)

Scaled(n) == Unit * n

LEMMA DivFacts ==
    ASSUME NEW n \in Nat, NEW u \in Nat \ {0}
    PROVE  n \div u \in Nat /\ u * (n \div u) <= n
<1>. QED  OBVIOUS

LEMMA DivGreatest ==
    ASSUME NEW n \in Nat, NEW m \in Nat, NEW u \in Nat \ {0}, u * m <= n
    PROVE  m <= n \div u
<1>. QED  BY Z3T(30)

LEMMA ScaledNat ==
    ASSUME NEW n \in Nat
    PROVE  Scaled(n) \in Nat /\ Scaled(0) = 0
<1>. QED  BY UnitFact DEF Scaled

\* A sample is the counter in whole seconds: no later sample of the same cgroup is less.
LEMMA SampleFacts ==
    ASSUME counter \in Counts, NEW c \in Containers
    PROVE  /\ CurrentUsage(c) \in Nat /\ Scaled(CurrentUsage(c)) <= counter[c]
           /\ \A m \in Nat : Scaled(m) <= counter[c] => m <= CurrentUsage(c)
<1>1. counter[c] \in Nat
    BY DEF Counts
<1>2. CurrentUsage(c) = counter[c] \div Unit
    BY DEF CurrentUsage, CPUUsageMicroseconds
<1>. QED  BY <1>1, <1>2, DivFacts, DivGreatest, UnitFact DEF Scaled

-----------------------------------------------------------------------------
(* Invariants. *)

Workers == {Off} \cup [at : {"wait", "sample", "write"}, sample : Nat]

Typed ==
    /\ usage \in Counts /\ accum \in Counts /\ counter \in Counts
    /\ used \in Counts /\ metered \in Counts /\ lives \in Counts
    /\ worker \in [Containers -> Workers]
    /\ stray \subseteq Samples

\* A container has a worker only while its row is there, and no late tick while it has
\* one; before its first life nothing is stored of it.
Ordered(c) ==
    lives[c] <= 1 =>
        /\ worker[c] # Off => c \in registered /\ \A t \in stray : t.c # c
        /\ lives[c] = 0 => /\ c \notin registered /\ accum[c] = 0 /\ metered[c] = 0
                           /\ worker[c] = Off /\ \A t \in stray : t.c # c
        /\ c \in registered => accum[c] = 0

\* Nothing that is stored, or is to be stored, is more than what was used.
NotMore(c) ==
    /\ counter[c] <= used[c]
    /\ Scaled(worker[c].sample) <= used[c]
    /\ \A t \in stray : t.c = c => Scaled(t.sample) <= used[c]
    /\ Scaled(usage[c]) <= used[c]
    /\ lives[c] <= 1 => Scaled(accum[c]) <= used[c]

\* Nor less than the last sample that was stored.
NotLess(c) ==
    lives[c] <= 1 /\ c \notin restarted =>
        /\ Scaled(metered[c]) <= counter[c]
        /\ worker[c].at = "write" => Scaled(worker[c].sample) <= counter[c] /\ metered[c] <= worker[c].sample
        /\ \A t \in stray : t.c = c /\ t.at = "write" => metered[c] <= t.sample
        /\ IF c \in registered THEN metered[c] <= usage[c] ELSE metered[c] <= accum[c]

Measured(c) == Ordered(c) /\ NotMore(c) /\ NotLess(c)

MeterInv == Typed /\ \A c \in Containers : Measured(c)

LEMMA TypedAt ==
    ASSUME Typed, NEW c \in Containers
    PROVE  /\ usage[c] \in Nat /\ accum[c] \in Nat /\ counter[c] \in Nat /\ used[c] \in Nat
           /\ metered[c] \in Nat /\ lives[c] \in Nat /\ worker[c].sample \in Nat
           /\ Scaled(usage[c]) \in Nat /\ Scaled(accum[c]) \in Nat /\ Scaled(metered[c]) \in Nat
           /\ Scaled(worker[c].sample) \in Nat
           /\ \A t \in stray : /\ t.sample \in Nat /\ Scaled(t.sample) \in Nat /\ t.c \in Containers
                              /\ t.at \in {"sample", "write"}
<1>1. /\ usage[c] \in Nat /\ accum[c] \in Nat /\ counter[c] \in Nat /\ used[c] \in Nat
      /\ metered[c] \in Nat /\ lives[c] \in Nat /\ worker[c].sample \in Nat
    BY DEF Typed, Counts, Workers, Off
<1>2. \A t \in stray : t.sample \in Nat /\ t.c \in Containers /\ t.at \in {"sample", "write"}
    BY DEF Typed, Samples
<1>. QED  BY <1>1, <1>2, ScaledNat

LEMMA InitMeter == Init => MeterInv
<1>. SUFFICES ASSUME Init PROVE MeterInv
    OBVIOUS
<1>1. Typed
    BY DEF Init, Typed, Counts, Workers, Off
<1>2. ASSUME NEW c \in Containers PROVE Measured(c)
  <2>1. Scaled(0) = 0
      BY ScaledNat
  <2>2. Ordered(c)
      BY DEF Init, Ordered
  <2>3. NotMore(c)
      BY <2>1 DEF Init, NotMore, Off
  <2>4. NotLess(c)
      BY <2>1 DEF Init, NotLess, Off
  <2>. QED  BY <2>2, <2>3, <2>4 DEF Measured
<1>. QED  BY <1>1, <1>2 DEF MeterInv

\* A step that leaves alone what is said of a container.
LEMMA StillMeasured ==
    ASSUME NEW c \in Containers, Measured(c),
           /\ usage'[c] = usage[c] /\ accum'[c] = accum[c] /\ counter'[c] = counter[c]
           /\ used'[c] = used[c] /\ metered'[c] = metered[c] /\ lives'[c] = lives[c]
           /\ worker'[c] = worker[c]
           /\ c \in registered' <=> c \in registered
           /\ c \in restarted' <=> c \in restarted
           /\ \A t \in stray' : t.c = c => t \in stray
    PROVE  Measured(c)'
<1>1. Ordered(c)'
    BY DEF Measured, Ordered
<1>2. NotMore(c)'
    BY DEF Measured, NotMore
<1>3. NotLess(c)'
    BY DEF Measured, NotLess
<1>. QED  BY <1>1, <1>2, <1>3 DEF Measured

LEMMA StillTyped ==
    ASSUME Typed, UNCHANGED <<usage, accum, counter, used, metered, lives, worker, stray>>
    PROVE  Typed'
<1>. QED  BY DEF Typed

LEMMA StillMeter ==
    ASSUME MeterInv,
           UNCHANGED <<registered, usage, accum, counter, used, metered, lives, worker, stray, restarted>>
    PROVE  MeterInv'
<1>. QED  BY StillTyped, StillMeasured DEF MeterInv

\* A step about one container: the others need only be left alone.
LEMMA MeterStep ==
    ASSUME MeterInv, Typed', NEW c \in Containers, Measured(c)',
           \A d \in Containers \ {c} :
              /\ usage'[d] = usage[d] /\ accum'[d] = accum[d] /\ counter'[d] = counter[d]
              /\ used'[d] = used[d] /\ metered'[d] = metered[d] /\ lives'[d] = lives[d]
              /\ worker'[d] = worker[d]
              /\ d \in registered' <=> d \in registered
              /\ d \in restarted' <=> d \in restarted
              /\ \A t \in stray' : t.c = d => t \in stray
    PROVE  MeterInv'
<1>1. ASSUME NEW d \in Containers PROVE Measured(d)'
  <2>1. CASE d = c
      BY <2>1
  <2>2. CASE d # c
    <3>1. Measured(d)
        BY DEF MeterInv
    <3>. QED  BY <2>2, <3>1, StillMeasured
  <2>. QED  BY <2>1, <2>2
<1>. QED  BY <1>1 DEF MeterInv

-----------------------------------------------------------------------------
(* The steps. *)

LEMMA UseMeter == ASSUME MeterInv, NEW c \in Containers, Use(c) PROVE MeterInv'
<1>1. /\ used' = [used EXCEPT ![c] = @ + 1] /\ counter' = [counter EXCEPT ![c] = @ + 1]
      /\ UNCHANGED <<registered, usage, accum, worker, stray, metered, lives, restarted>>
    BY DEF Use, storeVars
<1>2. Typed /\ Measured(c)
    BY DEF MeterInv
<1>3. Typed'
    BY <1>1, <1>2 DEF Typed, Counts
<1>4. used'[c] = used[c] + 1 /\ counter'[c] = counter[c] + 1
    BY <1>1, <1>2 DEF Typed, Counts
<1>5. Ordered(c)'
    BY <1>1, <1>2 DEF Measured, Ordered
<1>6. NotMore(c)'
    BY <1>1, <1>2, <1>4, TypedAt DEF Measured, NotMore
<1>7. NotLess(c)'
    BY <1>1, <1>2, <1>4, TypedAt DEF Measured, NotLess
<1>. QED  BY <1>1, <1>2, <1>3, <1>5, <1>6, <1>7, MeterStep DEF Measured, Typed, Counts

LEMMA RestartMeter == ASSUME MeterInv, NEW c \in Containers, DockerRestart(c) PROVE MeterInv'
<1>1. /\ counter' = [counter EXCEPT ![c] = 0] /\ restarted' = restarted \cup {c}
      /\ UNCHANGED <<registered, usage, accum, worker, stray, used, metered, lives>>
    BY DEF DockerRestart, storeVars
<1>2. Typed /\ Measured(c)
    BY DEF MeterInv
<1>3. Typed'
    BY <1>1, <1>2 DEF Typed, Counts
<1>4. counter'[c] = 0 /\ used[c] \in Nat
    BY <1>1, <1>2 DEF Typed, Counts
<1>5. Ordered(c)'
    BY <1>1, <1>2 DEF Measured, Ordered
<1>6. NotMore(c)'
    BY <1>1, <1>2, <1>4 DEF Measured, NotMore
<1>7. NotLess(c)'
    BY <1>1 DEF NotLess
<1>. QED  BY <1>1, <1>2, <1>3, <1>5, <1>6, <1>7, MeterStep DEF Measured, Typed, Counts

\* The first registration finds nothing stored; after another, nothing is claimed but what
\* the counter says.
LEMMA RegisterMeter == ASSUME MeterInv, NEW c \in Containers, Register(c) PROVE MeterInv'
<1>1. /\ c \notin registered /\ registered' = registered \cup {c}
      /\ worker' = [worker EXCEPT ![c] = Waiting] /\ lives' = [lives EXCEPT ![c] = @ + 1]
      /\ UNCHANGED <<usage, accum, counter, stray, used, metered, restarted>>
    BY DEF Register
<1>2. Typed /\ Measured(c)
    BY DEF MeterInv
<1>3. Waiting \in Workers /\ Waiting.at = "wait" /\ Waiting.sample = 0 /\ Scaled(0) = 0
    BY ScaledNat DEF Waiting, Workers
<1>4. Typed'
    BY <1>1, <1>2, <1>3 DEF Typed, Counts
<1>5. worker'[c] = Waiting /\ lives'[c] = lives[c] + 1 /\ lives[c] \in Nat
    BY <1>1, <1>2 DEF Typed, Counts
<1>6. lives'[c] <= 1 => lives[c] = 0
    BY <1>5
<1>7. Ordered(c)'
    BY <1>1, <1>2, <1>5, <1>6 DEF Measured, Ordered
<1>8. NotMore(c)'
    BY <1>1, <1>2, <1>3, <1>5, <1>6, TypedAt DEF Measured, NotMore
<1>9. NotLess(c)'
  <2>. SUFFICES ASSUME lives'[c] <= 1, c \notin restarted
                PROVE  /\ Scaled(metered[c]) <= counter[c]
                       /\ worker'[c].at # "write"
                       /\ \A t \in stray : t.c # c
                       /\ metered[c] <= usage[c]
      BY <1>1 DEF NotLess
  <2>1. metered[c] = 0 /\ \A t \in stray : t.c # c
      BY <1>2, <1>6 DEF Measured, Ordered
  <2>. QED  BY <1>2, <1>3, <1>5, <2>1, TypedAt
<1>. QED  BY <1>1, <1>2, <1>4, <1>7, <1>8, <1>9, MeterStep DEF Measured, Typed, Counts

LEMMA TickMeter == ASSUME MeterInv, NEW c \in Containers, Tick(c) PROVE MeterInv'
<1>1. /\ worker[c].at = "wait" /\ worker' = [worker EXCEPT ![c].at = "sample"]
      /\ UNCHANGED <<registered, usage, accum, counter, stray, used, metered, lives, restarted>>
    BY DEF Tick, storeVars
<1>2. Typed /\ Measured(c)
    BY DEF MeterInv
<1>3. worker[c] # Off
    BY <1>1 DEF Off
<1>4. worker'[c].at = "sample" /\ worker'[c].sample = worker[c].sample
    BY <1>1, <1>2, <1>3 DEF Typed, Workers
<1>5. Typed'
    BY <1>1, <1>2, <1>3 DEF Typed, Workers
<1>6. Ordered(c)'
    BY <1>1, <1>2, <1>3 DEF Measured, Ordered
<1>7. NotMore(c)'
    BY <1>1, <1>2, <1>4 DEF Measured, NotMore
<1>8. NotLess(c)'
    BY <1>1, <1>2, <1>4 DEF Measured, NotLess
<1>. QED  BY <1>1, <1>2, <1>5, <1>6, <1>7, <1>8, MeterStep DEF Measured, Typed

LEMMA SampleMeter == ASSUME MeterInv, NEW c \in Containers, Sample(c) PROVE MeterInv'
<1>. DEFINE w == [at |-> "write", sample |-> CurrentUsage(c)]
<1>1. /\ worker[c].at = "sample"
      /\ worker' = [worker EXCEPT ![c] = w]
      /\ UNCHANGED <<registered, usage, accum, counter, stray, used, metered, lives, restarted>>
    BY DEF Sample, storeVars
<1>2. Typed /\ Measured(c)
    BY DEF MeterInv
<1>3. /\ CurrentUsage(c) \in Nat /\ Scaled(CurrentUsage(c)) <= counter[c]
      /\ \A m \in Nat : Scaled(m) <= counter[c] => m <= CurrentUsage(c)
    BY <1>2, SampleFacts DEF Typed
<1>4. Scaled(CurrentUsage(c)) \in Nat
    BY <1>3, ScaledNat
<1>5. w \in Workers /\ w.at = "write" /\ w.sample = CurrentUsage(c)
    BY <1>3 DEF Workers
<1>6. worker[c] # Off
    BY <1>1 DEF Off
<1>. HIDE DEF w
<1>7. Typed'
    BY <1>1, <1>2, <1>5 DEF Typed, Counts
<1>8. worker'[c] = w
    BY <1>1, <1>2 DEF Typed
<1>9. Ordered(c)'
    BY <1>1, <1>2, <1>6 DEF Measured, Ordered
<1>10. Scaled(worker'[c].sample) <= used[c]
  <2>1. counter[c] <= used[c] /\ counter[c] \in Nat /\ used[c] \in Nat
      BY <1>2, TypedAt DEF Measured, NotMore
  <2>. QED  BY <1>3, <1>4, <1>5, <1>8, <2>1
<1>11. NotMore(c)'
    BY <1>1, <1>2, <1>10 DEF Measured, NotMore
<1>12. NotLess(c)'
  <2>. SUFFICES ASSUME lives[c] <= 1, c \notin restarted
                PROVE  Scaled(worker'[c].sample) <= counter[c] /\ metered[c] <= worker'[c].sample
      BY <1>1, <1>2 DEF Measured, NotLess
  <2>1. Scaled(metered[c]) <= counter[c] /\ metered[c] \in Nat
      BY <1>2, TypedAt DEF Measured, NotLess
  <2>. QED  BY <1>3, <1>5, <1>8, <2>1
<1>. QED  BY <1>1, <1>2, <1>7, <1>9, <1>11, <1>12, MeterStep DEF Measured, Typed

LEMMA PersistMeter == ASSUME MeterInv, NEW c \in Containers, Persist(c) PROVE MeterInv'
<1>1. /\ worker[c].at = "write"
      /\ usage' = [usage EXCEPT ![c] = worker[c].sample]
      /\ worker' = [worker EXCEPT ![c] = Waiting]
      /\ metered' = [metered EXCEPT ![c] = worker[c].sample]
      /\ UNCHANGED <<registered, accum, counter, stray, used, lives, restarted>>
    BY DEF Persist
<1>2. Typed /\ Measured(c)
    BY DEF MeterInv
<1>3. worker[c] # Off
    BY <1>1 DEF Off
<1>4. Waiting \in Workers /\ Waiting.at = "wait" /\ Waiting.sample = 0 /\ Scaled(0) = 0
    BY ScaledNat DEF Waiting, Workers
<1>5. worker[c].sample \in Nat /\ used[c] \in Nat
    BY <1>2, TypedAt
<1>6. Typed'
    BY <1>1, <1>2, <1>4, <1>5 DEF Typed, Counts
<1>7. usage'[c] = worker[c].sample /\ metered'[c] = worker[c].sample /\ worker'[c] = Waiting
    BY <1>1, <1>2 DEF Typed, Counts
<1>8. lives[c] <= 1 => c \in registered /\ lives[c] # 0 /\ \A t \in stray : t.c # c
    BY <1>2, <1>3 DEF Measured, Ordered
<1>9. Ordered(c)'
    BY <1>1, <1>2, <1>8 DEF Measured, Ordered
<1>10. NotMore(c)'
    BY <1>1, <1>2, <1>4, <1>5, <1>7 DEF Measured, NotMore
<1>11. NotLess(c)'
    BY <1>1, <1>2, <1>4, <1>5, <1>7, <1>8 DEF Measured, NotLess
<1>. QED  BY <1>1, <1>2, <1>6, <1>9, <1>10, <1>11, MeterStep DEF Measured, Typed, Counts

LEMMA StopMeter == ASSUME MeterInv, NEW c \in Containers, Stop(c) PROVE MeterInv'
<1>. DEFINE w == [c |-> c, at |-> worker[c].at, sample |-> worker[c].sample]
<1>1. /\ worker[c] # Off /\ worker' = [worker EXCEPT ![c] = Off]
      /\ stray' = (IF worker[c].at = "wait" THEN stray ELSE stray \cup {w})
      /\ UNCHANGED <<registered, usage, accum, counter, used, metered, lives, restarted>>
    BY DEF Stop, storeVars
<1>2. Typed /\ Measured(c)
    BY DEF MeterInv
<1>3. Off \in Workers /\ Off.at = "off" /\ Off.sample = 0 /\ Scaled(0) = 0
    BY ScaledNat DEF Off, Workers
<1>4. worker[c].sample \in Nat /\ used[c] \in Nat
    BY <1>2, TypedAt
<1>5. /\ worker[c].at # "wait" => w \in Samples
      /\ w.c = c /\ w.sample = worker[c].sample /\ w.at = worker[c].at
    BY <1>1, <1>2, <1>4 DEF Samples, Typed, Workers
<1>. HIDE DEF w
<1>6. Typed'
    BY <1>1, <1>2, <1>3, <1>5 DEF Typed
<1>7. worker'[c] = Off
    BY <1>1, <1>2 DEF Typed
<1>8. lives[c] <= 1 => c \in registered /\ lives[c] # 0
    BY <1>1, <1>2 DEF Measured, Ordered
<1>9. Ordered(c)'
    BY <1>1, <1>2, <1>7, <1>8 DEF Measured, Ordered
<1>10. NotMore(c)'
    BY <1>1, <1>2, <1>3, <1>4, <1>5, <1>7 DEF Measured, NotMore
<1>11. NotLess(c)'
    BY <1>1, <1>2, <1>3, <1>5, <1>7 DEF Measured, NotLess
<1>12. \A d \in Containers \ {c} : worker'[d] = worker[d] /\ \A t \in stray' : t.c = d => t \in stray
    BY <1>1, <1>2, <1>5 DEF Typed
<1>. QED  BY <1>1, <1>6, <1>9, <1>10, <1>11, <1>12, MeterStep DEF Measured

\* A late tick takes its sample: the counter has not fallen since the last one was stored.
LEMMA StraySampleMeter == ASSUME MeterInv, NEW t \in stray, StraySample(t) PROVE MeterInv'
<1>. DEFINE w == [c |-> t.c, at |-> "write", sample |-> CurrentUsage(t.c)]
<1>1. /\ stray' = (stray \ {t}) \cup {w}
      /\ UNCHANGED <<registered, usage, accum, counter, worker, used, metered, lives, restarted>>
    BY DEF StraySample, storeVars
<1>2. PICK c \in Containers : c = t.c
    BY DEF MeterInv, Typed, Samples
<1>3. Typed /\ Measured(c)
    BY DEF MeterInv
<1>4. /\ CurrentUsage(c) \in Nat /\ Scaled(CurrentUsage(c)) <= counter[c]
      /\ \A m \in Nat : Scaled(m) <= counter[c] => m <= CurrentUsage(c)
    BY <1>3, SampleFacts DEF Typed
<1>5. w \in Samples /\ w.c = c /\ w.sample = CurrentUsage(c)
    BY <1>2, <1>4 DEF Samples
<1>. HIDE DEF w
<1>6. Typed'
    BY <1>1, <1>3, <1>5 DEF Typed
<1>7. Ordered(c)'
    BY <1>1, <1>2, <1>3, <1>5 DEF Measured, Ordered
<1>8. Scaled(CurrentUsage(c)) <= used[c]
  <2>1. counter[c] <= used[c] /\ counter[c] \in Nat /\ used[c] \in Nat
      BY <1>3, TypedAt DEF Measured, NotMore
  <2>. QED  BY <1>4, <2>1, ScaledNat
<1>9. NotMore(c)'
    BY <1>1, <1>3, <1>5, <1>8 DEF Measured, NotMore
<1>10. NotLess(c)'
  <2>1. lives[c] <= 1 /\ c \notin restarted => metered[c] <= CurrentUsage(c)
      BY <1>3, <1>4, TypedAt DEF Measured, NotLess
  <2>. QED  BY <1>1, <1>3, <1>5, <2>1 DEF Measured, NotLess
<1>11. \A d \in Containers \ {c} : \A v \in stray' : v.c = d => v \in stray
    BY <1>1, <1>5
<1>. QED  BY <1>1, <1>6, <1>7, <1>9, <1>10, <1>11, MeterStep DEF Measured

\* A late tick of a container in its first life: its worker is stopped for good, so the
\* sample is no older than what was stored.
LEMMA StrayMeter == ASSUME MeterInv, NEW t \in stray, StrayPersist(t) PROVE MeterInv'
<1>1. /\ t.at = "write" /\ usage' = [usage EXCEPT ![t.c] = t.sample] /\ stray' = stray \ {t}
      /\ UNCHANGED <<registered, accum, counter, worker, used, metered, lives, restarted>>
    BY DEF StrayPersist
<1>2. PICK c \in Containers : c = t.c
    BY DEF MeterInv, Typed, Samples
<1>3. Typed /\ Measured(c)
    BY DEF MeterInv
<1>4. t.sample \in Nat /\ used[c] \in Nat
    BY <1>3, TypedAt
<1>5. Typed'
    BY <1>1, <1>2, <1>3, <1>4 DEF Typed, Counts
<1>6. usage'[c] = t.sample
    BY <1>1, <1>2, <1>3 DEF Typed, Counts
<1>7. Ordered(c)'
    BY <1>1, <1>3 DEF Measured, Ordered
<1>8. NotMore(c)'
    BY <1>1, <1>2, <1>3, <1>6 DEF Measured, NotMore
<1>9. NotLess(c)'
    BY <1>1, <1>2, <1>3, <1>6 DEF Measured, NotLess
<1>10. \A d \in Containers \ {c} : usage'[d] = usage[d] /\ \A v \in stray' : v.c = d => v \in stray
    BY <1>1, <1>2, <1>3 DEF Typed, Counts
<1>. QED  BY <1>1, <1>5, <1>7, <1>8, <1>9, <1>10, MeterStep DEF Measured

\* What moves to the accumulator was the row's, and the accumulator had nothing.
LEMMA RemoveMeter == ASSUME MeterInv, NEW c \in Containers, RemoveContainer(c) PROVE MeterInv'
<1>1. /\ c \in registered /\ worker[c] = Off /\ registered' = registered \ {c}
      /\ accum' = [accum EXCEPT ![c] = @ + usage[c]] /\ usage' = [usage EXCEPT ![c] = 0]
      /\ UNCHANGED <<counter, worker, stray, used, metered, lives, restarted>>
    BY DEF RemoveContainer
<1>2. Typed /\ Measured(c)
    BY DEF MeterInv
<1>3. accum[c] \in Nat /\ usage[c] \in Nat /\ used[c] \in Nat /\ Scaled(0) = 0 /\ lives[c] \in Nat
    BY <1>2, TypedAt, ScaledNat
<1>4. accum'[c] = accum[c] + usage[c] /\ usage'[c] = 0
    BY <1>1, <1>2 DEF Typed, Counts
<1>5. Typed'
    BY <1>1, <1>2, <1>3 DEF Typed, Counts
<1>6. lives[c] <= 1 => accum[c] = 0 /\ accum'[c] = usage[c] /\ lives[c] # 0
    BY <1>1, <1>2, <1>3, <1>4 DEF Measured, Ordered
<1>7. Ordered(c)'
    BY <1>1, <1>2, <1>6 DEF Measured, Ordered
<1>8. NotMore(c)'
    BY <1>1, <1>2, <1>3, <1>4, <1>6 DEF Measured, NotMore
<1>9. NotLess(c)'
    BY <1>1, <1>2, <1>6 DEF Measured, NotLess, Off
<1>. QED  BY <1>1, <1>2, <1>5, <1>7, <1>8, <1>9, MeterStep DEF Measured, Typed, Counts

LEMMA NextMeter == MeterInv /\ [Next]_vars => MeterInv'
<1>. SUFFICES ASSUME MeterInv, [Next]_vars PROVE MeterInv'
    OBVIOUS
<1>1. ASSUME NEW c \in Containers, Use(c) \/ DockerRestart(c) \/ Register(c) PROVE MeterInv'
    BY <1>1, UseMeter, RestartMeter, RegisterMeter
<1>2. ASSUME NEW c \in Containers,
             Tick(c) \/ Sample(c) \/ Persist(c) \/ Stop(c) \/ RemoveContainer(c)
      PROVE  MeterInv'
    BY <1>2, TickMeter, SampleMeter, PersistMeter, StopMeter, RemoveMeter
<1>3. ASSUME NEW c \in Containers, SetLimit(c) \/ AddUsage(c) PROVE MeterInv'
    BY <1>3, StillMeter DEF SetLimit, AddUsage, storeVars
<1>4. ASSUME NEW t \in stray, StraySample(t) \/ StrayPersist(t) PROVE MeterInv'
    BY <1>4, StraySampleMeter, StrayMeter
<1>5. ASSUME ListContainers \/ AddAccum \/ Reported PROVE MeterInv'
    BY <1>5, StillMeter DEF ListContainers, AddAccum, Reported, storeVars
<1>6. ASSUME UNCHANGED vars PROVE MeterInv'
    BY <1>6, StillMeter DEF vars, storeVars
<1>. QED  BY <1>1, <1>2, <1>3, <1>4, <1>5, <1>6 DEF Next

\* What a worker has stored of a container in its first life is in the total once: before
\* its removal, after it, and whatever a tick that was going on writes then.
THEOREM MeasuredCountedOnce == Spec => []CountedOnce
<1>1. Spec => []MeterInv
    BY InitMeter, NextMeter, PTL DEF Spec
<1>2. MeterInv => CountedOnce
  <2>. SUFFICES ASSUME MeterInv, NEW c \in Containers, c \notin Again
                PROVE  /\ Unit * Counted(c) <= used[c]
                       /\ c \notin restarted => metered[c] <= Counted(c)
      BY DEF CountedOnce
  <2>1. Measured(c) /\ Typed
      BY DEF MeterInv
  <2>2. accum[c] \in Nat /\ usage[c] \in Nat /\ metered[c] \in Nat /\ lives[c] \in Nat
      BY <2>1, TypedAt
  <2>3. lives[c] <= 1
      BY <2>2 DEF Again
  <2>4. Counted(c) = IF c \in registered THEN usage[c] ELSE accum[c]
      BY <2>1, <2>2, <2>3 DEF Counted, Measured, Ordered
  <2>5. Scaled(Counted(c)) <= used[c]
      BY <2>1, <2>3, <2>4 DEF Measured, NotMore
  <2>6. c \notin restarted => metered[c] <= Counted(c)
      BY <2>1, <2>3, <2>4 DEF Measured, NotLess
  <2>. QED  BY <2>5, <2>6 DEF Scaled
<1>. QED  BY <1>1, <1>2, PTL

-----------------------------------------------------------------------------
(* Reports. *)

\* Until Docker restarts a container or one comes again.
Ordinary == Again \cup restarted = {}

\* A container has at most one late tick, and neither it nor the worker is about to store
\* less than the row has; without a life there is no row.
Recent(c) ==
    /\ worker[c] # Off /\ c \in registered => usage[c] <= metered[c]
    /\ \A t \in stray :
          t.c = c => /\ t.at = "sample" => usage[c] <= metered[c]
                     /\ t.at = "write" => usage[c] <= t.sample
                     /\ \A u \in stray : u.c = c => u = t
    /\ lives[c] = 0 => usage[c] = 0

\* What a report that goes on is going to add, were nothing to happen meanwhile.
Pending ==
    IF report.at = "sum" THEN SumFunctionOnSet(usage, report.todo) + SumFunction(accum) ELSE 0

\* A report will have no less than the total it began with, and no more than the total of
\* now and what was moved meanwhile.
ReportInv == report.at # "none" => before <= report.sum + Pending /\ report.sum + Pending <= Total + gone

Stored == SumFunctionOnSet(usage, registered)
Moved == SumFunction(accum)
Reports == [at : {"none", "sum", "done"}, todo : SUBSET Containers, sum : Nat]

TypedReport ==
    /\ registered \subseteq Containers
    /\ report \in Reports /\ before \in Nat /\ gone \in Nat

SoundInv == MeterInv /\ TypedReport /\ (Ordinary => ReportInv /\ \A c \in Containers : Recent(c))

LEMMA SumsNat ==
    ASSUME Typed, TypedReport
    PROVE  /\ Stored \in Nat /\ Moved \in Nat /\ SumFunctionOnSet(usage, report.todo) \in Nat
           /\ Pending \in Nat /\ report.sum \in Nat /\ Total = Stored + Moved
<1>1. usage \in [Containers -> Nat] /\ accum \in [Containers -> Nat]
    BY DEF Typed, Counts
<1>2. report.todo \in SUBSET Containers /\ report.sum \in Nat /\ registered \in SUBSET Containers
    BY DEF TypedReport, Reports
<1>3. IsFiniteSet(report.todo) /\ IsFiniteSet(registered)
    BY <1>2, ContainersFinite, FS_Subset
<1>4. Stored \in Nat /\ SumFunctionOnSet(usage, report.todo) \in Nat
    BY <1>1, <1>2, <1>3, SumNat DEF Stored
<1>5. Moved \in Nat
    BY <1>1, ContainersFinite, SumWhole DEF Moved
<1>. QED  BY <1>2, <1>4, <1>5 DEF Pending, Total, Stored, Moved

\* What a new value of one row does to a sum of rows.
LEMMA RowChange ==
    ASSUME Typed, NEW S, S \subseteq Containers, NEW c \in Containers, NEW n \in Nat,
           usage' = [usage EXCEPT ![c] = n]
    PROVE  SumFunctionOnSet(usage', S)
               = IF c \in S THEN SumFunctionOnSet(usage, S) - usage[c] + n ELSE SumFunctionOnSet(usage, S)
<1>1. IsFiniteSet(S)
    BY ContainersFinite, FS_Subset
<1>2. /\ \A d \in S : usage[d] \in Nat /\ usage'[d] \in Nat
      /\ \A d \in S \ {c} : usage[d] = usage'[d]
      /\ usage'[c] = n
    BY DEF Typed, Counts
<1>. HIDE DEF Typed
<1>3. SumFunctionOnSet(usage', S)
          = IF c \in S THEN SumFunctionOnSet(usage, S) - usage[c] + usage'[c] ELSE SumFunctionOnSet(usage, S)
  <2>. DEFINE u == usage'
  <2>1. (\A d \in S : usage[d] \in Nat /\ u[d] \in Nat) /\ \A d \in S \ {c} : usage[d] = u[d]
      BY <1>2
  <2>. HIDE DEF u
  <2>2. SumFunctionOnSet(u, S)
            = IF c \in S THEN SumFunctionOnSet(usage, S) - usage[c] + u[c] ELSE SumFunctionOnSet(usage, S)
      BY <1>1, <2>1, SumOther
  <2>. QED  BY <2>2 DEF u
<1>. QED  BY <1>2, <1>3

\* What was said of no restart and no other life was so before.
LEMMA OrdinaryBefore ==
    ASSUME Typed, Typed', \A c \in Containers : lives[c] <= lives'[c], restarted \subseteq restarted', Ordinary'
    PROVE  Ordinary /\ \A c \in Containers : lives'[c] <= 1 /\ c \notin restarted'
<1>1. \A c \in Containers : lives[c] \in Nat /\ lives'[c] \in Nat
    BY DEF Typed, Counts
<1>. QED  BY <1>1 DEF Ordinary, Again

LEMMA StillRecent ==
    ASSUME NEW c \in Containers, Recent(c),
           /\ usage'[c] = usage[c] /\ metered'[c] = metered[c] /\ lives'[c] = lives[c]
           /\ worker'[c] = worker[c]
           /\ c \in registered' <=> c \in registered
           /\ \A t \in stray' : t.c = c => t \in stray
    PROVE  Recent(c)'
<1>. QED  BY DEF Recent

LEMMA StillReported ==
    ASSUME ReportInv, UNCHANGED <<registered, usage, accum, report, before, gone>>
    PROVE  ReportInv'
<1>. QED  BY DEF ReportInv, Pending, Total

LEMMA InitSound == Init => SoundInv
<1>. SUFFICES ASSUME Init PROVE SoundInv
    OBVIOUS
<1>1. TypedReport
    BY DEF Init, TypedReport, Reports, NoReport
<1>2. ReportInv
    BY DEF Init, ReportInv, NoReport
<1>3. \A c \in Containers : Recent(c)
    BY DEF Init, Recent
<1>. QED  BY <1>1, <1>2, <1>3, InitMeter DEF SoundInv

\* Steps that move nothing.
LEMMA QuietSound ==
    ASSUME SoundInv, MeterInv', NEW c \in Containers,
           Use(c) \/ DockerRestart(c) \/ SetLimit(c) \/ Tick(c) \/ Sample(c)
    PROVE  SoundInv'
<1>1. /\ UNCHANGED <<registered, usage, accum, stray, metered, lives, report, before, gone>>
      /\ restarted \subseteq restarted'
    BY DEF Use, DockerRestart, SetLimit, Tick, Sample, storeVars, reportVars
<1>2. \A d \in Containers : worker'[d] # Off => worker[d] # Off
  <2>1. CASE worker' = worker
      BY <2>1
  <2>2. CASE Tick(c)
      BY <2>2 DEF Tick, SoundInv, MeterInv, Typed, Off
  <2>3. CASE Sample(c)
      BY <2>3 DEF Sample, SoundInv, MeterInv, Typed, Off
  <2>. QED  BY <2>1, <2>2, <2>3 DEF Use, DockerRestart, SetLimit
<1>3. TypedReport'
    BY <1>1 DEF SoundInv, TypedReport
<1>4. ASSUME Ordinary' PROVE ReportInv' /\ \A d \in Containers : Recent(d)'
  <2>1. Ordinary
      BY <1>1, <1>4 DEF Ordinary, Again
  <2>2. ReportInv /\ \A d \in Containers : Recent(d)
      BY <2>1 DEF SoundInv
  <2>. QED  BY <1>1, <1>2, <2>2, StillReported DEF Recent
<1>. QED  BY <1>3, <1>4 DEF SoundInv

LEMMA UnchangedSound == ASSUME SoundInv, MeterInv', UNCHANGED vars PROVE SoundInv'
<1>1. /\ UNCHANGED <<registered, usage, accum, stray, metered, lives, worker, restarted>>
      /\ UNCHANGED <<report, before, gone>>
    BY DEF vars, storeVars, reportVars
<1>2. TypedReport'
    BY <1>1 DEF SoundInv, TypedReport
<1>3. ASSUME Ordinary' PROVE ReportInv' /\ \A d \in Containers : Recent(d)'
  <2>1. ReportInv /\ \A d \in Containers : Recent(d)
      BY <1>1, <1>3 DEF Ordinary, Again, SoundInv
  <2>. QED  BY <1>1, <2>1, StillReported DEF Recent
<1>. QED  BY <1>2, <1>3 DEF SoundInv

\* A container in its first life has no row that the total did not count.
LEMMA RegisterSound == ASSUME SoundInv, MeterInv', NEW c \in Containers, Register(c) PROVE SoundInv'
<1>1. /\ c \notin registered /\ registered' = registered \cup {c}
      /\ worker' = [worker EXCEPT ![c] = Waiting] /\ lives' = [lives EXCEPT ![c] = @ + 1]
      /\ UNCHANGED <<usage, accum, counter, stray, used, metered, restarted, report, before, gone>>
    BY DEF Register, reportVars
<1>2. Typed /\ Typed' /\ TypedReport /\ MeterInv
    BY DEF SoundInv, MeterInv
<1>3. TypedReport'
    BY <1>1, <1>2 DEF TypedReport
<1>4. \A d \in Containers : lives[d] <= lives'[d] /\ lives[d] \in Nat
    BY <1>1, <1>2 DEF Typed, Counts
<1>5. lives'[c] = lives[c] + 1 /\ \A d \in Containers \ {c} : lives'[d] = lives[d] /\ worker'[d] = worker[d]
    BY <1>1, <1>2 DEF Typed, Counts
<1>6. ASSUME Ordinary' PROVE ReportInv' /\ \A d \in Containers : Recent(d)'
  <2>1. Ordinary /\ \A d \in Containers : lives'[d] <= 1
      BY <1>1, <1>2, <1>4, <1>6, OrdinaryBefore
  <2>2. ReportInv /\ \A d \in Containers : Recent(d)
      BY <2>1 DEF SoundInv
  <2>3. lives[c] = 0
      BY <1>4, <1>5, <2>1
  <2>4. usage[c] = 0 /\ metered[c] = 0 /\ \A t \in stray : t.c # c
      BY <1>2, <2>2, <2>3 DEF MeterInv, Measured, Ordered, Recent
  <2>5. \A d \in Containers : Recent(d)'
      BY <1>1, <1>4, <1>5, <2>2, <2>4 DEF Recent
  <2>6. SumFunctionOnSet(usage, registered \cup {c}) = Stored + usage[c]
    <3>1. IsFiniteSet(registered) /\ \A d \in registered \cup {c} : usage[d] \in Nat
        BY <1>2, ContainersFinite, FS_Subset DEF Typed, Counts, TypedReport
    <3>. QED  BY <1>1, <3>1, SumAdd DEF Stored
  <2>7. Total' = Total /\ Pending' = Pending
      BY <1>1, <1>2, <2>4, <2>6, SumsNat DEF Total, Pending, Stored
  <2>. QED  BY <1>1, <2>2, <2>5, <2>7 DEF ReportInv
<1>. QED  BY <1>3, <1>6 DEF SoundInv

\* A sample is stored that is no less than the row: the total grows, and the report by no more.
LEMMA PersistSound == ASSUME SoundInv, MeterInv', NEW c \in Containers, Persist(c) PROVE SoundInv'
<1>1. /\ worker[c].at = "write" /\ usage' = [usage EXCEPT ![c] = worker[c].sample]
      /\ worker' = [worker EXCEPT ![c] = Waiting]
      /\ metered' = [metered EXCEPT ![c] = worker[c].sample]
      /\ UNCHANGED <<registered, accum, counter, stray, used, lives, restarted, report, before, gone>>
    BY DEF Persist, reportVars
<1>2. Typed /\ Typed' /\ TypedReport /\ MeterInv
    BY DEF SoundInv, MeterInv
<1>3. TypedReport'
    BY <1>1, <1>2 DEF TypedReport
<1>4. /\ usage'[c] = worker[c].sample /\ metered'[c] = worker[c].sample
      /\ \A d \in Containers \ {c} : usage'[d] = usage[d] /\ metered'[d] = metered[d] /\ worker'[d] = worker[d]
    BY <1>1, <1>2 DEF Typed, Counts
<1>5. worker[c].sample \in Nat /\ usage[c] \in Nat /\ metered[c] \in Nat /\ lives[c] \in Nat
    BY <1>2, TypedAt
<1>6. ASSUME Ordinary' PROVE ReportInv' /\ \A d \in Containers : Recent(d)'
  <2>1. Ordinary /\ \A d \in Containers : lives[d] <= 1 /\ d \notin restarted
      BY <1>1, <1>2, <1>6, OrdinaryBefore, TypedAt
  <2>2. ReportInv /\ \A d \in Containers : Recent(d)
      BY <2>1 DEF SoundInv
  <2>3. c \in registered /\ lives[c] # 0 /\ \A t \in stray : t.c # c
    <3>1. worker[c] # Off
        BY <1>1 DEF Off
    <3>. QED  BY <1>2, <2>1, <3>1 DEF MeterInv, Measured, Ordered
  <2>4. usage[c] <= worker[c].sample
    <3>1. usage[c] <= metered[c]
        BY <1>1, <2>2, <2>3 DEF Recent, Off
    <3>2. metered[c] <= worker[c].sample
        BY <1>1, <1>2, <2>1 DEF MeterInv, Measured, NotLess
    <3>. QED  BY <1>5, <3>1, <3>2
  <2>5. Recent(c)'
      BY <1>1, <1>4, <1>5, <2>3 DEF Recent
  <2>6. \A d \in Containers : Recent(d)'
      BY <1>1, <1>4, <2>2, <2>5, StillRecent
  <2>7. Total' = Total - usage[c] + worker[c].sample
    <3>1. SumFunctionOnSet(usage', registered) = Stored - usage[c] + worker[c].sample
        BY <1>1, <1>2, <1>5, <2>3, RowChange DEF Stored, TypedReport
    <3>. QED  BY <1>1, <1>2, <1>5, <3>1, SumsNat DEF Total, Stored, Moved
  <2>8. Pending <= Pending' /\ Pending' <= Pending - usage[c] + worker[c].sample /\ Pending' \in Nat
    <3>1. SumFunctionOnSet(usage', report.todo)
             = IF c \in report.todo THEN SumFunctionOnSet(usage, report.todo) - usage[c] + worker[c].sample
               ELSE SumFunctionOnSet(usage, report.todo)
        BY <1>1, <1>2, <1>5, RowChange DEF TypedReport, Reports
    <3>. QED  BY <1>1, <1>2, <1>5, <2>4, <3>1, SumsNat DEF Pending, Moved
  <2>9. Total \in Nat /\ Pending \in Nat /\ report.sum \in Nat /\ before \in Nat /\ gone \in Nat
      BY <1>2, SumsNat DEF TypedReport
  <2>. QED  BY <1>1, <1>5, <2>2, <2>4, <2>6, <2>7, <2>8, <2>9 DEF ReportInv
<1>. QED  BY <1>3, <1>6 DEF SoundInv

\* A worker that is stopped leaves a late tick, the only one, with a sample no less than the row.
LEMMA StopSound == ASSUME SoundInv, MeterInv', NEW c \in Containers, Stop(c) PROVE SoundInv'
<1>. DEFINE w == [c |-> c, at |-> worker[c].at, sample |-> worker[c].sample]
<1>1. /\ worker[c] # Off /\ worker' = [worker EXCEPT ![c] = Off]
      /\ stray' = (IF worker[c].at = "wait" THEN stray ELSE stray \cup {w})
      /\ UNCHANGED <<registered, usage, accum, metered, lives, restarted, report, before, gone>>
    BY DEF Stop, storeVars, reportVars
<1>2. Typed /\ Typed' /\ TypedReport /\ MeterInv
    BY DEF SoundInv, MeterInv
<1>3. TypedReport'
    BY <1>1, <1>2 DEF TypedReport
<1>4. w.c = c /\ w.sample = worker[c].sample /\ w.at = worker[c].at
    OBVIOUS
<1>. HIDE DEF w
<1>5. worker'[c] = Off /\ \A d \in Containers \ {c} : worker'[d] = worker[d]
    BY <1>1, <1>2 DEF Typed
<1>6. worker[c].sample \in Nat /\ usage[c] \in Nat /\ metered[c] \in Nat /\ lives[c] \in Nat
    BY <1>2, TypedAt
<1>7. ASSUME Ordinary' PROVE ReportInv' /\ \A d \in Containers : Recent(d)'
  <2>1. Ordinary /\ \A d \in Containers : lives[d] <= 1 /\ d \notin restarted
      BY <1>1, <1>2, <1>7, OrdinaryBefore, TypedAt
  <2>2. ReportInv /\ \A d \in Containers : Recent(d)
      BY <2>1 DEF SoundInv
  <2>3. c \in registered /\ lives[c] # 0 /\ \A t \in stray : t.c # c
      BY <1>1, <1>2, <2>1 DEF MeterInv, Measured, Ordered
  <2>4. usage[c] <= metered[c] /\ (worker[c].at = "write" => usage[c] <= worker[c].sample)
    <3>1. usage[c] <= metered[c]
        BY <1>1, <2>2, <2>3 DEF Recent
    <3>2. worker[c].at = "write" => metered[c] <= worker[c].sample
        BY <1>1, <1>2, <2>1 DEF MeterInv, Measured, NotLess
    <3>. QED  BY <1>6, <3>1, <3>2
  <2>5. Recent(c)'
      BY <1>1, <1>4, <1>5, <1>6, <2>3, <2>4 DEF Recent
  <2>6. \A d \in Containers : Recent(d)'
      BY <1>1, <1>4, <1>5, <2>2, <2>5, StillRecent
  <2>. QED  BY <1>1, <2>2, <2>6, StillReported
<1>. QED  BY <1>3, <1>7 DEF SoundInv

\* The sample of a late tick, too, is no less than the row.
LEMMA StraySampleSound == ASSUME SoundInv, MeterInv', NEW t \in stray, StraySample(t) PROVE SoundInv'
<1>. DEFINE w == [c |-> t.c, at |-> "write", sample |-> CurrentUsage(t.c)]
<1>1. /\ t.at = "sample" /\ stray' = (stray \ {t}) \cup {w}
      /\ UNCHANGED <<registered, usage, accum, worker, metered, lives, restarted, report, before, gone>>
    BY DEF StraySample, storeVars, reportVars
<1>2. Typed /\ Typed' /\ TypedReport /\ MeterInv
    BY DEF SoundInv, MeterInv
<1>3. PICK c \in Containers : c = t.c
    BY <1>2 DEF Typed, Samples
<1>4. CurrentUsage(c) \in Nat /\ \A m \in Nat : Scaled(m) <= counter[c] => m <= CurrentUsage(c)
    BY <1>2, SampleFacts DEF Typed
<1>5. w.c = c /\ w.sample = CurrentUsage(c) /\ w.at = "write"
    BY <1>3
<1>. HIDE DEF w
<1>6. TypedReport'
    BY <1>1, <1>2 DEF TypedReport
<1>7. usage[c] \in Nat /\ metered[c] \in Nat
    BY <1>2, TypedAt
<1>8. ASSUME Ordinary' PROVE ReportInv' /\ \A d \in Containers : Recent(d)'
  <2>1. Ordinary /\ \A d \in Containers : lives[d] <= 1 /\ d \notin restarted
      BY <1>1, <1>2, <1>8, OrdinaryBefore, TypedAt
  <2>2. ReportInv /\ \A d \in Containers : Recent(d)
      BY <2>1 DEF SoundInv
  <2>3. usage[c] <= CurrentUsage(c)
    <3>1. usage[c] <= metered[c]
        BY <1>1, <1>3, <2>2 DEF Recent
    <3>2. metered[c] <= CurrentUsage(c)
        BY <1>2, <1>4, <1>7, <2>1 DEF MeterInv, Measured, NotLess
    <3>. QED  BY <1>4, <1>7, <3>1, <3>2
  <2>4. Recent(c)'
      BY <1>1, <1>3, <1>5, <2>2, <2>3 DEF Recent
  <2>5. \A d \in Containers \ {c} : \A v \in stray' : v.c = d => v \in stray
      BY <1>1, <1>5
  <2>6. \A d \in Containers : Recent(d)'
      BY <1>1, <2>2, <2>4, <2>5, StillRecent
  <2>. QED  BY <1>1, <2>2, <2>6, StillReported
<1>. QED  BY <1>6, <1>8 DEF SoundInv

\* A late tick goes into a row that the total counts, or into one that nobody does: then the
\* report may have it.
LEMMA StraySound == ASSUME SoundInv, MeterInv', NEW t \in stray, StrayPersist(t) PROVE SoundInv'
<1>1. /\ t.at = "write" /\ usage' = [usage EXCEPT ![t.c] = t.sample] /\ stray' = stray \ {t}
      /\ gone' = IF report = NoReport \/ t.c \in registered THEN gone ELSE gone + t.sample
      /\ UNCHANGED <<registered, accum, worker, metered, lives, restarted, report, before>>
    BY DEF StrayPersist
<1>2. Typed /\ Typed' /\ TypedReport /\ MeterInv
    BY DEF SoundInv, MeterInv
<1>3. PICK c \in Containers : c = t.c
    BY <1>2 DEF Typed, Samples
<1>4. t.sample \in Nat /\ usage[c] \in Nat /\ lives[c] \in Nat /\ gone \in Nat
    BY <1>2, TypedAt DEF TypedReport
<1>5. TypedReport'
    BY <1>1, <1>2, <1>4 DEF TypedReport
<1>6. usage' = [usage EXCEPT ![c] = t.sample]
    BY <1>1, <1>3
<1>7. usage'[c] = t.sample /\ \A d \in Containers \ {c} : usage'[d] = usage[d]
    BY <1>2, <1>6 DEF Typed, Counts
<1>8. ASSUME Ordinary' PROVE ReportInv' /\ \A d \in Containers : Recent(d)'
  <2>1. Ordinary /\ \A d \in Containers : lives[d] <= 1 /\ d \notin restarted
      BY <1>1, <1>2, <1>8, OrdinaryBefore, TypedAt
  <2>2. ReportInv /\ \A d \in Containers : Recent(d)
      BY <2>1 DEF SoundInv
  <2>3. /\ usage[c] <= t.sample /\ \A u \in stray : u.c = c => u = t
        /\ worker[c] = Off /\ lives[c] # 0
      BY <1>1, <1>2, <1>3, <2>1, <2>2 DEF Recent, MeterInv, Measured, Ordered
  <2>4. Recent(c)'
      BY <1>1, <2>3 DEF Recent
  <2>5. \A d \in Containers : Recent(d)'
      BY <1>1, <1>7, <2>2, <2>4, StillRecent
  <2>6. Total' = IF c \in registered THEN Total - usage[c] + t.sample ELSE Total
    <3>1. SumFunctionOnSet(usage', registered)
              = IF c \in registered THEN Stored - usage[c] + t.sample ELSE Stored
        BY <1>2, <1>4, <1>6, RowChange DEF Stored, TypedReport
    <3>. QED  BY <1>1, <1>2, <1>4, <3>1, SumsNat DEF Total, Stored, Moved
  <2>7. Pending <= Pending' /\ Pending' <= Pending - usage[c] + t.sample /\ Pending' \in Nat
    <3>1. SumFunctionOnSet(usage', report.todo)
             = IF c \in report.todo THEN SumFunctionOnSet(usage, report.todo) - usage[c] + t.sample
               ELSE SumFunctionOnSet(usage, report.todo)
        BY <1>2, <1>4, <1>6, RowChange DEF TypedReport, Reports
    <3>. QED  BY <1>1, <1>2, <1>4, <2>3, <3>1, SumsNat DEF Pending, Moved
  <2>8. Total \in Nat /\ Pending \in Nat /\ report.sum \in Nat /\ before \in Nat
      BY <1>2, SumsNat DEF TypedReport
  <2>9. report.at # "none" => gone' = IF c \in registered THEN gone ELSE gone + t.sample
      BY <1>1, <1>3 DEF NoReport
  <2>10. ReportInv'
      BY <1>1, <1>4, <2>2, <2>3, <2>6, <2>7, <2>8, <2>9 DEF ReportInv
  <2>. QED  BY <2>5, <2>10
<1>. QED  BY <1>5, <1>8 DEF SoundInv

\* What is moved from the row to the accumulator stays in the total; the report has it once
\* more if it had the row already.
LEMMA RemoveSound == ASSUME SoundInv, MeterInv', NEW c \in Containers, RemoveContainer(c) PROVE SoundInv'
<1>1. /\ c \in registered /\ worker[c] = Off /\ registered' = registered \ {c}
      /\ accum' = [accum EXCEPT ![c] = @ + usage[c]] /\ usage' = [usage EXCEPT ![c] = 0]
      /\ gone' = IF report = NoReport THEN gone ELSE gone + usage[c]
      /\ UNCHANGED <<worker, stray, metered, lives, restarted, report, before>>
    BY DEF RemoveContainer
<1>2. Typed /\ Typed' /\ TypedReport /\ MeterInv
    BY DEF SoundInv, MeterInv
<1>3. usage[c] \in Nat /\ accum[c] \in Nat /\ lives[c] \in Nat /\ gone \in Nat
    BY <1>2, TypedAt DEF TypedReport
<1>4. TypedReport'
    BY <1>1, <1>2, <1>3 DEF TypedReport
<1>5. usage'[c] = 0 /\ \A d \in Containers \ {c} : usage'[d] = usage[d]
    BY <1>1, <1>2 DEF Typed, Counts
<1>6. Moved' = Moved + usage[c] /\ Moved \in Nat
  <2>1. /\ accum \in [Containers -> Nat] /\ accum' \in [Containers -> Nat]
        /\ accum'[c] = accum[c] + usage[c] /\ \A d \in Containers \ {c} : accum[d] = accum'[d]
      BY <1>1, <1>2 DEF Typed, Counts
  <2>. DEFINE a == accum'
  <2>2. a \in [Containers -> Nat] /\ \A d \in Containers \ {c} : accum[d] = a[d]
      BY <2>1
  <2>. HIDE DEF a
  <2>3. SumFunction(a) = SumFunction(accum) - accum[c] + a[c]
      BY <2>1, <2>2, ContainersFinite, SumWholeOther
  <2>4. Moved \in Nat
      BY <1>2, SumsNat
  <2>. QED  BY <1>3, <2>1, <2>3, <2>4 DEF a, Moved
<1>7. ASSUME Ordinary' PROVE ReportInv' /\ \A d \in Containers : Recent(d)'
  <2>1. Ordinary /\ \A d \in Containers : lives[d] <= 1 /\ d \notin restarted
      BY <1>1, <1>2, <1>7, OrdinaryBefore, TypedAt
  <2>2. ReportInv /\ \A d \in Containers : Recent(d)
      BY <2>1 DEF SoundInv
  <2>3. Recent(c)'
    <3>1. metered[c] \in Nat /\ \A t \in stray : t.sample \in Nat
        BY <1>2, TypedAt
    <3>. QED  BY <1>1, <1>5, <2>2, <3>1 DEF Recent
  <2>4. \A d \in Containers : Recent(d)'
      BY <1>1, <1>5, <2>2, <2>3, StillRecent
  <2>5. Total' = Total
    <3>1. IsFiniteSet(registered) /\ \A d \in registered : usage[d] \in Nat
        BY <1>2, ContainersFinite, FS_Subset DEF Typed, Counts, TypedReport
    <3>2. Stored = usage[c] + SumFunctionOnSet(usage, registered \ {c})
        BY <1>1, <3>1, SumTake DEF Stored
    <3>3. SumFunctionOnSet(usage', registered \ {c}) = SumFunctionOnSet(usage, registered \ {c})
        BY <1>1, <1>2, RowChange DEF TypedReport
    <3>4. Stored \in Nat /\ SumFunctionOnSet(usage, registered \ {c}) \in Nat
      <4>1. IsFiniteSet(registered \ {c}) /\ \A d \in registered \ {c} : usage[d] \in Nat
          BY <3>1, FS_RemoveElement
      <4>. QED  BY <1>2, <4>1, SumNat, SumsNat
    <3>. QED  BY <1>1, <1>3, <1>6, <3>2, <3>3, <3>4 DEF Total, Stored, Moved
  <2>6. Pending <= Pending' /\ Pending' <= Pending + usage[c] /\ Pending' \in Nat
    <3>1. SumFunctionOnSet(usage', report.todo)
             = IF c \in report.todo THEN SumFunctionOnSet(usage, report.todo) - usage[c] + 0
               ELSE SumFunctionOnSet(usage, report.todo)
        BY <1>1, <1>2, RowChange DEF TypedReport, Reports
    <3>2. SumFunctionOnSet(usage', report.todo) \in Nat
      <4>. DEFINE u == usage'
      <4>1. IsFiniteSet(report.todo) /\ \A d \in report.todo : u[d] \in Nat
          BY <1>2, ContainersFinite, FS_Subset DEF Typed, Counts, TypedReport, Reports
      <4>. HIDE DEF u
      <4>2. SumFunctionOnSet(u, report.todo) \in Nat
          BY <4>1, SumNat
      <4>. QED  BY <4>2 DEF u
    <3>. QED  BY <1>1, <1>2, <1>3, <1>6, <3>1, <3>2, SumsNat DEF Pending, Moved
  <2>7. Total \in Nat /\ Pending \in Nat /\ report.sum \in Nat /\ before \in Nat
      BY <1>2, SumsNat DEF TypedReport
  <2>8. report.at # "none" => gone' = gone + usage[c]
      BY <1>1 DEF NoReport
  <2>9. ReportInv'
      BY <1>1, <1>3, <2>2, <2>5, <2>6, <2>7, <2>8 DEF ReportInv
  <2>. QED  BY <2>4, <2>9
<1>. QED  BY <1>4, <1>7 DEF SoundInv

\* A report begins with the rows there are, and takes one after the other.
LEMMA ListSound == ASSUME SoundInv, MeterInv', ListContainers PROVE SoundInv'
<1>1. /\ report = NoReport /\ report' = [at |-> "sum", todo |-> registered, sum |-> 0]
      /\ before' = Total /\ gone' = 0
      /\ UNCHANGED <<registered, usage, accum, stray, worker, metered, lives, restarted>>
    BY DEF ListContainers, storeVars
<1>2. Typed /\ TypedReport
    BY DEF SoundInv, MeterInv
<1>3. Stored \in Nat /\ Moved \in Nat /\ Total = Stored + Moved
    BY <1>2, SumsNat
<1>4. TypedReport'
    BY <1>1, <1>2, <1>3 DEF TypedReport, Reports
<1>5. Pending' = Total /\ Total' = Total
    BY <1>1 DEF Pending, Total
<1>6. ReportInv'
    BY <1>1, <1>3, <1>5 DEF ReportInv
<1>7. ASSUME Ordinary' PROVE \A d \in Containers : Recent(d)'
  <2>1. \A d \in Containers : Recent(d)
      BY <1>1, <1>7 DEF Ordinary, Again, SoundInv
  <2>. QED  BY <1>1, <2>1 DEF Recent
<1>. QED  BY <1>4, <1>6, <1>7 DEF SoundInv

LEMMA AddUsageSound == ASSUME SoundInv, MeterInv', NEW c \in Containers, AddUsage(c) PROVE SoundInv'
<1>1. /\ report.at = "sum" /\ c \in report.todo
      /\ report' = [report EXCEPT !.sum = @ + usage[c], !.todo = @ \ {c}]
      /\ UNCHANGED <<registered, usage, accum, stray, worker, metered, lives, restarted, before, gone>>
    BY DEF AddUsage, storeVars
<1>2. Typed /\ TypedReport
    BY DEF SoundInv, MeterInv
<1>3. /\ report'.at = "sum" /\ report'.sum = report.sum + usage[c] /\ report'.todo = report.todo \ {c}
      /\ usage[c] \in Nat
    BY <1>1, <1>2, TypedAt DEF TypedReport, Reports
<1>4. TypedReport'
  <2>1. report' = [at |-> "sum", todo |-> report.todo \ {c}, sum |-> report.sum + usage[c]]
      BY <1>1, <1>2 DEF TypedReport, Reports
  <2>2. report' \in Reports
      BY <1>2, <1>3, <2>1 DEF TypedReport, Reports
  <2>. QED  BY <1>1, <1>2, <2>2 DEF TypedReport
<1>5. report'.sum + Pending' = report.sum + Pending
  <2>1. IsFiniteSet(report.todo) /\ \A d \in report.todo : usage[d] \in Nat
      BY <1>2, ContainersFinite, FS_Subset DEF Typed, Counts, TypedReport, Reports
  <2>2. SumFunctionOnSet(usage, report.todo) = usage[c] + SumFunctionOnSet(usage, report.todo \ {c})
      BY <1>1, <2>1, SumTake
  <2>3. SumFunctionOnSet(usage, report.todo \ {c}) \in Nat
    <3>1. IsFiniteSet(report.todo \ {c}) /\ \A d \in report.todo \ {c} : usage[d] \in Nat
        BY <2>1, FS_RemoveElement
    <3>. QED  BY <3>1, SumNat
  <2>. QED  BY <1>1, <1>2, <1>3, <2>2, <2>3, SumsNat DEF Pending, Moved
<1>6. ASSUME Ordinary' PROVE ReportInv' /\ \A d \in Containers : Recent(d)'
  <2>1. ReportInv /\ \A d \in Containers : Recent(d)
      BY <1>1, <1>6 DEF Ordinary, Again, SoundInv
  <2>2. Total' = Total
      BY <1>1 DEF Total
  <2>3. ReportInv'
      BY <1>1, <1>3, <1>5, <2>1, <2>2 DEF ReportInv
  <2>. QED  BY <1>1, <2>1, <2>3 DEF Recent
<1>. QED  BY <1>4, <1>6 DEF SoundInv

LEMMA AddAccumSound == ASSUME SoundInv, MeterInv', AddAccum PROVE SoundInv'
<1>1. /\ report.at = "sum" /\ report.todo = {}
      /\ report' = [report EXCEPT !.sum = @ + Moved, !.at = "done"]
      /\ UNCHANGED <<registered, usage, accum, stray, worker, metered, lives, restarted, before, gone>>
    BY DEF AddAccum, storeVars, Moved
<1>2. Typed /\ TypedReport
    BY DEF SoundInv, MeterInv
<1>3. /\ report'.at = "done" /\ report'.sum = report.sum + Moved /\ report'.todo = {}
      /\ Moved \in Nat /\ report.sum \in Nat
    BY <1>1, <1>2, SumsNat DEF TypedReport, Reports
<1>4. TypedReport'
  <2>1. report' = [at |-> "done", todo |-> {}, sum |-> report.sum + Moved]
      BY <1>1, <1>2 DEF TypedReport, Reports
  <2>2. report' \in Reports
      BY <1>3, <2>1 DEF Reports
  <2>. QED  BY <1>1, <1>2, <2>2 DEF TypedReport
<1>5. Pending = Moved /\ Pending' = 0
    BY <1>1, <1>3, SumEmpty DEF Pending, Moved
<1>6. ASSUME Ordinary' PROVE ReportInv' /\ \A d \in Containers : Recent(d)'
  <2>1. ReportInv /\ \A d \in Containers : Recent(d)
      BY <1>1, <1>6 DEF Ordinary, Again, SoundInv
  <2>2. Total' = Total
      BY <1>1 DEF Total
  <2>3. ReportInv'
      BY <1>1, <1>3, <1>5, <2>1, <2>2 DEF ReportInv
  <2>. QED  BY <1>1, <2>1, <2>3 DEF Recent
<1>. QED  BY <1>4, <1>6 DEF SoundInv

LEMMA ReportedSound == ASSUME SoundInv, MeterInv', Reported PROVE SoundInv'
<1>1. /\ report' = NoReport /\ before' = 0 /\ gone' = 0
      /\ UNCHANGED <<registered, usage, accum, stray, worker, metered, lives, restarted>>
    BY DEF Reported, storeVars
<1>2. TypedReport' /\ ReportInv'
    BY <1>1 DEF SoundInv, TypedReport, Reports, NoReport, ReportInv
<1>3. ASSUME Ordinary' PROVE \A d \in Containers : Recent(d)'
    BY <1>1, <1>3 DEF Ordinary, Again, SoundInv, Recent
<1>. QED  BY <1>2, <1>3 DEF SoundInv

LEMMA NextSound == SoundInv /\ [Next]_vars => SoundInv'
<1>. SUFFICES ASSUME SoundInv, [Next]_vars PROVE SoundInv'
    OBVIOUS
<1>1. MeterInv'
    BY NextMeter DEF SoundInv
<1>2. ASSUME NEW c \in Containers,
             Use(c) \/ DockerRestart(c) \/ SetLimit(c) \/ Tick(c) \/ Sample(c)
      PROVE  SoundInv'
    BY <1>1, <1>2, QuietSound
<1>3. ASSUME NEW c \in Containers, Register(c) \/ Persist(c) \/ Stop(c) PROVE SoundInv'
    BY <1>1, <1>3, RegisterSound, PersistSound, StopSound
<1>4. ASSUME NEW c \in Containers, RemoveContainer(c) \/ AddUsage(c) PROVE SoundInv'
    BY <1>1, <1>4, RemoveSound, AddUsageSound
<1>5. ASSUME NEW t \in stray, StraySample(t) \/ StrayPersist(t) PROVE SoundInv'
    BY <1>1, <1>5, StraySampleSound, StraySound
<1>6. ASSUME ListContainers \/ AddAccum \/ Reported PROVE SoundInv'
    BY <1>1, <1>6, ListSound, AddAccumSound, ReportedSound
<1>7. ASSUME UNCHANGED vars PROVE SoundInv'
    BY <1>1, <1>7, UnchangedSound
<1>. QED  BY <1>2, <1>3, <1>4, <1>5, <1>6, <1>7 DEF Next

\* A total that is added up with one call of the store after the other is never less than the
\* total was when the adding began, and more than the total is at its end by no more than what
\* was moved to the accumulator, or written late, meanwhile: whatever the workers, the removals
\* and the registrations do between its calls.
THEOREM ReportsAreSound == Spec => []ReportSound
<1>1. Spec => []SoundInv
    BY InitSound, NextSound, PTL DEF Spec
<1>2. SoundInv => ReportSound
  <2>. SUFFICES ASSUME SoundInv, report.at = "done", Ordinary
                PROVE  before <= report.sum /\ report.sum <= Total + gone
      BY DEF ReportSound, Ordinary
  <2>1. Pending = 0 /\ report.sum \in Nat
      BY SumsNat DEF Pending, SoundInv, MeterInv
  <2>. QED  BY <2>1 DEF SoundInv, ReportInv
<1>. QED  BY <1>1, <1>2, PTL
=============================================================================
