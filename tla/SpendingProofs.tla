---------------------------- MODULE SpendingProofs ----------------------------
(***************************************************************************)
(* Nobody pays for more than was used, for any containers, calls, costs,    *)
(* limits and worlds.  Every place that holds a total of a container - the   *)
(* proxy's count, the row, a worker's or a late tick's copy, a call's total  *)
(* on its way to the store, a registration's reading - holds at most what    *)
(* was charged, so no order of writing them can raise one above it.          *)
(***************************************************************************)
EXTENDS Spending, SumLemmas

LEMMA SpendingFacts ==
    /\ Unit \in Nat \ {0}
    /\ Costs \subseteq Nat /\ OllamaCosts \subseteq Nat /\ Budgets \subseteq Nat
<1>. QED  BY SpendingAssumption DEF SpendingAssumption

LEMMA FiniteFacts ==
    IsFiniteSet(Containers) /\ IsFiniteSet(Calls) /\ IsFiniteSet(Costs) /\ IsFiniteSet(OllamaCosts)
<1>. QED  BY SpendingAssumption DEF SpendingAssumption

LEMMA ScopeFacts ==
    /\ ScopeLimit \in [Scopes -> Nat] /\ Host \in Scopes /\ Segments \subseteq Scopes
    /\ Host \notin Segments /\ None \notin Scopes /\ None \notin Segments /\ None # Host
<1>. QED  BY SpendingAssumption DEF SpendingAssumption, Scopes

-----------------------------------------------------------------------------
(* Micro-cents and milli-cents. *)

LEMMA DivBounds ==
    ASSUME NEW n \in Nat, NEW u \in Nat \ {0}
    PROVE  n \div u \in Nat /\ (n \div u) * u <= n
<1>. QED  OBVIOUS

LEMMA MicroNat ==
    ASSUME NEW m \in Nat
    PROVE  Micro(m) \in Nat /\ Micro(0) = 0
<1>. QED  BY SpendingFacts DEF Micro

\* What is rounded down to milli-cents and back is no more than it was.
LEMMA RoundedDown ==
    ASSUME NEW n \in Nat
    PROVE  Milli(n) \in Nat /\ Micro(Milli(n)) <= n
<1>. QED  BY DivBounds, SpendingFacts DEF Micro, Milli

-----------------------------------------------------------------------------
(* The places that hold totals. *)

CallRecords == [at : {"none", "checked", "upstream", "ollama", "persist"},
                c : Containers \cup {None}, total : Nat]
WorkerRecords == [at : {"none", "idle", "write"}, value : Nat]
StrayRecords == [c : Containers, at : {"begun", "write"}, value : Nat]
SetupRecords == [at : {"none", "stored", "read"}, budget : Nat, spent : Nat]

Paid(c, milli) == Micro(milli) <= charged[c]

CountOK ==
    /\ spending \in [Containers -> Nat] /\ charged \in [Containers -> Nat]
    /\ \A c \in Containers : spending[c] <= charged[c]
RowOK ==
    /\ usage \in [Containers -> Nat] /\ limit \in [Containers -> Nat]
    /\ \A c \in Containers : Paid(c, usage[c])
WorkerOK ==
    /\ worker \in [Containers -> WorkerRecords]
    /\ \A c \in Containers : Paid(c, worker[c].value)
StrayOK ==
    /\ stray \subseteq StrayRecords
    /\ \A t \in stray : Paid(t.c, t.value)
SetupOK ==
    /\ setup \in [Containers -> SetupRecords]
    /\ \A c \in Containers : Paid(c, setup[c].spent)
CallOK ==
    /\ call \in [Calls -> CallRecords]
    /\ \A k \in Calls : call[k].at # "none" => call[k].c \in Containers
    /\ \A k \in Calls : call[k].at = "persist" => Paid(call[k].c, call[k].total)

Billed == CountOK /\ RowOK /\ WorkerOK /\ StrayOK /\ SetupOK /\ CallOK

LEMMA StillCount == ASSUME CountOK, UNCHANGED <<spending, charged>> PROVE CountOK'
<1>. QED  BY DEF CountOK
LEMMA StillRow == ASSUME RowOK, UNCHANGED <<usage, limit, charged>> PROVE RowOK'
<1>. QED  BY DEF RowOK, Paid
LEMMA StillWorker == ASSUME WorkerOK, UNCHANGED <<worker, charged>> PROVE WorkerOK'
<1>. QED  BY DEF WorkerOK, Paid
LEMMA StillStray == ASSUME StrayOK, UNCHANGED <<stray, charged>> PROVE StrayOK'
<1>. QED  BY DEF StrayOK, Paid
LEMMA StillSetup == ASSUME SetupOK, UNCHANGED <<setup, charged>> PROVE SetupOK'
<1>. QED  BY DEF SetupOK, Paid
LEMMA StillCall == ASSUME CallOK, UNCHANGED <<call, charged>> PROVE CallOK'
<1>. QED  BY DEF CallOK, Paid

LEMMA PaidNothing ==
    ASSUME CountOK, NEW c \in Containers
    PROVE  Paid(c, 0)
<1>. QED  BY MicroNat DEF Paid, CountOK

\* What the proxy counts, in milli-cents.
LEMMA PaidCount ==
    ASSUME CountOK, NEW c \in Containers
    PROVE  Milli(spending[c]) \in Nat /\ Paid(c, Milli(spending[c]))
<1>1. spending[c] \in Nat /\ charged[c] \in Nat /\ spending[c] <= charged[c]
    BY DEF CountOK
<1>2. Milli(spending[c]) \in Nat /\ Micro(Milli(spending[c])) <= spending[c]
    BY <1>1, RoundedDown
<1>3. Micro(Milli(spending[c])) \in Nat
    BY <1>2, MicroNat
<1>. QED  BY <1>1, <1>2, <1>3 DEF Paid

-----------------------------------------------------------------------------
(* The steps. *)

LEMMA InitBilled == Init => Billed
<1>. SUFFICES ASSUME Init PROVE Billed
    OBVIOUS
<1>1. CountOK
    BY DEF Init, CountOK
<1>2. RowOK
    BY <1>1, PaidNothing DEF Init, RowOK
<1>3. WorkerOK
    BY <1>1, PaidNothing DEF Init, WorkerOK, WorkerRecords, Nothing
<1>4. StrayOK
    BY DEF Init, StrayOK
<1>5. SetupOK
    BY <1>1, PaidNothing DEF Init, SetupOK, SetupRecords
<1>6. CallOK
    BY DEF Init, CallOK, CallRecords, NoCall
<1>. QED  BY <1>1, <1>2, <1>3, <1>4, <1>5, <1>6 DEF Billed

LEMMA CallIn ==
    ASSUME CallOK, NEW k \in Calls
    PROVE  /\ call[k] \in CallRecords /\ NoCall \in CallRecords /\ NoCall.at = "none"
           /\ call[k].total \in Nat
<1>. QED  BY DEF CallOK, CallRecords, NoCall

\* A call moves on without a total.
LEMMA CallMoves ==
    ASSUME CallOK, NEW k \in Calls, NEW r \in CallRecords, r.at # "persist",
           r.at # "none" => r.c \in Containers,
           call' = [call EXCEPT ![k] = r], charged' = charged
    PROVE  CallOK'
<1>. QED  BY DEF CallOK, Paid

\* Where only the calls, and what they were admitted under, change.
LEMMA CallOnly ==
    ASSUME Billed, CallOK',
           UNCHANGED <<spending, charged, usage, limit, worker, stray, setup>>
    PROVE  Billed'
<1>. QED  BY StillCount, StillRow, StillWorker, StillStray, StillSetup DEF Billed

LEMMA CheckBilled ==
    ASSUME Billed, NEW k \in Calls, NEW c \in Containers, CheckBudget(k, c) \/ CheckOllama(k, c)
    PROVE  Billed'
<1>1. PICK label \in {"checked", "ollama"} :
          call' = [call EXCEPT ![k] = [NoCall EXCEPT !.at = label, !.c = c]]
    BY DEF CheckBudget, CheckOllama
<1>. DEFINE r == [NoCall EXCEPT !.at = label, !.c = c]
<1>2. r \in CallRecords /\ r.at = label /\ r.c = c
    BY DEF CallRecords, NoCall
<1>3. call' = [call EXCEPT ![k] = r] /\ r.at # "persist"
    BY <1>1, <1>2
<1>. HIDE DEF r
<1>4. UNCHANGED <<spending, charged, usage, limit, worker, stray, setup>>
    BY DEF CheckBudget, CheckOllama, proxyVars, storeVars
<1>5. CallOK'
    BY <1>2, <1>3, <1>4, CallMoves DEF Billed
<1>. QED  BY <1>4, <1>5, CallOnly

LEMMA PassBilled ==
    ASSUME Billed, NEW k \in Calls, CheckScopes(k) \/ Free(k)
    PROVE  Billed'
<1>. DEFINE r == [call[k] EXCEPT !.at = "upstream"]
<1>1. /\ call[k].at # "none"
      /\ call' = [call EXCEPT ![k] = NoCall] \/ call' = [call EXCEPT ![k].at = "upstream"]
      /\ UNCHANGED <<spending, charged, usage, limit, worker, stray, setup>>
    BY DEF CheckScopes, Free, NoLongerCalling, CallAt, proxyVars, storeVars, auxVars
<1>2. call[k] \in CallRecords /\ call[k].c \in Containers /\ NoCall \in CallRecords /\ NoCall.at = "none"
      /\ call \in [Calls -> CallRecords]
    BY <1>1, CallIn DEF Billed, CallOK
<1>3. r \in CallRecords /\ r.at = "upstream" /\ r.c = call[k].c
    BY <1>2 DEF CallRecords
<1>4. call' = [call EXCEPT ![k] = NoCall] \/ call' = [call EXCEPT ![k] = r]
    BY <1>1, <1>2
<1>. HIDE DEF r
<1>5. CallOK'
    BY <1>1, <1>2, <1>3, <1>4, CallMoves DEF Billed
<1>. QED  BY <1>1, <1>5, CallOnly

\* A charge raises what was charged by what it raises the count by, and so all else stays
\* below; the total that goes to the store is the count, rounded down.
LEMMA ChargeBilled ==
    ASSUME Billed, NEW k \in Calls, NEW micro \in Nat, call[k].at # "none", Charge(k, micro),
           UNCHANGED <<usage, limit, worker, stray, setup>>
    PROVE  Billed'
<1>. DEFINE c == call[k].c
            total == Milli(spending[c] + micro)
            r == [at |-> "persist", c |-> c, total |-> total]
<1>1. c \in Containers
    BY DEF Billed, CallOK
<1>2. /\ spending' = [spending EXCEPT ![c] = @ + micro]
      /\ charged' = [charged EXCEPT ![c] = @ + micro]
      /\ call' = [call EXCEPT ![k] = r]
    BY DEF Charge
<1>. HIDE DEF c
<1>3. spending[c] \in Nat /\ charged[c] \in Nat /\ spending[c] <= charged[c]
      /\ spending \in [Containers -> Nat] /\ charged \in [Containers -> Nat]
    BY <1>1 DEF Billed, CountOK
<1>4. spending[c] + micro \in Nat /\ spending[c] + micro <= charged[c] + micro
    BY <1>3
<1>5. total \in Nat /\ Micro(total) <= spending[c] + micro /\ Micro(total) \in Nat
    BY <1>4, RoundedDown, MicroNat
<1>6. CountOK'
    BY <1>1, <1>2, <1>3, <1>4 DEF Billed, CountOK
<1>7. \A d \in Containers : charged'[d] \in Nat /\ charged[d] \in Nat /\ charged[d] <= charged'[d]
    BY <1>1, <1>2, <1>3
<1>8. ASSUME NEW d \in Containers, NEW m \in Nat, Paid(d, m)
      PROVE  Micro(m) <= charged'[d]
    BY <1>7, <1>8, MicroNat DEF Paid
<1>9. RowOK'
    BY <1>8 DEF Billed, RowOK, Paid
<1>10. WorkerOK'
  <2>1. \A d \in Containers : worker[d].value \in Nat
      BY DEF Billed, WorkerOK, WorkerRecords
  <2>. QED  BY <1>8, <2>1 DEF Billed, WorkerOK, Paid
<1>11. StrayOK'
  <2>1. \A t \in stray : t.c \in Containers /\ t.value \in Nat
      BY DEF Billed, StrayOK, StrayRecords
  <2>. QED  BY <1>8, <2>1 DEF Billed, StrayOK, Paid
<1>12. SetupOK'
  <2>1. \A d \in Containers : setup[d].spent \in Nat
      BY DEF Billed, SetupOK, SetupRecords
  <2>. QED  BY <1>8, <2>1 DEF Billed, SetupOK, Paid
<1>. HIDE DEF total
<1>13. r \in CallRecords /\ r.at = "persist" /\ r.c = c /\ r.total = total
    BY <1>1, <1>5 DEF CallRecords
<1>. HIDE DEF r
<1>14. charged'[c] = charged[c] + micro
    BY <1>1, <1>2, <1>3
<1>15. Micro(total) <= charged'[c]
    BY <1>3, <1>4, <1>5, <1>14
<1>16. CallOK'
  <2>1. call' \in [Calls -> CallRecords]
      BY <1>2, <1>13 DEF Billed, CallOK
  <2>2. ASSUME NEW j \in Calls PROVE call'[j].at # "none" => call'[j].c \in Containers
      BY <1>1, <1>2, <1>13 DEF Billed, CallOK
  <2>3. ASSUME NEW j \in Calls, call'[j].at = "persist" PROVE Micro(call'[j].total) <= charged'[call'[j].c]
    <3>1. CASE j = k
        BY <1>2, <1>13, <1>15, <3>1 DEF Billed, CallOK
    <3>2. CASE j # k
      <4>1. call'[j] = call[j] /\ call[j].c \in Containers /\ Paid(call[j].c, call[j].total) /\ call[j].total \in Nat
          BY <1>2, <2>3, <3>2, CallIn DEF Billed, CallOK
      <4>. QED  BY <1>8, <4>1
    <3>. QED  BY <3>1, <3>2
  <2>. QED  BY <2>1, <2>2, <2>3 DEF CallOK, Paid
<1>. QED  BY <1>6, <1>9, <1>10, <1>11, <1>12, <1>16 DEF Billed

LEMMA PersistBilled ==
    ASSUME Billed, NEW k \in Calls, Persist(k)
    PROVE  Billed'
<1>1. /\ call[k].at = "persist" /\ usage' = [usage EXCEPT ![call[k].c] = call[k].total]
      /\ call' = [call EXCEPT ![k] = NoCall]
      /\ UNCHANGED <<spending, charged, limit, worker, stray, setup>>
    BY DEF Persist, SetUsage, NoLongerCalling, proxyVars, auxVars
<1>2. call[k].c \in Containers /\ call[k].total \in Nat /\ Paid(call[k].c, call[k].total)
      /\ NoCall \in CallRecords /\ NoCall.at = "none"
    BY <1>1, CallIn DEF Billed, CallOK
<1>3. RowOK'
    BY <1>1, <1>2 DEF Billed, RowOK, Paid
<1>4. CallOK'
    BY <1>1, <1>2, CallMoves DEF Billed
<1>. QED  BY <1>1, <1>3, <1>4, StillCount, StillWorker, StillStray, StillSetup DEF Billed

LEMMA TickBilled ==
    ASSUME Billed, NEW c \in Containers, Worker(c)
    PROVE  Billed'
<1>1. CASE TickRead(c)
  <2>. DEFINE v == Milli(spending[c])
  <2>1. /\ worker' = [worker EXCEPT ![c] = [at |-> "write", value |-> v]]
        /\ UNCHANGED <<spending, charged, usage, limit, call, stray, setup>>
      BY <1>1 DEF TickRead, WorkerAt, proxyVars, storeVars, auxVars
  <2>2. v \in Nat /\ Paid(c, v)
      BY PaidCount DEF Billed
  <2>. HIDE DEF v
  <2>3. WorkerOK'
      BY <2>1, <2>2 DEF Billed, WorkerOK, WorkerRecords, Paid
  <2>. QED  BY <2>1, <2>3, StillCount, StillRow, StillStray, StillSetup, StillCall DEF Billed
<1>2. CASE TickWrite(c)
  <2>1. /\ usage' = [usage EXCEPT ![c] = worker[c].value]
        /\ worker' = [worker EXCEPT ![c] = [at |-> "idle", value |-> 0]]
        /\ UNCHANGED <<spending, charged, limit, call, stray, setup>>
      BY <1>2 DEF TickWrite, SetUsage, WorkerAt, proxyVars, auxVars
  <2>2. worker[c].value \in Nat /\ Paid(c, worker[c].value) /\ Paid(c, 0)
      BY PaidNothing DEF Billed, WorkerOK, WorkerRecords
  <2>3. RowOK'
      BY <2>1, <2>2 DEF Billed, RowOK, Paid
  <2>4. WorkerOK'
      BY <2>1, <2>2 DEF Billed, WorkerOK, WorkerRecords, Paid
  <2>. QED  BY <2>1, <2>3, <2>4, StillCount, StillStray, StillSetup, StillCall DEF Billed
<1>. QED  BY <1>1, <1>2 DEF Worker

LEMMA StrayBilled ==
    ASSUME Billed, NEW t \in stray, StrayRead(t) \/ StrayWrite(t)
    PROVE  Billed'
<1>0. t \in StrayRecords /\ t.c \in Containers /\ t.value \in Nat /\ Paid(t.c, t.value)
    BY DEF Billed, StrayOK, StrayRecords
<1>1. CASE StrayRead(t)
  <2>. DEFINE v == Milli(spending[t.c])
              w == [c |-> t.c, at |-> "write", value |-> v]
  <2>1. /\ stray' \subseteq stray \cup {w}
        /\ UNCHANGED <<spending, charged, usage, limit, call, worker, setup>>
      BY <1>1 DEF StrayRead, proxyVars, storeVars, auxVars
  <2>2. v \in Nat /\ Paid(t.c, v)
      BY <1>0, PaidCount DEF Billed
  <2>. HIDE DEF v
  <2>3. w \in StrayRecords /\ w.c = t.c /\ w.value = v
      BY <1>0, <2>2 DEF StrayRecords
  <2>. HIDE DEF w
  <2>4. StrayOK'
      BY <2>1, <2>2, <2>3 DEF Billed, StrayOK, Paid
  <2>. QED  BY <2>1, <2>4, StillCount, StillRow, StillWorker, StillSetup, StillCall DEF Billed
<1>2. CASE StrayWrite(t)
  <2>1. /\ usage' = [usage EXCEPT ![t.c] = t.value] /\ stray' = stray \ {t}
        /\ UNCHANGED <<spending, charged, limit, call, worker, setup>>
      BY <1>2 DEF StrayWrite, SetUsage, proxyVars, auxVars
  <2>2. RowOK'
      BY <1>0, <2>1 DEF Billed, RowOK, Paid
  <2>3. StrayOK'
      BY <2>1 DEF Billed, StrayOK, Paid
  <2>. QED  BY <2>1, <2>2, <2>3, StillCount, StillWorker, StillSetup, StillCall DEF Billed
<1>. QED  BY <1>1, <1>2

\* A registration gives the proxy the total it read from the store, which may be old.
LEMMA RegisterBilled ==
    ASSUME Billed, NEW c \in Containers,
           (\E s \in Segments \cup {None} : RegisterStore(c, s)) \/ RegisterRead(c) \/ RegisterProxy(c)
    PROVE  Billed'
<1>0. setup \in [Containers -> SetupRecords] /\ setup[c] \in SetupRecords
    BY DEF Billed, SetupOK
<1>1. CASE \E s \in Segments \cup {None} : RegisterStore(c, s)
  <2>. DEFINE w == IF worker[c].at = "none" THEN [at |-> "idle", value |-> 0] ELSE worker[c]
              r == [setup[c] EXCEPT !.at = "stored"]
  <2>1. /\ worker' = [worker EXCEPT ![c] = IF @.at = "none" THEN [at |-> "idle", value |-> 0] ELSE @]
        /\ setup' = [setup EXCEPT ![c].at = "stored"]
        /\ UNCHANGED <<spending, charged, usage, limit, call, stray>>
      BY <1>1 DEF RegisterStore, SetupAt
  <2>2. worker' = [worker EXCEPT ![c] = w] /\ setup' = [setup EXCEPT ![c] = r]
      BY <1>0, <2>1 DEF Billed, WorkerOK
  <2>3. w \in WorkerRecords /\ w.value \in Nat /\ Paid(c, w.value)
      BY PaidNothing DEF Billed, WorkerOK, WorkerRecords
  <2>4. r \in SetupRecords /\ r.spent = setup[c].spent
      BY <1>0 DEF SetupRecords
  <2>. HIDE DEF w, r
  <2>5. WorkerOK'
      BY <2>1, <2>2, <2>3 DEF Billed, WorkerOK, Paid
  <2>6. SetupOK'
      BY <2>1, <2>2, <2>4 DEF Billed, SetupOK, Paid
  <2>. QED  BY <2>1, <2>5, <2>6, StillCount, StillRow, StillStray, StillCall DEF Billed
<1>2. CASE RegisterRead(c)
  <2>1. /\ setup' = [setup EXCEPT ![c] = [at |-> "read", budget |-> limit[c], spent |-> usage[c]]]
        /\ UNCHANGED <<spending, charged, usage, limit, call, stray, worker>>
      BY <1>2 DEF RegisterRead, proxyVars, storeVars, auxVars
  <2>2. usage[c] \in Nat /\ limit[c] \in Nat /\ Paid(c, usage[c])
      BY DEF Billed, RowOK
  <2>3. SetupOK'
      BY <2>1, <2>2 DEF Billed, SetupOK, SetupRecords, Paid
  <2>. QED  BY <2>1, <2>3, StillCount, StillRow, StillWorker, StillStray, StillCall DEF Billed
<1>3. CASE RegisterProxy(c)
  <2>. DEFINE r == [setup[c] EXCEPT !.at = "none"]
  <2>1. /\ spending' = [spending EXCEPT ![c] = Micro(setup[c].spent)]
        /\ setup' = [setup EXCEPT ![c].at = "none"]
        /\ UNCHANGED <<charged, usage, limit, call, stray, worker>>
      BY <1>3 DEF RegisterProxy, SetupAt, storeVars, auxVars
  <2>2. setup' = [setup EXCEPT ![c] = r]
      BY <1>0, <2>1
  <2>3. r \in SetupRecords /\ r.spent = setup[c].spent /\ setup[c].spent \in Nat /\ Paid(c, setup[c].spent)
      BY <1>0 DEF Billed, SetupOK, SetupRecords
  <2>4. Micro(setup[c].spent) \in Nat /\ Micro(setup[c].spent) <= charged[c]
      BY <2>3, MicroNat DEF Paid
  <2>. HIDE DEF r
  <2>5. CountOK'
      BY <2>1, <2>4 DEF Billed, CountOK
  <2>6. SetupOK'
      BY <2>1, <2>2, <2>3 DEF Billed, SetupOK, Paid
  <2>. QED  BY <2>1, <2>5, <2>6, StillRow, StillWorker, StillStray, StillCall DEF Billed
<1>. QED  BY <1>1, <1>2, <1>3

LEMMA LimitBilled ==
    ASSUME Billed, NEW c \in Containers,
           (\E b \in Budgets : LimitStore(c, b)) \/ UpdateBudget(c) \/ Unassign(c)
    PROVE  Billed'
<1>1. /\ limit' = limit \/ \E b \in Budgets : limit' = [limit EXCEPT ![c] = b]
      /\ UNCHANGED <<spending, charged, usage, call, stray, worker, setup>>
    BY DEF LimitStore, UpdateBudget, Unassign, proxyVars, storeVars, controlVars, auxVars
<1>2. RowOK'
    BY <1>1, SpendingFacts DEF Billed, RowOK, Paid
<1>. QED  BY <1>1, <1>2, StillCount, StillWorker, StillStray, StillSetup, StillCall DEF Billed

\* Stopping a worker leaves the tick it is in, with what that has read.
LEMMA RemoveBilled ==
    ASSUME Billed, NEW c \in Containers, RemoveStop(c) \/ Remove(c)
    PROVE  Billed'
<1>0. Paid(c, 0) /\ Nothing \in WorkerRecords /\ Nothing.value = 0
    BY PaidNothing DEF Billed, Nothing, WorkerRecords
<1>1. CASE RemoveStop(c)
  <2>1. /\ worker' = [worker EXCEPT ![c] = Nothing]
        /\ UNCHANGED <<spending, charged, usage, limit, call, setup>>
      BY <1>1 DEF RemoveStop, proxyVars, storeVars
  <2>2. \A w \in InFlight(c) : w.at \in {"begun", "write"} /\ w.value \in Nat /\ Paid(c, w.value)
    <3>1. worker[c].at \in {"none", "idle", "write"} /\ worker[c].value \in Nat /\ Paid(c, worker[c].value)
        BY DEF Billed, WorkerOK, WorkerRecords
    <3>2. CASE worker[c].at = "none"
        BY <3>2 DEF InFlight
    <3>3. CASE worker[c].at = "idle"
        BY <1>0, <3>3 DEF InFlight
    <3>4. CASE worker[c].at = "write"
        BY <3>1, <3>4 DEF InFlight
    <3>. QED  BY <3>1, <3>2, <3>3, <3>4
  <2>3. \/ stray' = stray
        \/ \E w \in InFlight(c) : stray' = stray \cup {[c |-> c, at |-> w.at, value |-> w.value]}
      BY <1>1 DEF RemoveStop
  <2>4. StrayOK'
      BY <2>1, <2>2, <2>3 DEF Billed, StrayOK, StrayRecords, Paid
  <2>5. WorkerOK'
      BY <1>0, <2>1 DEF Billed, WorkerOK, Paid
  <2>. QED  BY <2>1, <2>4, <2>5, StillCount, StillRow, StillSetup, StillCall DEF Billed
<1>2. CASE Remove(c)
  <2>1. /\ usage' = [usage EXCEPT ![c] = 0] /\ limit' = [limit EXCEPT ![c] = 0]
        /\ UNCHANGED <<spending, charged, call, stray, worker, setup>>
      BY <1>2 DEF Remove, StoreRemove, proxyVars, auxVars
  <2>2. RowOK'
      BY <1>0, <2>1 DEF Billed, RowOK, Paid
  <2>. QED  BY <2>1, <2>2, StillCount, StillWorker, StillStray, StillSetup, StillCall DEF Billed
<1>. QED  BY <1>1, <1>2

\* Nothing that holds a total changes.
LEMMA StillBilled ==
    ASSUME Billed, UNCHANGED <<spending, charged, usage, limit, call, worker, stray, setup>>
    PROVE  Billed'
<1>. QED  BY StillCount, StillRow, StillWorker, StillStray, StillSetup, StillCall DEF Billed

\* main starts the proxy's count from the rows.
LEMMA RestartBilled ==
    ASSUME Billed, Restart
    PROVE  Billed'
<1>1. /\ spending' = [c \in Containers |-> IF c \in registered THEN Micro(usage[c]) ELSE 0]
      /\ call' = [k \in Calls |-> NoCall] /\ stray' = {}
      /\ worker' = [c \in Containers |-> IF c \in registered THEN [at |-> "idle", value |-> 0] ELSE Nothing]
      /\ setup' = [c \in Containers |-> [at |-> "none", budget |-> 0, spent |-> 0]]
      /\ UNCHANGED <<charged, usage, limit>>
    BY DEF Restart, storeVars
<1>2. \A c \in Containers : Micro(usage[c]) \in Nat /\ Micro(usage[c]) <= charged[c]
    BY MicroNat DEF Billed, RowOK, Paid
<1>3. CountOK'
    BY <1>1, <1>2 DEF Billed, CountOK
<1>4. \A c \in Containers : Micro(0) <= charged'[c]
    BY <1>1, PaidNothing DEF Billed, Paid
<1>5. WorkerOK'
    BY <1>1, <1>4 DEF WorkerOK, WorkerRecords, Nothing, Paid
<1>6. SetupOK'
    BY <1>1, <1>4 DEF SetupOK, SetupRecords, Paid
<1>7. StrayOK' /\ CallOK'
    BY <1>1 DEF StrayOK, CallOK, CallRecords, NoCall
<1>. QED  BY <1>1, <1>3, <1>5, <1>6, <1>7, StillRow DEF Billed

LEMMA NextBilled == Billed /\ [Next]_vars => Billed'
<1>. SUFFICES ASSUME Billed, [Next]_vars PROVE Billed'
    OBVIOUS
<1>1. ASSUME NEW k \in Calls, Proxy(k) PROVE Billed'
  <2>1. ASSUME NEW c \in Containers, CheckBudget(k, c) \/ CheckOllama(k, c) PROVE Billed'
      BY <2>1, CheckBilled
  <2>2. CASE CheckScopes(k) \/ Free(k)
      BY <2>2, PassBilled
  <2>3. CASE Persist(k)
      BY <2>3, PersistBilled
  <2>4. ASSUME NEW cost \in Costs, Respond(k, cost) PROVE Billed'
    <3>1. /\ call[k].at # "none" /\ Charge(k, cost) /\ cost \in Nat
          /\ UNCHANGED <<usage, limit, worker, stray, setup>>
        BY <2>4, SpendingFacts DEF Respond, storeVars
    <3>. QED  BY <3>1, ChargeBilled
  <2>5. ASSUME NEW cost \in OllamaCosts, Bill(k, cost) PROVE Billed'
    <3>1. /\ call[k].at # "none" /\ Charge(k, Micro(cost)) /\ Micro(cost) \in Nat
          /\ UNCHANGED <<usage, limit, worker, stray, setup>>
        BY <2>5, SpendingFacts, MicroNat DEF Bill, storeVars
    <3>. QED  BY <3>1, ChargeBilled
  <2>. QED  BY <1>1, <2>1, <2>2, <2>3, <2>4, <2>5 DEF Proxy
<1>2. ASSUME NEW c \in Containers, Worker(c) PROVE Billed'
    BY <1>2, TickBilled
<1>3. ASSUME NEW c \in Containers, Admin(c) PROVE Billed'
    BY <1>3, RegisterBilled, LimitBilled, RemoveBilled DEF Admin
<1>4. ASSUME NEW t \in stray, StrayRead(t) \/ StrayWrite(t) PROVE Billed'
    BY <1>4, StrayBilled
<1>5. ASSUME NEW s \in Scopes, ScopeSum(s) PROVE Billed'
  <2>. USE <1>5 DEF ScopeSum
  <2>1. UNCHANGED <<spending, charged, usage, limit, call, worker, stray, setup>>
      BY DEF proxyVars, storeVars, auxVars
  <2>. QED  BY <2>1, StillBilled
<1>6. ASSUME ScopeJudge PROVE Billed'
  <2>1. UNCHANGED <<spending, charged, usage, limit, call, worker, stray, setup>>
      BY <1>6 DEF ScopeJudge, storeVars, auxVars
  <2>. QED  BY <2>1, StillBilled
<1>7. ASSUME Restart PROVE Billed'
    BY <1>7, RestartBilled
<1>8. ASSUME UNCHANGED vars PROVE Billed'
    BY <1>8, StillBilled DEF vars, proxyVars, storeVars, controlVars, auxVars
<1>. QED  BY <1>1, <1>2, <1>3, <1>4, <1>5, <1>6, <1>7, <1>8 DEF Next

\* Whatever order concurrent calls, the worker, late ticks, registrations and restarts
\* persist, copy and restore totals in, neither the proxy's count nor the stored row of a
\* container is ever above what its calls cost.
THEOREM NobodyOvercharged == Spec => []NeverOvercharged
<1>1. Spec => []Billed
    BY InitBilled, NextBilled, PTL DEF Spec
<1>2. Billed => NeverOvercharged
    BY DEF Billed, CountOK, RowOK, Paid, NeverOvercharged
<1>. QED  BY <1>1, <1>2, PTL

-----------------------------------------------------------------------------
(* Types. *)

\* The state that holds no totals of containers.
RestOK ==
    /\ budgets \in [Containers -> Nat] /\ blocked \subseteq Scopes
    /\ scopeOf \in [Containers -> Scopes \cup {None}]
    /\ registered \subseteq Containers /\ gone \subseteq Containers
    /\ removing \subseteq Containers
    /\ segment \in [Containers -> Segments \cup {None}]
    /\ accum \in [Scopes -> Nat]
    /\ update \in [Containers -> [at : {"none", "stored"}, value : Nat]]
    /\ summed \in [scope : Scopes \cup {None}, value : Nat]
    /\ summed # NoTotal => summed.scope \in Scopes
    /\ allowance \in [Containers -> Nat]
    /\ again \in BOOLEAN /\ world \in Worlds /\ restarts \in Nat

LEMMA StillRest ==
    ASSUME RestOK, UNCHANGED <<budgets, blocked, scopeOf, registered, segment, accum, update, summed, removing>>,
           UNCHANGED <<again, gone, allowance, world, restarts>>
    PROVE  RestOK'
<1>. QED  BY DEF RestOK

LEMMA InitRest == Init => RestOK
<1>. SUFFICES ASSUME Init PROVE RestOK
    OBVIOUS
<1>1. /\ update \in [Containers -> [at : {"none", "stored"}, value : Nat]]
      /\ summed = NoTotal /\ summed \in [scope : Scopes \cup {None}, value : Nat]
    BY DEF Init, Nothing, NoTotal
<1>2. again \in BOOLEAN /\ world \in Worlds
    BY DEF Init
<1>. QED  BY <1>1, <1>2 DEF Init, RestOK

LEMMA MostIsNat == \A w \in Worlds : w.most \in Nat
<1>. QED  BY SpendingAssumption DEF SpendingAssumption

LEMMA AdmitRest ==
    ASSUME RestOK, NEW c \in Containers, NEW budget \in Nat, Admitted(c, budget),
           UNCHANGED <<budgets, blocked, scopeOf, registered, segment, accum, update, summed, removing>>,
           UNCHANGED <<again, gone, world, restarts>>
    PROVE  RestOK'
<1>1. allowance' \in [Containers -> Nat]
  <2>1. allowance' = [allowance EXCEPT ![c] = IF budget > allowance[c] THEN budget ELSE allowance[c]]
      BY DEF Admitted
  <2>2. allowance[c] \in Nat /\ allowance \in [Containers -> Nat]
      BY DEF RestOK
  <2>. QED  BY <2>1, <2>2
<1>. QED  BY <1>1 DEF RestOK

LEMMA ProxyRest ==
    ASSUME RestOK, Billed, NEW k \in Calls, Proxy(k)
    PROVE  RestOK'
<1>1. ASSUME NEW c \in Containers, CheckBudget(k, c) PROVE RestOK'
  <2>1. (IF budgets[c] = 0 THEN world.most ELSE budgets[c]) \in Nat
      BY MostIsNat DEF RestOK
  <2>. QED  BY <1>1, <2>1, AdmitRest DEF CheckBudget, proxyVars, storeVars
<1>2. ASSUME NEW c \in Containers, CheckOllama(k, c) PROVE RestOK'
  <2>1. (IF limit[c] = 0 THEN world.most ELSE Micro(limit[c])) \in Nat
      BY MostIsNat, MicroNat DEF RestOK, Billed, RowOK
  <2>. QED  BY <1>2, <2>1, AdmitRest DEF CheckOllama, proxyVars, storeVars
<1>3. CASE CheckScopes(k) \/ Free(k)
    BY <1>3, StillRest DEF CheckScopes, Free, proxyVars, storeVars, auxVars
<1>4. CASE Persist(k)
    BY <1>4, StillRest DEF Persist, proxyVars, auxVars
<1>5. CASE \E cost \in Costs : Respond(k, cost)
    BY <1>5, StillRest DEF Respond, storeVars
<1>6. CASE \E cost \in OllamaCosts : Bill(k, cost)
    BY <1>6, StillRest DEF Bill, storeVars
<1>. QED  BY <1>1, <1>2, <1>3, <1>4, <1>5, <1>6 DEF Proxy

LEMMA AdminRest ==
    ASSUME RestOK, Billed, NEW c \in Containers, Admin(c)
    PROVE  RestOK'
<1>1. ASSUME NEW s \in Segments \cup {None}, RegisterStore(c, s) PROVE RestOK'
  <2>0. s # None => s \in Scopes
      BY ScopeFacts
  <2>1. /\ registered' = registered \cup {c} /\ segment' = [segment EXCEPT ![c] = s]
        /\ scopeOf' = IF s = None THEN scopeOf ELSE [scopeOf EXCEPT ![c] = s]
        /\ UNCHANGED <<budgets, blocked, accum, update, summed, removing, gone, allowance, world, restarts>>
      BY <1>1 DEF RegisterStore
  <2>2. again' \in BOOLEAN
      BY <1>1, Zenon DEF RegisterStore
  <2>3. scopeOf' \in [Containers -> Scopes \cup {None}]
      BY <2>0, <2>1 DEF RestOK
  <2>4. segment' \in [Containers -> Segments \cup {None}]
      BY <1>1, <2>1 DEF RestOK
  <2>. QED  BY <2>1, <2>2, <2>3, <2>4 DEF RestOK
<1>2. CASE RegisterRead(c)
    BY <1>2, StillRest DEF RegisterRead, proxyVars, storeVars, auxVars
<1>3. CASE RegisterProxy(c)
  <2>1. Micro(setup[c].budget) \in Nat
      BY MicroNat DEF Billed, SetupOK, SetupRecords
  <2>2. /\ budgets' = [budgets EXCEPT ![c] = Micro(setup[c].budget)]
        /\ UNCHANGED <<blocked, scopeOf, registered, segment, accum, update, summed, removing>>
        /\ UNCHANGED <<again, gone, allowance, world, restarts>>
      BY <1>3 DEF RegisterProxy, storeVars, auxVars
  <2>. QED  BY <2>1, <2>2 DEF RestOK
<1>4. ASSUME NEW b \in Budgets, LimitStore(c, b) PROVE RestOK'
  <2>1. /\ update' = [update EXCEPT ![c] = [at |-> "stored", value |-> b]] /\ b \in Nat
        /\ UNCHANGED <<budgets, blocked, scopeOf, registered, segment, accum, summed, removing>>
        /\ UNCHANGED <<again, gone, allowance, world, restarts>>
      BY <1>4, SpendingFacts DEF LimitStore, proxyVars, auxVars
  <2>. QED  BY <2>1 DEF RestOK
<1>5. CASE UpdateBudget(c)
  <2>1. update[c].value \in Nat /\ Micro(update[c].value) \in Nat
      BY MicroNat DEF RestOK
  <2>2. /\ budgets' = [budgets EXCEPT ![c] = Micro(update[c].value)]
        /\ update' = [update EXCEPT ![c] = Nothing]
        /\ UNCHANGED <<blocked, scopeOf, registered, segment, accum, summed, removing>>
        /\ UNCHANGED <<again, gone, allowance, world, restarts>>
      BY <1>5 DEF UpdateBudget, storeVars, auxVars
  <2>. QED  BY <2>1, <2>2 DEF RestOK, Nothing
<1>6. CASE Unassign(c)
  <2>1. /\ segment' = [segment EXCEPT ![c] = None] /\ scopeOf' = [scopeOf EXCEPT ![c] = Host]
        /\ UNCHANGED <<budgets, blocked, registered, accum, update, summed, removing>>
        /\ UNCHANGED <<again, gone, allowance, world, restarts>>
      BY <1>6 DEF Unassign, controlVars, auxVars
  <2>. QED  BY <2>1, ScopeFacts DEF RestOK
<1>7. CASE RemoveStop(c)
  <2>1. /\ removing' = removing \cup {c} /\ gone' = gone \cup {c}
        /\ UNCHANGED <<budgets, blocked, scopeOf, registered, segment, accum, update, summed>>
        /\ UNCHANGED <<again, allowance, world, restarts>>
      BY <1>7 DEF RemoveStop, proxyVars, storeVars
  <2>. QED  BY <2>1 DEF RestOK
<1>8. CASE Remove(c)
  <2>1. /\ accum' = [s \in Scopes |-> IF s \in {Host, segment[c]} THEN accum[s] + usage[c] ELSE accum[s]]
        /\ segment' = [segment EXCEPT ![c] = None] /\ registered' = registered \ {c}
        /\ removing' = removing \ {c}
        /\ UNCHANGED <<budgets, blocked, scopeOf, update, summed, again, gone, allowance, world, restarts>>
      BY <1>8 DEF Remove, StoreRemove, proxyVars, auxVars
  <2>2. usage[c] \in Nat
      BY DEF Billed, RowOK
  <2>3. accum' \in [Scopes -> Nat]
      BY <2>1, <2>2 DEF RestOK
  <2>. QED  BY <2>1, <2>3 DEF RestOK
<1>. QED  BY <1>1, <1>2, <1>3, <1>4, <1>5, <1>6, <1>7, <1>8 DEF Admin

LEMMA NextRest == RestOK /\ Billed /\ [Next]_vars => RestOK'
<1>. SUFFICES ASSUME RestOK, Billed, [Next]_vars PROVE RestOK'
    OBVIOUS
<1>1. ASSUME NEW k \in Calls, Proxy(k) PROVE RestOK'
    BY <1>1, ProxyRest
<1>2. ASSUME NEW c \in Containers, Worker(c) PROVE RestOK'
    BY <1>2, StillRest DEF Worker, TickRead, TickWrite, proxyVars, storeVars, auxVars
<1>3. ASSUME NEW c \in Containers, Admin(c) PROVE RestOK'
    BY <1>3, AdminRest
<1>4. ASSUME NEW t \in stray, StrayRead(t) \/ StrayWrite(t) PROVE RestOK'
    BY <1>4, StillRest DEF StrayRead, StrayWrite, proxyVars, storeVars, auxVars
<1>5. ASSUME NEW s \in Scopes, ScopeSum(s) PROVE RestOK'
  <2>1. UsageOf(Members(s)) \in Nat
    <3>1. Members(s) \subseteq Containers
        BY DEF Members, RestOK
    <3>2. IsFiniteSet(Members(s)) /\ \A c \in Members(s) : usage[c] \in Nat
        BY <3>1, FiniteFacts, FS_Subset DEF Billed, RowOK
    <3>. QED  BY <3>2, SumNat DEF UsageOf
  <2>2. /\ summed' = [scope |-> s, value |-> UsageOf(Members(s))]
        /\ UNCHANGED <<budgets, blocked, scopeOf, registered, segment, accum, update, removing>>
        /\ UNCHANGED <<again, gone, allowance, world, restarts>>
      BY <1>5 DEF ScopeSum, proxyVars, storeVars, auxVars
  <2>. QED  BY <2>1, <2>2 DEF RestOK
<1>6. ASSUME ScopeJudge PROVE RestOK'
  <2>1. summed.scope \in Scopes
      BY <1>6 DEF ScopeJudge, RestOK
  <2>. QED  BY <1>6, <2>1 DEF ScopeJudge, RestOK, NoTotal, storeVars, auxVars
<1>7. ASSUME Restart PROVE RestOK'
  <2>1. \A c \in Containers : Micro(limit[c]) \in Nat
      BY MicroNat DEF Billed, RowOK
  <2>. QED  BY <1>7, <2>1 DEF Restart, RestOK, Nothing, NoTotal, storeVars
<1>8. ASSUME UNCHANGED vars PROVE RestOK'
    BY <1>8, StillRest DEF vars, proxyVars, storeVars, controlVars, auxVars
<1>. QED  BY <1>1, <1>2, <1>3, <1>4, <1>5, <1>6, <1>7, <1>8 DEF Next

\* Every reachable state is well typed: a call that is being served has its container, a total
\* that goes to the store is a number of milli-cents.
THEOREM SpendingTypeCorrect == Spec => []TypeOK
<1>1. Spec => [](Billed /\ RestOK)
    BY InitBilled, NextBilled, InitRest, NextRest, PTL DEF Spec
<1>2. Billed /\ RestOK => TypeOK
    BY DEF Billed, CountOK, RowOK, WorkerOK, StrayOK, SetupOK, CallOK, RestOK, TypeOK,
           CallRecords, WorkerRecords, StrayRecords, SetupRecords
<1>. QED  BY <1>1, <1>2, PTL

-----------------------------------------------------------------------------
(* The total of the host. *)

Known == registered \cup gone

\* A container is removed after its removal began, and only one that was registered makes
\* calls or is charged.
LivesOK ==
    /\ removing \subseteq registered \cap gone
    /\ \A k \in Calls : call[k].at # "none" => call[k].c \in Known
    /\ \A c \in Containers \ Known : charged[c] = 0

Outside == Containers \ registered

\* The accumulator has no more than was charged to containers that are not registered.
Kept == ~again => Micro(accum[Host]) <= SumFunctionOnSet(charged, Outside)

Typed == Billed /\ RestOK

KeptInv == Typed /\ LivesOK /\ Kept

LEMMA StillLives ==
    ASSUME LivesOK, UNCHANGED <<registered, gone, removing, call, charged>>
    PROVE  LivesOK'
<1>. QED  BY DEF LivesOK, Known

\* Calls end, move on, or begin for a container that is known.
LEMMA CallLives ==
    ASSUME LivesOK, NEW k \in Calls, NEW r, call \in [Calls -> CallRecords],
           r.at # "none" => r.c \in Known,
           call' = [call EXCEPT ![k] = r], UNCHANGED <<registered, gone, removing, charged>>
    PROVE  LivesOK'
<1>. QED  BY DEF LivesOK, Known

LEMMA ChargeLives ==
    ASSUME Typed, LivesOK, NEW k \in Calls, NEW micro \in Nat, call[k].at # "none", Charge(k, micro),
           UNCHANGED <<registered, gone, removing>>
    PROVE  LivesOK'
<1>. DEFINE c == call[k].c
            r == [at |-> "persist", c |-> c, total |-> Milli(spending[c] + micro)]
<1>1. c \in Known /\ charged \in [Containers -> Nat] /\ call \in [Calls -> CallRecords]
    BY DEF LivesOK, Typed, Billed, CountOK, CallOK
<1>2. charged' = [charged EXCEPT ![c] = @ + micro] /\ call' = [call EXCEPT ![k] = r] /\ r.c = c
    BY DEF Charge
<1>. HIDE DEF c, r
<1>. QED  BY <1>1, <1>2 DEF LivesOK, Known

LEMMA ProxyLives ==
    ASSUME Typed, LivesOK, NEW k \in Calls, Proxy(k)
    PROVE  LivesOK'
<1>0. call \in [Calls -> CallRecords] /\ NoCall.at = "none"
    BY DEF Typed, Billed, CallOK, NoCall
<1>1. ASSUME NEW c \in Containers, CheckBudget(k, c) \/ CheckOllama(k, c) PROVE LivesOK'
  <2>1. PICK label \in {"checked", "ollama"} :
            call' = [call EXCEPT ![k] = [NoCall EXCEPT !.at = label, !.c = c]]
      BY <1>1 DEF CheckBudget, CheckOllama
  <2>. DEFINE r == [NoCall EXCEPT !.at = label, !.c = c]
  <2>2. r.c = c
      BY DEF NoCall
  <2>3. call' = [call EXCEPT ![k] = r]
      BY <2>1
  <2>. HIDE DEF r
  <2>4. c \in Known /\ UNCHANGED <<registered, gone, removing, charged>>
      BY <1>1 DEF CheckBudget, CheckOllama, Addressed, Known, storeVars
  <2>. QED  BY <1>0, <2>2, <2>3, <2>4, CallLives
<1>2. CASE CheckScopes(k) \/ Free(k) \/ Persist(k)
  <2>. DEFINE r == [call[k] EXCEPT !.at = "upstream"]
  <2>1. /\ call[k].at # "none"
        /\ call' = [call EXCEPT ![k] = NoCall] \/ call' = [call EXCEPT ![k].at = "upstream"]
        /\ UNCHANGED <<registered, gone, removing, charged>>
      BY <1>2 DEF CheckScopes, Free, Persist, NoLongerCalling, CallAt, storeVars, auxVars
  <2>2. r.c = call[k].c /\ call[k].c \in Known
      BY <1>0, <2>1 DEF CallRecords, LivesOK
  <2>3. call' = [call EXCEPT ![k] = NoCall] \/ call' = [call EXCEPT ![k] = r]
      BY <1>0, <2>1
  <2>. HIDE DEF r
  <2>. QED  BY <1>0, <2>1, <2>2, <2>3, CallLives
<1>3. ASSUME NEW cost \in Costs, Respond(k, cost) PROVE LivesOK'
  <2>1. call[k].at # "none" /\ Charge(k, cost) /\ cost \in Nat /\ UNCHANGED <<registered, gone, removing>>
      BY <1>3, SpendingFacts DEF Respond, storeVars
  <2>. QED  BY <2>1, ChargeLives
<1>4. ASSUME NEW cost \in OllamaCosts, Bill(k, cost) PROVE LivesOK'
  <2>1. /\ call[k].at # "none" /\ Charge(k, Micro(cost)) /\ Micro(cost) \in Nat
        /\ UNCHANGED <<registered, gone, removing>>
      BY <1>4, SpendingFacts, MicroNat DEF Bill, storeVars
  <2>. QED  BY <2>1, ChargeLives
<1>. QED  BY <1>1, <1>2, <1>3, <1>4 DEF Proxy

LEMMA AdminLives ==
    ASSUME Typed, LivesOK, NEW c \in Containers, Admin(c)
    PROVE  LivesOK'
<1>1. ASSUME NEW s \in Segments \cup {None}, RegisterStore(c, s) PROVE LivesOK'
  <2>1. registered' = registered \cup {c} /\ UNCHANGED <<gone, removing, call, charged>>
      BY <1>1 DEF RegisterStore
  <2>. QED  BY <2>1 DEF LivesOK, Known
<1>2. CASE RegisterRead(c) \/ RegisterProxy(c) \/ (\E b \in Budgets : LimitStore(c, b)) \/ UpdateBudget(c) \/ Unassign(c)
  <2>1. UNCHANGED <<registered, gone, removing, call, charged>>
      BY <1>2 DEF RegisterRead, RegisterProxy, LimitStore, UpdateBudget, Unassign, storeVars, controlVars, auxVars
  <2>. QED  BY <2>1, StillLives
<1>3. CASE RemoveStop(c)
  <2>1. /\ c \in registered /\ removing' = removing \cup {c} /\ gone' = gone \cup {c}
        /\ UNCHANGED <<registered, call, charged>>
      BY <1>3 DEF RemoveStop, storeVars
  <2>. QED  BY <2>1 DEF LivesOK, Known
<1>4. CASE Remove(c)
  <2>1. /\ c \in removing /\ removing' = removing \ {c} /\ registered' = registered \ {c}
        /\ UNCHANGED <<gone, call, charged>>
      BY <1>4 DEF Remove, StoreRemove, auxVars
  <2>2. Known' = Known
      BY <2>1 DEF LivesOK, Known
  <2>. QED  BY <2>1, <2>2 DEF LivesOK
<1>. QED  BY <1>1, <1>2, <1>3, <1>4 DEF Admin

LEMMA NextLives == Typed /\ LivesOK /\ [Next]_vars => LivesOK'
<1>. SUFFICES ASSUME Typed, LivesOK, [Next]_vars PROVE LivesOK'
    OBVIOUS
<1>1. ASSUME NEW k \in Calls, Proxy(k) PROVE LivesOK'
    BY <1>1, ProxyLives
<1>2. ASSUME NEW c \in Containers, Worker(c) PROVE LivesOK'
    BY <1>2, StillLives DEF Worker, TickRead, TickWrite, storeVars, auxVars
<1>3. ASSUME NEW c \in Containers, Admin(c) PROVE LivesOK'
    BY <1>3, AdminLives
<1>4. ASSUME NEW t \in stray, StrayRead(t) \/ StrayWrite(t) PROVE LivesOK'
    BY <1>4, StillLives DEF StrayRead, StrayWrite, storeVars, auxVars
<1>5. ASSUME (\E s \in Scopes : ScopeSum(s)) \/ ScopeJudge PROVE LivesOK'
    BY <1>5, StillLives DEF ScopeSum, ScopeJudge, storeVars, auxVars
<1>6. ASSUME Restart PROVE LivesOK'
    BY <1>6 DEF Restart, storeVars, LivesOK, Known, NoCall
<1>7. ASSUME UNCHANGED vars PROVE LivesOK'
    BY <1>7, StillLives DEF vars, storeVars, controlVars, auxVars
<1>. QED  BY <1>1, <1>2, <1>3, <1>4, <1>5, <1>6, <1>7 DEF Next

LEMMA NextTyped == Typed /\ [Next]_vars => Typed'
<1>. QED  BY NextBilled, NextRest DEF Typed

LEMMA ChargedSums ==
    ASSUME Typed
    PROVE  /\ charged \in [Containers -> Nat] /\ Outside \subseteq Containers /\ IsFiniteSet(Outside)
           /\ registered \subseteq Containers /\ IsFiniteSet(registered)
           /\ SumFunctionOnSet(charged, Outside) \in Nat
           /\ accum[Host] \in Nat /\ Micro(accum[Host]) \in Nat
<1>1. charged \in [Containers -> Nat] /\ registered \subseteq Containers /\ accum \in [Scopes -> Nat]
    BY DEF Typed, Billed, CountOK, RestOK
<1>2. Outside \subseteq Containers /\ IsFiniteSet(Outside) /\ IsFiniteSet(registered)
    BY <1>1, FiniteFacts, FS_Subset DEF Outside
<1>3. SumFunctionOnSet(charged, Outside) \in Nat
    BY <1>1, <1>2, SumNat
<1>. QED  BY <1>1, <1>2, <1>3, ScopeFacts, MicroNat

LEMMA StillKept ==
    ASSUME Kept, UNCHANGED <<registered, accum, charged, again>>
    PROVE  Kept'
<1>. QED  BY DEF Kept, Outside

LEMMA ChargeKept ==
    ASSUME KeptInv, NEW k \in Calls, NEW micro \in Nat, call[k].at # "none", Charge(k, micro),
           UNCHANGED <<registered, accum, again>>
    PROVE  Kept'
<1>. DEFINE c == call[k].c
            g == charged'
<1>1. c \in Containers /\ charged' = [charged EXCEPT ![c] = @ + micro]
    BY DEF KeptInv, Typed, Billed, CallOK, Charge
<1>. HIDE DEF c
<1>2. \A x \in Outside : charged[x] \in Nat /\ g[x] \in Nat /\ charged[x] <= g[x]
    BY <1>1, ChargedSums DEF KeptInv
<1>3. SumFunctionOnSet(g, Outside) \in Nat /\ SumFunctionOnSet(charged, Outside) <= SumFunctionOnSet(g, Outside)
  <2>1. IsFiniteSet(Outside)
      BY ChargedSums DEF KeptInv
  <2>. HIDE DEF g
  <2>. QED  BY <1>2, <2>1, SumMonotone, SumNat
<1>. QED  BY <1>3, ChargedSums DEF KeptInv, Kept, Outside

\* Who is registered and was not known before was charged nothing.
LEMMA RegisterKept ==
    ASSUME KeptInv, NEW c \in Containers, NEW s \in Segments \cup {None}, RegisterStore(c, s)
    PROVE  Kept'
<1>1. /\ registered' = registered \cup {c} /\ again' = (again \/ c \in gone)
      /\ UNCHANGED <<accum, charged>>
    BY DEF RegisterStore
<1>. SUFFICES ASSUME ~again, c \notin gone
              PROVE  Micro(accum[Host]) <= SumFunctionOnSet(charged, Containers \ (registered \cup {c}))
    BY <1>1 DEF Kept, Outside
<1>2. CASE c \in registered
  <2>1. Containers \ (registered \cup {c}) = Outside
      BY <1>2 DEF Outside
  <2>. QED  BY <2>1 DEF KeptInv, Kept
<1>3. CASE c \notin registered
  <2>1. charged[c] = 0 /\ c \in Outside
      BY <1>3 DEF KeptInv, LivesOK, Known, Outside
  <2>. DEFINE R == Containers \ (registered \cup {c})
  <2>2. R = Outside \ {c} /\ IsFiniteSet(Outside \ {c}) /\ \A x \in Outside \ {c} : charged[x] \in Nat
      BY ChargedSums, FS_RemoveElement DEF KeptInv, Outside
  <2>. HIDE DEF R
  <2>3. SumFunctionOnSet(charged, Outside) = charged[c] + SumFunctionOnSet(charged, Outside \ {c})
    <3>1. IsFiniteSet(Outside) /\ \A x \in Outside : charged[x] \in Nat
        BY ChargedSums DEF KeptInv
    <3>. QED  BY <2>1, <3>1, SumTake
  <2>4. SumFunctionOnSet(charged, Outside \ {c}) \in Nat
      BY <2>2, SumNat
  <2>5. Micro(accum[Host]) <= SumFunctionOnSet(charged, R)
      BY <2>1, <2>2, <2>3, <2>4 DEF KeptInv, Kept
  <2>. QED  BY <2>5 DEF R
<1>. QED  BY <1>2, <1>3

\* What is moved to the accumulator is no more than was charged.
LEMMA RemoveKept ==
    ASSUME KeptInv, NEW c \in Containers, Remove(c)
    PROVE  Kept'
<1>1. /\ c \in removing /\ registered' = registered \ {c}
      /\ accum' = [s \in Scopes |-> IF s \in {Host, segment[c]} THEN accum[s] + usage[c] ELSE accum[s]]
      /\ UNCHANGED <<charged, again>>
    BY DEF Remove, StoreRemove, auxVars
<1>2. accum'[Host] = accum[Host] + usage[c]
    BY <1>1, ScopeFacts
<1>3. c \in registered /\ c \notin Outside /\ usage[c] \in Nat /\ charged[c] \in Nat /\ Micro(usage[c]) <= charged[c]
    BY <1>1, ChargedSums DEF KeptInv, LivesOK, Outside, Typed, Billed, RowOK, Paid
<1>4. Micro(accum[Host] + usage[c]) = Micro(accum[Host]) + Micro(usage[c]) /\ Micro(usage[c]) \in Nat
    BY <1>3, ChargedSums, Distribute, SpendingFacts, MicroNat DEF KeptInv, Micro
<1>5. Outside' = Outside \cup {c}
    BY <1>1, ChargedSums DEF KeptInv, Outside
<1>6. SumFunctionOnSet(charged, Outside \cup {c}) = SumFunctionOnSet(charged, Outside) + charged[c]
  <2>1. IsFiniteSet(Outside) /\ \A x \in Outside \cup {c} : charged[x] \in Nat
      BY ChargedSums DEF KeptInv
  <2>. QED  BY <1>3, <2>1, SumAdd
<1>. QED  BY <1>1, <1>2, <1>3, <1>4, <1>5, <1>6, ChargedSums DEF KeptInv, Kept

LEMMA NextKept == KeptInv /\ [Next]_vars => Kept'
<1>. SUFFICES ASSUME KeptInv, [Next]_vars PROVE Kept'
    OBVIOUS
<1>0. Kept
    BY DEF KeptInv
<1>1. ASSUME NEW k \in Calls, Proxy(k) PROVE Kept'
  <2>0. ASSUME NEW c \in Containers, CheckBudget(k, c) \/ CheckOllama(k, c) PROVE Kept'
      BY <1>0, <2>0, StillKept DEF CheckBudget, CheckOllama, storeVars
  <2>1. CASE CheckScopes(k) \/ Free(k) \/ Persist(k)
      BY <1>0, <2>1, StillKept DEF CheckScopes, Free, Persist, storeVars, auxVars
  <2>2. ASSUME NEW cost \in Costs, Respond(k, cost) PROVE Kept'
    <3>1. call[k].at # "none" /\ Charge(k, cost) /\ cost \in Nat /\ UNCHANGED <<registered, accum, again>>
        BY <2>2, SpendingFacts DEF Respond, storeVars
    <3>. QED  BY <3>1, ChargeKept
  <2>3. ASSUME NEW cost \in OllamaCosts, Bill(k, cost) PROVE Kept'
    <3>1. /\ call[k].at # "none" /\ Charge(k, Micro(cost)) /\ Micro(cost) \in Nat
          /\ UNCHANGED <<registered, accum, again>>
        BY <2>3, SpendingFacts, MicroNat DEF Bill, storeVars
    <3>. QED  BY <3>1, ChargeKept
  <2>. QED  BY <1>1, <2>0, <2>1, <2>2, <2>3 DEF Proxy
<1>2. ASSUME NEW c \in Containers, Worker(c) PROVE Kept'
    BY <1>0, <1>2, StillKept DEF Worker, TickRead, TickWrite, storeVars, auxVars
<1>3. ASSUME NEW c \in Containers, Admin(c) PROVE Kept'
  <2>1. CASE RegisterRead(c) \/ RegisterProxy(c) \/ (\E b \in Budgets : LimitStore(c, b))
                \/ UpdateBudget(c) \/ Unassign(c) \/ RemoveStop(c)
      BY <1>0, <2>1, StillKept
         DEF RegisterRead, RegisterProxy, LimitStore, UpdateBudget, Unassign, RemoveStop, storeVars, auxVars
  <2>. QED  BY <1>3, <2>1, RegisterKept, RemoveKept DEF Admin
<1>4. ASSUME NEW t \in stray, StrayRead(t) \/ StrayWrite(t) PROVE Kept'
    BY <1>0, <1>4, StillKept DEF StrayRead, StrayWrite, storeVars, auxVars
<1>5. ASSUME (\E s \in Scopes : ScopeSum(s)) \/ ScopeJudge \/ Restart PROVE Kept'
    BY <1>0, <1>5, StillKept DEF ScopeSum, ScopeJudge, Restart, storeVars, auxVars
<1>6. ASSUME UNCHANGED vars PROVE Kept'
    BY <1>0, <1>6, StillKept DEF vars, storeVars, auxVars
<1>. QED  BY <1>1, <1>2, <1>3, <1>4, <1>5, <1>6 DEF Next

LEMMA InitKept == Init => KeptInv
<1>. SUFFICES ASSUME Init PROVE KeptInv
    OBVIOUS
<1>1. Typed
    BY InitBilled, InitRest DEF Typed
<1>2. LivesOK
    BY DEF Init, LivesOK, Known, NoCall
<1>3. accum[Host] = 0
    BY ScopeFacts DEF Init
<1>4. Kept
    BY <1>1, <1>3, ChargedSums, MicroNat DEF Kept
<1>. QED  BY <1>1, <1>2, <1>4 DEF KeptInv

\* What the rows of the registered containers and the host's accumulator say together is never
\* more than everything that was charged, as long as no container comes back after its removal
\* has begun: removal moves what it stores, and nothing is counted on both sides.
THEOREM HostAccountedOnce == Spec => []AccountedOnce
<1>1. Spec => []KeptInv
  <2>1. KeptInv /\ [Next]_vars => KeptInv'
      BY NextTyped, NextLives, NextKept DEF KeptInv
  <2>. QED  BY <2>1, InitKept, PTL DEF Spec
<1>2. KeptInv => AccountedOnce
  <2>. SUFFICES ASSUME KeptInv, ~again PROVE Micro(Total(Host)) <= TotalCharged
      BY DEF AccountedOnce
  <2>1. Typed /\ Kept
      BY DEF KeptInv
  <2>. DEFINE rows == SumFunctionOnSet(usage, registered)
              paid == SumFunctionOnSet(charged, registered)
              out == SumFunctionOnSet(charged, Outside)
  <2>2. \A c \in registered : usage[c] \in Nat /\ charged[c] \in Nat /\ Unit * usage[c] <= charged[c]
    <3>1. \A c \in registered : usage[c] \in Nat /\ charged[c] \in Nat /\ usage[c] * Unit <= charged[c]
        BY <2>1, ChargedSums DEF Typed, Billed, RowOK, Paid, Micro
    <3>. QED  BY <3>1, SpendingFacts
  <2>3. Unit * rows <= paid /\ rows \in Nat /\ paid \in Nat
    <3>1. IsFiniteSet(registered) /\ Unit \in Nat
        BY <2>1, ChargedSums, SpendingFacts
    <3>. QED  BY <2>2, <3>1, SumScaled, SumNat
  <2>4. TotalCharged = paid + out
    <3>1. /\ registered \cap Outside = {} /\ registered \cup Outside = Containers
          /\ \A x \in registered \cup Outside : charged[x] \in Nat
        BY <2>1, ChargedSums DEF Outside
    <3>2. IsFiniteSet(registered) /\ IsFiniteSet(Outside)
        BY <2>1, ChargedSums
    <3>3. SumFunctionOnSet(charged, registered \cup Outside) = paid + out
        BY <3>1, <3>2, SumSplit
    <3>. QED  BY <3>1, <3>3 DEF TotalCharged
  <2>5. Total(Host) = rows + accum[Host]
      BY DEF Total, UsageOf, Members
  <2>. HIDE DEF rows, paid, out
  <2>6. Micro(rows + accum[Host]) = Micro(rows) + Micro(accum[Host]) /\ Micro(rows) = Unit * rows
      BY <2>1, <2>3, ChargedSums, Distribute, SpendingFacts DEF Micro
  <2>7. Micro(accum[Host]) <= out /\ out \in Nat /\ Micro(accum[Host]) \in Nat
      BY <2>1, ChargedSums DEF Kept, out
  <2>. QED  BY <2>3, <2>4, <2>5, <2>6, <2>7, SpendingFacts DEF Micro
<1>. QED  BY <1>1, <1>2, PTL

-----------------------------------------------------------------------------
(* Overshoot. *)

AllCosts == Costs \cup {Micro(m) : m \in OllamaCosts}

\* What the most expensive call costs, 0 if there is none.
Costliest == IF AllCosts = {} THEN 0 ELSE MaxCost

LEMMA MicrosFinite == IsFiniteSet({Micro(m) : m \in OllamaCosts})
<1>. DEFINE F(U) == {Micro(m) : m \in U}
            G == {U \in SUBSET OllamaCosts : IsFiniteSet(F(U))}
<1>1. {} \in G
  <2>1. F({}) = {}
      OBVIOUS
  <2>. QED  BY <2>1, FS_EmptySet
<1>2. ASSUME NEW U \in G, NEW x \in OllamaCosts \ U PROVE U \cup {x} \in G
  <2>. DEFINE D == F(U)
              E == F(U \cup {x})
  <2>1. E = D \cup {Micro(x)} /\ IsFiniteSet(D)
      OBVIOUS
  <2>. HIDE DEF D, E
  <2>2. IsFiniteSet(E)
      BY <2>1, FS_AddElement
  <2>. QED  BY <2>2 DEF E
<1>3. OllamaCosts \in G
  <2>1. G \in SUBSET SUBSET OllamaCosts
      OBVIOUS
  <2>. HIDE DEF G
  <2>. QED  BY <1>1, <1>2, <2>1, EverySubset, FiniteFacts
<1>. QED  BY <1>3

LEMMA CostFacts ==
    /\ Costliest \in Nat /\ \A cost \in AllCosts : cost \in Nat /\ cost <= Costliest
    /\ AllCosts # {} => Costliest = MaxCost
<1>1. AllCosts \subseteq Nat
    BY SpendingFacts, MicroNat DEF AllCosts
<1>2. IsFiniteSet(AllCosts)
    BY MicrosFinite, FiniteFacts, FS_Union DEF AllCosts
<1>3. CASE AllCosts = {}
    BY <1>3 DEF Costliest
<1>4. CASE AllCosts # {}
  <2>1. \E m \in AllCosts : \A x \in AllCosts : x <= m
      BY <1>1, <1>2, <1>4, GreatestIn
  <2>2. \E m \in AllCosts : \A x \in AllCosts : m >= x
      BY <1>1, <2>1
  <2>3. MaxCost = CHOOSE m \in AllCosts : \A x \in AllCosts : m >= x
      BY DEF MaxCost, AllCosts, Max
  <2>. HIDE DEF MaxCost
  <2>4. MaxCost \in AllCosts /\ \A x \in AllCosts : MaxCost >= x
      BY <2>2, <2>3
  <2>. QED  BY <1>1, <1>4, <2>4 DEF Costliest
<1>. QED  BY <1>3, <1>4

\* What n calls can cost, in a form the solvers can add up.
Load(n) == n * Costliest

LEMMA LoadFacts ==
    ASSUME NEW n \in Nat
    PROVE  /\ Load(n) \in Nat /\ Load(n + 1) = Load(n) + Costliest
           /\ \A m \in Nat : n <= m => Load(n) <= Load(m)
<1>1. \A m \in Nat : Load(m) \in Nat /\ Load(m + 1) = Load(m) + Costliest
    BY CostFacts, Distribute DEF Load
<1>2. ASSUME NEW m \in Nat, n <= m PROVE Load(n) <= Load(m)
  <2>1. m - n \in Nat /\ m = n + (m - n)
      BY <1>2
  <2>2. Costliest * (n + (m - n)) = Costliest * n + Costliest * (m - n) /\ Costliest * (m - n) \in Nat
        /\ Costliest * n \in Nat
      BY <2>1, CostFacts, Distribute
  <2>3. Load(m) = Costliest * m /\ Load(n) = Costliest * n
      BY CostFacts DEF Load
  <2>4. Load(m) = Costliest * n + Costliest * (m - n)
      BY <2>1, <2>2, <2>3
  <2>. QED  BY <2>2, <2>3, <2>4
<1>. QED  BY <1>1, <1>2

\* The calls of a container that were admitted and not yet charged.
Flying(c) == {k \in Calls : call[k].at \in {"checked", "upstream", "ollama"} /\ call[k].c = c}
Load1(c) == Load(Cardinality(Flying(c)))
AllLoad == Load(Cardinality(Calls))

\* No container is registered twice, or started again with what was stored.
Once == restarts = 0 /\ "again" \notin world.may

\* A copy of what a container spent that is older than what the proxy counts.
Old(c, milli) == Micro(milli) <= spending[c]

Holds(c, m) ==
    \/ m = usage[c] \/ m = worker[c].value
    \/ \E t \in stray : t.c = c /\ m = t.value
    \/ \E k \in Calls : call[k].at = "persist" /\ call[k].c = c /\ m = call[k].total
    \/ setup[c].at = "read" /\ m = setup[c].spent

Behind(c) == \A m \in Nat : Holds(c, m) => Old(c, m)

\* Until its registration is through, the copies there are of a container's spending are old:
\* so the registration can do no more than lower the count.
Fresh(c) == c \notin Known \/ setup[c].at # "none"
FreshOK(c) == (c \notin Known => setup[c].at = "none") /\ (Fresh(c) => Behind(c))

\* A container with a call under way, or that was charged, has a budget that its count and
\* what the calls under way may add stay near to.
Bounded(c) ==
    Flying(c) # {} \/ charged[c] > 0 =>
        \/ allowance[c] >= world.most
        \/ spending[c] + Load1(c) < allowance[c] + AllLoad

\* Who was charged was so by a call that cost something.
CostOK(c) == charged[c] > 0 => AllCosts # {} /\ AllLoad > 0

OverInv ==
    /\ Typed /\ LivesOK /\ TotalCharged <= world.most
    /\ \A c \in Containers : CostOK(c)
    /\ Once => \A c \in Containers : FreshOK(c) /\ Bounded(c)

LEMMA FlyingFacts ==
    ASSUME NEW c
    PROVE  /\ IsFiniteSet(Flying(c)) /\ Cardinality(Flying(c)) \in Nat /\ Cardinality(Calls) \in Nat
           /\ Cardinality(Flying(c)) <= Cardinality(Calls)
           /\ Load1(c) \in Nat /\ AllLoad \in Nat /\ Load1(c) <= AllLoad
<1>1. Flying(c) \in SUBSET Calls
    BY DEF Flying
<1>2. /\ IsFiniteSet(Flying(c)) /\ Cardinality(Flying(c)) \in Nat /\ Cardinality(Calls) \in Nat
      /\ Cardinality(Flying(c)) <= Cardinality(Calls)
    BY <1>1, FiniteFacts, FS_Subset, FS_CardinalityType
<1>. QED  BY <1>2, LoadFacts DEF Load1, AllLoad

\* Fewer calls, a lower count or a larger budget keep the bound.
LEMMA StillBounded ==
    ASSUME NEW c \in Containers, Bounded(c), Typed, Typed',
           Flying(c)' \subseteq Flying(c), spending'[c] <= spending[c], charged'[c] = charged[c],
           allowance[c] <= allowance'[c], world' = world
    PROVE  Bounded(c)'
<1>1. /\ spending[c] \in Nat /\ spending'[c] \in Nat /\ allowance[c] \in Nat /\ allowance'[c] \in Nat
      /\ world.most \in Nat
    BY MostIsNat DEF Typed, Billed, CountOK, RestOK
<1>2. /\ Cardinality(Flying(c)') \in Nat /\ Cardinality(Flying(c)) \in Nat
      /\ Cardinality(Flying(c)') <= Cardinality(Flying(c))
  <2>. DEFINE F == Flying(c)'
  <2>. HIDE DEF F
  <2>1. F \in SUBSET Flying(c)
      BY DEF F
  <2>2. Cardinality(F) <= Cardinality(Flying(c)) /\ IsFiniteSet(F)
      BY <2>1, FlyingFacts, FS_Subset
  <2>3. Cardinality(F) \in Nat
      BY <2>2, FS_CardinalityType
  <2>. QED  BY <2>2, <2>3, FlyingFacts DEF F
<1>3. Load1(c)' <= Load1(c) /\ Load1(c)' \in Nat /\ Load1(c) \in Nat /\ AllLoad \in Nat
    BY <1>2, LoadFacts, FlyingFacts DEF Load1
<1>4. AllLoad' = AllLoad
    BY DEF AllLoad
<1>. QED  BY <1>1, <1>3, <1>4 DEF Bounded

\* A call is admitted while the count is less than the budget: so however many calls are
\* under way, what they may add begins below it.
LEMMA AdmitBounded ==
    ASSUME NEW c \in Containers, Typed, Typed', NEW budget \in Nat, Admitted(c, budget),
           budget >= world.most \/ spending[c] < budget, UNCHANGED <<spending, world>>
    PROVE  Bounded(c)'
<1>1. spending[c] \in Nat /\ allowance[c] \in Nat /\ world.most \in Nat
    BY MostIsNat DEF Typed, Billed, CountOK, RestOK
<1>2. allowance'[c] = IF budget > allowance[c] THEN budget ELSE allowance[c]
    BY DEF Admitted, Typed, RestOK
<1>3. Load1(c)' \in Nat /\ AllLoad' \in Nat /\ Load1(c)' <= AllLoad'
  <2>1. Flying(c)' \in SUBSET Calls
      BY DEF Flying
  <2>. DEFINE F == Flying(c)'
  <2>. HIDE DEF F
  <2>2. IsFiniteSet(F) /\ Cardinality(F) <= Cardinality(Calls)
      BY <2>1, FiniteFacts, FS_Subset DEF F
  <2>3. Cardinality(F) \in Nat /\ Cardinality(Calls) \in Nat
      BY <2>2, FS_CardinalityType, FiniteFacts
  <2>4. Load(Cardinality(F)) \in Nat /\ Load(Cardinality(Calls)) \in Nat
        /\ Load(Cardinality(F)) <= Load(Cardinality(Calls))
      BY <2>2, <2>3, LoadFacts
  <2>. QED  BY <2>4 DEF F, Load1, AllLoad
<1>. QED  BY <1>1, <1>2, <1>3 DEF Bounded

\* A charge costs no more than the call, which is under way no longer, was counted with.
LEMMA ChargeBounded ==
    ASSUME Typed, LivesOK, NEW k \in Calls, call[k].at \in {"checked", "upstream", "ollama"},
           NEW micro \in AllCosts, Charge(k, micro), Typed',
           UNCHANGED <<allowance, world>>, NEW d \in Containers, Bounded(d)
    PROVE  Bounded(d)'
<1>. DEFINE c == call[k].c
            r == [at |-> "persist", c |-> c, total |-> Milli(spending[c] + micro)]
<1>1. c \in Containers /\ micro \in Nat /\ micro <= Costliest /\ Costliest \in Nat
    BY CostFacts DEF Typed, Billed, CallOK
<1>2. /\ spending' = [spending EXCEPT ![c] = @ + micro] /\ charged' = [charged EXCEPT ![c] = @ + micro]
      /\ call' = [call EXCEPT ![k] = r] /\ r.at = "persist"
    BY DEF Charge
<1>. HIDE DEF c, r
<1>3. /\ spending \in [Containers -> Nat] /\ charged \in [Containers -> Nat] /\ allowance \in [Containers -> Nat]
      /\ call \in [Calls -> CallRecords] /\ world.most \in Nat
    BY MostIsNat DEF Typed, Billed, CountOK, RestOK, CallOK
<1>4. Flying(d)' = Flying(d) \ {k} /\ (k \in Flying(d) <=> d = c)
    BY <1>2, <1>3 DEF Flying, c
<1>5. CASE d # c
  <2>1. spending'[d] = spending[d] /\ charged'[d] = charged[d] /\ Flying(d)' \subseteq Flying(d)
      BY <1>1, <1>2, <1>3, <1>4, <1>5
  <2>2. allowance'[d] = allowance[d] /\ allowance[d] \in Nat /\ spending[d] \in Nat
      BY <1>3
  <2>. QED  BY <2>1, <2>2, StillBounded
<1>6. CASE d = c
  <2>. DEFINE n == Cardinality(Flying(d)) - 1
  <2>1. k \in Flying(d) /\ Flying(d)' = Flying(d) \ {k}
      BY <1>4, <1>6
  <2>2. Cardinality(Flying(d) \ {k}) = n /\ IsFiniteSet(Flying(d) \ {k})
      BY <2>1, FlyingFacts, FS_RemoveElement
  <2>3. n \in Nat /\ Cardinality(Flying(d)) = n + 1
      BY <2>2, FlyingFacts, FS_CardinalityType
  <2>. HIDE DEF n
  <2>4. Load1(d)' = Load(n)
      BY <2>1, <2>2 DEF Load1
  <2>5. Load1(d) = Load(n) + Costliest /\ Load(n) \in Nat /\ AllLoad \in Nat
      BY <2>3, LoadFacts, FlyingFacts DEF Load1
  <2>6. allowance[d] >= world.most \/ spending[d] + Load1(d) < allowance[d] + AllLoad
      BY <1>6, <2>1 DEF Bounded
  <2>7. spending'[d] = spending[d] + micro /\ spending[d] \in Nat /\ allowance[d] \in Nat
      BY <1>1, <1>2, <1>3, <1>6
  <2>8. AllLoad' = AllLoad
      BY DEF AllLoad
  <2>. QED  BY <1>1, <1>3, <1>6, <2>4, <2>5, <2>6, <2>7, <2>8 DEF Bounded
<1>. QED  BY <1>5, <1>6

LEMMA ChargeCost ==
    ASSUME Typed, NEW k \in Calls, call[k].at # "none", NEW micro \in AllCosts, micro > 0, Charge(k, micro),
           NEW d \in Containers, CostOK(d)
    PROVE  CostOK(d)'
<1>1. Costliest \in Nat /\ micro \in Nat /\ micro <= Costliest /\ AllCosts # {}
    BY CostFacts
<1>2. Cardinality(Calls) \in Nat /\ Cardinality(Calls) # 0
    BY FiniteFacts, FS_CardinalityType, FS_EmptySet
<1>3. AllLoad > 0
  <2>1. Load(1) = Load(0) + Costliest /\ Load(0) \in Nat /\ Load(1) <= AllLoad /\ Load(1) \in Nat /\ AllLoad \in Nat
      BY <1>2, LoadFacts DEF AllLoad
  <2>. QED  BY <1>1, <2>1
<1>. QED  BY <1>1, <1>3 DEF CostOK, AllLoad, Load, Costliest, MaxCost, AllCosts

\* A step that raises the count, if anything, and stores what was stored, nothing, or the count.
LEMMA StillBehind ==
    ASSUME NEW c \in Containers, Typed, Typed', Behind(c), spending[c] <= spending'[c],
           \A m \in Nat : Holds(c, m)' => Holds(c, m) \/ m = 0 \/ m = Milli(spending'[c])
    PROVE  Behind(c)'
<1>1. spending[c] \in Nat /\ spending'[c] \in Nat
    BY DEF Typed, Billed, CountOK
<1>2. ASSUME NEW m \in Nat, Holds(c, m)' PROVE Micro(m) <= spending'[c]
  <2>1. Micro(m) \in Nat
      BY MicroNat
  <2>2. CASE Holds(c, m)
    <3>1. Micro(m) <= spending[c]
        BY <2>2 DEF Behind, Old
    <3>. QED  BY <1>1, <2>1, <3>1
  <2>3. CASE m = 0
    <3>1. Micro(m) = 0
        BY <2>3, MicroNat
    <3>. QED  BY <1>1, <3>1
  <2>4. CASE m = Milli(spending'[c])
    <3>. DEFINE n == spending'[c]
    <3>1. n \in Nat /\ m = Milli(n)
        BY <1>1, <2>4
    <3>. HIDE DEF n
    <3>2. Micro(m) <= n
        BY <3>1, RoundedDown
    <3>. QED  BY <3>2 DEF n
  <2>. QED  BY <1>2, <2>2, <2>3, <2>4
<1>. QED  BY <1>2 DEF Behind, Old

LEMMA StillFresh ==
    ASSUME NEW c \in Containers, Typed, Typed', FreshOK(c), Known \subseteq Known',
           c \notin Known' \/ setup'[c].at # "none" => Fresh(c),
           c \notin Known' => setup'[c].at = "none",
           spending[c] <= spending'[c],
           \A m \in Nat : Holds(c, m)' => Holds(c, m) \/ m = 0 \/ m = Milli(spending'[c])
    PROVE  FreshOK(c)'
<1>1. Fresh(c)' => Fresh(c)
    BY DEF Fresh
<1>2. Fresh(c)' => Behind(c)'
    BY <1>1, StillBehind DEF FreshOK
<1>. QED  BY <1>2 DEF FreshOK

\* Steps of calls.
LEMMA ProxyFresh ==
    ASSUME Typed, Typed', LivesOK, NEW k \in Calls, Proxy(k), NEW c \in Containers, FreshOK(c)
    PROVE  FreshOK(c)'
<1>0. /\ call \in [Calls -> CallRecords] /\ spending \in [Containers -> Nat] /\ usage \in [Containers -> Nat]
      /\ NoCall.at = "none" /\ spending[c] \in Nat
    BY DEF Typed, Billed, CallOK, CountOK, RowOK, NoCall
<1>1. UNCHANGED <<registered, gone, worker, stray, setup>>
  <2>1. ASSUME NEW d \in Containers, CheckBudget(k, d) \/ CheckOllama(k, d)
        PROVE  UNCHANGED <<registered, gone, worker, stray, setup>>
      BY <2>1 DEF CheckBudget, CheckOllama, storeVars
  <2>2. CASE CheckScopes(k) \/ Free(k) \/ Persist(k)
      BY <2>2 DEF CheckScopes, Free, Persist, storeVars, auxVars
  <2>3. CASE (\E cost \in Costs : Respond(k, cost)) \/ \E cost \in OllamaCosts : Bill(k, cost)
      BY <2>3 DEF Respond, Bill, storeVars
  <2>. QED  BY <2>1, <2>2, <2>3 DEF Proxy
<1>2. Known' = Known
    BY <1>1 DEF Known
<1>3. ASSUME spending[c] <= spending'[c],
             \A m \in Nat : Holds(c, m)' => Holds(c, m) \/ m = 0 \/ m = Milli(spending'[c])
      PROVE  FreshOK(c)'
  <2>1. c \notin Known' \/ setup'[c].at # "none" => Fresh(c)
      BY <1>1, <1>2 DEF Fresh
  <2>2. c \notin Known' => setup'[c].at = "none"
      BY <1>1, <1>2 DEF FreshOK
  <2>. QED  BY <1>2, <1>3, <2>1, <2>2, StillFresh
<1>4. ASSUME NEW r \in CallRecords, r.at # "persist", call' = [call EXCEPT ![k] = r],
             UNCHANGED <<spending, usage>>
      PROVE  FreshOK(c)'
  <2>1. \A m \in Nat : Holds(c, m)' => Holds(c, m)
      BY <1>0, <1>1, <1>4 DEF Holds
  <2>. QED  BY <1>0, <1>3, <1>4, <2>1
<1>5. ASSUME NEW d \in Containers, CheckBudget(k, d) \/ CheckOllama(k, d) PROVE FreshOK(c)'
  <2>1. PICK label \in {"checked", "ollama"} :
            call' = [call EXCEPT ![k] = [NoCall EXCEPT !.at = label, !.c = d]]
      BY <1>5 DEF CheckBudget, CheckOllama
  <2>. DEFINE r == [NoCall EXCEPT !.at = label, !.c = d]
  <2>2. r \in CallRecords /\ r.at = label
      BY DEF NoCall, CallRecords
  <2>3. call' = [call EXCEPT ![k] = r]
      BY <2>1
  <2>. HIDE DEF r
  <2>4. UNCHANGED <<spending, usage>>
      BY <1>5 DEF CheckBudget, CheckOllama, proxyVars, storeVars
  <2>. QED  BY <1>4, <2>2, <2>3, <2>4
<1>6. CASE CheckScopes(k) \/ Free(k)
  <2>. DEFINE r == [call[k] EXCEPT !.at = "upstream"]
  <2>1. /\ call' = [call EXCEPT ![k] = NoCall] \/ call' = [call EXCEPT ![k].at = "upstream"]
        /\ UNCHANGED <<spending, usage>>
      BY <1>6 DEF CheckScopes, Free, NoLongerCalling, CallAt, proxyVars, storeVars, auxVars
  <2>2. r \in CallRecords /\ r.at = "upstream" /\ NoCall \in CallRecords
      BY <1>0 DEF CallRecords, NoCall
  <2>3. call' = [call EXCEPT ![k] = NoCall] \/ call' = [call EXCEPT ![k] = r]
      BY <1>0, <2>1
  <2>. HIDE DEF r
  <2>. QED  BY <1>0, <1>4, <2>1, <2>2, <2>3
<1>7. CASE Persist(k)
  <2>1. /\ call[k].at = "persist" /\ usage' = [usage EXCEPT ![call[k].c] = call[k].total]
        /\ call' = [call EXCEPT ![k] = NoCall] /\ UNCHANGED spending
      BY <1>7 DEF Persist, SetUsage, NoLongerCalling, proxyVars
  <2>2. \A m \in Nat : Holds(c, m)' => Holds(c, m)
      BY <1>0, <1>1, <2>1 DEF Holds
  <2>. QED  BY <1>0, <1>3, <2>1, <2>2
<1>8. ASSUME NEW micro \in Nat, call[k].at # "none", Charge(k, micro), UNCHANGED usage
      PROVE  FreshOK(c)'
  <2>. DEFINE d == call[k].c
              total == Milli(spending[d] + micro)
              r == [at |-> "persist", c |-> d, total |-> total]
  <2>1. d \in Containers
      BY <1>8 DEF Typed, Billed, CallOK
  <2>2. spending' = [spending EXCEPT ![d] = @ + micro] /\ call' = [call EXCEPT ![k] = r]
      BY <1>8 DEF Charge
  <2>3. r.at = "persist" /\ r.c = d /\ r.total = total
      OBVIOUS
  <2>4. d = c => total = Milli(spending'[c])
      BY <1>0, <2>2
  <2>. HIDE DEF d, total, r
  <2>5. spending[c] <= spending'[c]
      BY <1>0, <1>8, <2>1, <2>2
  <2>6. ASSUME NEW m \in Nat, Holds(c, m)' PROVE Holds(c, m) \/ m = Milli(spending'[c])
    <3>1. ASSUME NEW j \in Calls, call'[j].at = "persist", call'[j].c = c, m = call'[j].total
          PROVE  Holds(c, m) \/ m = Milli(spending'[c])
      <4>1. CASE j = k
          BY <1>0, <2>2, <2>3, <2>4, <3>1, <4>1
      <4>2. CASE j # k
          BY <1>0, <2>2, <3>1, <4>2 DEF Holds
      <4>. QED  BY <4>1, <4>2
    <3>. QED  BY <1>1, <1>8, <2>6, <3>1 DEF Holds
  <2>. QED  BY <1>3, <2>5, <2>6
<1>9. ASSUME NEW cost \in Costs, Respond(k, cost) PROVE FreshOK(c)'
  <2>1. call[k].at # "none" /\ Charge(k, cost) /\ cost \in Nat /\ UNCHANGED usage
      BY <1>9, SpendingFacts DEF Respond, storeVars
  <2>. QED  BY <1>8, <2>1
<1>10. ASSUME NEW cost \in OllamaCosts, Bill(k, cost) PROVE FreshOK(c)'
  <2>1. call[k].at # "none" /\ Charge(k, Micro(cost)) /\ Micro(cost) \in Nat /\ UNCHANGED usage
      BY <1>10, SpendingFacts, MicroNat DEF Bill, storeVars
  <2>. QED  BY <1>8, <2>1
<1>. QED  BY <1>5, <1>6, <1>7, <1>9, <1>10 DEF Proxy

\* Steps of workers and of ticks that outlive them.
LEMMA TickFresh ==
    ASSUME Typed, Typed', NEW c \in Containers, FreshOK(c),
           (\E d \in Containers : Worker(d)) \/ (\E t \in stray : StrayRead(t) \/ StrayWrite(t))
    PROVE  FreshOK(c)'
<1>0. /\ usage \in [Containers -> Nat] /\ worker \in [Containers -> WorkerRecords] /\ spending[c] \in Nat
      /\ stray \subseteq StrayRecords
    BY DEF Typed, Billed, CountOK, RowOK, WorkerOK, StrayOK
<1>1. UNCHANGED <<registered, gone, call, setup, spending>>
    BY DEF Worker, TickRead, TickWrite, StrayRead, StrayWrite, proxyVars, storeVars, auxVars
<1>2. ASSUME NEW m \in Nat, Holds(c, m)' PROVE Holds(c, m) \/ m = 0 \/ m = Milli(spending'[c])
  <2>1. ASSUME NEW d \in Containers, TickRead(d) PROVE Holds(c, m) \/ m = Milli(spending'[c])
    <3>1. worker' = [worker EXCEPT ![d] = [at |-> "write", value |-> Milli(spending[d])]] /\ UNCHANGED <<usage, stray>>
        BY <2>1 DEF TickRead, WorkerAt, storeVars
    <3>2. worker'[c].value = worker[c].value \/ worker'[c].value = Milli(spending'[c])
        BY <1>0, <1>1, <3>1
    <3>. QED  BY <1>1, <1>2, <3>1, <3>2 DEF Holds
  <2>2. ASSUME NEW d \in Containers, TickWrite(d) PROVE Holds(c, m) \/ m = 0
    <3>1. /\ usage' = [usage EXCEPT ![d] = worker[d].value]
          /\ worker' = [worker EXCEPT ![d] = [at |-> "idle", value |-> 0]] /\ UNCHANGED stray
        BY <2>2 DEF TickWrite, SetUsage, WorkerAt
    <3>2. /\ usage'[c] = usage[c] \/ usage'[c] = worker[c].value
          /\ worker'[c].value = worker[c].value \/ worker'[c].value = 0
        BY <1>0, <3>1
    <3>. QED  BY <1>1, <1>2, <3>1, <3>2 DEF Holds
  <2>3. ASSUME NEW t \in stray, StrayRead(t) PROVE Holds(c, m) \/ m = Milli(spending'[c])
    <3>. DEFINE w == [c |-> t.c, at |-> "write", value |-> Milli(spending[t.c])]
    <3>1. stray' \subseteq stray \cup {w} /\ UNCHANGED <<usage, worker>>
        BY <2>3 DEF StrayRead, storeVars
    <3>2. w.c = c => w.value = Milli(spending'[c])
        BY <1>1
    <3>. HIDE DEF w
    <3>. QED  BY <1>1, <1>2, <3>1, <3>2 DEF Holds
  <2>4. ASSUME NEW t \in stray, StrayWrite(t) PROVE Holds(c, m)
    <3>1. usage' = [usage EXCEPT ![t.c] = t.value] /\ stray' = stray \ {t} /\ UNCHANGED worker
        BY <2>4 DEF StrayWrite, SetUsage
    <3>2. usage'[c] = usage[c] \/ (t.c = c /\ usage'[c] = t.value)
        BY <1>0, <3>1
    <3>. QED  BY <1>1, <1>2, <3>1, <3>2 DEF Holds
  <2>. QED  BY <2>1, <2>2, <2>3, <2>4 DEF Worker
<1>. QED  BY <1>0, <1>1, <1>2, StillFresh DEF Fresh, FreshOK, Known

\* A registration that goes on ends with a count that is no higher.
LEMMA AdminFresh ==
    ASSUME Typed, Typed', LivesOK, Once, NEW d \in Containers, Admin(d), NEW c \in Containers, FreshOK(c)
    PROVE  FreshOK(c)' /\ spending'[c] <= spending[c]
<1>0. /\ usage \in [Containers -> Nat] /\ worker \in [Containers -> WorkerRecords]
      /\ spending \in [Containers -> Nat] /\ spending[c] \in Nat
      /\ stray \subseteq StrayRecords /\ setup \in [Containers -> SetupRecords]
    BY DEF Typed, Billed, CountOK, RowOK, WorkerOK, StrayOK, SetupOK
<1>1. ASSUME NEW s \in Segments \cup {None}, RegisterStore(d, s)
      PROVE  FreshOK(c)' /\ spending'[c] <= spending[c]
  <2>1. /\ d \notin Known /\ registered' = registered \cup {d}
        /\ worker' = [worker EXCEPT ![d] = IF worker[d].at = "none" THEN [at |-> "idle", value |-> 0] ELSE worker[d]]
        /\ setup' = [setup EXCEPT ![d].at = "stored"]
        /\ UNCHANGED <<spending, usage, call, stray, gone>>
      BY <1>1 DEF RegisterStore, SetupAt, Once, Known
  <2>2. Known' = Known \cup {d}
      BY <2>1 DEF Known
  <2>3. setup'[c].at # "none" => Fresh(c)
      BY <1>0, <2>1 DEF Fresh
  <2>4. c \notin Known' => setup'[c].at = "none"
      BY <1>0, <2>1, <2>2 DEF FreshOK
  <2>5. /\ worker'[c].value = worker[c].value \/ worker'[c].value = 0
        /\ setup'[c].at = "read" => setup[c].at = "read" /\ setup'[c].spent = setup[c].spent
      BY <1>0, <2>1
  <2>6. ASSUME NEW m \in Nat, Holds(c, m)' PROVE Holds(c, m) \/ m = 0
      BY <2>1, <2>5, <2>6 DEF Holds
  <2>. QED  BY <1>0, <2>1, <2>2, <2>3, <2>4, <2>6, StillFresh DEF Fresh
<1>2. CASE RegisterRead(d)
  <2>1. /\ setup[d].at = "stored"
        /\ setup' = [setup EXCEPT ![d] = [at |-> "read", budget |-> limit[d], spent |-> usage[d]]]
        /\ UNCHANGED <<spending, usage, call, stray, worker, registered, gone>>
      BY <1>2 DEF RegisterRead, proxyVars, storeVars, auxVars
  <2>2. Known' = Known
      BY <2>1 DEF Known
  <2>3. /\ setup'[c].at # "none" => setup[c].at # "none"
        /\ setup[c].at = "none" => setup'[c].at = "none"
        /\ setup'[c] = setup[c] \/ setup'[c].spent = usage[c]
      BY <1>0, <2>1
  <2>4. ASSUME NEW m \in Nat, Holds(c, m)' PROVE Holds(c, m)
      BY <2>1, <2>3, <2>4 DEF Holds
  <2>5. c \notin Known' \/ setup'[c].at # "none" => Fresh(c)
      BY <2>2, <2>3 DEF Fresh
  <2>6. c \notin Known' => setup'[c].at = "none"
      BY <2>2, <2>3 DEF FreshOK
  <2>. QED  BY <1>0, <2>1, <2>2, <2>4, <2>5, <2>6, StillFresh
<1>3. CASE RegisterProxy(d)
  <2>1. /\ setup[d].at = "read" /\ spending' = [spending EXCEPT ![d] = Micro(setup[d].spent)]
        /\ setup' = [setup EXCEPT ![d].at = "none"]
        /\ UNCHANGED <<usage, call, stray, worker, registered, gone>>
      BY <1>3 DEF RegisterProxy, SetupAt, storeVars, auxVars
  <2>2. Known' = Known
      BY <2>1 DEF Known
  <2>3. CASE c = d
    <3>1. setup[c].spent \in Nat /\ Holds(c, setup[c].spent) /\ Fresh(c) /\ c \in Known
        BY <1>0, <2>1, <2>3 DEF SetupRecords, Holds, Fresh, FreshOK
    <3>2. Micro(setup[c].spent) <= spending[c]
        BY <3>1 DEF FreshOK, Behind, Old
    <3>3. setup'[c].at = "none" /\ spending'[c] = Micro(setup[c].spent)
        BY <1>0, <2>1, <2>3
    <3>. QED  BY <2>2, <3>1, <3>2, <3>3 DEF FreshOK, Fresh
  <2>4. CASE c # d
    <3>1. setup'[c] = setup[c] /\ spending'[c] = spending[c]
        BY <1>0, <2>1, <2>4
    <3>2. ASSUME NEW m \in Nat, Holds(c, m)' PROVE Holds(c, m)
        BY <2>1, <3>1, <3>2 DEF Holds
    <3>3. c \notin Known' \/ setup'[c].at # "none" => Fresh(c)
        BY <2>2, <3>1 DEF Fresh
    <3>4. c \notin Known' => setup'[c].at = "none"
        BY <2>2, <3>1 DEF FreshOK
    <3>. QED  BY <1>0, <2>2, <3>1, <3>2, <3>3, <3>4, StillFresh
  <2>. QED  BY <2>3, <2>4
<1>4. CASE (\E b \in Budgets : LimitStore(d, b)) \/ UpdateBudget(d) \/ Unassign(d)
  <2>1. UNCHANGED <<spending, usage, call, stray, worker, setup, registered, gone>>
      BY <1>4 DEF LimitStore, UpdateBudget, Unassign, proxyVars, storeVars, controlVars, auxVars
  <2>. QED  BY <1>0, <2>1 DEF FreshOK, Fresh, Behind, Old, Holds, Known
<1>5. CASE RemoveStop(d)
  <2>1. /\ d \in registered /\ worker' = [worker EXCEPT ![d] = Nothing] /\ gone' = gone \cup {d}
        /\ stray' = stray \/ \E w \in InFlight(d) : stray' = stray \cup {[c |-> d, at |-> w.at, value |-> w.value]}
        /\ UNCHANGED <<spending, usage, call, setup, registered>>
      BY <1>5 DEF RemoveStop, proxyVars, storeVars
  <2>2. Known' = Known
      BY <2>1 DEF Known
  <2>3. \A w \in InFlight(d) : w.value = 0 \/ w.value = worker[d].value
    <3>1. worker[d].at \in {"none", "idle", "write"}
        BY <1>0 DEF WorkerRecords
    <3>2. CASE worker[d].at = "none"
        BY <3>2 DEF InFlight
    <3>3. CASE worker[d].at = "idle"
        BY <3>3 DEF InFlight
    <3>4. CASE worker[d].at = "write"
        BY <3>4 DEF InFlight
    <3>. QED  BY <3>1, <3>2, <3>3, <3>4
  <2>4. worker'[c].value = worker[c].value \/ worker'[c].value = 0
      BY <1>0, <2>1 DEF Nothing
  <2>5. \A t \in stray' : t.c = c => t \in stray \/ t.value = 0 \/ t.value = worker[c].value
    <3>1. CASE stray' = stray
        BY <3>1
    <3>2. ASSUME NEW w \in InFlight(d), stray' = stray \cup {[c |-> d, at |-> w.at, value |-> w.value]}
          PROVE  \A t \in stray' : t.c = c => t \in stray \/ t.value = 0 \/ t.value = worker[c].value
        BY <2>3, <3>2
    <3>. QED  BY <2>1, <3>1, <3>2
  <2>6. ASSUME NEW m \in Nat, Holds(c, m)' PROVE Holds(c, m) \/ m = 0
      BY <2>1, <2>4, <2>5, <2>6 DEF Holds
  <2>7. c \notin Known' \/ setup'[c].at # "none" => Fresh(c)
      BY <2>1, <2>2 DEF Fresh
  <2>8. c \notin Known' => setup'[c].at = "none"
      BY <2>1, <2>2 DEF FreshOK
  <2>. QED  BY <1>0, <2>1, <2>2, <2>6, <2>7, <2>8, StillFresh
<1>6. CASE Remove(d)
  <2>1. /\ d \in removing /\ registered' = registered \ {d} /\ usage' = [usage EXCEPT ![d] = 0]
        /\ UNCHANGED <<spending, call, stray, worker, setup, gone>>
      BY <1>6 DEF Remove, StoreRemove, proxyVars, auxVars
  <2>2. Known' = Known
      BY <2>1 DEF Known, LivesOK
  <2>3. usage'[c] = usage[c] \/ usage'[c] = 0
      BY <1>0, <2>1
  <2>4. ASSUME NEW m \in Nat, Holds(c, m)' PROVE Holds(c, m) \/ m = 0
      BY <2>1, <2>3, <2>4 DEF Holds
  <2>5. c \notin Known' \/ setup'[c].at # "none" => Fresh(c)
      BY <2>1, <2>2 DEF Fresh
  <2>6. c \notin Known' => setup'[c].at = "none"
      BY <2>1, <2>2 DEF FreshOK
  <2>. QED  BY <1>0, <2>1, <2>2, <2>4, <2>5, <2>6, StillFresh
<1>. QED  BY <1>1, <1>2, <1>3, <1>4, <1>5, <1>6 DEF Admin

\* Less than m milli-cents, rounded down, is less than m milli-cents.
LEMMA RoundedBelow ==
    ASSUME NEW n \in Nat, NEW m \in Nat, Milli(n) < m
    PROVE  n < Micro(m)
<1>1. \A u \in Nat \ {0} : n \div u \in Nat /\ (n \div u < m => n < m * u)
    OBVIOUS
<1>. QED  BY <1>1, SpendingFacts DEF Micro, Milli

LEMMA InitOver == Init => OverInv
<1>. SUFFICES ASSUME Init PROVE OverInv
    OBVIOUS
<1>1. Typed /\ LivesOK
    BY InitKept DEF KeptInv
<1>2. TotalCharged <= world.most
  <2>1. \A x \in Containers : charged[x] \in Nat /\ charged[x] = 0 /\ charged[x] * 1 <= charged[x]
      BY DEF Init
  <2>. DEFINE g == [x \in Containers |-> 0]
              zeros == SumFunctionOnSet(g, Containers)
  <2>2. TotalCharged = zeros
      BY DEF Init, TotalCharged
  <2>3. 2 * zeros <= zeros /\ zeros \in Nat
    <3>1. \A x \in Containers : g[x] \in Nat /\ 2 * g[x] <= g[x]
        OBVIOUS
    <3>. HIDE DEF g
    <3>. QED  BY <3>1, FiniteFacts, SumScaled, SumNat
  <2>. HIDE DEF zeros
  <2>4. world.most \in Nat
      BY MostIsNat DEF Init
  <2>. QED  BY <2>2, <2>3, <2>4
<1>3. \A c \in Containers : charged[c] = 0 /\ CostOK(c)
    BY DEF Init, CostOK
<1>4. ASSUME NEW c \in Containers PROVE FreshOK(c) /\ Bounded(c)
  <2>1. Flying(c) = {}
      BY DEF Flying, Init, NoCall
  <2>2. \A m \in Nat : Holds(c, m) => m = 0
      BY DEF Init, Holds, NoCall, Nothing
  <2>3. Behind(c)
      BY <2>2, MicroNat DEF Init, Behind, Old
  <2>4. setup[c].at = "none"
      BY DEF Init
  <2>. QED  BY <1>3, <2>1, <2>3, <2>4 DEF Bounded, FreshOK
<1>. QED  BY <1>1, <1>2, <1>3, <1>4 DEF OverInv

\* Steps that charge nobody and admit nobody.
LEMMA StillOver ==
    ASSUME OverInv, Typed', LivesOK', UNCHANGED <<charged, world, allowance>>,
           Once' => Once,
           \A c \in Containers : Flying(c)' \subseteq Flying(c),
           Once => \A c \in Containers : FreshOK(c)' /\ spending'[c] <= spending[c]
    PROVE  OverInv'
<1>1. TotalCharged' <= world'.most /\ \A c \in Containers : CostOK(c)'
    BY DEF OverInv, TotalCharged, CostOK, AllLoad
<1>2. ASSUME Once, NEW c \in Containers PROVE Bounded(c)'
  <2>1. Typed /\ Bounded(c) /\ spending'[c] <= spending[c] /\ Flying(c)' \subseteq Flying(c)
      BY <1>2 DEF OverInv
  <2>2. allowance[c] <= allowance'[c] /\ charged'[c] = charged[c] /\ world' = world
      BY DEF OverInv, Typed, RestOK
  <2>. QED  BY <2>1, <2>2, StillBounded
<1>. QED  BY <1>1, <1>2 DEF OverInv

LEMMA AdmitOver ==
    ASSUME OverInv, Typed', LivesOK', Once' => Once, NEW k \in Calls, NEW c \in Containers,
           CheckBudget(k, c) \/ CheckOllama(k, c), Once => \A d \in Containers : FreshOK(d)'
    PROVE  OverInv'
<1>1. Typed /\ UNCHANGED <<charged, world, spending>>
    BY DEF OverInv, CheckBudget, CheckOllama, proxyVars
<1>2. TotalCharged' <= world'.most /\ \A d \in Containers : CostOK(d)'
    BY <1>1 DEF OverInv, TotalCharged, CostOK, AllLoad
<1>3. /\ spending \in [Containers -> Nat] /\ budgets \in [Containers -> Nat] /\ limit \in [Containers -> Nat]
      /\ allowance \in [Containers -> Nat] /\ call \in [Calls -> CallRecords] /\ world.most \in Nat
    BY <1>1, MostIsNat DEF Typed, Billed, CountOK, RowOK, CallOK, RestOK
<1>4. \E budget \in Nat : Admitted(c, budget) /\ (budget >= world.most \/ spending[c] < budget)
  <2>1. CASE CheckBudget(k, c)
    <3>. DEFINE budget == IF budgets[c] = 0 THEN world.most ELSE budgets[c]
    <3>1. budget \in Nat /\ (budget >= world.most \/ spending[c] < budget)
        BY <1>3, <2>1 DEF CheckBudget, OverBudget
    <3>2. Admitted(c, budget)
        BY <2>1 DEF CheckBudget
    <3>. QED  BY <3>1, <3>2
  <2>2. CASE CheckOllama(k, c)
    <3>1. CASE limit[c] = 0
      <4>1. Admitted(c, world.most)
          BY <2>2, <3>1 DEF CheckOllama
      <4>. QED  BY <1>3, <4>1
    <3>2. CASE limit[c] # 0
      <4>1. Admitted(c, Micro(limit[c])) /\ Milli(spending[c]) < limit[c]
        <5>1. Milli(spending[c]) \in Nat
            BY <1>3, RoundedDown
        <5>. QED  BY <1>3, <2>2, <3>2, <5>1 DEF CheckOllama
      <4>2. Micro(limit[c]) \in Nat /\ spending[c] < Micro(limit[c])
          BY <1>3, <4>1, RoundedBelow, MicroNat
      <4>. QED  BY <4>1, <4>2
    <3>. QED  BY <3>1, <3>2
  <2>. QED  BY <2>1, <2>2
<1>5. ASSUME Once, NEW d \in Containers PROVE Bounded(d)'
  <2>1. CASE d = c
      BY <1>1, <1>4, <2>1, AdmitBounded
  <2>2. CASE d # c
    <3>1. Bounded(d)
        BY <1>5 DEF OverInv
    <3>2. \E label \in {"checked", "ollama"} :
              call' = [call EXCEPT ![k] = [NoCall EXCEPT !.at = label, !.c = c]]
        BY DEF CheckBudget, CheckOllama
    <3>3. Flying(d)' \subseteq Flying(d)
        BY <1>3, <2>2, <3>2 DEF Flying, NoCall
    <3>4. allowance'[d] = allowance[d] /\ allowance[d] \in Nat /\ spending[d] \in Nat
        BY <1>3, <1>4, <2>2 DEF Admitted
    <3>. QED  BY <1>1, <1>3, <3>1, <3>3, <3>4, StillBounded
  <2>. QED  BY <2>1, <2>2
<1>. QED  BY <1>2, <1>5 DEF OverInv

LEMMA ChargeOver ==
    ASSUME OverInv, Typed', LivesOK', Once' => Once,
           NEW k \in Calls, call[k].at \in {"checked", "upstream", "ollama"},
           NEW micro \in AllCosts, micro > 0, Charge(k, micro), TotalCharged + micro <= world.most,
           UNCHANGED <<allowance, world>>, Once => \A d \in Containers : FreshOK(d)'
    PROVE  OverInv'
<1>1. Typed /\ LivesOK /\ \A d \in Containers : CostOK(d)
    BY DEF OverInv
<1>2. \A d \in Containers : CostOK(d)'
    BY <1>1, ChargeCost
<1>3. Once => \A d \in Containers : Bounded(d)'
    BY <1>1, ChargeBounded DEF OverInv
<1>4. TotalCharged' = TotalCharged + micro
  <2>. DEFINE c == call[k].c
              g == charged'
  <2>1. c \in Containers /\ micro \in Nat /\ charged \in [Containers -> Nat] /\ charged' = [charged EXCEPT ![c] = @ + micro]
      BY <1>1, CostFacts DEF Typed, Billed, CountOK, CallOK, Charge
  <2>. HIDE DEF c
  <2>2. /\ \A x \in Containers : charged[x] \in Nat /\ g[x] \in Nat
        /\ \A x \in Containers \ {c} : charged[x] = g[x]
        /\ g[c] = charged[c] + micro /\ charged[c] \in Nat
      BY <2>1
  <2>3. TotalCharged' = SumFunctionOnSet(g, Containers)
      BY DEF TotalCharged
  <2>. HIDE DEF g
  <2>4. SumFunctionOnSet(g, Containers) = TotalCharged - charged[c] + g[c] /\ TotalCharged \in Nat
      BY <2>1, <2>2, FiniteFacts, SumChange, SumNat DEF TotalCharged
  <2>. QED  BY <2>1, <2>2, <2>3, <2>4
<1>. QED  BY <1>2, <1>3, <1>4 DEF OverInv

LEMMA NextOver == OverInv /\ [Next]_vars => OverInv'
<1>. SUFFICES ASSUME OverInv, [Next]_vars PROVE OverInv'
    OBVIOUS
<1>1. Typed /\ LivesOK
    BY DEF OverInv
<1>2. Typed' /\ LivesOK'
    BY <1>1, NextTyped, NextLives
<1>3. Once' => Once
  <2>1. CASE Restart
      BY <1>1, <2>1 DEF Once, Restart, Typed, RestOK
  <2>2. ASSUME NEW k \in Calls, NEW c \in Containers, CheckBudget(k, c) \/ CheckOllama(k, c)
        PROVE  UNCHANGED <<world, restarts>>
      BY <2>2 DEF CheckBudget, CheckOllama
  <2>3. ASSUME NEW k \in Calls, Proxy(k) PROVE UNCHANGED <<world, restarts>>
    <3>1. CASE CheckScopes(k) \/ Free(k) \/ Persist(k)
        BY <3>1 DEF CheckScopes, Free, Persist, auxVars
    <3>2. CASE (\E cost \in Costs : Respond(k, cost)) \/ \E cost \in OllamaCosts : Bill(k, cost)
        BY <3>2 DEF Respond, Bill
    <3>. QED  BY <2>2, <2>3, <3>1, <3>2 DEF Proxy
  <2>4. ASSUME NEW c \in Containers, Worker(c) \/ Admin(c) PROVE UNCHANGED <<world, restarts>>
    <3>1. CASE Worker(c)
        BY <3>1 DEF Worker, TickRead, TickWrite, auxVars
    <3>2. ASSUME NEW s \in Segments \cup {None}, RegisterStore(c, s) PROVE UNCHANGED <<world, restarts>>
        BY <3>2 DEF RegisterStore
    <3>3. CASE RegisterRead(c) \/ RegisterProxy(c) \/ \E b \in Budgets : LimitStore(c, b)
        BY <3>3 DEF RegisterRead, RegisterProxy, LimitStore, auxVars
    <3>4. CASE UpdateBudget(c) \/ Unassign(c) \/ RemoveStop(c) \/ Remove(c)
        BY <3>4 DEF UpdateBudget, Unassign, RemoveStop, Remove, auxVars
    <3>. QED  BY <2>4, <3>1, <3>2, <3>3, <3>4 DEF Admin
  <2>5. ASSUME (\E t \in stray : StrayRead(t) \/ StrayWrite(t)) \/ (\E s \in Scopes : ScopeSum(s)) \/ ScopeJudge
        PROVE  UNCHANGED <<world, restarts>>
    <3>1. CASE \E t \in stray : StrayRead(t) \/ StrayWrite(t)
        BY <3>1 DEF StrayRead, StrayWrite, auxVars
    <3>2. CASE (\E s \in Scopes : ScopeSum(s)) \/ ScopeJudge
        BY <3>2 DEF ScopeSum, ScopeJudge, auxVars
    <3>. QED  BY <2>5, <3>1, <3>2
  <2>6. UNCHANGED vars => UNCHANGED <<world, restarts>>
      BY DEF vars, auxVars
  <2>. QED  BY <2>1, <2>3, <2>4, <2>5, <2>6 DEF Next, Once
<1>. USE <1>1, <1>2
<1>4. ASSUME NEW k \in Calls, Proxy(k) PROVE OverInv'
  <2>1. Once => \A d \in Containers : FreshOK(d)'
      BY <1>4, ProxyFresh DEF OverInv
  <2>2. ASSUME NEW c \in Containers, CheckBudget(k, c) \/ CheckOllama(k, c) PROVE OverInv'
      BY <1>3, <2>1, <2>2, AdmitOver
  <2>3. CASE CheckScopes(k) \/ Free(k) \/ Persist(k)
    <3>1. UNCHANGED <<charged, world, allowance, spending>>
        BY <2>3 DEF CheckScopes, Free, Persist, auxVars, proxyVars
    <3>2. \/ call' = [call EXCEPT ![k] = NoCall]
          \/ call[k].at = "checked" /\ call' = [call EXCEPT ![k].at = "upstream"]
        BY <2>3 DEF CheckScopes, Free, Persist, NoLongerCalling, CallAt
    <3>3. call \in [Calls -> CallRecords] /\ spending \in [Containers -> Nat]
        BY DEF Typed, Billed, CallOK, CountOK
    <3>4. \A c \in Containers : Flying(c)' \subseteq Flying(c)
        BY <3>2, <3>3 DEF Flying, NoCall, CallRecords
    <3>5. \A c \in Containers : spending'[c] <= spending[c]
        BY <3>1, <3>3
    <3>. QED  BY <1>3, <2>1, <3>1, <3>4, <3>5, StillOver
  <2>4. ASSUME NEW cost \in Costs, Respond(k, cost) PROVE OverInv'
    <3>1. /\ call[k].at = "upstream" /\ cost > 0 /\ Charge(k, cost) /\ TotalCharged + cost <= world.most
          /\ UNCHANGED <<allowance, world>>
        BY <2>4 DEF Respond
    <3>2. cost \in AllCosts
        BY DEF AllCosts
    <3>. QED  BY <1>3, <2>1, <3>1, <3>2, ChargeOver
  <2>5. ASSUME NEW cost \in OllamaCosts, Bill(k, cost) PROVE OverInv'
    <3>1. /\ call[k].at = "ollama" /\ cost > 0 /\ Charge(k, Micro(cost)) /\ TotalCharged + Micro(cost) <= world.most
          /\ UNCHANGED <<allowance, world>>
        BY <2>5 DEF Bill
    <3>2. Micro(cost) \in AllCosts
        BY DEF AllCosts
    <3>3. Micro(cost) > 0
        BY <3>1, SpendingFacts DEF Micro
    <3>. QED  BY <1>3, <2>1, <3>1, <3>2, <3>3, ChargeOver
  <2>. QED  BY <1>4, <2>2, <2>3, <2>4, <2>5 DEF Proxy
<1>5. ASSUME NEW c \in Containers, Admin(c) PROVE OverInv'
  <2>1. UNCHANGED <<charged, world, allowance, call>>
    <3>1. CASE \E s \in Segments \cup {None} : RegisterStore(c, s)
        BY <3>1 DEF RegisterStore
    <3>2. CASE RegisterRead(c) \/ RegisterProxy(c) \/ \E b \in Budgets : LimitStore(c, b)
        BY <3>2 DEF RegisterRead, RegisterProxy, LimitStore, auxVars
    <3>3. CASE UpdateBudget(c) \/ Unassign(c) \/ RemoveStop(c) \/ Remove(c)
        BY <3>3 DEF UpdateBudget, Unassign, RemoveStop, Remove, auxVars, controlVars
    <3>. QED  BY <1>5, <3>1, <3>2, <3>3 DEF Admin
  <2>2. Once => \A d \in Containers : FreshOK(d)' /\ spending'[d] <= spending[d]
      BY <1>5, AdminFresh DEF OverInv
  <2>3. \A d \in Containers : Flying(d)' \subseteq Flying(d)
      BY <2>1 DEF Flying
  <2>. QED  BY <1>3, <2>1, <2>2, <2>3, StillOver
<1>6. CASE (\E c \in Containers : Worker(c)) \/ (\E t \in stray : StrayRead(t) \/ StrayWrite(t))
  <2>1. UNCHANGED <<charged, world, allowance, call, spending>>
    <3>1. CASE \E c \in Containers : Worker(c)
        BY <3>1 DEF Worker, TickRead, TickWrite, auxVars, proxyVars
    <3>2. CASE \E t \in stray : StrayRead(t) \/ StrayWrite(t)
        BY <3>2 DEF StrayRead, StrayWrite, auxVars, proxyVars
    <3>. QED  BY <1>6, <3>1, <3>2
  <2>2. Once => \A d \in Containers : FreshOK(d)'
      BY <1>6, TickFresh DEF OverInv
  <2>3. \A d \in Containers : Flying(d)' \subseteq Flying(d) /\ spending'[d] <= spending[d]
      BY <2>1 DEF Flying, Typed, Billed, CountOK
  <2>. QED  BY <1>3, <2>1, <2>2, <2>3, StillOver
<1>7. CASE (\E s \in Scopes : ScopeSum(s)) \/ ScopeJudge \/ UNCHANGED vars
  <2>1. UNCHANGED <<charged, world, allowance, call, spending, usage, worker, stray, setup, registered, gone>>
    <3>1. CASE \E s \in Scopes : ScopeSum(s)
        BY <3>1 DEF ScopeSum, auxVars, proxyVars, storeVars
    <3>2. CASE ScopeJudge
        BY <3>2 DEF ScopeJudge, auxVars, storeVars
    <3>3. CASE UNCHANGED vars
        BY <3>3 DEF vars, auxVars, proxyVars, storeVars, controlVars
    <3>. QED  BY <1>7, <3>1, <3>2, <3>3
  <2>2. Once => \A d \in Containers : FreshOK(d)'
      BY <2>1 DEF OverInv, FreshOK, Fresh, Behind, Old, Holds, Known
  <2>3. \A d \in Containers : Flying(d)' \subseteq Flying(d) /\ spending'[d] <= spending[d]
      BY <2>1 DEF Flying, Typed, Billed, CountOK
  <2>. QED  BY <1>3, <2>1, <2>2, <2>3, StillOver
<1>8. CASE Restart
  <2>1. ~Once' /\ UNCHANGED <<charged, world>>
      BY <1>8 DEF Restart, Once, Typed, RestOK
  <2>2. TotalCharged' <= world'.most /\ \A c \in Containers : CostOK(c)'
      BY <2>1 DEF OverInv, TotalCharged, CostOK, AllLoad
  <2>. QED  BY <2>1, <2>2 DEF OverInv
<1>. QED  BY <1>4, <1>5, <1>6, <1>7, <1>8 DEF Next

\* However many calls race past the budget check, a container spends less beyond the largest
\* budget it was admitted under than all the calls there may be at a time can cost: as long
\* as it is registered once and the daemon is not restarted.
THEOREM OvershootStaysBounded == Spec => []OvershootBounded
<1>1. Spec => []OverInv
    BY InitOver, NextOver, PTL DEF Spec
<1>2. OverInv => OvershootBounded
  <2>. SUFFICES ASSUME OverInv, NEW c \in Containers, charged[c] > 0, Once
                PROVE  spending[c] < allowance[c] + Cardinality(Calls) * MaxCost
      BY DEF OvershootBounded, Once
  <2>1. AllLoad > 0 /\ Costliest = MaxCost /\ Bounded(c) /\ TotalCharged <= world.most
      BY CostFacts DEF OverInv, CostOK
  <2>2. Cardinality(Calls) * MaxCost = AllLoad
      BY <2>1 DEF AllLoad, Load
  <2>3. spending[c] \in Nat /\ charged \in [Containers -> Nat] /\ spending[c] <= charged[c]
        /\ allowance[c] \in Nat /\ world.most \in Nat
      BY MostIsNat DEF OverInv, Typed, Billed, CountOK, RestOK
  <2>4. charged[c] <= TotalCharged /\ TotalCharged \in Nat
    <3>1. TotalCharged = charged[c] + SumFunctionOnSet(charged, Containers \ {c})
        BY <2>3, FiniteFacts, SumTake DEF TotalCharged
    <3>2. SumFunctionOnSet(charged, Containers \ {c}) \in Nat /\ charged[c] \in Nat
        BY <2>3, FiniteFacts, FS_RemoveElement, SumNat
    <3>. QED  BY <3>1, <3>2
  <2>5. Load1(c) \in Nat /\ AllLoad \in Nat
      BY FlyingFacts
  <2>. QED  BY <2>1, <2>2, <2>3, <2>4, <2>5 DEF Bounded
<1>. QED  BY <1>1, <1>2, PTL
=============================================================================
