---------------------------- MODULE ConfigProofs ----------------------------
(***************************************************************************)
(* Proofs about Limits and Config together, for any containers, handlers,   *)
(* amounts, settings and worlds: types, the limits of containers while the  *)
(* mode is on, their sum, the proxy's copy of them, and that the settings   *)
(* whose request succeeded are in force.                                    *)
(***************************************************************************)
EXTENDS Config, SumLemmas

LEMMA LimitsFacts ==
    /\ None \notin Containers /\ Amounts \subseteq Int
    /\ Worlds \subseteq [may : SUBSET Happenings, managed : SUBSET Containers,
                         keep : BOOLEAN, host : 0 .. MaxLimit]
    /\ MaxLimit \in Nat
<1>. QED  BY LimitsAssumption DEF LimitsAssumption

LEMMA ContainersFinite == IsFiniteSet(Containers)
<1>. QED  BY LimitsAssumption DEF LimitsAssumption

LEMMA ConfigFacts ==
    /\ Provider \in PlainKeys /\ "keep" \notin PlainKeys /\ "models" \notin PlainKeys /\ "url" \notin PlainKeys
    /\ Wrong \notin BOOLEAN /\ Unset \notin BOOLEAN
<1>. QED  BY ConfigAssumption DEF ConfigAssumption

-----------------------------------------------------------------------------
(* The greater and the smaller of two numbers. *)

LEMMA MaxOfTwo ==
    ASSUME NEW a \in Int, NEW b \in Int
    PROVE  Max({a, b}) = IF a >= b THEN a ELSE b
<1>. DEFINE m == IF a >= b THEN a ELSE b
<1>1. m \in {a, b} /\ \A y \in {a, b} : m >= y
    OBVIOUS
<1>2. \A x \in {a, b} : (\A y \in {a, b} : x >= y) => x = m
    OBVIOUS
<1>. HIDE DEF m
<1>3. Max({a, b}) = m
    BY <1>1, <1>2 DEF Max
<1>. QED  BY <1>3 DEF m

LEMMA MinOfTwo ==
    ASSUME NEW a \in Int, NEW b \in Int
    PROVE  Min({a, b}) = IF a =< b THEN a ELSE b
<1>. DEFINE m == IF a =< b THEN a ELSE b
<1>1. m \in {a, b} /\ \A y \in {a, b} : m =< y
    OBVIOUS
<1>2. \A x \in {a, b} : (\A y \in {a, b} : x =< y) => x = m
    OBVIOUS
<1>. HIDE DEF m
<1>3. Min({a, b}) = m
    BY <1>1, <1>2 DEF Min
<1>. QED  BY <1>3 DEF m

LEMMA ResultTyped ==
    ASSUME NEW op \in Ops, NEW old \in Int, NEW amount \in Int
    PROVE  Result(op, old, amount) \in Int
<1>1. Max({old - amount, 0}) = IF old - amount >= 0 THEN old - amount ELSE 0
    BY MaxOfTwo
<1>2. Result(op, old, amount) = CASE op = "set" -> amount [] op = "increase" -> old + amount
                                  [] op = "decrease" -> Max({old - amount, 0})
    BY DEF Result
<1>3. Max({old - amount, 0}) \in Nat
    BY <1>1
<1>. QED  BY <1>2, <1>3 DEF Ops

\* Of values that are not below zero: a decrease lowers.
LEMMA ResultNotBelow ==
    ASSUME NEW op \in Ops, NEW old \in Nat, NEW amount \in Nat
    PROVE  Result(op, old, amount) \in Nat /\ (op = "decrease" => Result(op, old, amount) <= old)
<1>1. Max({old - amount, 0}) = IF old - amount >= 0 THEN old - amount ELSE 0
    BY MaxOfTwo
<1>2. Result(op, old, amount) = CASE op = "set" -> amount [] op = "increase" -> old + amount
                                  [] op = "decrease" -> Max({old - amount, 0})
    BY DEF Result
<1>3. Max({old - amount, 0}) \in Nat /\ Max({old - amount, 0}) <= old
    BY <1>1
<1>4. CASE op = "set"
    BY <1>2, <1>4
<1>5. CASE op = "increase"
    BY <1>2, <1>5
<1>6. CASE op = "decrease"
    BY <1>2, <1>3, <1>6
<1>. QED  BY <1>4, <1>5, <1>6 DEF Ops

-----------------------------------------------------------------------------
(* Types of the limits. *)

Reqs == [at : {"none", "validate", "list", "sum", "write", "apply", "read", "copy"},
         c : Containers \cup {None}, op : Ops, new : Int, host : Int, sum : Int,
         todo : SUBSET Containers]

StoreTyped ==
    /\ registered \subseteq Containers
    /\ limit \in [Containers -> Int] /\ usage \in [Containers -> Nat]
    /\ hostLimit \in Int /\ accum \in Nat
    /\ budget \in [Containers -> Int]

ReqTyped ==
    /\ req \in [Handlers -> Reqs]
    /\ \A h \in Handlers : req[h].at \in {"apply", "read", "copy"} => req[h].c \in Containers

MarksTyped ==
    /\ untold \subseteq Containers /\ overlapped \subseteq Containers
    /\ overdrawn \in Nat /\ world \in Worlds

LimitsWhole == StoreTyped /\ ReqTyped /\ MarksTyped

LEMMA NoReqTyped ==
    /\ NoReq \in Reqs /\ NoReq.at = "none" /\ NoReq.c = None
    /\ NoReq.new = 0 /\ NoReq.host = 0 /\ NoReq.sum = 0
<1>. QED  BY DEF NoReq, Reqs, Ops

LEMMA LimitsTypeParts ==
    /\ LimitsTypeOK <=> (LimitsWhole /\ keep \in BOOLEAN)
    /\ LimitsTypeOK' <=> (LimitsWhole' /\ keep' \in BOOLEAN)
<1>. QED  BY DEF LimitsTypeOK, LimitsWhole, StoreTyped, ReqTyped, MarksTyped, Reqs

Placed(r) == r.at \in {"apply", "read", "copy"} => r.c \in Containers

LEMMA RequestSet ==
    ASSUME ReqTyped, NEW h \in Handlers, NEW r \in Reqs, Placed(r), req' = [req EXCEPT ![h] = r]
    PROVE  /\ ReqTyped'
           /\ req'[h] = r
           /\ \A g \in Handlers \ {h} : req'[g] = req[g]
<1>. QED  BY DEF ReqTyped, Placed

\* The effect of Accept on the mark of containers with two requests.
LEMMA AcceptMarks ==
    ASSUME ReqTyped, MarksTyped, NEW h \in Handlers, NEW r \in Reqs, Placed(r), Accept(h, r)
    PROVE  /\ ReqTyped' /\ overlapped' \subseteq Containers
           /\ req[h] = NoReq /\ req'[h] = r
           /\ \A g \in Handlers \ {h} : req'[g] = req[g]
           /\ overlapped \subseteq overlapped'
           /\ r.c # None /\ r.c \notin overlapped' => \A g \in Handlers \ {h} : req[g].c # r.c
<1>1. req[h] = NoReq /\ req' = [req EXCEPT ![h] = r]
    BY DEF Accept, Idle
<1>2. overlapped' = IF \E g \in Handlers \ {h} : req[g].c = r.c /\ r.c # None
                    THEN overlapped \cup {r.c} ELSE overlapped
    BY DEF Accept
<1>3. r.c \in Containers \cup {None}
    BY DEF Reqs
<1>4. ReqTyped' /\ req'[h] = r /\ \A g \in Handlers \ {h} : req'[g] = req[g]
    BY <1>1, RequestSet
<1>5. overlapped' \subseteq Containers /\ overlapped \subseteq overlapped'
    BY <1>2, <1>3 DEF MarksTyped
<1>6. ASSUME r.c # None, r.c \notin overlapped', NEW g \in Handlers \ {h}
      PROVE  req[g].c # r.c
    BY <1>2, <1>6
<1>. QED  BY <1>1, <1>4, <1>5, <1>6

LEMMA ProceedMarks ==
    ASSUME ReqTyped, MarksTyped, NEW h \in Handlers, NEW r \in Reqs, Placed(r), Proceed(h, r)
    PROVE  /\ ReqTyped' /\ overlapped' = overlapped
           /\ req'[h] = r
           /\ \A g \in Handlers \ {h} : req'[g] = req[g]
<1>1. req' = [req EXCEPT ![h] = r] /\ overlapped' = overlapped
    BY DEF Proceed
<1>. QED  BY <1>1, RequestSet

LEMMA RequestIn ==
    ASSUME ReqTyped, NEW h \in Handlers
    PROVE  /\ req[h] \in Reqs /\ Placed(req[h])
           /\ req[h].c \in Containers \cup {None} /\ req[h].new \in Int /\ req[h].host \in Int
           /\ req[h].sum \in Int /\ req[h].todo \subseteq Containers /\ req[h].op \in Ops
<1>. QED  BY DEF ReqTyped, Reqs, Placed

\* Steps of a request that change nothing but the request.
LEMMA LabelTyped ==
    ASSUME ReqTyped, NEW h \in Handlers,
           NEW label \in {"none", "validate", "list", "sum", "write", "apply", "read", "copy"}
    PROVE  /\ [req[h] EXCEPT !.at = label] \in Reqs
           /\ [req[h] EXCEPT !.at = label].c = req[h].c
           /\ [req[h] EXCEPT !.at = label].at = label
           /\ [req[h] EXCEPT !.at = label].new = req[h].new
           /\ [req[h] EXCEPT !.at = label].op = req[h].op
           /\ [req[h] EXCEPT !.at = label].host = req[h].host
<1>1. req[h] \in Reqs
    BY DEF ReqTyped
<1>. QED  BY <1>1 DEF Reqs

\* Where the store, the proxy and the marks are left alone.
LEMMA StillStoreTyped ==
    ASSUME StoreTyped, UNCHANGED <<storeVars, budget>>
    PROVE  StoreTyped'
<1>. QED  BY DEF StoreTyped, storeVars

LEMMA StillMarksTyped ==
    ASSUME MarksTyped, overlapped' \subseteq Containers, UNCHANGED <<untold, overdrawn, world>>
    PROVE  MarksTyped'
<1>. QED  BY DEF MarksTyped

LEMMA StillWhole ==
    ASSUME LimitsWhole, ReqTyped', overlapped' \subseteq Containers,
           UNCHANGED <<storeVars, budget, keep, untold, overdrawn, world>>
    PROVE  LimitsWhole'
<1>1. StoreTyped' /\ MarksTyped'
    BY StillStoreTyped, StillMarksTyped DEF LimitsWhole
<1>. QED  BY <1>1 DEF LimitsWhole

\* The requests that actions accept.
LEMMA HostRequest ==
    ASSUME NEW op \in Ops, NEW n \in Int
    PROVE  LET r == [NoReq EXCEPT !.at = "validate", !.op = op, !.new = n]
           IN  /\ r \in Reqs /\ r.at = "validate" /\ r.c = None /\ r.op = op /\ r.new = n
               /\ r.host = 0 /\ r.sum = 0
<1>. QED  BY NoReqTyped DEF Reqs

LEMMA ReadRequest ==
    ASSUME NEW c \in Containers
    PROVE  LET r == [NoReq EXCEPT !.at = "read", !.c = c]
           IN  /\ r \in Reqs /\ r.at = "read" /\ r.c = c
               /\ r.new = 0 /\ r.host = 0 /\ r.sum = 0
<1>. QED  BY NoReqTyped DEF Reqs

LEMMA CopyRequest ==
    ASSUME NEW c \in Containers, NEW d \in Containers
    PROVE  LET r == [NoReq EXCEPT !.at = "copy", !.c = d, !.todo = {c}]
           IN  /\ r \in Reqs /\ r.at = "copy" /\ r.c = d /\ r.todo = {c}
               /\ r.new = 0 /\ r.host = 0 /\ r.sum = 0
<1>. QED  BY NoReqTyped DEF Reqs

-----------------------------------------------------------------------------
(* Reads of the store. *)

LEMMA ReadOfTyped ==
    ASSUME NEW value \in Int
    PROVE  /\ value \in ReadOf(value) /\ ReadOf(value) \subseteq {value, 0} /\ ReadOf(value) \subseteq Int
           /\ ~MayFail => ReadOf(value) = {value}
<1>. QED  BY DEF ReadOf

-----------------------------------------------------------------------------
(* What each action makes of the request, and that the types stay. *)

\* A step that changes the request of h alone, and neither starts nor ends at a
\* label from which the store or the proxy is written.
Writes == {"apply", "read", "copy"}
Silent(h) ==
    /\ UNCHANGED <<storeVars, budget, keep, untold, overdrawn, world, overlapped>>
    /\ \A g \in Handlers \ {h} : req'[g] = req[g]
    /\ req'[h].c \in {req[h].c, None}
    /\ req[h].at \notin Writes /\ req'[h].at \notin Writes

LEMMA PutLimitStep ==
    ASSUME LimitsWhole, NEW h \in Handlers, NEW c \in Containers, NEW op \in Ops, NEW amount \in Amounts,
           PutLimit(h, c, op, amount)
    PROVE  /\ LimitsWhole'
           /\ UNCHANGED <<storeVars, budget, keep, untold, overdrawn, world>>
           /\ overlapped \subseteq overlapped'
           /\ c \notin overlapped' => \A g \in Handlers \ {h} : req[g].c # c
           /\ req[h] = NoReq
           /\ req'[h].c = c /\ req'[h].at = "validate" /\ req'[h].op = op
           /\ \E old \in ReadOf(limit[c]) : req'[h].new = Result(op, old, amount)
           /\ req'[h].host = 0 /\ req'[h].sum = 0
           /\ MaySend(amount)
           /\ \A g \in Handlers \ {h} : req'[g] = req[g]
<1>0. PICK old \in ReadOf(limit[c]) :
          Accept(h, [NoReq EXCEPT !.at = "validate", !.c = c, !.op = op, !.new = Result(op, old, amount)])
    BY DEF PutLimit
<1>. DEFINE n == Result(op, old, amount)
            r == [NoReq EXCEPT !.at = "validate", !.c = c, !.op = op, !.new = n]
<1>1. old \in Int /\ amount \in Int
  <2>1. limit[c] \in Int
      BY DEF LimitsWhole, StoreTyped
  <2>. QED  BY <2>1, ReadOfTyped, LimitsFacts
<1>2. n \in Int
    BY <1>1, ResultTyped
<1>. HIDE DEF n
<1>3. /\ r \in Reqs /\ r.at = "validate" /\ r.c = c /\ r.op = op /\ r.new = n
      /\ r.host = 0 /\ r.sum = 0
    BY <1>2, NoReqTyped DEF Reqs
<1>4. Accept(h, r) /\ UNCHANGED <<storeVars, budget, keep, untold, overdrawn, world>> /\ MaySend(amount)
    BY <1>0 DEF PutLimit, n
<1>5. Placed(r) /\ r.c # None
    BY <1>3, LimitsFacts DEF Placed
<1>. HIDE DEF r
<1>6. /\ ReqTyped' /\ overlapped' \subseteq Containers
      /\ req[h] = NoReq /\ req'[h] = r
      /\ \A g \in Handlers \ {h} : req'[g] = req[g]
      /\ overlapped \subseteq overlapped'
      /\ r.c # None /\ r.c \notin overlapped' => \A g \in Handlers \ {h} : req[g].c # r.c
    BY <1>3, <1>4, <1>5, AcceptMarks DEF LimitsWhole
<1>7. LimitsWhole'
    BY <1>4, <1>6, StillWhole
<1>. QED  BY <1>3, <1>4, <1>5, <1>6, <1>7 DEF n

LEMMA PutHostStep ==
    ASSUME LimitsWhole, NEW h \in Handlers, NEW op \in Ops, NEW amount \in Amounts,
           PutHost(h, op, amount)
    PROVE  /\ LimitsWhole'
           /\ UNCHANGED <<storeVars, budget, keep, untold, overdrawn, world>>
           /\ "host" \in world.may
           /\ overlapped \subseteq overlapped'
           /\ req[h] = NoReq /\ req'[h].c = None /\ req'[h].at = "validate" /\ req'[h].op = op
           /\ \E old \in ReadOf(hostLimit) : req'[h].new = Result(op, old, amount)
           /\ req'[h].host = 0 /\ req'[h].sum = 0
           /\ MaySend(amount)
           /\ \A g \in Handlers \ {h} : req'[g] = req[g]
<1>0. PICK old \in ReadOf(hostLimit) :
          Accept(h, [NoReq EXCEPT !.at = "validate", !.op = op, !.new = Result(op, old, amount)])
    BY DEF PutHost
<1>. DEFINE n == Result(op, old, amount)
            r == [NoReq EXCEPT !.at = "validate", !.op = op, !.new = n]
<1>1. old \in Int /\ amount \in Int
  <2>1. hostLimit \in Int
      BY DEF LimitsWhole, StoreTyped
  <2>. QED  BY <2>1, ReadOfTyped, LimitsFacts
<1>2. n \in Int
    BY <1>1, ResultTyped
<1>. HIDE DEF n
<1>3. /\ r \in Reqs /\ r.at = "validate" /\ r.c = None /\ r.op = op /\ r.new = n
      /\ r.host = 0 /\ r.sum = 0
    BY <1>2, HostRequest, ZenonT(40)
<1>4. /\ Accept(h, r) /\ UNCHANGED <<storeVars, budget, keep, untold, overdrawn, world>>
      /\ "host" \in world.may /\ MaySend(amount)
  <2>1. Accept(h, r)
      BY <1>0 DEF n
  <2>. QED  BY <2>1 DEF PutHost
<1>5. Placed(r)
    BY <1>3 DEF Placed
<1>. HIDE DEF r
<1>6. /\ ReqTyped' /\ overlapped' \subseteq Containers
      /\ req[h] = NoReq /\ req'[h] = r
      /\ \A g \in Handlers \ {h} : req'[g] = req[g]
      /\ overlapped \subseteq overlapped'
    BY <1>3, <1>4, <1>5, AcceptMarks DEF LimitsWhole
<1>7. LimitsWhole'
    BY <1>4, <1>6, StillWhole
<1>. QED  BY <1>3, <1>4, <1>6, <1>7 DEF n

LEMMA ValidateStep ==
    ASSUME LimitsWhole, NEW h \in Handlers, Validate(h)
    PROVE  /\ LimitsWhole' /\ Silent(h)
           /\ req[h].at = "validate" /\ req'[h].host \in ReadOf(hostLimit)
           /\ req'[h].at = IF NeedsSum(h, req'[h].host) THEN "list" ELSE "write"
           /\ req'[h].c = req[h].c /\ req'[h].op = req[h].op /\ req'[h].new = req[h].new
           /\ req'[h].sum = req[h].sum /\ req'[h].todo = req[h].todo
<1>0. PICK host \in ReadOf(hostLimit) :
          Proceed(h, [req[h] EXCEPT !.at = IF NeedsSum(h, host) THEN "list" ELSE "write", !.host = host])
    BY DEF Validate
<1>. DEFINE r == [req[h] EXCEPT !.at = IF NeedsSum(h, host) THEN "list" ELSE "write", !.host = host]
<1>1. req[h] \in Reqs /\ host \in Int
    BY RequestIn, ReadOfTyped DEF LimitsWhole, StoreTyped
<1>2. /\ r \in Reqs /\ r.at = (IF NeedsSum(h, host) THEN "list" ELSE "write")
      /\ r.c = req[h].c /\ r.op = req[h].op /\ r.new = req[h].new /\ r.host = host
      /\ r.sum = req[h].sum /\ r.todo = req[h].todo
    BY <1>1 DEF Reqs
<1>3. Proceed(h, r) /\ UNCHANGED <<storeVars, budget, keep, untold, overdrawn, world>> /\ req[h].at = "validate"
    BY <1>0 DEF Validate
<1>4. Placed(r)
    BY <1>2 DEF Placed
<1>. HIDE DEF r
<1>5. /\ ReqTyped' /\ overlapped' = overlapped /\ req'[h] = r
      /\ \A g \in Handlers \ {h} : req'[g] = req[g]
    BY <1>2, <1>3, <1>4, ProceedMarks DEF LimitsWhole
<1>6. overlapped' \subseteq Containers
    BY <1>5 DEF LimitsWhole, MarksTyped
<1>7. LimitsWhole'
    BY <1>3, <1>5, <1>6, StillWhole
<1>8. Silent(h)
    BY <1>2, <1>3, <1>5 DEF Silent, Writes
<1>. QED  BY <1>2, <1>3, <1>5, <1>7, <1>8

LEMMA ListStep ==
    ASSUME LimitsWhole, NEW h \in Handlers, ListContainers(h)
    PROVE  /\ LimitsWhole' /\ Silent(h)
           /\ req[h].at = "list" /\ req'[h].at = "sum"
           /\ req'[h].c = req[h].c /\ req'[h].op = req[h].op /\ req'[h].new = req[h].new
           /\ req'[h].host = req[h].host /\ req'[h].sum = req[h].sum
           /\ ~MayFail => req'[h].todo = registered \ {req[h].c}
<1>0. PICK listed \in {registered} \cup (IF MayFail THEN {{}} ELSE {}) :
          Proceed(h, [req[h] EXCEPT !.at = "sum", !.todo = listed \ {req[h].c}])
    BY DEF ListContainers
<1>. DEFINE r == [req[h] EXCEPT !.at = "sum", !.todo = listed \ {req[h].c}]
<1>1. req[h] \in Reqs /\ listed \subseteq Containers /\ (~MayFail => listed = registered)
    BY RequestIn DEF LimitsWhole, StoreTyped
<1>2. /\ r \in Reqs /\ r.at = "sum"
      /\ r.c = req[h].c /\ r.op = req[h].op /\ r.new = req[h].new /\ r.host = req[h].host
      /\ r.sum = req[h].sum /\ r.todo = listed \ {req[h].c}
    BY <1>1 DEF Reqs
<1>3. Proceed(h, r) /\ UNCHANGED <<storeVars, budget, keep, untold, overdrawn, world>> /\ req[h].at = "list"
    BY <1>0 DEF ListContainers
<1>4. Placed(r)
    BY <1>2 DEF Placed
<1>. HIDE DEF r
<1>5. /\ ReqTyped' /\ overlapped' = overlapped /\ req'[h] = r
      /\ \A g \in Handlers \ {h} : req'[g] = req[g]
    BY <1>2, <1>3, <1>4, ProceedMarks DEF LimitsWhole
<1>6. overlapped' \subseteq Containers
    BY <1>5 DEF LimitsWhole, MarksTyped
<1>7. LimitsWhole'
    BY <1>3, <1>5, <1>6, StillWhole
<1>8. Silent(h)
    BY <1>2, <1>3, <1>5 DEF Silent, Writes
<1>. QED  BY <1>1, <1>2, <1>3, <1>5, <1>7, <1>8

LEMMA AddStep ==
    ASSUME LimitsWhole, NEW h \in Handlers, NEW c \in Containers, AddLimit(h, c)
    PROVE  /\ LimitsWhole' /\ Silent(h)
           /\ req[h].at = "sum" /\ req'[h].at = "sum"
           /\ req'[h].c = req[h].c /\ req'[h].op = req[h].op /\ req'[h].new = req[h].new
           /\ req'[h].host = req[h].host
           /\ c \in req[h].todo /\ req'[h].todo = req[h].todo \ {c}
           /\ \E value \in ReadOf(limit[c]) : req'[h].sum = req[h].sum + value
<1>0. PICK value \in ReadOf(limit[c]) : Proceed(h, [req[h] EXCEPT !.sum = @ + value, !.todo = @ \ {c}])
    BY DEF AddLimit
<1>. DEFINE r == [req[h] EXCEPT !.sum = @ + value, !.todo = @ \ {c}]
<1>1. req[h] \in Reqs /\ value \in Int /\ req[h].at = "sum" /\ c \in req[h].todo
    BY RequestIn, ReadOfTyped DEF LimitsWhole, StoreTyped, AddLimit
<1>2. req[h].sum \in Int
    BY <1>1 DEF Reqs
<1>3. req[h].sum + value \in Int
    BY <1>1, <1>2
<1>4. /\ r \in Reqs /\ r.at = "sum"
      /\ r.c = req[h].c /\ r.op = req[h].op /\ r.new = req[h].new /\ r.host = req[h].host
      /\ r.sum = req[h].sum + value /\ r.todo = req[h].todo \ {c}
    BY <1>1, <1>3 DEF Reqs
<1>5. Proceed(h, r) /\ UNCHANGED <<storeVars, budget, keep, untold, overdrawn, world>>
    BY <1>0 DEF AddLimit
<1>6. Placed(r)
    BY <1>4 DEF Placed
<1>. HIDE DEF r
<1>7. /\ ReqTyped' /\ overlapped' = overlapped /\ req'[h] = r
      /\ \A g \in Handlers \ {h} : req'[g] = req[g]
    BY <1>4, <1>5, <1>6, ProceedMarks DEF LimitsWhole
<1>8. overlapped' \subseteq Containers
    BY <1>7 DEF LimitsWhole, MarksTyped
<1>9. LimitsWhole'
    BY <1>5, <1>7, <1>8, StillWhole
<1>10. Silent(h)
    BY <1>1, <1>4, <1>5, <1>7 DEF Silent, Writes
<1>. QED  BY <1>1, <1>4, <1>5, <1>7, <1>9, <1>10

\* What is left for a container is no more than the host's limit that was read, unless
\* that or the sum is below zero.
LEMMA AllowedBound ==
    ASSUME LimitsWhole, NEW h \in Handlers, NEW removed \in Nat
    PROVE  /\ Allowed(h, removed) \in Nat
           /\ req[h].host \in Nat /\ req[h].sum \in Nat => Allowed(h, removed) <= req[h].host
<1>1. req[h].host \in Int /\ req[h].sum \in Int
    BY RequestIn DEF LimitsWhole
<1>. DEFINE left == req[h].host - req[h].sum - removed
<1>2. left \in Int /\ (req[h].sum \in Nat => left <= req[h].host)
    BY <1>1
<1>. HIDE DEF left
<1>3. Max({left, 0}) = IF left >= 0 THEN left ELSE 0
    BY <1>2, MaxOfTwo
<1>4. /\ Max({left, 0}) \in Nat
      /\ req[h].host \in Nat /\ req[h].sum \in Nat => Max({left, 0}) <= req[h].host
    BY <1>1, <1>2, <1>3
<1>. QED  BY <1>4 DEF Allowed, left

\* A request that is judged ends, or goes on to write; a container's then asks for no
\* more than is left.
LEMMA JudgeStep ==
    ASSUME LimitsWhole, NEW h \in Handlers, Judge(h)
    PROVE  /\ LimitsWhole' /\ Silent(h)
           /\ req[h].at = "sum"
           /\ \/ req'[h] = NoReq
              \/ /\ req'[h].at = "write" /\ req'[h].c = req[h].c /\ req'[h].op = req[h].op
                 /\ req[h].c # None /\ req[h].host \in Nat /\ req[h].sum \in Nat
                        => req'[h].new <= req[h].host
                 /\ req'[h].host = req[h].host /\ req'[h].sum = req[h].sum
                 /\ req[h].new \in Nat => req'[h].new \in Nat
<1>. DEFINE m(removed) == Min({req[h].new, Allowed(h, removed)})
            w == [req[h] EXCEPT !.at = "write"]
            s(removed) == [req[h] EXCEPT !.at = "write", !.new = m(removed)]
<1>0. PICK removed \in ReadOf(accum) :
          \/ Proceed(h, NoReq)
          \/ Proceed(h, w) /\ req[h].c = None
          \/ Proceed(h, s(removed))
    BY DEF Judge, Finish, GoTo, OfHost
<1>. DEFINE r == s(removed)
            left == Allowed(h, removed)
<1>1. /\ req[h] \in Reqs /\ req[h].at = "sum" /\ left \in Nat
      /\ req[h].host \in Nat /\ req[h].sum \in Nat => left <= req[h].host
  <2>1. removed \in Nat
      BY ReadOfTyped DEF LimitsWhole, StoreTyped
  <2>. QED  BY <2>1, RequestIn, AllowedBound DEF LimitsWhole, Judge
<1>2. req[h].new \in Int /\ req[h].host \in Int
    BY <1>1 DEF Reqs
<1>. DEFINE n == m(removed)
<1>3. /\ n \in Int /\ (req[h].new \in Nat => n \in Nat)
      /\ req[h].host \in Nat /\ req[h].sum \in Nat => n <= req[h].host
  <2>. HIDE DEF left
  <2>1. Min({req[h].new, left}) = IF req[h].new =< left THEN req[h].new ELSE left
      BY <1>1, <1>2, MinOfTwo
  <2>2. n = IF req[h].new =< left THEN req[h].new ELSE left
      BY <2>1 DEF left
  <2>. HIDE DEF n
  <2>. QED  BY <1>1, <1>2, <2>2
<1>4. \/ Proceed(h, NoReq)
      \/ Proceed(h, w) /\ req[h].c = None
      \/ Proceed(h, r)
    BY <1>0
<1>5. UNCHANGED <<storeVars, budget, keep, untold, overdrawn, world>>
    BY DEF Judge
<1>6. /\ w \in Reqs /\ w.at = "write" /\ w.c = req[h].c /\ w.op = req[h].op
      /\ w.new = req[h].new /\ w.host = req[h].host /\ w.sum = req[h].sum
    BY <1>1 DEF Reqs
<1>7. /\ r \in Reqs /\ r.at = "write" /\ r.c = req[h].c /\ r.op = req[h].op /\ r.new = n
      /\ r.host = req[h].host /\ r.sum = req[h].sum
  <2>1. r = [req[h] EXCEPT !.at = "write", !.new = n]
      OBVIOUS
  <2>. HIDE DEF n, r
  <2>. QED  BY <1>1, <1>3, <2>1 DEF Reqs
<1>. HIDE DEF r, w, n, left, m, s
<1>8. PICK q \in Reqs :
          /\ Proceed(h, q) /\ Placed(q)
          /\ q.at \notin Writes /\ q.c \in {req[h].c, None}
          /\ \/ q = NoReq
             \/ /\ q.at = "write" /\ q.c = req[h].c /\ q.op = req[h].op
                /\ req[h].c # None /\ req[h].host \in Nat /\ req[h].sum \in Nat => q.new <= req[h].host
                /\ q.host = req[h].host /\ q.sum = req[h].sum
                /\ req[h].new \in Nat => q.new \in Nat
  <2>1. CASE Proceed(h, NoReq)
    <3>1. NoReq \in Reqs /\ Placed(NoReq) /\ NoReq.at \notin Writes /\ NoReq.c = None
        BY NoReqTyped DEF Placed, Writes
    <3>. QED  BY <2>1, <3>1
  <2>2. CASE Proceed(h, w) /\ req[h].c = None
    <3>1. Placed(w) /\ w.at \notin Writes
        BY <1>6 DEF Placed, Writes
    <3>. QED  BY <2>2, <3>1, <1>6
  <2>3. CASE Proceed(h, r)
    <3>1. Placed(r) /\ r.at \notin Writes
        BY <1>7 DEF Placed, Writes
    <3>. QED  BY <2>3, <3>1, <1>7, <1>3
  <2>. QED  BY <1>4, <2>1, <2>2, <2>3
<1>9. /\ ReqTyped' /\ overlapped' = overlapped /\ req'[h] = q
      /\ \A g \in Handlers \ {h} : req'[g] = req[g]
    BY <1>8, ProceedMarks DEF LimitsWhole
<1>10. overlapped' \subseteq Containers
    BY <1>9 DEF LimitsWhole, MarksTyped
<1>11. LimitsWhole'
    BY <1>5, <1>9, <1>10, StillWhole
<1>12. Silent(h)
    BY <1>1, <1>8, <1>5, <1>9 DEF Silent, Writes
<1>. QED  BY <1>1, <1>8, <1>9, <1>11, <1>12

LEMMA WriteHostStep ==
    ASSUME LimitsWhole, NEW h \in Handlers, WriteHost(h)
    PROVE  /\ LimitsWhole'
           /\ UNCHANGED <<registered, limit, budget, keep, untold, overlapped, world>>
           /\ req[h].at = "write" /\ req[h].c = None /\ req'[h] = NoReq
           /\ hostLimit' = req[h].new
           /\ \A g \in Handlers \ {h} : req'[g] = req[g]
<1>1. /\ req[h].at = "write" /\ req[h].c = None /\ hostLimit' = req[h].new /\ Proceed(h, NoReq)
      /\ UNCHANGED <<registered, limit, usage, accum, budget, keep, untold, overdrawn, world>>
    BY DEF WriteHost, OfHost, Finish
<1>2. req[h].new \in Int /\ NoReq \in Reqs /\ Placed(NoReq)
    BY RequestIn, NoReqTyped DEF LimitsWhole, Placed
<1>3. /\ ReqTyped' /\ overlapped' = overlapped /\ req'[h] = NoReq
      /\ \A g \in Handlers \ {h} : req'[g] = req[g]
    BY <1>1, <1>2, ProceedMarks DEF LimitsWhole
<1>4. StoreTyped' /\ MarksTyped'
    BY <1>1, <1>2, <1>3 DEF LimitsWhole, StoreTyped, MarksTyped
<1>. QED  BY <1>1, <1>3, <1>4 DEF LimitsWhole

LEMMA WriteLimitStep ==
    ASSUME LimitsWhole, NEW h \in Handlers, WriteLimit(h)
    PROVE  /\ LimitsWhole'
           /\ UNCHANGED <<registered, hostLimit, budget, keep, untold, overlapped, world>>
           /\ req[h].at = "write" /\ req[h].c \in Containers
           /\ limit' = [limit EXCEPT ![req[h].c] = req[h].new] /\ req[h].new \in Int
           /\ req'[h].at = "apply" /\ req'[h].c = req[h].c /\ req'[h].new = req[h].new
           /\ req'[h].host = req[h].host /\ req'[h].sum = req[h].sum
           /\ \A g \in Handlers \ {h} : req'[g] = req[g]
<1>. DEFINE r == [req[h] EXCEPT !.at = "apply"]
<1>1. /\ req[h].at = "write" /\ req[h].c # None /\ Proceed(h, r)
      /\ limit' = [limit EXCEPT ![req[h].c] = req[h].new]
      /\ UNCHANGED <<registered, usage, hostLimit, accum, budget, keep, untold, overdrawn, world>>
    BY DEF WriteLimit, OfHost, GoTo
<1>2. req[h].new \in Int /\ req[h].c \in Containers /\ req[h] \in Reqs
    BY <1>1, RequestIn DEF LimitsWhole
<1>3. /\ r \in Reqs /\ r.at = "apply" /\ r.c = req[h].c /\ r.new = req[h].new
      /\ r.host = req[h].host /\ r.sum = req[h].sum
    BY <1>2 DEF Reqs
<1>. HIDE DEF r
<1>4. Placed(r)
    BY <1>2, <1>3 DEF Placed
<1>5. /\ ReqTyped' /\ overlapped' = overlapped /\ req'[h] = r
      /\ \A g \in Handlers \ {h} : req'[g] = req[g]
    BY <1>1, <1>3, <1>4, ProceedMarks DEF LimitsWhole
<1>6. StoreTyped' /\ MarksTyped'
    BY <1>1, <1>2, <1>5 DEF LimitsWhole, StoreTyped, MarksTyped
<1>. QED  BY <1>1, <1>2, <1>3, <1>5, <1>6 DEF LimitsWhole

LEMMA FailStep ==
    ASSUME LimitsWhole, NEW h \in Handlers, StoreFails(h)
    PROVE  /\ LimitsWhole'
           /\ UNCHANGED <<storeVars, budget, keep, untold, overlapped, world>>
           /\ MayFail /\ req[h].at \in {"write", "copy"} /\ req'[h] = NoReq
           /\ \A g \in Handlers \ {h} : req'[g] = req[g]
<1>1. /\ MayFail /\ req[h].at \in {"write", "copy"} /\ Proceed(h, NoReq)
      /\ UNCHANGED <<storeVars, budget, keep, untold, overdrawn, world>>
    BY DEF StoreFails, Finish
<1>2. NoReq \in Reqs /\ Placed(NoReq)
    BY NoReqTyped DEF Placed
<1>3. /\ ReqTyped' /\ overlapped' = overlapped /\ req'[h] = NoReq
      /\ \A g \in Handlers \ {h} : req'[g] = req[g]
    BY <1>1, <1>2, ProceedMarks DEF LimitsWhole
<1>4. overlapped' \subseteq Containers
    BY <1>3 DEF LimitsWhole, MarksTyped
<1>5. LimitsWhole'
    BY <1>1, <1>3, <1>4, StillWhole
<1>. QED  BY <1>1, <1>3, <1>5

LEMMA ApplyStep ==
    ASSUME LimitsWhole, NEW h \in Handlers, ApplyBudget(h)
    PROVE  /\ LimitsWhole'
           /\ UNCHANGED <<storeVars, keep, untold, overlapped, world>>
           /\ req[h].at = "apply" /\ req[h].c \in Containers
           /\ budget' = [budget EXCEPT ![req[h].c] = req[h].new]
           /\ req'[h] = NoReq
           /\ \A g \in Handlers \ {h} : req'[g] = req[g]
<1>1. /\ req[h].at = "apply" /\ Proceed(h, NoReq)
      /\ budget' = [budget EXCEPT ![req[h].c] = req[h].new]
      /\ UNCHANGED <<storeVars, keep, untold, overdrawn, world>>
    BY DEF ApplyBudget, Finish
<1>2. req[h].new \in Int /\ req[h].c \in Containers /\ NoReq \in Reqs /\ Placed(NoReq)
    BY <1>1, RequestIn, NoReqTyped DEF LimitsWhole, Placed
<1>3. /\ ReqTyped' /\ overlapped' = overlapped /\ req'[h] = NoReq
      /\ \A g \in Handlers \ {h} : req'[g] = req[g]
    BY <1>1, <1>2, ProceedMarks DEF LimitsWhole
<1>4. StoreTyped' /\ MarksTyped'
    BY <1>1, <1>2, <1>3 DEF LimitsWhole, StoreTyped, MarksTyped, storeVars
<1>. QED  BY <1>1, <1>2, <1>3, <1>4 DEF LimitsWhole

LEMMA RegisterStep ==
    ASSUME LimitsWhole, NEW h \in Handlers, NEW c \in Containers, Register(h, c)
    PROVE  /\ LimitsWhole'
           /\ UNCHANGED <<limit, hostLimit, budget, keep, world>>
           /\ registered' = registered \cup {c} /\ untold' = untold \ {c}
           /\ overlapped \subseteq overlapped'
           /\ c \notin overlapped' => \A g \in Handlers \ {h} : req[g].c # c
           /\ req[h] = NoReq /\ req'[h].at = "read" /\ req'[h].c = c
           /\ req'[h].new = 0 /\ req'[h].host = 0 /\ req'[h].sum = 0
           /\ \A g \in Handlers \ {h} : req'[g] = req[g]
<1>. DEFINE r == [NoReq EXCEPT !.at = "read", !.c = c]
<1>1. /\ Accept(h, r) /\ registered' = registered \cup {c} /\ untold' = untold \ {c}
      /\ UNCHANGED <<limit, usage, hostLimit, accum, budget, keep, overdrawn, world>>
    BY DEF Register
<1>2. /\ r \in Reqs /\ r.at = "read" /\ r.c = c
      /\ r.new = 0 /\ r.host = 0 /\ r.sum = 0
    BY ReadRequest
<1>. HIDE DEF r
<1>3. Placed(r) /\ r.c # None
    BY <1>2, LimitsFacts DEF Placed
<1>4. /\ ReqTyped' /\ overlapped' \subseteq Containers
      /\ req[h] = NoReq /\ req'[h] = r
      /\ \A g \in Handlers \ {h} : req'[g] = req[g]
      /\ overlapped \subseteq overlapped'
      /\ r.c # None /\ r.c \notin overlapped' => \A g \in Handlers \ {h} : req[g].c # r.c
    BY <1>1, <1>2, <1>3, AcceptMarks DEF LimitsWhole
<1>5. StoreTyped' /\ MarksTyped'
    BY <1>1, <1>4 DEF LimitsWhole, StoreTyped, MarksTyped
<1>. QED  BY <1>1, <1>2, <1>3, <1>4, <1>5 DEF LimitsWhole

LEMMA ReadStep ==
    ASSUME LimitsWhole, NEW h \in Handlers, ReadLimit(h)
    PROVE  /\ LimitsWhole'
           /\ UNCHANGED <<storeVars, budget, keep, overlapped, world>>
           /\ req[h].at = "read" /\ req[h].c \in Containers
           /\ req'[h].at = "apply" /\ req'[h].c = req[h].c /\ req'[h].new \in ReadOf(limit[req[h].c])
           /\ req'[h].host = req[h].host /\ req'[h].sum = req[h].sum
           /\ untold \subseteq untold' /\ untold' \subseteq untold \cup {req[h].c}
           /\ req[h].c \in untold' \/ req'[h].new = limit[req[h].c]
           /\ \A g \in Handlers \ {h} : req'[g] = req[g]
<1>0. PICK value \in ReadOf(limit[req[h].c]) :
          /\ Proceed(h, [req[h] EXCEPT !.at = "apply", !.new = value])
          /\ untold' = IF value = limit[req[h].c] THEN untold ELSE untold \cup {req[h].c}
    BY DEF ReadLimit
<1>. DEFINE r == [req[h] EXCEPT !.at = "apply", !.new = value]
<1>1. /\ req[h].at = "read" /\ Proceed(h, r)
      /\ UNCHANGED <<storeVars, budget, keep, overdrawn, world>>
    BY <1>0 DEF ReadLimit
<1>2. req[h].c \in Containers /\ req[h] \in Reqs
    BY <1>1, RequestIn DEF LimitsWhole, Placed
<1>3. value \in Int
    BY <1>2, ReadOfTyped DEF LimitsWhole, StoreTyped
<1>4. /\ r \in Reqs /\ r.at = "apply" /\ r.c = req[h].c /\ r.new = value
      /\ r.host = req[h].host /\ r.sum = req[h].sum
    BY <1>2, <1>3 DEF Reqs
<1>. HIDE DEF r
<1>5. Placed(r)
    BY <1>2, <1>4 DEF Placed
<1>6. /\ ReqTyped' /\ overlapped' = overlapped /\ req'[h] = r
      /\ \A g \in Handlers \ {h} : req'[g] = req[g]
    BY <1>1, <1>4, <1>5, ProceedMarks DEF LimitsWhole
<1>7. MarksTyped'
    BY <1>0, <1>1, <1>2, <1>6 DEF LimitsWhole, MarksTyped
<1>8. StoreTyped'
    BY <1>1, StillStoreTyped DEF LimitsWhole
<1>. QED  BY <1>0, <1>1, <1>2, <1>4, <1>6, <1>7, <1>8 DEF LimitsWhole

LEMMA CloneStep ==
    ASSUME LimitsWhole, NEW h \in Handlers, NEW d \in Containers, Clone(h, d)
    PROVE  /\ LimitsWhole'
           /\ UNCHANGED <<limit, hostLimit, budget, keep, world>>
           /\ registered' = registered \cup {d} /\ untold' = untold \cup {d}
           /\ overlapped \subseteq overlapped'
           /\ \A g \in Handlers : req[g].c # d
           /\ req[h] = NoReq /\ req'[h].at = "copy" /\ req'[h].c = d
           /\ req'[h].new = 0 /\ req'[h].host = 0 /\ req'[h].sum = 0
           /\ \A g \in Handlers \ {h} : req'[g] = req[g]
<1>1. PICK c \in registered : Accept(h, [NoReq EXCEPT !.at = "copy", !.c = d, !.todo = {c}])
    BY DEF Clone
<1>. DEFINE r == [NoReq EXCEPT !.at = "copy", !.c = d, !.todo = {c}]
<1>2. /\ registered' = registered \cup {d} /\ untold' = untold \cup {d}
      /\ UNCHANGED <<limit, usage, hostLimit, accum, budget, keep, overdrawn, world>>
      /\ \A g \in Handlers : req[g].c # d
    BY DEF Clone, IsNew
<1>3. c \in Containers
    BY DEF LimitsWhole, StoreTyped
<1>4. /\ r \in Reqs /\ r.at = "copy" /\ r.c = d
      /\ r.new = 0 /\ r.host = 0 /\ r.sum = 0
    BY <1>3, CopyRequest
<1>5. Accept(h, r)
    BY <1>1
<1>. HIDE DEF r
<1>6. Placed(r) /\ r.c # None
    BY <1>4, LimitsFacts DEF Placed
<1>7. /\ ReqTyped' /\ overlapped' \subseteq Containers
      /\ req[h] = NoReq /\ req'[h] = r
      /\ \A g \in Handlers \ {h} : req'[g] = req[g]
      /\ overlapped \subseteq overlapped'
    BY <1>4, <1>5, <1>6, AcceptMarks DEF LimitsWhole
<1>8. StoreTyped' /\ MarksTyped'
    BY <1>2, <1>7 DEF LimitsWhole, StoreTyped, MarksTyped
<1>. QED  BY <1>2, <1>4, <1>7, <1>8 DEF LimitsWhole

LEMMA CopyStep ==
    ASSUME LimitsWhole, NEW h \in Handlers, CopyLimits(h)
    PROVE  /\ LimitsWhole'
           /\ UNCHANGED <<registered, hostLimit, budget, keep, untold, overlapped, world>>
           /\ req[h].at = "copy" /\ req[h].c \in Containers
           /\ \E c \in Containers : limit' = [limit EXCEPT ![req[h].c] = limit[c]]
           /\ req'[h] = NoReq
           /\ \A g \in Handlers \ {h} : req'[g] = req[g]
<1>1. /\ req[h].at = "copy" /\ Proceed(h, NoReq)
      /\ UNCHANGED <<registered, usage, hostLimit, accum, budget, keep, untold, overdrawn, world>>
    BY DEF CopyLimits, Finish
<1>2. req[h].c \in Containers /\ req[h].todo \subseteq Containers /\ NoReq \in Reqs /\ Placed(NoReq)
    BY <1>1, RequestIn, NoReqTyped DEF LimitsWhole, Placed
<1>3. PICK c \in Containers : limit' = [limit EXCEPT ![req[h].c] = limit[c]]
    BY <1>2 DEF CopyLimits
<1>4. /\ ReqTyped' /\ overlapped' = overlapped /\ req'[h] = NoReq
      /\ \A g \in Handlers \ {h} : req'[g] = req[g]
    BY <1>1, <1>2, ProceedMarks DEF LimitsWhole
<1>5. StoreTyped' /\ MarksTyped'
    BY <1>1, <1>2, <1>3, <1>4 DEF LimitsWhole, StoreTyped, MarksTyped
<1>. QED  BY <1>1, <1>2, <1>3, <1>4, <1>5 DEF LimitsWhole

LEMMA RemoveStep ==
    ASSUME LimitsWhole, NEW c \in Containers, Remove(c)
    PROVE  /\ LimitsWhole'
           /\ UNCHANGED <<hostLimit, budget, keep, untold, overlapped, req, world>>
           /\ registered' = registered \ {c} /\ limit' = [limit EXCEPT ![c] = 0]
<1>1. /\ registered' = registered \ {c} /\ accum' = accum + usage[c]
      /\ usage' = [usage EXCEPT ![c] = 0] /\ limit' = [limit EXCEPT ![c] = 0]
      /\ overdrawn' = overdrawn + Max({usage[c] - limit[c], 0})
      /\ UNCHANGED <<hostLimit, budget, keep, req, untold, overlapped, world>>
    BY DEF Remove
<1>2. usage[c] \in Nat /\ limit[c] \in Int /\ accum \in Nat /\ overdrawn \in Nat
    BY DEF LimitsWhole, StoreTyped, MarksTyped
<1>3. Max({usage[c] - limit[c], 0}) = IF usage[c] - limit[c] >= 0 THEN usage[c] - limit[c] ELSE 0
    BY <1>2, MaxOfTwo
<1>4. Max({usage[c] - limit[c], 0}) \in Nat
    BY <1>2, <1>3
<1>5. overdrawn' \in Nat /\ accum' \in Nat
    BY <1>1, <1>2, <1>4
<1>6. StoreTyped'
    BY <1>1, <1>5 DEF LimitsWhole, StoreTyped
<1>7. MarksTyped' /\ ReqTyped'
    BY <1>1, <1>5 DEF LimitsWhole, MarksTyped, ReqTyped
<1>. QED  BY <1>1, <1>6, <1>7 DEF LimitsWhole

LEMMA UseStep ==
    ASSUME LimitsWhole, NEW c \in Containers, Use(c)
    PROVE  /\ LimitsWhole'
           /\ UNCHANGED <<registered, limit, hostLimit, budget, keep, untold, overlapped, req, world>>
<1>1. /\ usage' = [usage EXCEPT ![c] = @ + 1]
      /\ UNCHANGED <<registered, limit, hostLimit, accum, budget, keep, req, untold, overlapped, overdrawn, world>>
    BY DEF Use
<1>2. usage[c] + 1 \in Nat
    BY DEF LimitsWhole, StoreTyped
<1>3. StoreTyped' /\ MarksTyped' /\ ReqTyped'
    BY <1>1, <1>2 DEF LimitsWhole, StoreTyped, MarksTyped, ReqTyped
<1>. QED  BY <1>1, <1>3 DEF LimitsWhole

LEMMA RestoreStep ==
    ASSUME LimitsWhole, RestoreProxy
    PROVE  /\ LimitsWhole'
           /\ UNCHANGED <<storeVars, world>>
           /\ \A c \in registered : c \in untold' \/ budget'[c] = limit[c]
           /\ \A c \in Containers : budget'[c] \in {limit[c], 0}
           /\ overlapped' = {}
           /\ \A h \in Handlers : req'[h] = NoReq
<1>0. PICK told \in SUBSET registered :
          /\ budget' = [c \in Containers |-> IF c \in told THEN limit[c] ELSE 0]
          /\ untold' = registered \ told
    BY DEF RestoreProxy
<1>1. /\ req' = [h \in Handlers |-> NoReq] /\ overlapped' = {}
      /\ UNCHANGED <<storeVars, overdrawn, world>>
    BY DEF RestoreProxy
<1>2. StoreTyped' /\ MarksTyped'
    BY <1>0, <1>1 DEF LimitsWhole, StoreTyped, MarksTyped, storeVars
<1>3. ReqTyped'
    BY <1>1, NoReqTyped DEF ReqTyped
<1>4. registered \subseteq Containers
    BY DEF LimitsWhole, StoreTyped
<1>. QED  BY <1>0, <1>1, <1>2, <1>3, <1>4 DEF LimitsWhole

-----------------------------------------------------------------------------
(* Types of the settings. *)

Settings(V) == UNION {[K -> V] : K \in SUBSET Keys}
Puts == [at : {"none", "apply", "truncate", "write"},
         todo : Settings(BOOLEAN \cup {Wrong}), body : Settings(BOOLEAN \cup {Wrong}),
         file : Settings(BOOLEAN)]

\* A setting of the wrong type stays to be applied, and is not written.
Checked(p) ==
    /\ p.at \in {"truncate", "write"} => p.todo = Empty
    /\ \A k \in DOMAIN p.body : p.body[k] = Wrong => k \in DOMAIN p.todo /\ p.todo[k] = Wrong

ConfTyped ==
    /\ keep \in BOOLEAN
    /\ conf \in [StoredKeys -> BOOLEAN \cup {Unset}]
    /\ disk \in Settings(BOOLEAN) /\ loading \in Settings(BOOLEAN) /\ accepted \in Settings(BOOLEAN)
    /\ torn \in BOOLEAN /\ touched \in BOOLEAN /\ unsaved \subseteq Keys

PutTyped == put \in [Handlers -> Puts] /\ \A h \in Handlers : Checked(put[h])

ConfWhole == ConfTyped /\ PutTyped

LEMMA SettingsAre ==
    ASSUME NEW V, NEW f \in Settings(V)
    PROVE  IsSettings(f, V) /\ DOMAIN f \subseteq Keys /\ (\A k \in DOMAIN f : f[k] \in V) /\ f \in [DOMAIN f -> V]
<1>1. PICK K \in SUBSET Keys : f \in [K -> V]
    BY DEF Settings
<1>. QED  BY <1>1 DEF IsSettings

LEMMA SettingsFrom ==
    ASSUME NEW V, NEW K \in SUBSET Keys, NEW f \in [K -> V]
    PROVE  f \in Settings(V)
<1>. QED  BY DEF Settings

LEMMA EmptySettings ==
    ASSUME NEW V
    PROVE  Empty \in Settings(V) /\ DOMAIN Empty = {}
<1>1. Empty \in [{} -> V]
    BY DEF Empty
<1>2. {} \in SUBSET Keys
    OBVIOUS
<1>. QED  BY <1>1, <1>2, SettingsFrom DEF Empty

LEMMA ButSettings ==
    ASSUME NEW V, NEW f \in Settings(V), NEW k
    PROVE  /\ But(f, k) \in Settings(V) /\ DOMAIN But(f, k) = DOMAIN f \ {k}
           /\ \A j \in DOMAIN f \ {k} : But(f, k)[j] = f[j]
<1>. DEFINE K == DOMAIN f \ {k}
<1>1. K \in SUBSET Keys /\ \A j \in K : f[j] \in V
    BY SettingsAre
<1>2. But(f, k) = [j \in K |-> f[j]]
    BY DEF But
<1>3. But(f, k) \in [K -> V]
    BY <1>1, <1>2
<1>4. But(f, k) \in Settings(V)
    BY <1>1, <1>3, SettingsFrom
<1>. QED  BY <1>2, <1>4

\* The same for the settings of a request, that may have the wrong type.
LEMMA ButRaw ==
    ASSUME NEW f \in Settings(BOOLEAN \cup {Wrong}), NEW k
    PROVE  /\ But(f, k) \in Settings(BOOLEAN \cup {Wrong}) /\ DOMAIN But(f, k) = DOMAIN f \ {k}
           /\ \A j \in DOMAIN f \ {k} : But(f, k)[j] = f[j]
<1>. DEFINE V == BOOLEAN \cup {Wrong}
<1>1. f \in Settings(V)
    OBVIOUS
<1>. HIDE DEF V
<1>2. /\ But(f, k) \in Settings(V) /\ DOMAIN But(f, k) = DOMAIN f \ {k}
      /\ \A j \in DOMAIN f \ {k} : But(f, k)[j] = f[j]
    BY ONLY <1>1, ButSettings
<1>. QED  BY <1>2 DEF V

LEMMA OverSettings ==
    ASSUME NEW V, NEW f \in Settings(V), NEW g \in Settings(V)
    PROVE  Over(f, g) \in Settings(V)
<1>. DEFINE K == DOMAIN f \cup DOMAIN g
<1>1. K \in SUBSET Keys /\ (\A j \in DOMAIN f : f[j] \in V) /\ (\A j \in DOMAIN g : g[j] \in V)
    BY SettingsAre
<1>2. Over(f, g) = [k \in K |-> IF k \in DOMAIN f THEN f[k] ELSE g[k]]
    BY DEF Over
<1>3. Over(f, g) \in [K -> V]
    BY <1>1, <1>2
<1>. QED  BY <1>1, <1>3, SettingsFrom

\* The settings that were applied are of the right type.
LEMMA AppliedSettings ==
    ASSUME NEW p \in Puts, Checked(p), p.todo = Empty
    PROVE  p.body \in Settings(BOOLEAN)
<1>1. p.body \in Settings(BOOLEAN \cup {Wrong})
    BY DEF Puts
<1>2. DOMAIN p.body \in SUBSET Keys /\ p.body \in [DOMAIN p.body -> BOOLEAN \cup {Wrong}]
    BY <1>1, SettingsAre
<1>3. \A k \in DOMAIN p.body : p.body[k] # Wrong
    BY EmptySettings DEF Checked
<1>4. p.body \in [DOMAIN p.body -> BOOLEAN]
    BY <1>2, <1>3
<1>. QED  BY <1>2, <1>4, SettingsFrom

LEMMA NoPutTyped == NoPut \in Puts /\ Checked(NoPut) /\ NoPut.todo = Empty /\ NoPut.body = Empty
<1>1. Empty \in Settings(BOOLEAN \cup {Wrong}) /\ Empty \in Settings(BOOLEAN) /\ DOMAIN Empty = {}
    BY EmptySettings
<1>. QED  BY <1>1 DEF NoPut, Puts, Checked

LEMMA BodyTyped ==
    ASSUME NEW body \in Bodies[world], world \in Worlds
    PROVE  /\ body \in Settings(BOOLEAN \cup {Wrong})
           /\ "mode" \notin world.may => "keep" \notin DOMAIN body
<1>1. PICK K \in SUBSET KeysOf(world) : body \in [K -> ValuesOf(world)]
    BY DEF Bodies
<1>2. KeysOf(world) \subseteq Keys /\ ("mode" \notin world.may => "keep" \notin KeysOf(world))
    BY ConfigFacts DEF KeysOf, Keys, StoredKeys
<1>3. body \in [K -> BOOLEAN \cup {Wrong}] /\ K \in SUBSET Keys
    BY <1>1, <1>2 DEF ValuesOf
<1>. QED  BY <1>1, <1>2, <1>3, SettingsFrom

LEMMA PutSet ==
    ASSUME PutTyped, NEW h \in Handlers, NEW p \in Puts, Checked(p), put' = [put EXCEPT ![h] = p]
    PROVE  /\ PutTyped' /\ put'[h] = p
           /\ \A g \in Handlers \ {h} : put'[g] = put[g]
<1>. QED  BY DEF PutTyped

LEMMA PutIn ==
    ASSUME PutTyped, NEW h \in Handlers
    PROVE  /\ put[h] \in Puts /\ Checked(put[h])
           /\ put[h].todo \in Settings(BOOLEAN \cup {Wrong})
           /\ put[h].body \in Settings(BOOLEAN \cup {Wrong}) /\ put[h].file \in Settings(BOOLEAN)
<1>. QED  BY DEF PutTyped, Puts

\* What an applied setting changes.
LEMMA ApplyKeyTyped ==
    ASSUME ConfTyped, NEW k \in Keys, NEW value \in BOOLEAN \cup {Wrong},
           Applicable(k, value), ApplyKey(k, value)
    PROVE  /\ keep' \in BOOLEAN /\ conf' \in [StoredKeys -> BOOLEAN \cup {Unset}]
           /\ k # "keep" => keep' = keep
<1>1. value \in BOOLEAN
    BY DEF Applicable
<1>2. CASE k = "keep"
    BY <1>1, <1>2 DEF ApplyKey, ConfTyped
<1>3. CASE k # "keep"
  <2>1. /\ conf' = [j \in StoredKeys |->
                        IF j = k THEN value
                        ELSE IF j = Provider /\ k = "url" /\ ~HasQueue THEN TRUE
                        ELSE conf[j]]
        /\ keep' = keep
      BY <1>3 DEF ApplyKey
  <2>. QED  BY <1>1, <1>3, <2>1 DEF ConfTyped
<1>. QED  BY <1>2, <1>3

LEMMA PutConfigStep ==
    ASSUME ConfWhole, world \in Worlds, NEW h \in Handlers, NEW body \in Bodies[world], PutConfig(h, body)
    PROVE  /\ ConfWhole'
           /\ UNCHANGED <<limitsVars, loading>>
           /\ "mode" \notin world.may => "keep" \notin DOMAIN put'[h].todo
           /\ \A g \in Handlers \ {h} : put'[g] = put[g]
<1>. DEFINE p == [NoPut EXCEPT !.at = "apply", !.todo = body, !.body = But(body, "url")]
            applied == But(body, "url")
<1>1. /\ put' = [put EXCEPT ![h] = p]
      /\ UNCHANGED <<limitsVars, conf, disk, torn, loading, accepted, unsaved, touched>>
    BY DEF PutConfig
<1>2. body \in Settings(BOOLEAN \cup {Wrong}) /\ ("mode" \notin world.may => "keep" \notin DOMAIN body)
    BY BodyTyped
<1>3. /\ applied \in Settings(BOOLEAN \cup {Wrong}) /\ DOMAIN applied = DOMAIN body \ {"url"}
      /\ \A j \in DOMAIN body \ {"url"} : applied[j] = body[j]
    BY <1>2, ButRaw
<1>. HIDE DEF applied
<1>4. p = [NoPut EXCEPT !.at = "apply", !.todo = body, !.body = applied]
    BY DEF applied
<1>5. p \in Puts /\ p.at = "apply" /\ p.todo = body /\ p.body = applied
    BY ONLY <1>2, <1>3, <1>4, NoPutTyped DEF Puts
<1>. HIDE DEF p
<1>6. Checked(p)
    BY <1>3, <1>5 DEF Checked
<1>7. PutTyped' /\ put'[h] = p /\ \A g \in Handlers \ {h} : put'[g] = put[g]
    BY <1>1, <1>5, <1>6, PutSet DEF ConfWhole
<1>8. ConfTyped'
    BY <1>1 DEF ConfWhole, ConfTyped, limitsVars
<1>. QED  BY <1>1, <1>2, <1>5, <1>7, <1>8 DEF ConfWhole

LEMMA ApplyOneStep ==
    ASSUME ConfWhole, NEW h \in Handlers, NEW k \in Keys, ApplyOne(h, k)
    PROVE  /\ ConfWhole'
           /\ UNCHANGED <<storeVars, budget, req, untold, overlapped, overdrawn, world, loading>>
           /\ k \in DOMAIN put[h].todo /\ (k # "keep" => keep' = keep)
           /\ DOMAIN put'[h].todo \subseteq DOMAIN put[h].todo
           /\ \A g \in Handlers \ {h} : put'[g] = put[g]
<1>. DEFINE rest == But(put[h].todo, k)
            p == [put[h] EXCEPT !.todo = rest]
<1>1. /\ put[h].at = "apply" /\ k \in DOMAIN put[h].todo
      /\ Applicable(k, put[h].todo[k]) /\ ApplyKey(k, put[h].todo[k])
      /\ put' = [put EXCEPT ![h].todo = But(@, k)]
      /\ UNCHANGED <<storeVars, budget, req, untold, overlapped, overdrawn, world>>
      /\ UNCHANGED <<disk, torn, loading, accepted, unsaved, touched>>
    BY DEF ApplyOne, MayApply
<1>2. /\ put[h] \in Puts /\ Checked(put[h]) /\ put[h].todo \in Settings(BOOLEAN \cup {Wrong})
      /\ put \in [Handlers -> Puts]
    BY PutIn DEF ConfWhole, PutTyped
<1>3. /\ rest \in Settings(BOOLEAN \cup {Wrong}) /\ DOMAIN rest = DOMAIN put[h].todo \ {k}
      /\ \A j \in DOMAIN put[h].todo \ {k} : rest[j] = put[h].todo[j]
    BY <1>2, ButRaw
<1>4. put' = [put EXCEPT ![h] = p]
    BY ONLY <1>1, <1>2
<1>5. put[h].todo[k] \in BOOLEAN \cup {Wrong}
    BY <1>1, <1>2, SettingsAre
<1>6. put[h].todo[k] # Wrong
    BY <1>1 DEF Applicable
<1>. HIDE DEF rest
<1>7. p \in Puts /\ p.at = "apply" /\ p.todo = rest /\ p.body = put[h].body
    BY <1>1, <1>2, <1>3 DEF Puts
<1>. HIDE DEF p
<1>8. Checked(p)
    BY <1>2, <1>3, <1>6, <1>7 DEF Checked
<1>9. PutTyped' /\ put'[h] = p /\ \A g \in Handlers \ {h} : put'[g] = put[g]
    BY <1>4, <1>7, <1>8, PutSet DEF ConfWhole
<1>10. keep' \in BOOLEAN /\ conf' \in [StoredKeys -> BOOLEAN \cup {Unset}] /\ (k # "keep" => keep' = keep)
    BY <1>1, <1>5, ApplyKeyTyped DEF ConfWhole
<1>11. ConfTyped'
    BY <1>1, <1>10 DEF ConfWhole, ConfTyped
<1>. QED  BY <1>1, <1>3, <1>7, <1>9, <1>10, <1>11 DEF ConfWhole

LEMMA RefuseStep ==
    ASSUME ConfWhole, NEW h \in Handlers, NEW k \in Keys, Refuse(h, k)
    PROVE  /\ ConfWhole' /\ UNCHANGED <<limitsVars, loading>>
           /\ DOMAIN put'[h].todo = {}
           /\ \A g \in Handlers \ {h} : put'[g] = put[g]
<1>1. /\ put' = [put EXCEPT ![h] = NoPut] /\ touched' = TRUE
      /\ UNCHANGED <<limitsVars, conf, disk, torn, loading, accepted, unsaved>>
    BY DEF Refuse
<1>2. PutTyped' /\ put'[h] = NoPut /\ \A g \in Handlers \ {h} : put'[g] = put[g]
    BY <1>1, NoPutTyped, PutSet DEF ConfWhole
<1>3. ConfTyped'
    BY <1>1 DEF ConfWhole, ConfTyped, limitsVars
<1>4. DOMAIN Empty = {}
    BY EmptySettings
<1>. QED  BY <1>1, <1>2, <1>3, <1>4, NoPutTyped DEF ConfWhole

LEMMA ReadFileStep ==
    ASSUME ConfWhole, NEW h \in Handlers, ReadFile(h)
    PROVE  /\ ConfWhole' /\ UNCHANGED <<limitsVars, loading>>
           /\ put'[h].todo = put[h].todo
           /\ \A g \in Handlers \ {h} : put'[g] = put[g]
<1>0. PICK f \in {IF torn THEN Empty ELSE disk} \cup (IF FileMayFail THEN {Empty} ELSE {}) :
          put' = [put EXCEPT ![h].at = "truncate", ![h].file = f]
    BY DEF ReadFile
<1>. DEFINE p == [put[h] EXCEPT !.at = "truncate", !.file = f]
<1>1. /\ put[h].todo = Empty
      /\ UNCHANGED <<limitsVars, conf, disk, torn, loading, accepted, unsaved, touched>>
    BY DEF ReadFile
<1>2. put[h] \in Puts /\ Checked(put[h]) /\ put \in [Handlers -> Puts]
    BY PutIn DEF ConfWhole, PutTyped
<1>3. f \in Settings(BOOLEAN)
    BY EmptySettings DEF ConfWhole, ConfTyped
<1>4. put' = [put EXCEPT ![h] = p]
    BY <1>0, <1>2
<1>5. p \in Puts /\ p.at = "truncate" /\ p.todo = put[h].todo /\ p.body = put[h].body
    BY <1>2, <1>3 DEF Puts
<1>. HIDE DEF p
<1>6. Checked(p)
    BY <1>1, <1>2, <1>5 DEF Checked
<1>7. PutTyped' /\ put'[h] = p /\ \A g \in Handlers \ {h} : put'[g] = put[g]
    BY <1>4, <1>5, <1>6, PutSet DEF ConfWhole
<1>8. ConfTyped'
    BY <1>1 DEF ConfWhole, ConfTyped, limitsVars
<1>. QED  BY <1>1, <1>5, <1>7, <1>8 DEF ConfWhole

LEMMA TruncateStep ==
    ASSUME ConfWhole, NEW h \in Handlers, Truncate(h)
    PROVE  /\ ConfWhole' /\ UNCHANGED <<limitsVars, loading>>
           /\ put'[h].todo = put[h].todo
           /\ \A g \in Handlers \ {h} : put'[g] = put[g]
<1>. DEFINE p == [put[h] EXCEPT !.at = "write"]
<1>1. /\ put[h].at = "truncate" /\ torn' = TRUE
      /\ put' = [put EXCEPT ![h].at = "write"]
      /\ UNCHANGED <<limitsVars, conf, disk, loading, accepted, unsaved, touched>>
    BY DEF Truncate
<1>2. put[h] \in Puts /\ Checked(put[h]) /\ put \in [Handlers -> Puts]
    BY PutIn DEF ConfWhole, PutTyped
<1>3. put' = [put EXCEPT ![h] = p]
    BY <1>1, <1>2
<1>4. p \in Puts /\ p.at = "write" /\ p.todo = put[h].todo /\ p.body = put[h].body
    BY <1>2 DEF Puts
<1>. HIDE DEF p
<1>5. Checked(p)
    BY <1>1, <1>2, <1>4 DEF Checked
<1>6. PutTyped' /\ put'[h] = p /\ \A g \in Handlers \ {h} : put'[g] = put[g]
    BY <1>3, <1>4, <1>5, PutSet DEF ConfWhole
<1>7. ConfTyped'
    BY <1>1 DEF ConfWhole, ConfTyped, limitsVars
<1>. QED  BY <1>1, <1>4, <1>6, <1>7 DEF ConfWhole

LEMMA WriteFileStep ==
    ASSUME ConfWhole, NEW h \in Handlers, WriteFile(h)
    PROVE  /\ ConfWhole' /\ UNCHANGED <<limitsVars, loading>>
           /\ DOMAIN put'[h].todo = {}
           /\ \A g \in Handlers \ {h} : put'[g] = put[g]
<1>1. /\ put[h].at = "write" /\ torn' = FALSE
      /\ disk' = Over(put[h].body, put[h].file) /\ accepted' = Over(put[h].body, accepted)
      /\ unsaved' = (unsaved \cup Missing(h)) \ DOMAIN put[h].body
      /\ put' = [put EXCEPT ![h] = NoPut]
      /\ UNCHANGED <<limitsVars, conf, loading, touched>>
    BY DEF WriteFile
<1>2. put[h] \in Puts /\ Checked(put[h]) /\ put[h].file \in Settings(BOOLEAN)
    BY PutIn DEF ConfWhole
<1>3. put[h].todo = Empty
    BY <1>1, <1>2 DEF Checked
<1>4. put[h].body \in Settings(BOOLEAN)
    BY <1>2, <1>3, AppliedSettings
<1>5. disk' \in Settings(BOOLEAN) /\ accepted' \in Settings(BOOLEAN)
    BY <1>1, <1>2, <1>4, OverSettings DEF ConfWhole, ConfTyped
<1>6. PutTyped' /\ put'[h] = NoPut /\ \A g \in Handlers \ {h} : put'[g] = put[g]
    BY <1>1, NoPutTyped, PutSet DEF ConfWhole
<1>7. DOMAIN accepted \subseteq Keys
    BY SettingsAre DEF ConfWhole, ConfTyped
<1>8. unsaved' \subseteq Keys
    BY <1>1, <1>7 DEF ConfWhole, ConfTyped, Missing
<1>9. ConfTyped'
    BY <1>1, <1>5, <1>8 DEF ConfWhole, ConfTyped, limitsVars
<1>10. DOMAIN Empty = {}
    BY EmptySettings
<1>. QED  BY <1>1, <1>6, <1>9, <1>10, NoPutTyped DEF ConfWhole

\* A write that fails.
LEMMA UnwrittenStep ==
    ASSUME ConfWhole, NEW h \in Handlers, NotWritten(h) \/ WrittenInPart(h)
    PROVE  /\ ConfWhole' /\ UNCHANGED <<limitsVars, loading>>
           /\ FileMayFail /\ DOMAIN put'[h].todo = {}
           /\ \A g \in Handlers \ {h} : put'[g] = put[g]
<1>1. /\ put[h].at \in {"truncate", "write"} /\ FileMayFail
      /\ accepted' = Over(put[h].body, accepted)
      /\ unsaved' = unsaved \cup DOMAIN put[h].body \/ unsaved' = DOMAIN accepted'
      /\ put' = [put EXCEPT ![h] = NoPut]
      /\ UNCHANGED <<limitsVars, conf, disk, torn, loading, touched>>
    BY DEF NotWritten, WrittenInPart
<1>2. put[h] \in Puts /\ Checked(put[h])
    BY PutIn DEF ConfWhole
<1>3. put[h].todo = Empty
    BY <1>1, <1>2 DEF Checked
<1>4. put[h].body \in Settings(BOOLEAN)
    BY <1>2, <1>3, AppliedSettings
<1>5. accepted' \in Settings(BOOLEAN)
    BY <1>1, <1>4, OverSettings DEF ConfWhole, ConfTyped
<1>6. PutTyped' /\ put'[h] = NoPut /\ \A g \in Handlers \ {h} : put'[g] = put[g]
    BY <1>1, NoPutTyped, PutSet DEF ConfWhole
<1>7. DOMAIN accepted' \subseteq Keys /\ DOMAIN put[h].body \subseteq Keys
    BY <1>4, <1>5, SettingsAre
<1>8. ConfTyped'
    BY <1>1, <1>5, <1>7 DEF ConfWhole, ConfTyped, limitsVars
<1>9. DOMAIN Empty = {}
    BY EmptySettings
<1>. QED  BY <1>1, <1>6, <1>8, <1>9, NoPutTyped DEF ConfWhole

LEMMA SwitchStep ==
    ASSUME ConfWhole, NEW value \in BOOLEAN, Switch(value)
    PROVE  ConfWhole' /\ UNCHANGED <<limitsVars, loading, put>>
<1>1. /\ conf' = [conf EXCEPT ![Provider] = value] /\ touched' = TRUE
      /\ UNCHANGED <<limitsVars, disk, torn, put, loading, accepted, unsaved>>
    BY DEF Switch
<1>2. ConfTyped'
    BY <1>1 DEF ConfWhole, ConfTyped, limitsVars
<1>3. PutTyped'
    BY <1>1 DEF ConfWhole, PutTyped
<1>. QED  BY <1>1, <1>2, <1>3 DEF ConfWhole

LEMMA RestartStep ==
    ASSUME ConfWhole, Restart
    PROVE  /\ ConfWhole' /\ RestoreProxy
           /\ "restart" \in world.may \/ "crash" \in world.may
<1>1. /\ RestoreProxy /\ keep' = FALSE
      /\ conf' = [k \in StoredKeys |-> Unset]
      /\ put' = [h \in Handlers |-> NoPut]
      /\ unsaved' = {} /\ touched' = FALSE /\ UNCHANGED <<disk, torn>>
      /\ "restart" \in world.may \/ "crash" \in world.may
    BY DEF Restart
<1>2. PICK readable \in BOOLEAN :
          /\ loading' = IF torn \/ ~readable THEN Empty ELSE disk
          /\ accepted' = [k \in IF readable THEN DOMAIN accepted \ unsaved ELSE {} |-> accepted[k]]
    BY DEF Restart
<1>. DEFINE K == IF readable THEN DOMAIN accepted \ unsaved ELSE {}
<1>3. K \in SUBSET Keys /\ \A k \in K : accepted[k] \in BOOLEAN
    BY SettingsAre DEF ConfWhole, ConfTyped
<1>4. accepted' \in [K -> BOOLEAN]
    BY <1>2, <1>3
<1>5. accepted' \in Settings(BOOLEAN)
    BY <1>3, <1>4, SettingsFrom
<1>6. ConfTyped'
    BY <1>1, <1>2, <1>5, EmptySettings DEF ConfWhole, ConfTyped
<1>7. PutTyped'
    BY <1>1, NoPutTyped DEF PutTyped
<1>. QED  BY <1>1, <1>6, <1>7 DEF ConfWhole

LEMMA LoadKeyStep ==
    ASSUME ConfWhole, NEW k \in Keys, LoadKey(k)
    PROVE  /\ ConfWhole' /\ loading # Empty
           /\ UNCHANGED <<storeVars, budget, req, untold, overlapped, overdrawn, world, put>>
<1>1. /\ k \in DOMAIN loading /\ Applicable(k, loading[k]) /\ ApplyKey(k, loading[k])
      /\ loading' = But(loading, k)
      /\ UNCHANGED <<storeVars, budget, req, untold, overlapped, overdrawn, world>>
      /\ UNCHANGED <<disk, torn, put, accepted, unsaved, touched>>
    BY DEF LoadKey, MayApply
<1>2. loading[k] \in BOOLEAN
    BY <1>1, SettingsAre DEF ConfWhole, ConfTyped
<1>3. keep' \in BOOLEAN /\ conf' \in [StoredKeys -> BOOLEAN \cup {Unset}]
    BY <1>1, <1>2, ApplyKeyTyped DEF ConfWhole
<1>4. loading' \in Settings(BOOLEAN)
    BY <1>1, ButSettings DEF ConfWhole, ConfTyped
<1>5. ConfTyped'
    BY <1>1, <1>3, <1>4 DEF ConfWhole, ConfTyped
<1>6. PutTyped'
    BY <1>1 DEF ConfWhole, PutTyped
<1>7. loading # Empty
    BY <1>1, EmptySettings
<1>. QED  BY <1>1, <1>5, <1>6, <1>7 DEF ConfWhole

LEMMA LoadFailsStep ==
    ASSUME ConfWhole, NEW k \in Keys, LoadFails(k)
    PROVE  ConfWhole' /\ loading # Empty /\ UNCHANGED <<limitsVars, put>>
<1>1. /\ k \in DOMAIN loading /\ loading' = Empty
      /\ UNCHANGED <<limitsVars, conf, disk, torn, put, accepted, unsaved, touched>>
    BY DEF LoadFails, MayApply
<1>2. ConfTyped'
    BY <1>1, EmptySettings DEF ConfWhole, ConfTyped, limitsVars
<1>3. PutTyped'
    BY <1>1 DEF ConfWhole, PutTyped
<1>4. loading # Empty
    BY <1>1, EmptySettings
<1>. QED  BY <1>1, <1>2, <1>3, <1>4 DEF ConfWhole

-----------------------------------------------------------------------------
(* Types are invariant. *)

Whole == LimitsWhole /\ ConfWhole

LEMMA InitWhole == Init => Whole
<1>. SUFFICES ASSUME Init PROVE Whole
    OBVIOUS
<1>1. world \in Worlds /\ world \in [may : SUBSET Happenings, managed : SUBSET Containers,
                                     keep : BOOLEAN, host : 0 .. MaxLimit]
    BY LimitsFacts DEF Init, LimitsInit
<1>2. world.managed \subseteq Containers /\ world.keep \in BOOLEAN /\ world.host \in Nat
    BY <1>1, LimitsFacts
<1>3. StoreTyped /\ MarksTyped
    BY <1>1, <1>2 DEF Init, LimitsInit, StoreTyped, MarksTyped
<1>4. ReqTyped
    BY NoReqTyped DEF Init, LimitsInit, ReqTyped
<1>5. [k \in {"keep"} |-> TRUE] \in Settings(BOOLEAN)
  <2>1. {"keep"} \in SUBSET Keys /\ [k \in {"keep"} |-> TRUE] \in [{"keep"} -> BOOLEAN]
      BY DEF Keys
  <2>. QED  BY <2>1, SettingsFrom
<1>6. disk \in Settings(BOOLEAN) /\ loading \in Settings(BOOLEAN) /\ accepted \in Settings(BOOLEAN)
    BY <1>5, EmptySettings DEF Init
<1>7. ConfTyped
    BY <1>2, <1>6 DEF Init, LimitsInit, ConfTyped
<1>8. PutTyped
    BY NoPutTyped DEF Init, PutTyped
<1>. QED  BY <1>3, <1>4, <1>7, <1>8 DEF Whole, LimitsWhole, ConfWhole

LEMMA ServeWhole ==
    ASSUME LimitsWhole, NEW h \in Handlers, Serve(h)
    PROVE  LimitsWhole' /\ keep' = keep /\ world' = world
<1>1. CASE \E op \in Ops, amount \in Amounts : PutHost(h, op, amount)
    BY <1>1, PutHostStep
<1>2. CASE \E op \in Ops, amount \in Amounts, c \in Containers : PutLimit(h, c, op, amount)
    BY <1>2, PutLimitStep
<1>3. CASE \E c \in Containers : Register(h, c)
    BY <1>3, RegisterStep
<1>4. CASE \E c \in Containers : Clone(h, c)
    BY <1>4, CloneStep
<1>5. CASE \E c \in Containers : AddLimit(h, c)
    BY <1>5, AddStep DEF Silent
<1>6. CASE Validate(h)
    BY <1>6, ValidateStep DEF Silent
<1>7. CASE ListContainers(h)
    BY <1>7, ListStep DEF Silent
<1>8. CASE Judge(h)
    BY <1>8, JudgeStep DEF Silent
<1>9. CASE WriteHost(h)
    BY <1>9, WriteHostStep
<1>10. CASE WriteLimit(h)
    BY <1>10, WriteLimitStep
<1>11. CASE ApplyBudget(h)
    BY <1>11, ApplyStep
<1>12. CASE ReadLimit(h)
    BY <1>12, ReadStep
<1>13. CASE CopyLimits(h)
    BY <1>13, CopyStep
<1>14. CASE StoreFails(h)
    BY <1>14, FailStep
<1>. QED
    BY <1>1, <1>2, <1>3, <1>4, <1>5, <1>6, <1>7, <1>8, <1>9, <1>10, <1>11, <1>12, <1>13, <1>14 DEF Serve

LEMMA StillConf ==
    ASSUME ConfWhole, UNCHANGED configVars, keep' = keep
    PROVE  ConfWhole'
<1>. QED  BY DEF ConfWhole, ConfTyped, PutTyped, configVars

LEMMA StillLimits ==
    ASSUME LimitsWhole, UNCHANGED <<storeVars, budget, req, untold, overlapped, overdrawn, world>>
    PROVE  LimitsWhole'
<1>. QED  BY DEF LimitsWhole, StoreTyped, ReqTyped, MarksTyped, storeVars

LEMMA StillLimitsVars ==
    ASSUME LimitsWhole, UNCHANGED limitsVars
    PROVE  LimitsWhole'
<1>. QED  BY StillLimits DEF limitsVars

LEMMA NextWhole == Whole /\ [Next]_vars => Whole'
<1>. SUFFICES ASSUME Whole, [Next]_vars PROVE Whole'
    OBVIOUS
<1>. USE DEF Whole
<1>0. world \in Worlds
    BY DEF LimitsWhole, MarksTyped
<1>1. ASSUME NEW h \in Handlers, ServeLimits(h) PROVE Whole'
    BY <1>1, ServeWhole, StillConf DEF ServeLimits
<1>2. ASSUME NEW h \in Handlers, NEW body \in Bodies[world], PutConfig(h, body) PROVE Whole'
    BY <1>0, <1>2, PutConfigStep, StillLimitsVars
<1>3. ASSUME NEW h \in Handlers, NEW k \in Keys, ApplyOne(h, k) PROVE Whole'
    BY <1>3, ApplyOneStep, StillLimits
<1>4. ASSUME NEW h \in Handlers, NEW k \in Keys, Refuse(h, k) PROVE Whole'
    BY <1>4, RefuseStep, StillLimitsVars
<1>5. ASSUME NEW h \in Handlers,
             ReadFile(h) \/ NotWritten(h) \/ Truncate(h) \/ WriteFile(h) \/ WrittenInPart(h)
      PROVE  Whole'
    BY <1>5, ReadFileStep, UnwrittenStep, TruncateStep, WriteFileStep, StillLimitsVars
<1>6. ASSUME NEW c \in Containers, Remove(c) \/ Use(c), UNCHANGED configVars PROVE Whole'
    BY <1>6, RemoveStep, UseStep, StillConf
<1>7. ASSUME NEW value \in BOOLEAN, Switch(value) PROVE Whole'
    BY <1>7, SwitchStep, StillLimitsVars
<1>8. ASSUME Restart PROVE Whole'
    BY <1>8, RestartStep, RestoreStep
<1>9. ASSUME NEW k \in Keys, LoadKey(k) PROVE Whole'
    BY <1>9, LoadKeyStep, StillLimits
<1>10. ASSUME NEW k \in Keys, LoadFails(k) PROVE Whole'
    BY <1>10, LoadFailsStep, StillLimitsVars
<1>11. ASSUME UNCHANGED vars PROVE Whole'
    BY <1>11, StillLimitsVars, StillConf DEF vars, limitsVars
<1>. QED
    BY <1>1, <1>2, <1>3, <1>4, <1>5, <1>6, <1>7, <1>8, <1>9, <1>10, <1>11 DEF Next, ServeConfig

LEMMA WholeTypes == Whole => TypeOK
<1>. SUFFICES ASSUME Whole PROVE TypeOK
    OBVIOUS
<1>1. LimitsTypeOK
    BY LimitsTypeParts DEF Whole, ConfWhole, ConfTyped
<1>2. IsSettings(disk, BOOLEAN) /\ IsSettings(loading, BOOLEAN) /\ IsSettings(accepted, BOOLEAN)
    BY SettingsAre DEF Whole, ConfWhole, ConfTyped
<1>3. ASSUME NEW h \in Handlers
      PROVE  /\ put[h].at \in {"none", "apply", "truncate", "write"}
             /\ IsSettings(put[h].todo, BOOLEAN \cup {Wrong})
             /\ IsSettings(put[h].body, BOOLEAN \cup {Wrong})
             /\ IsSettings(put[h].file, BOOLEAN)
  <2>1. /\ put[h] \in Puts /\ put[h].todo \in Settings(BOOLEAN \cup {Wrong})
        /\ put[h].body \in Settings(BOOLEAN \cup {Wrong}) /\ put[h].file \in Settings(BOOLEAN)
      BY PutIn DEF Whole, ConfWhole
  <2>2. put[h].at \in {"none", "apply", "truncate", "write"}
      BY <2>1 DEF Puts
  <2>. QED  BY <2>1, <2>2, SettingsAre
<1>. QED  BY <1>1, <1>2, <1>3 DEF TypeOK, Whole, ConfWhole, ConfTyped

\* Every variable of the server, the store and the proxy's copies keeps its type: what
\* applyConfig took for a setting is what persistConfig writes, so a value of the wrong
\* type never reaches config.json.
THEOREM ConfigTypeCorrect == Spec => []TypeOK
<1>1. Spec => []Whole
    BY InitWhole, NextWhole, PTL DEF Spec
<1>. QED  BY <1>1, WholeTypes, PTL

-----------------------------------------------------------------------------
(* Where no request sends a value below zero, none is ever stored or computed. *)

NotBelow(r) == r.new \in Nat /\ r.host \in Nat /\ r.sum \in Nat

NoneBelow ==
    "negative" \notin world.may =>
        /\ limit \in [Containers -> Nat] /\ hostLimit \in Nat
        /\ \A h \in Handlers : NotBelow(req[h])

LEMMA InitNoneBelow == Init => NoneBelow
<1>. SUFFICES ASSUME Init PROVE NoneBelow
    OBVIOUS
<1>1. world.host \in Nat
    BY LimitsFacts DEF Init, LimitsInit
<1>. QED  BY <1>1, NoReqTyped DEF Init, LimitsInit, NoneBelow, NotBelow

\* A step of handler h.
LEMMA NoneBelowKept ==
    ASSUME NoneBelow, NEW h \in Handlers, world' = world,
           \A g \in Handlers \ {h} : req'[g] = req[g],
           "negative" \notin world.may => /\ limit' \in [Containers -> Nat] /\ hostLimit' \in Nat
                                          /\ NotBelow(req'[h])
    PROVE  NoneBelow'
<1>. SUFFICES ASSUME "negative" \notin world.may PROVE NoneBelow'
    BY DEF NoneBelow
<1>1. ASSUME NEW g \in Handlers PROVE NotBelow(req[g])'
  <2>1. CASE g = h
      BY <2>1 DEF NotBelow
  <2>2. CASE g # h
      BY <2>2 DEF NotBelow, NoneBelow
  <2>. QED  BY <2>1, <2>2
<1>. QED  BY <1>1 DEF NoneBelow

LEMMA NoReqNotBelow == NotBelow(NoReq)
<1>. QED  BY NoReqTyped DEF NotBelow

LEMMA ServeNoneBelow ==
    ASSUME LimitsWhole, NoneBelow, NEW h \in Handlers, Serve(h)
    PROVE  NoneBelow'
<1>. DEFINE Above == "negative" \notin world.may
<1>0. Above => limit \in [Containers -> Nat] /\ hostLimit \in Nat /\ NotBelow(req[h])
    BY DEF NoneBelow
<1>a. ASSUME NEW amount \in Amounts, MaySend(amount), Above PROVE amount \in Nat
    BY <1>a, LimitsFacts DEF MaySend
<1>b. ASSUME NEW value \in Nat PROVE ReadOf(value) \subseteq Nat
    BY ReadOfTyped
<1>1. ASSUME NEW op \in Ops, NEW amount \in Amounts, PutHost(h, op, amount) PROVE NoneBelow'
  <2>1. /\ UNCHANGED <<limit, hostLimit, world>> /\ MaySend(amount)
        /\ req'[h].host = 0 /\ req'[h].sum = 0
        /\ \A g \in Handlers \ {h} : req'[g] = req[g]
      BY <1>1, PutHostStep DEF storeVars
  <2>2. PICK old \in ReadOf(hostLimit) : req'[h].new = Result(op, old, amount)
      BY <1>1, PutHostStep
  <2>3. Above => old \in Nat /\ amount \in Nat
      BY <1>0, <1>a, <1>b, <2>1
  <2>4. ASSUME Above PROVE NotBelow(req'[h])
    <3>1. Result(op, old, amount) \in Nat
        BY <2>3, <2>4, ResultNotBelow
    <3>. QED  BY <2>1, <2>2, <3>1 DEF NotBelow
  <2>. QED  BY <1>0, <2>1, <2>4, NoneBelowKept
<1>2. ASSUME NEW op \in Ops, NEW amount \in Amounts, NEW c \in Containers, PutLimit(h, c, op, amount)
      PROVE  NoneBelow'
  <2>1. /\ UNCHANGED <<limit, hostLimit, world>> /\ MaySend(amount)
        /\ req'[h].host = 0 /\ req'[h].sum = 0
        /\ \A g \in Handlers \ {h} : req'[g] = req[g]
      BY <1>2, PutLimitStep DEF storeVars
  <2>2. PICK old \in ReadOf(limit[c]) : req'[h].new = Result(op, old, amount)
      BY <1>2, PutLimitStep
  <2>3. Above => old \in Nat /\ amount \in Nat
      BY <1>0, <1>a, <1>b, <2>1
  <2>4. ASSUME Above PROVE NotBelow(req'[h])
    <3>1. Result(op, old, amount) \in Nat
        BY <2>3, <2>4, ResultNotBelow
    <3>. QED  BY <2>1, <2>2, <3>1 DEF NotBelow
  <2>. QED  BY <1>0, <2>1, <2>4, NoneBelowKept
<1>3. ASSUME NEW c \in Containers, Register(h, c) \/ Clone(h, c) PROVE NoneBelow'
  <2>1. /\ UNCHANGED <<limit, hostLimit, world>>
        /\ req'[h].new = 0 /\ req'[h].host = 0 /\ req'[h].sum = 0
        /\ \A g \in Handlers \ {h} : req'[g] = req[g]
      BY <1>3, RegisterStep, CloneStep
  <2>2. NotBelow(req'[h])
      BY <2>1 DEF NotBelow
  <2>. QED  BY <1>0, <2>1, <2>2, NoneBelowKept
<1>4. ASSUME NEW c \in Containers, AddLimit(h, c) PROVE NoneBelow'
  <2>1. /\ UNCHANGED <<limit, hostLimit, world>>
        /\ req'[h].new = req[h].new /\ req'[h].host = req[h].host
        /\ \A g \in Handlers \ {h} : req'[g] = req[g]
      BY <1>4, AddStep DEF Silent, storeVars
  <2>2. PICK value \in ReadOf(limit[c]) : req'[h].sum = req[h].sum + value
      BY <1>4, AddStep
  <2>3. Above => value \in Nat
      BY <1>0, <1>b
  <2>4. Above => NotBelow(req'[h])
      BY <1>0, <2>1, <2>2, <2>3 DEF NotBelow
  <2>. QED  BY <1>0, <2>1, <2>4, NoneBelowKept
<1>5. ASSUME Validate(h) PROVE NoneBelow'
  <2>1. /\ UNCHANGED <<limit, hostLimit, world>> /\ req'[h].host \in ReadOf(hostLimit)
        /\ req'[h].new = req[h].new /\ req'[h].sum = req[h].sum
        /\ \A g \in Handlers \ {h} : req'[g] = req[g]
      BY <1>5, ValidateStep DEF Silent, storeVars
  <2>2. Above => NotBelow(req'[h])
      BY <1>0, <1>b, <2>1 DEF NotBelow
  <2>. QED  BY <1>0, <2>1, <2>2, NoneBelowKept
<1>6. ASSUME ListContainers(h) PROVE NoneBelow'
  <2>1. /\ UNCHANGED <<limit, hostLimit, world>>
        /\ req'[h].new = req[h].new /\ req'[h].host = req[h].host /\ req'[h].sum = req[h].sum
        /\ \A g \in Handlers \ {h} : req'[g] = req[g]
      BY <1>6, ListStep DEF Silent, storeVars
  <2>2. Above => NotBelow(req'[h])
      BY <1>0, <2>1 DEF NotBelow
  <2>. QED  BY <1>0, <2>1, <2>2, NoneBelowKept
<1>7. ASSUME Judge(h) PROVE NoneBelow'
  <2>1. /\ UNCHANGED <<limit, hostLimit, world>>
        /\ \/ req'[h] = NoReq
           \/ /\ req'[h].host = req[h].host /\ req'[h].sum = req[h].sum
              /\ req[h].new \in Nat => req'[h].new \in Nat
        /\ \A g \in Handlers \ {h} : req'[g] = req[g]
      BY <1>7, JudgeStep DEF Silent, storeVars
  <2>2. Above => NotBelow(req'[h])
      BY <1>0, <2>1, NoReqNotBelow DEF NotBelow
  <2>. QED  BY <1>0, <2>1, <2>2, NoneBelowKept
<1>8. ASSUME WriteHost(h) PROVE NoneBelow'
  <2>1. /\ UNCHANGED <<limit, world>> /\ hostLimit' = req[h].new /\ req'[h] = NoReq
        /\ \A g \in Handlers \ {h} : req'[g] = req[g]
      BY <1>8, WriteHostStep
  <2>2. Above => hostLimit' \in Nat
      BY <1>0, <2>1 DEF NotBelow
  <2>. QED  BY <1>0, <2>1, <2>2, NoReqNotBelow, NoneBelowKept
<1>9. ASSUME WriteLimit(h) PROVE NoneBelow'
  <2>1. /\ UNCHANGED <<hostLimit, world>> /\ limit' = [limit EXCEPT ![req[h].c] = req[h].new]
        /\ req'[h].new = req[h].new /\ req'[h].host = req[h].host /\ req'[h].sum = req[h].sum
        /\ \A g \in Handlers \ {h} : req'[g] = req[g]
      BY <1>9, WriteLimitStep
  <2>2. Above => limit' \in [Containers -> Nat] /\ NotBelow(req'[h])
      BY <1>0, <2>1 DEF NotBelow
  <2>. QED  BY <1>0, <2>1, <2>2, NoneBelowKept
<1>10. ASSUME ApplyBudget(h) \/ StoreFails(h) PROVE NoneBelow'
  <2>1. /\ UNCHANGED <<limit, hostLimit, world>> /\ req'[h] = NoReq
        /\ \A g \in Handlers \ {h} : req'[g] = req[g]
      BY <1>10, ApplyStep, FailStep DEF storeVars
  <2>. QED  BY <1>0, <2>1, NoReqNotBelow, NoneBelowKept
<1>11. ASSUME ReadLimit(h) PROVE NoneBelow'
  <2>1. /\ UNCHANGED <<limit, hostLimit, world>> /\ req[h].c \in Containers
        /\ req'[h].new \in ReadOf(limit[req[h].c])
        /\ req'[h].host = req[h].host /\ req'[h].sum = req[h].sum
        /\ \A g \in Handlers \ {h} : req'[g] = req[g]
      BY <1>11, ReadStep DEF storeVars
  <2>2. Above => limit[req[h].c] \in Nat
      BY <1>0, <2>1
  <2>3. Above => NotBelow(req'[h])
      BY <1>0, <1>b, <2>1, <2>2 DEF NotBelow
  <2>. QED  BY <1>0, <2>1, <2>3, NoneBelowKept
<1>12. ASSUME CopyLimits(h) PROVE NoneBelow'
  <2>1. /\ UNCHANGED <<hostLimit, world>> /\ req'[h] = NoReq
        /\ \A g \in Handlers \ {h} : req'[g] = req[g]
      BY <1>12, CopyStep
  <2>2. PICK d \in Containers : limit' = [limit EXCEPT ![req[h].c] = limit[d]]
      BY <1>12, CopyStep
  <2>3. Above => limit' \in [Containers -> Nat]
      BY <1>0, <2>2
  <2>. QED  BY <1>0, <2>1, <2>3, NoReqNotBelow, NoneBelowKept
<1>. QED
    BY <1>1, <1>2, <1>3, <1>4, <1>5, <1>6, <1>7, <1>8, <1>9, <1>10, <1>11, <1>12 DEF Serve

LEMMA NoneBelowStill ==
    ASSUME NoneBelow, UNCHANGED <<limit, hostLimit, req, world>>
    PROVE  NoneBelow'
<1>. QED  BY DEF NoneBelow, NotBelow

LEMMA NextNoneBelow == Whole /\ NoneBelow /\ [Next]_vars => NoneBelow'
<1>. SUFFICES ASSUME Whole, NoneBelow, [Next]_vars PROVE NoneBelow'
    OBVIOUS
<1>. USE DEF Whole
<1>0. world \in Worlds
    BY DEF LimitsWhole, MarksTyped
<1>1. ASSUME NEW h \in Handlers, ServeLimits(h) PROVE NoneBelow'
    BY <1>1, ServeNoneBelow DEF ServeLimits
<1>2. ASSUME NEW h \in Handlers, NEW body \in Bodies[world], PutConfig(h, body) PROVE NoneBelow'
    BY <1>0, <1>2, PutConfigStep, NoneBelowStill DEF limitsVars, storeVars
<1>3. ASSUME NEW h \in Handlers, NEW k \in Keys, ApplyOne(h, k) \/ Refuse(h, k) PROVE NoneBelow'
    BY <1>3, ApplyOneStep, RefuseStep, NoneBelowStill DEF limitsVars, storeVars
<1>4. ASSUME NEW h \in Handlers,
             ReadFile(h) \/ NotWritten(h) \/ Truncate(h) \/ WriteFile(h) \/ WrittenInPart(h)
      PROVE  NoneBelow'
    BY <1>4, ReadFileStep, UnwrittenStep, TruncateStep, WriteFileStep, NoneBelowStill DEF limitsVars, storeVars
<1>5. ASSUME NEW c \in Containers, Remove(c) PROVE NoneBelow'
  <2>1. UNCHANGED <<hostLimit, req, world>> /\ limit' = [limit EXCEPT ![c] = 0]
      BY <1>5, RemoveStep
  <2>. QED  BY <2>1 DEF NoneBelow, NotBelow
<1>6. ASSUME NEW c \in Containers, Use(c) PROVE NoneBelow'
    BY <1>6, UseStep, NoneBelowStill
<1>7. ASSUME NEW value \in BOOLEAN, Switch(value) PROVE NoneBelow'
    BY <1>7, SwitchStep, NoneBelowStill DEF limitsVars, storeVars
<1>8. ASSUME Restart PROVE NoneBelow'
  <2>1. UNCHANGED <<limit, hostLimit, world>> /\ \A h \in Handlers : req'[h] = NoReq
      BY <1>8, RestartStep, RestoreStep DEF storeVars
  <2>. QED  BY <2>1, NoReqNotBelow DEF NoneBelow, NotBelow
<1>9. ASSUME NEW k \in Keys, LoadKey(k) \/ LoadFails(k) PROVE NoneBelow'
    BY <1>9, LoadKeyStep, LoadFailsStep, NoneBelowStill DEF limitsVars, storeVars
<1>10. ASSUME UNCHANGED vars PROVE NoneBelow'
    BY <1>10, NoneBelowStill DEF vars, limitsVars, storeVars
<1>. QED
    BY <1>1, <1>2, <1>3, <1>4, <1>5, <1>6, <1>7, <1>8, <1>9, <1>10 DEF Next, ServeConfig

-----------------------------------------------------------------------------
(* While the mode is on and the host's limit stays, no limit passes it. *)

\* The mode is on from the start, and no request may change it or the host's limit; no
\* value is below zero and every read of the store succeeds.
Fixed ==
    /\ world.keep /\ world.host > 0
    /\ world.may \cap {"host", "mode", "restart", "crash", "negative", "fail"} = {}

\* What a request is about to do is within the host's limit: a decrease from the start,
\* an increase once it is judged by the host's limit, which was read and has not changed.
RequestWithin(r) ==
    /\ r.at \in {"validate", "list", "sum", "write"} => r.c # None
    /\ r.at \in {"list", "sum"} => r.host = hostLimit
    /\ r.at = "validate" /\ r.op = "decrease" => r.new <= hostLimit
    /\ r.at = "write" => r.new <= hostLimit

WithinInv ==
    Fixed => /\ keep = TRUE /\ hostLimit > 0 /\ loading = Empty
             /\ \A h \in Handlers : "keep" \notin DOMAIN put[h].todo
             /\ \A c \in Containers : limit[c] <= hostLimit
             /\ \A h \in Handlers : RequestWithin(req[h])

LEMMA InitWithin == Init => WithinInv
<1>. SUFFICES ASSUME Init, Fixed PROVE WithinInv
    BY DEF WithinInv
<1>1. keep = world.keep /\ hostLimit = world.host /\ loading = Empty
    BY DEF Init, LimitsInit
<1>2. world.keep \in BOOLEAN /\ world.host \in Nat
    BY LimitsFacts DEF Init, LimitsInit
<1>3. DOMAIN Empty = {} /\ NoPut.todo = Empty
    BY EmptySettings, NoPutTyped
<1>4. \A h \in Handlers : "keep" \notin DOMAIN put[h].todo
    BY <1>3 DEF Init
<1>5. \A c \in Containers : limit[c] = 0
    BY DEF Init, LimitsInit
<1>6. \A h \in Handlers : RequestWithin(req[h])
    BY NoReqTyped DEF Init, LimitsInit, RequestWithin
<1>. QED  BY <1>1, <1>2, <1>4, <1>5, <1>6 DEF WithinInv, Fixed

\* A step of handler h that keeps the limits and leaves itself a request that is within
\* the host's limit.
LEMMA WithinKept ==
    ASSUME WithinInv, NEW h \in Handlers,
           UNCHANGED <<hostLimit, keep, loading, put, world>>,
           \A g \in Handlers \ {h} : req'[g] = req[g],
           Fixed => \A c \in Containers : limit'[c] <= hostLimit,
           Fixed => RequestWithin(req'[h])
    PROVE  WithinInv'
<1>. SUFFICES ASSUME Fixed' PROVE WithinInv'
    BY DEF WithinInv
<1>1. Fixed
    BY DEF Fixed
<1>2. ASSUME NEW g \in Handlers PROVE RequestWithin(req[g])'
  <2>1. CASE g = h
      BY <1>1, <2>1 DEF RequestWithin
  <2>2. CASE g # h
      BY <1>1, <2>2 DEF RequestWithin, WithinInv
  <2>. QED  BY <2>1, <2>2
<1>. QED  BY <1>1, <1>2 DEF WithinInv

LEMMA NoReqWithin == RequestWithin(NoReq)
<1>. QED  BY NoReqTyped DEF RequestWithin

LEMMA ServeWithin ==
    ASSUME LimitsWhole, NoneBelow, WithinInv, NEW h \in Handlers, Serve(h), UNCHANGED <<loading, put>>
    PROVE  WithinInv'
<1>0. Fixed => /\ \A c \in Containers : limit[c] <= hostLimit
               /\ RequestWithin(req[h]) /\ keep = TRUE /\ hostLimit > 0
    BY DEF WithinInv
<1>a. Fixed => /\ ~MayFail /\ "negative" \notin world.may
               /\ limit \in [Containers -> Nat] /\ hostLimit \in Nat /\ NotBelow(req[h])
    BY DEF Fixed, MayFail, NoneBelow
<1>1. ASSUME NEW op \in Ops, NEW amount \in Amounts, PutHost(h, op, amount) PROVE WithinInv'
  <2>1. /\ UNCHANGED <<storeVars, keep, world>> /\ "host" \in world.may
      BY <1>1, PutHostStep
  <2>2. ~Fixed /\ ~Fixed'
      BY <2>1 DEF Fixed
  <2>. QED  BY <2>2 DEF WithinInv
<1>2. ASSUME NEW op \in Ops, NEW amount \in Amounts, NEW c \in Containers, PutLimit(h, c, op, amount)
      PROVE  WithinInv'
  <2>1. /\ UNCHANGED <<storeVars, keep, world>>
        /\ \A g \in Handlers \ {h} : req'[g] = req[g]
        /\ req'[h].c = c /\ req'[h].at = "validate" /\ req'[h].op = op
        /\ MaySend(amount)
      BY <1>2, PutLimitStep
  <2>2. PICK old \in ReadOf(limit[c]) : req'[h].new = Result(op, old, amount)
      BY <1>2, PutLimitStep
  <2>3. Fixed => /\ old = limit[c] /\ old \in Nat /\ amount \in Nat /\ old <= hostLimit
                 /\ hostLimit \in Nat
    <3>1. limit[c] \in Int /\ amount \in Int
        BY LimitsFacts DEF LimitsWhole, StoreTyped
    <3>. QED  BY <1>0, <1>a, <2>1, <3>1, ReadOfTyped DEF MaySend
  <2>4. ASSUME Fixed PROVE RequestWithin(req'[h])
    <3>1. Result(op, old, amount) \in Nat /\ (op = "decrease" => Result(op, old, amount) <= old)
        BY <2>3, <2>4, ResultNotBelow
    <3>. QED  BY <2>1, <2>2, <2>3, <2>4, <3>1, LimitsFacts DEF RequestWithin
  <2>. QED  BY <1>0, <2>1, <2>4, WithinKept DEF storeVars
<1>3. ASSUME NEW c \in Containers, Register(h, c) PROVE WithinInv'
  <2>1. /\ UNCHANGED <<limit, hostLimit, keep, world>> /\ req'[h].at = "read"
        /\ \A g \in Handlers \ {h} : req'[g] = req[g]
      BY <1>3, RegisterStep
  <2>2. RequestWithin(req'[h])
      BY <2>1 DEF RequestWithin
  <2>. QED  BY <1>0, <2>1, <2>2, WithinKept
<1>4. ASSUME NEW c \in Containers, Clone(h, c) PROVE WithinInv'
  <2>1. /\ UNCHANGED <<limit, hostLimit, keep, world>> /\ req'[h].at = "copy"
        /\ \A g \in Handlers \ {h} : req'[g] = req[g]
      BY <1>4, CloneStep
  <2>2. RequestWithin(req'[h])
      BY <2>1 DEF RequestWithin
  <2>. QED  BY <1>0, <2>1, <2>2, WithinKept
<1>5. ASSUME NEW c \in Containers, AddLimit(h, c) PROVE WithinInv'
  <2>1. /\ UNCHANGED <<limit, hostLimit, keep, world>>
        /\ req[h].at = "sum" /\ req'[h].at = "sum"
        /\ req'[h].c = req[h].c /\ req'[h].host = req[h].host
        /\ \A g \in Handlers \ {h} : req'[g] = req[g]
      BY <1>5, AddStep DEF Silent, storeVars
  <2>2. Fixed => RequestWithin(req'[h])
      BY <1>0, <2>1 DEF RequestWithin
  <2>. QED  BY <1>0, <2>1, <2>2, WithinKept
<1>6. ASSUME Validate(h) PROVE WithinInv'
  <2>1. /\ UNCHANGED <<limit, hostLimit, keep, world>>
        /\ req[h].at = "validate" /\ req'[h].at = IF NeedsSum(h, req'[h].host) THEN "list" ELSE "write"
        /\ req'[h].c = req[h].c /\ req'[h].op = req[h].op /\ req'[h].new = req[h].new
        /\ req'[h].host \in ReadOf(hostLimit)
        /\ \A g \in Handlers \ {h} : req'[g] = req[g]
      BY <1>6, ValidateStep DEF Silent, storeVars
  <2>2. Fixed => RequestWithin(req'[h])
    <3>. SUFFICES ASSUME Fixed PROVE RequestWithin(req'[h])
        OBVIOUS
    <3>0. req'[h].host = hostLimit
        BY <1>a, <2>1, ReadOfTyped
    <3>1. req[h].c # None /\ keep = TRUE /\ hostLimit > 0 /\ RequestWithin(req[h])
        BY <1>0, <2>1 DEF RequestWithin
    <3>2. NeedsSum(h, hostLimit) \/ req[h].op = "decrease"
        BY <3>1 DEF NeedsSum, OfHost
    <3>3. CASE NeedsSum(h, hostLimit)
        BY <2>1, <3>0, <3>1, <3>3 DEF RequestWithin
    <3>4. CASE ~NeedsSum(h, hostLimit)
        BY <2>1, <3>0, <3>1, <3>2, <3>4 DEF RequestWithin
    <3>. QED  BY <3>3, <3>4
  <2>. QED  BY <1>0, <2>1, <2>2, WithinKept
<1>7. ASSUME ListContainers(h) PROVE WithinInv'
  <2>1. /\ UNCHANGED <<limit, hostLimit, keep, world>>
        /\ req[h].at = "list" /\ req'[h].at = "sum"
        /\ req'[h].c = req[h].c /\ req'[h].host = req[h].host
        /\ \A g \in Handlers \ {h} : req'[g] = req[g]
      BY <1>7, ListStep DEF Silent, storeVars
  <2>2. Fixed => RequestWithin(req'[h])
      BY <1>0, <2>1 DEF RequestWithin
  <2>. QED  BY <1>0, <2>1, <2>2, WithinKept
<1>8. ASSUME Judge(h) PROVE WithinInv'
  <2>1. /\ UNCHANGED <<limit, hostLimit, keep, world>>
        /\ req[h].at = "sum"
        /\ \/ req'[h] = NoReq
           \/ /\ req'[h].at = "write" /\ req'[h].c = req[h].c
              /\ req[h].c # None /\ req[h].host \in Nat /\ req[h].sum \in Nat
                     => req'[h].new <= req[h].host
        /\ \A g \in Handlers \ {h} : req'[g] = req[g]
      BY <1>8, JudgeStep DEF Silent, storeVars
  <2>2. Fixed => RequestWithin(req'[h])
      BY <1>0, <1>a, <2>1, NoReqWithin DEF RequestWithin, NotBelow
  <2>. QED  BY <1>0, <2>1, <2>2, WithinKept
<1>9. ASSUME WriteHost(h) PROVE WithinInv'
  <2>1. world' = world /\ req[h].at = "write" /\ req[h].c = None
      BY <1>9, WriteHostStep
  <2>2. ~Fixed /\ ~Fixed'
      BY <1>0, <2>1 DEF RequestWithin, Fixed
  <2>. QED  BY <2>2 DEF WithinInv
<1>10. ASSUME WriteLimit(h) PROVE WithinInv'
  <2>1. /\ UNCHANGED <<hostLimit, keep, world>>
        /\ req[h].at = "write" /\ req[h].c \in Containers
        /\ limit' = [limit EXCEPT ![req[h].c] = req[h].new]
        /\ req'[h].at = "apply"
        /\ \A g \in Handlers \ {h} : req'[g] = req[g]
      BY <1>10, WriteLimitStep
  <2>2. limit \in [Containers -> Int]
      BY DEF LimitsWhole, StoreTyped
  <2>3. Fixed => \A c \in Containers : limit'[c] <= hostLimit
      BY <1>0, <2>1, <2>2 DEF RequestWithin
  <2>4. RequestWithin(req'[h])
      BY <2>1 DEF RequestWithin
  <2>. QED  BY <2>1, <2>3, <2>4, WithinKept
<1>11. ASSUME ApplyBudget(h) PROVE WithinInv'
  <2>1. /\ UNCHANGED <<limit, hostLimit, keep, world>> /\ req'[h] = NoReq
        /\ \A g \in Handlers \ {h} : req'[g] = req[g]
      BY <1>11, ApplyStep DEF storeVars
  <2>. QED  BY <1>0, <2>1, NoReqWithin, WithinKept
<1>12. ASSUME ReadLimit(h) PROVE WithinInv'
  <2>1. /\ UNCHANGED <<limit, hostLimit, keep, world>> /\ req'[h].at = "apply"
        /\ \A g \in Handlers \ {h} : req'[g] = req[g]
      BY <1>12, ReadStep DEF storeVars
  <2>2. RequestWithin(req'[h])
      BY <2>1 DEF RequestWithin
  <2>. QED  BY <1>0, <2>1, <2>2, WithinKept
<1>13. ASSUME CopyLimits(h) PROVE WithinInv'
  <2>1. /\ UNCHANGED <<hostLimit, keep, world>> /\ req[h].c \in Containers
        /\ req'[h] = NoReq
        /\ \A g \in Handlers \ {h} : req'[g] = req[g]
      BY <1>13, CopyStep
  <2>2. PICK d \in Containers : limit' = [limit EXCEPT ![req[h].c] = limit[d]]
      BY <1>13, CopyStep
  <2>3. limit \in [Containers -> Int]
      BY DEF LimitsWhole, StoreTyped
  <2>4. Fixed => \A c \in Containers : limit'[c] <= hostLimit
      BY <1>0, <2>1, <2>2, <2>3
  <2>. QED  BY <2>1, <2>4, NoReqWithin, WithinKept
<1>14. ASSUME StoreFails(h) PROVE WithinInv'
  <2>1. /\ UNCHANGED <<limit, hostLimit, keep, world>> /\ req'[h] = NoReq
        /\ \A g \in Handlers \ {h} : req'[g] = req[g]
      BY <1>14, FailStep DEF storeVars
  <2>. QED  BY <1>0, <2>1, NoReqWithin, WithinKept
<1>. QED
    BY <1>1, <1>2, <1>3, <1>4, <1>5, <1>6, <1>7, <1>8, <1>9, <1>10, <1>11, <1>12, <1>13, <1>14 DEF Serve

\* A step that leaves the limits and the requests for them alone, and the keys that
\* requests have still to apply but for those of one handler.
LEMMA WithinSettings ==
    ASSUME WithinInv, UNCHANGED <<limit, hostLimit, keep, loading, req, world>>,
           Fixed => \A h \in Handlers : "keep" \notin DOMAIN put'[h].todo
    PROVE  WithinInv'
<1>. SUFFICES ASSUME Fixed' PROVE WithinInv'
    BY DEF WithinInv
<1>1. Fixed
    BY DEF Fixed
<1>2. \A h \in Handlers : RequestWithin(req[h])'
    BY <1>1 DEF WithinInv, RequestWithin
<1>. QED  BY <1>1, <1>2 DEF WithinInv

LEMMA NextWithin == Whole /\ NoneBelow /\ WithinInv /\ [Next]_vars => WithinInv'
<1>. SUFFICES ASSUME Whole, NoneBelow, WithinInv, [Next]_vars PROVE WithinInv'
    OBVIOUS
<1>. USE DEF Whole
<1>0. world \in Worlds /\ DOMAIN Empty = {}
    BY EmptySettings DEF LimitsWhole, MarksTyped
<1>a. Fixed => \A h \in Handlers : "keep" \notin DOMAIN put[h].todo
    BY DEF WithinInv
<1>b. Fixed => "mode" \notin world.may /\ "restart" \notin world.may /\ "crash" \notin world.may
    BY DEF Fixed
<1>1. ASSUME NEW h \in Handlers, ServeLimits(h) PROVE WithinInv'
    BY <1>1, ServeWithin DEF ServeLimits, configVars
<1>2. ASSUME NEW h \in Handlers, NEW body \in Bodies[world], PutConfig(h, body) PROVE WithinInv'
  <2>1. /\ UNCHANGED <<limit, hostLimit, keep, loading, req, world>>
        /\ "mode" \notin world.may => "keep" \notin DOMAIN put'[h].todo
        /\ \A g \in Handlers \ {h} : put'[g] = put[g]
      BY <1>0, <1>2, PutConfigStep DEF limitsVars, storeVars
  <2>2. Fixed => \A g \in Handlers : "keep" \notin DOMAIN put'[g].todo
      BY <1>a, <1>b, <2>1
  <2>. QED  BY <2>1, <2>2, WithinSettings
<1>3. ASSUME NEW h \in Handlers, NEW k \in Keys, ApplyOne(h, k) PROVE WithinInv'
  <2>1. /\ UNCHANGED <<limit, hostLimit, loading, req, world>>
        /\ k \in DOMAIN put[h].todo /\ (k # "keep" => keep' = keep)
        /\ DOMAIN put'[h].todo \subseteq DOMAIN put[h].todo
        /\ \A g \in Handlers \ {h} : put'[g] = put[g]
      BY <1>3, ApplyOneStep DEF storeVars
  <2>2. Fixed => \A g \in Handlers : "keep" \notin DOMAIN put'[g].todo
      BY <1>a, <2>1
  <2>3. CASE Fixed
    <3>1. keep' = keep
        BY <1>a, <2>1, <2>3
    <3>. QED  BY <2>1, <2>2, <3>1, WithinSettings
  <2>4. CASE ~Fixed
      BY <2>1, <2>4 DEF WithinInv, Fixed
  <2>. QED  BY <2>3, <2>4
<1>4. ASSUME NEW h \in Handlers, NEW k \in Keys, Refuse(h, k) PROVE WithinInv'
  <2>1. /\ UNCHANGED <<limit, hostLimit, keep, loading, req, world>>
        /\ DOMAIN put'[h].todo = {}
        /\ \A g \in Handlers \ {h} : put'[g] = put[g]
      BY <1>4, RefuseStep DEF limitsVars, storeVars
  <2>2. Fixed => \A g \in Handlers : "keep" \notin DOMAIN put'[g].todo
      BY <1>a, <2>1
  <2>. QED  BY <2>1, <2>2, WithinSettings
<1>5. ASSUME NEW h \in Handlers,
             ReadFile(h) \/ NotWritten(h) \/ Truncate(h) \/ WriteFile(h) \/ WrittenInPart(h)
      PROVE  WithinInv'
  <2>1. /\ UNCHANGED <<limit, hostLimit, keep, loading, req, world>>
        /\ put'[h].todo = put[h].todo \/ DOMAIN put'[h].todo = {}
        /\ \A g \in Handlers \ {h} : put'[g] = put[g]
      BY <1>5, ReadFileStep, UnwrittenStep, TruncateStep, WriteFileStep DEF limitsVars, storeVars
  <2>2. Fixed => \A g \in Handlers : "keep" \notin DOMAIN put'[g].todo
      BY <1>a, <2>1
  <2>. QED  BY <2>1, <2>2, WithinSettings
<1>6. ASSUME NEW c \in Containers, Remove(c), UNCHANGED configVars PROVE WithinInv'
  <2>1. /\ UNCHANGED <<hostLimit, keep, req, world, loading, put>> /\ limit' = [limit EXCEPT ![c] = 0]
      BY <1>6, RemoveStep DEF configVars
  <2>2. limit \in [Containers -> Int] /\ hostLimit \in Int
      BY DEF LimitsWhole, StoreTyped
  <2>. SUFFICES ASSUME Fixed' PROVE WithinInv'
      BY DEF WithinInv
  <2>3. Fixed
      BY <2>1 DEF Fixed
  <2>4. \A d \in Containers : limit'[d] <= hostLimit
      BY <2>1, <2>2, <2>3 DEF WithinInv
  <2>5. \A h \in Handlers : RequestWithin(req[h])'
      BY <2>1, <2>3 DEF WithinInv, RequestWithin
  <2>. QED  BY <2>1, <2>3, <2>4, <2>5 DEF WithinInv
<1>7. ASSUME NEW c \in Containers, Use(c), UNCHANGED configVars PROVE WithinInv'
    BY <1>7, <1>a, UseStep, WithinSettings DEF configVars
<1>8. ASSUME NEW value \in BOOLEAN, Switch(value) PROVE WithinInv'
    BY <1>8, <1>a, SwitchStep, WithinSettings DEF limitsVars, storeVars
<1>9. ASSUME Restart PROVE WithinInv'
  <2>1. world' = world /\ ("restart" \in world.may \/ "crash" \in world.may)
      BY <1>9, RestartStep, RestoreStep
  <2>. QED  BY <2>1 DEF WithinInv, Fixed
<1>10. ASSUME NEW k \in Keys, LoadKey(k) \/ LoadFails(k) PROVE WithinInv'
  <2>1. world' = world /\ loading # Empty
      BY <1>10, LoadKeyStep, LoadFailsStep DEF limitsVars
  <2>2. ~Fixed
      BY <2>1 DEF WithinInv
  <2>. QED  BY <2>1, <2>2 DEF WithinInv, Fixed
<1>11. ASSUME UNCHANGED vars PROVE WithinInv'
    BY <1>11, <1>a, WithinSettings DEF vars, limitsVars, storeVars, configVars
<1>. QED
    BY <1>1, <1>2, <1>3, <1>4, <1>5, <1>6, <1>7, <1>8, <1>9, <1>10, <1>11 DEF Next, ServeConfig

\* However many requests are served at once and however they interleave, none leaves a
\* container a limit above the host's while the mode is on, the host's limit stays, no
\* request sends a value below zero and no read of the store fails.
THEOREM LimitsStayWithinHost == Spec => []EachWithinHost
<1>1. Spec => [](Whole /\ NoneBelow /\ WithinInv)
    BY InitWhole, NextWhole, InitNoneBelow, NextNoneBelow, InitWithin, NextWithin, PTL DEF Spec
<1>2. WithinInv => EachWithinHost
    BY DEF WithinInv, Fixed, EachWithinHost
<1>. QED  BY <1>1, <1>2, PTL

-----------------------------------------------------------------------------
(* The proxy's copy of a limit. *)

\* A container whose requests were never served two at once has one request at most; a
\* request that copies limits is of a clone; one that is about to tell the proxy has the
\* stored limit; and where the proxy has another, a request is about to tell it.
BudgetOK(c) ==
    c \notin overlapped =>
        /\ \A g, h \in Handlers : req[g].c = c /\ req[h].c = c => g = h
        /\ \A h \in Handlers : req[h].c = c /\ req[h].at = "copy" => c \in untold
        /\ c \in registered \ untold =>
              /\ \A h \in Handlers : req[h].c = c /\ req[h].at = "apply" => req[h].new = limit[c]
              /\ \/ budget[c] = limit[c]
                 \/ \E h \in Handlers : req[h].c = c /\ req[h].at \in {"apply", "read"}

BudgetInv == \A c \in Containers : BudgetOK(c)

LEMMA InitBudget == Init => BudgetInv
<1>. SUFFICES ASSUME Init, NEW c \in Containers PROVE BudgetOK(c)
    BY DEF BudgetInv
<1>1. budget[c] = limit[c] /\ \A h \in Handlers : req[h] = NoReq
    BY DEF Init, LimitsInit
<1>. QED  BY <1>1, NoReqTyped, LimitsFacts DEF BudgetOK

\* A step of handler h that has nothing to write for the container, before or after.
LEMMA BudgetFrame ==
    ASSUME NEW c \in Containers, BudgetOK(c), NEW h \in Handlers,
           \A g \in Handlers \ {h} : req'[g] = req[g],
           overlapped \subseteq overlapped', untold \cap {c} = untold' \cap {c},
           c \in registered' => c \in registered \/ c \in untold',
           limit'[c] = limit[c], budget'[c] = budget[c],
           req[h].c # c \/ req[h].at \notin Writes,
           req'[h].c # c \/ req'[h].at \notin Writes,
           req'[h].c = c /\ req[h].c # c /\ c \notin overlapped' => \A g \in Handlers \ {h} : req[g].c # c
    PROVE  BudgetOK(c)'
<1>. SUFFICES ASSUME c \notin overlapped'
              PROVE  /\ \A g, k \in Handlers : req'[g].c = c /\ req'[k].c = c => g = k
                     /\ \A k \in Handlers : req'[k].c = c /\ req'[k].at = "copy" => c \in untold'
                     /\ c \in registered' \ untold' =>
                           /\ \A k \in Handlers : req'[k].c = c /\ req'[k].at = "apply" => req'[k].new = limit'[c]
                           /\ \/ budget'[c] = limit'[c]
                              \/ \E k \in Handlers : req'[k].c = c /\ req'[k].at \in {"apply", "read"}
    BY DEF BudgetOK
<1>0. c \notin overlapped /\ (c \in untold <=> c \in untold')
    OBVIOUS
<1>1. ASSUME NEW g \in Handlers, NEW k \in Handlers, req'[g].c = c, req'[k].c = c
      PROVE  g = k
    BY <1>0, <1>1 DEF BudgetOK
<1>2. ASSUME NEW k \in Handlers, req'[k].c = c, req'[k].at = "copy"
      PROVE  c \in untold'
    BY <1>0, <1>2 DEF BudgetOK, Writes
<1>3. ASSUME c \in registered' \ untold'
      PROVE  /\ \A k \in Handlers : req'[k].c = c /\ req'[k].at = "apply" => req'[k].new = limit'[c]
             /\ \/ budget'[c] = limit'[c]
                \/ \E k \in Handlers : req'[k].c = c /\ req'[k].at \in {"apply", "read"}
  <2>1. /\ \A k \in Handlers : req[k].c = c /\ req[k].at = "apply" => req[k].new = limit[c]
        /\ \/ budget[c] = limit[c]
           \/ \E k \in Handlers : req[k].c = c /\ req[k].at \in {"apply", "read"}
      BY <1>0, <1>3 DEF BudgetOK
  <2>2. ASSUME NEW k \in Handlers, req'[k].c = c, req'[k].at = "apply"
        PROVE  req'[k].new = limit'[c]
      BY <2>1, <2>2 DEF Writes
  <2>3. ASSUME NEW k \in Handlers, req[k].c = c, req[k].at \in {"apply", "read"}
        PROVE  req'[k].c = c /\ req'[k].at \in {"apply", "read"}
      BY <2>3 DEF Writes
  <2>. QED  BY <2>1, <2>2, <2>3
<1>. QED  BY <1>1, <1>2, <1>3

\* A step of handler h for the container that is its request's before or after, and
\* that two requests are not served for: what is asserted of the container is then about
\* the request of h alone.
LEMMA BudgetOwn ==
    ASSUME NEW c \in Containers, NEW h \in Handlers,
           \A g \in Handlers \ {h} : req'[g] = req[g],
           \A g \in Handlers \ {h} : req[g].c # c,
           req'[h].c = c /\ req'[h].at = "copy" => c \in untold',
           c \in registered' \ untold' /\ req'[h].c = c /\ req'[h].at = "apply" => req'[h].new = limit'[c],
           c \in registered' \ untold' =>
               budget'[c] = limit'[c] \/ (req'[h].c = c /\ req'[h].at \in {"apply", "read"})
    PROVE  BudgetOK(c)'
<1>1. \A g \in Handlers : req'[g].c = c => g = h
    OBVIOUS
<1>. QED  BY <1>1 DEF BudgetOK

LEMMA BudgetAlone ==
    ASSUME NEW c \in Containers, BudgetOK(c), c \notin overlapped, NEW h \in Handlers, req[h].c = c
    PROVE  \A g \in Handlers \ {h} : req[g].c # c
<1>. QED  BY DEF BudgetOK

LEMMA BudgetMarked ==
    ASSUME NEW c \in Containers, c \in overlapped'
    PROVE  BudgetOK(c)'
<1>. QED  BY DEF BudgetOK

LEMMA BudgetSilent ==
    ASSUME NEW c \in Containers, BudgetOK(c), NEW h \in Handlers, Silent(h)
    PROVE  BudgetOK(c)'
<1>1. /\ UNCHANGED <<registered, limit, budget, untold, overlapped>>
      /\ \A g \in Handlers \ {h} : req'[g] = req[g]
      /\ req'[h].c \in {req[h].c, None}
      /\ req[h].at \notin Writes /\ req'[h].at \notin Writes
    BY DEF Silent, storeVars
<1>2. c # None
    BY LimitsFacts
<1>. QED  BY <1>1, <1>2, BudgetFrame

LEMMA ServeBudget ==
    ASSUME LimitsWhole, BudgetInv, NEW h \in Handlers, Serve(h), NEW c \in Containers
    PROVE  BudgetOK(c)'
<1>0. /\ BudgetOK(c) /\ c # None /\ NoReq.c = None /\ NoReq.at \notin Writes
      /\ limit \in [Containers -> Int] /\ budget \in [Containers -> Int]
    BY LimitsFacts, NoReqTyped DEF BudgetInv, Writes, LimitsWhole, StoreTyped
<1>1. ASSUME NEW op \in Ops, NEW amount \in Amounts, PutHost(h, op, amount) PROVE BudgetOK(c)'
  <2>1. /\ UNCHANGED <<registered, limit, budget, untold>> /\ overlapped \subseteq overlapped'
        /\ req[h] = NoReq /\ req'[h].c = None
        /\ \A g \in Handlers \ {h} : req'[g] = req[g]
      BY <1>1, PutHostStep DEF storeVars
  <2>. QED  BY <1>0, <2>1, BudgetFrame
<1>2. ASSUME NEW op \in Ops, NEW amount \in Amounts, NEW d \in Containers, PutLimit(h, d, op, amount)
      PROVE  BudgetOK(c)'
  <2>1. /\ UNCHANGED <<registered, limit, budget, untold>> /\ overlapped \subseteq overlapped'
        /\ d \notin overlapped' => \A g \in Handlers \ {h} : req[g].c # d
        /\ req[h] = NoReq /\ req'[h].c = d /\ req'[h].at = "validate"
        /\ \A g \in Handlers \ {h} : req'[g] = req[g]
      BY <1>2, PutLimitStep DEF storeVars
  <2>2. req'[h].at \notin Writes
      BY <2>1 DEF Writes
  <2>. QED  BY <1>0, <2>1, <2>2, BudgetFrame
<1>3. ASSUME NEW d \in Containers, Register(h, d) PROVE BudgetOK(c)'
  <2>1. /\ UNCHANGED <<limit, budget>> /\ overlapped \subseteq overlapped'
        /\ registered' = registered \cup {d} /\ untold' = untold \ {d}
        /\ d \notin overlapped' => \A g \in Handlers \ {h} : req[g].c # d
        /\ req[h] = NoReq /\ req'[h].at = "read" /\ req'[h].c = d
        /\ \A g \in Handlers \ {h} : req'[g] = req[g]
      BY <1>3, RegisterStep
  <2>2. CASE c # d
    <3>1. untold \cap {c} = untold' \cap {c} /\ (c \in registered' => c \in registered)
        BY <2>1, <2>2
    <3>2. req[h].c # c /\ req'[h].c # c
        BY <1>0, <2>1, <2>2
    <3>. QED  BY <1>0, <2>1, <3>1, <3>2, BudgetFrame
  <2>3. CASE c = d /\ c \in overlapped'
      BY <2>3, BudgetMarked
  <2>4. CASE c = d /\ c \notin overlapped'
      BY <2>1, <2>4, BudgetOwn
  <2>. QED  BY <2>2, <2>3, <2>4
<1>4. ASSUME NEW d \in Containers, Clone(h, d) PROVE BudgetOK(c)'
  <2>1. /\ UNCHANGED <<limit, budget>> /\ overlapped \subseteq overlapped'
        /\ registered' = registered \cup {d} /\ untold' = untold \cup {d}
        /\ \A g \in Handlers : req[g].c # d
        /\ req[h] = NoReq /\ req'[h].at = "copy" /\ req'[h].c = d
        /\ \A g \in Handlers \ {h} : req'[g] = req[g]
      BY <1>4, CloneStep
  <2>2. CASE c # d
    <3>1. untold \cap {c} = untold' \cap {c} /\ (c \in registered' => c \in registered)
        BY <2>1, <2>2
    <3>2. req[h].c # c /\ req'[h].c # c
        BY <1>0, <2>1, <2>2
    <3>. QED  BY <1>0, <2>1, <3>1, <3>2, BudgetFrame
  <2>3. CASE c = d
    <3>1. c \in untold'
        BY <2>1, <2>3
    <3>. QED  BY <2>1, <2>3, <3>1, BudgetOwn
  <2>. QED  BY <2>2, <2>3
<1>5. ASSUME NEW d \in Containers, AddLimit(h, d) PROVE BudgetOK(c)'
    BY <1>0, <1>5, AddStep, BudgetSilent
<1>6. ASSUME Validate(h) PROVE BudgetOK(c)'
    BY <1>0, <1>6, ValidateStep, BudgetSilent
<1>7. ASSUME ListContainers(h) PROVE BudgetOK(c)'
    BY <1>0, <1>7, ListStep, BudgetSilent
<1>8. ASSUME Judge(h) PROVE BudgetOK(c)'
    BY <1>0, <1>8, JudgeStep, BudgetSilent
<1>9. ASSUME WriteHost(h) PROVE BudgetOK(c)'
  <2>1. /\ UNCHANGED <<registered, limit, budget, untold, overlapped>>
        /\ req[h].c = None /\ req'[h] = NoReq
        /\ \A g \in Handlers \ {h} : req'[g] = req[g]
      BY <1>9, WriteHostStep
  <2>. QED  BY <1>0, <2>1, BudgetFrame
<1>10. ASSUME WriteLimit(h) PROVE BudgetOK(c)'
  <2>1. /\ UNCHANGED <<registered, budget, untold, overlapped>>
        /\ limit' = [limit EXCEPT ![req[h].c] = req[h].new]
        /\ req'[h].at = "apply" /\ req'[h].c = req[h].c /\ req'[h].new = req[h].new
        /\ \A g \in Handlers \ {h} : req'[g] = req[g]
      BY <1>10, WriteLimitStep
  <2>2. CASE req[h].c # c
    <3>1. limit'[c] = limit[c] /\ req'[h].c # c
        BY <1>0, <2>1, <2>2
    <3>. QED  BY <1>0, <2>1, <2>2, <3>1, BudgetFrame
  <2>3. CASE c \in overlapped'
      BY <2>3, BudgetMarked
  <2>4. CASE req[h].c = c /\ c \notin overlapped'
    <3>1. \A g \in Handlers \ {h} : req[g].c # c
        BY <1>0, <2>1, <2>4, BudgetAlone
    <3>2. limit'[c] = req[h].new
        BY <1>0, <2>1, <2>4
    <3>. QED  BY <2>1, <2>4, <3>1, <3>2, BudgetOwn
  <2>. QED  BY <2>2, <2>3, <2>4
<1>11. ASSUME ApplyBudget(h) PROVE BudgetOK(c)'
  <2>1. /\ UNCHANGED <<registered, limit, untold, overlapped>> /\ req[h].at = "apply"
        /\ budget' = [budget EXCEPT ![req[h].c] = req[h].new]
        /\ req'[h] = NoReq
        /\ \A g \in Handlers \ {h} : req'[g] = req[g]
      BY <1>11, ApplyStep DEF storeVars
  <2>2. CASE req[h].c # c
    <3>1. budget'[c] = budget[c]
        BY <1>0, <2>1, <2>2
    <3>. QED  BY <1>0, <2>1, <2>2, <3>1, BudgetFrame
  <2>3. CASE c \in overlapped'
      BY <2>3, BudgetMarked
  <2>4. CASE req[h].c = c /\ c \notin overlapped'
    <3>1. \A g \in Handlers \ {h} : req[g].c # c
        BY <1>0, <2>1, <2>4, BudgetAlone
    <3>2. budget'[c] = req[h].new
        BY <1>0, <2>1, <2>4
    <3>3. c \in registered \ untold => req[h].new = limit[c]
        BY <1>0, <2>1, <2>4 DEF BudgetOK
    <3>. QED  BY <1>0, <2>1, <3>1, <3>2, <3>3, BudgetOwn
  <2>. QED  BY <2>2, <2>3, <2>4
<1>12. ASSUME ReadLimit(h) PROVE BudgetOK(c)'
  <2>1. /\ UNCHANGED <<registered, limit, budget, overlapped>>
        /\ req'[h].at = "apply" /\ req'[h].c = req[h].c
        /\ untold \subseteq untold' /\ untold' \subseteq untold \cup {req[h].c}
        /\ req[h].c \in untold' \/ req'[h].new = limit[req[h].c]
        /\ \A g \in Handlers \ {h} : req'[g] = req[g]
      BY <1>12, ReadStep DEF storeVars
  <2>2. CASE req[h].c # c
    <3>1. req'[h].c # c /\ untold \cap {c} = untold' \cap {c}
        BY <2>1, <2>2
    <3>. QED  BY <1>0, <2>1, <2>2, <3>1, BudgetFrame
  <2>3. CASE c \in overlapped'
      BY <2>3, BudgetMarked
  <2>4. CASE req[h].c = c /\ c \notin overlapped'
    <3>1. \A g \in Handlers \ {h} : req[g].c # c
        BY <1>0, <2>1, <2>4, BudgetAlone
    <3>. QED  BY <2>1, <2>4, <3>1, BudgetOwn
  <2>. QED  BY <2>2, <2>3, <2>4
<1>13. ASSUME CopyLimits(h) PROVE BudgetOK(c)'
  <2>1. /\ UNCHANGED <<registered, budget, untold, overlapped>> /\ req[h].at = "copy"
        /\ req'[h] = NoReq
        /\ \A g \in Handlers \ {h} : req'[g] = req[g]
      BY <1>13, CopyStep
  <2>2. PICK d \in Containers : limit' = [limit EXCEPT ![req[h].c] = limit[d]]
      BY <1>13, CopyStep
  <2>3. CASE req[h].c # c
    <3>1. limit'[c] = limit[c]
        BY <1>0, <2>2, <2>3
    <3>. QED  BY <1>0, <2>1, <2>3, <3>1, BudgetFrame
  <2>4. CASE c \in overlapped'
      BY <2>4, BudgetMarked
  <2>5. CASE req[h].c = c /\ c \notin overlapped'
    <3>1. \A g \in Handlers \ {h} : req[g].c # c
        BY <1>0, <2>1, <2>5, BudgetAlone
    <3>2. c \in untold'
        BY <1>0, <2>1, <2>5 DEF BudgetOK
    <3>. QED  BY <1>0, <2>1, <3>1, <3>2, BudgetOwn
  <2>. QED  BY <2>3, <2>4, <2>5
<1>14. ASSUME StoreFails(h) PROVE BudgetOK(c)'
  <2>1. /\ UNCHANGED <<registered, limit, budget, untold, overlapped>>
        /\ req[h].at \in {"write", "copy"} /\ req'[h] = NoReq
        /\ \A g \in Handlers \ {h} : req'[g] = req[g]
      BY <1>14, FailStep DEF storeVars
  <2>2. CASE req[h].c # c
      BY <1>0, <2>1, <2>2, BudgetFrame
  <2>3. CASE c \in overlapped'
      BY <2>3, BudgetMarked
  <2>4. CASE req[h].c = c /\ c \notin overlapped'
    <3>1. \A g \in Handlers \ {h} : req[g].c # c
        BY <1>0, <2>1, <2>4, BudgetAlone
    <3>2. c \in registered \ untold => budget[c] = limit[c]
        BY <1>0, <2>1, <2>4, <3>1 DEF BudgetOK
    <3>. QED  BY <1>0, <2>1, <3>1, <3>2, BudgetOwn
  <2>. QED  BY <2>2, <2>3, <2>4
<1>. QED
    BY <1>1, <1>2, <1>3, <1>4, <1>5, <1>6, <1>7, <1>8, <1>9, <1>10, <1>11, <1>12, <1>13, <1>14 DEF Serve

\* Steps that leave alone what is said of a container.
LEMMA StillBudget ==
    ASSUME BudgetInv, UNCHANGED <<registered, limit, budget, req, untold, overlapped>>
    PROVE  BudgetInv'
<1>. QED  BY DEF BudgetInv, BudgetOK

LEMMA NextBudget == Whole /\ BudgetInv /\ [Next]_vars => BudgetInv'
<1>. SUFFICES ASSUME Whole, BudgetInv, [Next]_vars PROVE BudgetInv'
    OBVIOUS
<1>. USE DEF Whole
<1>0. world \in Worlds
    BY DEF LimitsWhole, MarksTyped
<1>1. ASSUME NEW h \in Handlers, ServeLimits(h) PROVE BudgetInv'
  <2>1. \A c \in Containers : BudgetOK(c)'
      BY <1>1, ServeBudget DEF ServeLimits
  <2>. QED  BY <2>1 DEF BudgetInv
<1>2. ASSUME NEW h \in Handlers, NEW body \in Bodies[world], PutConfig(h, body) PROVE BudgetInv'
    BY <1>0, <1>2, PutConfigStep, StillBudget DEF limitsVars, storeVars
<1>3. ASSUME NEW h \in Handlers, NEW k \in Keys, ApplyOne(h, k) PROVE BudgetInv'
    BY <1>3, ApplyOneStep, StillBudget DEF storeVars
<1>4. ASSUME NEW h \in Handlers, NEW k \in Keys, Refuse(h, k) PROVE BudgetInv'
    BY <1>4, RefuseStep, StillBudget DEF limitsVars, storeVars
<1>5. ASSUME NEW h \in Handlers,
             ReadFile(h) \/ Truncate(h) \/ WriteFile(h) \/ NotWritten(h) \/ WrittenInPart(h)
      PROVE  BudgetInv'
  <2>1. UNCHANGED limitsVars
      BY <1>5, ReadFileStep, TruncateStep, WriteFileStep, UnwrittenStep
  <2>. QED  BY <2>1, StillBudget DEF limitsVars, storeVars
<1>6. ASSUME NEW c \in Containers, Remove(c) PROVE BudgetInv'
  <2>1. /\ UNCHANGED <<budget, untold, overlapped, req>>
        /\ registered' = registered \ {c} /\ limit' = [limit EXCEPT ![c] = 0]
        /\ limit \in [Containers -> Int]
      BY <1>6, RemoveStep DEF LimitsWhole, StoreTyped
  <2>2. ASSUME NEW d \in Containers PROVE BudgetOK(d)'
    <3>1. BudgetOK(d)
        BY DEF BudgetInv
    <3>2. CASE d = c
        BY <2>1, <3>1, <3>2 DEF BudgetOK
    <3>3. CASE d # c
        BY <2>1, <3>1, <3>3 DEF BudgetOK
    <3>. QED  BY <3>2, <3>3
  <2>. QED  BY <2>2 DEF BudgetInv
<1>7. ASSUME NEW c \in Containers, Use(c) PROVE BudgetInv'
    BY <1>7, UseStep, StillBudget
<1>8. ASSUME NEW value \in BOOLEAN, Switch(value) PROVE BudgetInv'
    BY <1>8, SwitchStep, StillBudget DEF limitsVars, storeVars
<1>9. ASSUME Restart PROVE BudgetInv'
  <2>1. /\ UNCHANGED <<registered, limit>>
        /\ \A c \in registered : c \in untold' \/ budget'[c] = limit[c]
        /\ \A h \in Handlers : req'[h] = NoReq
      BY <1>9, RestartStep, RestoreStep DEF storeVars
  <2>2. ASSUME NEW c \in Containers PROVE BudgetOK(c)'
    <3>1. c # NoReq.c
        BY NoReqTyped, LimitsFacts
    <3>. QED  BY <2>1, <3>1 DEF BudgetOK
  <2>. QED  BY <2>2 DEF BudgetInv
<1>10. ASSUME NEW k \in Keys, LoadKey(k) \/ LoadFails(k) PROVE BudgetInv'
    BY <1>10, LoadKeyStep, LoadFailsStep, StillBudget DEF limitsVars, storeVars
<1>11. ASSUME UNCHANGED vars PROVE BudgetInv'
    BY <1>11, StillBudget DEF vars, limitsVars, storeVars
<1>. QED
    BY <1>1, <1>2, <1>3, <1>4, <1>5, <1>6, <1>7, <1>8, <1>9, <1>10, <1>11 DEF Next, ServeConfig

\* The limit that is enforced on a container's calls is the one that is stored, once no
\* request for it is being served, unless two of its requests were served at once or the
\* proxy has not been told of it: the limit of a clone, and one the store could not read.
THEOREM BudgetsFollowLimits == Spec => []BudgetIsLimit
<1>1. Spec => [](Whole /\ BudgetInv)
    BY InitWhole, NextWhole, InitBudget, NextBudget, PTL DEF Spec
<1>2. Whole /\ BudgetInv => BudgetIsLimit
  <2>. SUFFICES ASSUME Whole, BudgetInv, NEW c \in registered \ (overlapped \cup untold),
                       \A h \in Handlers : req[h].c # c
                PROVE  budget[c] = limit[c]
      BY DEF BudgetIsLimit
  <2>1. c \in Containers
      BY DEF Whole, LimitsWhole, StoreTyped
  <2>. QED  BY <2>1 DEF BudgetInv, BudgetOK
<1>. QED  BY <1>1, <1>2, PTL

-----------------------------------------------------------------------------
(* While the mode is on, the limits together stay within the host's. *)

\* One request at a time, and none that copies a limit, raises the host's or sends a value
\* below zero; and no call of the store fails.
Calm == world.may \cap {"together", "clone", "grow", "negative", "fail"} = {}
Low == /\ limit \in [Containers -> Nat] /\ hostLimit \in Nat /\ ~MayFail
       /\ \A h \in Handlers : NotBelow(req[h])

LEMMA CalmIsLow ==
    ASSUME NoneBelow, Calm
    PROVE  Low
<1>. QED  BY DEF NoneBelow, Calm, Low, MayFail

\* What is read is what is stored.
LEMMA LowReads ==
    ASSUME Low, NEW value \in Int
    PROVE  ReadOf(value) = {value}
<1>. QED  BY ReadOfTyped DEF Low

SumOfLimits(C) == SumFunctionOnSet(limit, C)

\* What the request that is served knows: how much of the sum it has collected; and when it
\* is about to write, that it writes no more than is left.
StepOK(h) ==
    /\ req[h].c = None \/ req[h].c \in registered
    /\ req[h].at # "copy"
    /\ req[h].at \in {"validate", "list"} => req[h].sum = 0
    /\ req[h].at = "validate" => IF req[h].c = None THEN req[h].op # "increase"
                                 ELSE req[h].op = "decrease" => req[h].new <= limit[req[h].c]
    /\ req[h].at \in {"list", "sum"} => req[h].host = hostLimit
    /\ req[h].at = "sum" =>
           /\ req[h].todo \subseteq registered \ {req[h].c}
           /\ req[h].sum + SumOfLimits(req[h].todo) = SumOfLimits(registered \ {req[h].c})
    /\ req[h].at = "write" /\ keep =>
           IF req[h].c = None THEN req[h].new > 0 => Promised <= req[h].new
           ELSE hostLimit > 0 =>
                    \/ req[h].new <= limit[req[h].c]
                    \/ SumOfLimits(registered \ {req[h].c}) + req[h].new + accum <= hostLimit

OneAtATime ==
    /\ (loading = Empty /\ NoPuts) \/ Quiet
    /\ \A g, h \in Handlers : Idle(g) \/ Idle(h) \/ g = h

WithinSum == keep /\ hostLimit > 0 => Promised <= hostLimit + overdrawn

KeepInv ==
    Calm => /\ OneAtATime /\ WithinSum
            /\ \A c \in Containers \ registered : limit[c] = 0
            /\ \A h \in Handlers : Idle(h) \/ StepOK(h)

LEMMA SumsOfLimits ==
    ASSUME LimitsWhole, Low, NEW C \in SUBSET Containers
    PROVE  /\ IsFiniteSet(C) /\ SumOfLimits(C) \in Nat
           /\ \A c \in C : limit[c] \in Nat /\ SumOfLimits(C) = limit[c] + SumOfLimits(C \ {c})
           /\ \A c \in C : SumOfLimits(C \ {c}) \in Nat
<1>1. IsFiniteSet(C) /\ \A c \in C : limit[c] \in Nat
    BY ContainersFinite, FS_Subset DEF Low
<1>2. SumOfLimits(C) \in Nat
    BY <1>1, SumNat DEF SumOfLimits
<1>3. ASSUME NEW c \in C
      PROVE  SumOfLimits(C) = limit[c] + SumOfLimits(C \ {c}) /\ SumOfLimits(C \ {c}) \in Nat
  <2>1. SumOfLimits(C) = limit[c] + SumOfLimits(C \ {c})
      BY <1>1, SumTake DEF SumOfLimits
  <2>2. IsFiniteSet(C \ {c}) /\ \A d \in C \ {c} : limit[d] \in Nat
      BY <1>1, FS_RemoveElement
  <2>3. SumOfLimits(C \ {c}) \in Nat
      BY <2>2, SumNat DEF SumOfLimits
  <2>. QED  BY <2>1, <2>3
<1>. QED  BY <1>1, <1>2, <1>3

LEMMA PromisedFacts ==
    ASSUME LimitsWhole, Low
    PROVE  /\ Promised = SumOfLimits(registered) + accum /\ Promised \in Nat
           /\ accum \in Nat /\ hostLimit \in Nat /\ overdrawn \in Nat
           /\ registered \subseteq Containers
<1>1. registered \subseteq Containers /\ accum \in Nat /\ hostLimit \in Nat /\ overdrawn \in Nat
    BY DEF LimitsWhole, StoreTyped, MarksTyped, Low
<1>2. SumOfLimits(registered) \in Nat
    BY <1>1, SumsOfLimits
<1>. QED  BY <1>1, <1>2 DEF Promised, SumOfLimits

LEMMA InitKeep == Init => KeepInv
<1>. SUFFICES ASSUME Init PROVE KeepInv
    OBVIOUS
<1>1. \A h \in Handlers : Idle(h)
    BY DEF Init, LimitsInit, Idle
<1>2. OneAtATime
    BY <1>1 DEF OneAtATime, Quiet
<1>3. Promised = 0
  <2>1. registered \subseteq Containers
      BY LimitsFacts DEF Init, LimitsInit
  <2>2. IsFiniteSet(registered)
      BY <2>1, ContainersFinite, FS_Subset
  <2>3. \A c \in registered : limit[c] \in Nat /\ 2 * limit[c] <= limit[c]
      BY <2>1 DEF Init, LimitsInit
  <2>. DEFINE n == SumFunctionOnSet(limit, registered)
  <2>4. 2 * n <= n /\ n \in Nat
      BY <2>2, <2>3, SumScaled, SumNat
  <2>5. n = 0
      BY <2>4
  <2>. QED  BY <2>5 DEF Promised, Init, LimitsInit
<1>4. WithinSum
    BY <1>3, InitWhole DEF WithinSum, Whole, LimitsWhole, StoreTyped, MarksTyped
<1>. QED  BY <1>1, <1>2, <1>4 DEF KeepInv, Init, LimitsInit

\* A step of the one request that is served, which leaves the store alone.
LEMMA KeepFrame ==
    ASSUME KeepInv, NEW h \in Handlers,
           UNCHANGED <<registered, limit, hostLimit, accum, keep, overdrawn, world, loading, put>>,
           \A g \in Handlers \ {h} : req'[g] = req[g],
           Calm => loading = Empty /\ NoPuts /\ \A g \in Handlers \ {h} : Idle(g),
           Calm => Idle(h)' \/ StepOK(h)'
    PROVE  KeepInv'
<1>. SUFFICES ASSUME Calm PROVE KeepInv'
    BY DEF KeepInv, Calm
<1>1. \A g \in Handlers \ {h} : Idle(g)'
    BY DEF Idle
<1>2. loading' = Empty /\ NoPuts'
    BY DEF NoPuts
<1>3. OneAtATime'
    BY <1>1, <1>2 DEF OneAtATime
<1>4. WithinSum'
    BY DEF KeepInv, WithinSum, Promised
<1>. QED  BY <1>1, <1>3, <1>4 DEF KeepInv

\* A step of the one request that is served, which changes the store.
LEMMA KeepWrite ==
    ASSUME KeepInv, NEW h \in Handlers, UNCHANGED <<world, loading, put>>,
           \A g \in Handlers \ {h} : req'[g] = req[g],
           Calm => loading = Empty /\ NoPuts /\ \A g \in Handlers \ {h} : Idle(g),
           Calm => Idle(h)' \/ StepOK(h)',
           Calm => WithinSum' /\ \A c \in Containers \ registered' : limit'[c] = 0
    PROVE  KeepInv'
<1>. SUFFICES ASSUME Calm PROVE KeepInv'
    BY DEF KeepInv, Calm
<1>1. \A g \in Handlers \ {h} : Idle(g)'
    BY DEF Idle
<1>2. loading' = Empty /\ NoPuts'
    BY DEF NoPuts
<1>3. OneAtATime'
    BY <1>1, <1>2 DEF OneAtATime
<1>. QED  BY <1>1, <1>3 DEF KeepInv

\* A step while no request for a limit is served.
LEMMA KeepSettings ==
    ASSUME KeepInv, UNCHANGED <<registered, limit, hostLimit, accum, overdrawn, world>>,
           Calm => \A h \in Handlers : Idle(h)',
           Calm => WithinSum'
    PROVE  KeepInv'
<1>. SUFFICES ASSUME Calm PROVE KeepInv'
    BY DEF KeepInv, Calm
<1>1. OneAtATime'
    BY DEF OneAtATime, Quiet
<1>. QED  BY <1>1 DEF KeepInv

\* The request that goes on is the only one there is.
LEMMA ServedAlone ==
    ASSUME KeepInv, Calm, NEW h \in Handlers, ServeLimits(h)
    PROVE  /\ loading = Empty /\ NoPuts /\ UNCHANGED <<loading, put>>
           /\ ~Idle(h) => (\A g \in Handlers \ {h} : Idle(g)) /\ StepOK(h)
<1>1. OneAtATime /\ (Idle(h) \/ StepOK(h))
    BY DEF KeepInv
<1>2. loading = Empty
    BY DEF ServeLimits, Serving
<1>3. CASE Idle(h)
  <2>1. NoPuts
      BY <1>3 DEF ServeLimits, Calm
  <2>. QED  BY <1>2, <1>3, <2>1 DEF ServeLimits, configVars
<1>4. CASE ~Idle(h)
  <2>1. NoPuts
      BY <1>1, <1>4 DEF OneAtATime, Quiet
  <2>2. \A g \in Handlers \ {h} : Idle(g)
      BY <1>1, <1>4 DEF OneAtATime
  <2>. QED  BY <1>1, <1>2, <2>1, <2>2 DEF ServeLimits, configVars
<1>. QED  BY <1>3, <1>4

\* A request that is judged writes no more than is left of the host's limit: what it has
\* collected is the sum of the other limits.
LEMMA JudgeKeep ==
    ASSUME LimitsWhole, Low, KeepInv, NEW h \in Handlers, ServeLimits(h), Judge(h)
    PROVE  KeepInv'
<1>0. /\ NoReq.at = "none" /\ req \in [Handlers -> Reqs] /\ req[h] \in Reqs
      /\ req[h].new \in Nat /\ req[h].sum \in Nat /\ req[h].host \in Nat /\ limit \in [Containers -> Nat]
      /\ registered \subseteq Containers /\ accum \in Nat /\ hostLimit \in Nat
    BY RequestIn DEF NoReq, LimitsWhole, StoreTyped, ReqTyped, Low, NotBelow
<1>a. ReadOf(accum) = {accum}
    BY <1>0, LowReads
<1>. DEFINE left == Allowed(h, accum)
            m == Min({req[h].new, left})
            w == [req[h] EXCEPT !.at = "write"]
            r == [req[h] EXCEPT !.at = "write", !.new = m]
            sum == SumOfLimits(registered \ {req[h].c})
<1>1. /\ req[h].at = "sum" /\ req[h].todo = {}
      /\ UNCHANGED <<storeVars, budget, keep, untold, overdrawn, world>>
    BY DEF Judge
<1>2. \/ Proceed(h, NoReq)
      \/ /\ Proceed(h, w) /\ req[h].c = None
         /\ req[h].sum + accum = 0 \/ req[h].new >= req[h].sum + accum
      \/ Proceed(h, r) /\ req[h].c # None
  <2>1. CASE OfHost(h)
    <3>1. CASE req[h].sum + accum > 0 /\ req[h].new < req[h].sum + accum
        BY <1>a, <2>1, <3>1 DEF Judge, Finish
    <3>2. CASE ~(req[h].sum + accum > 0 /\ req[h].new < req[h].sum + accum)
      <4>1. Proceed(h, w) /\ req[h].c = None
          BY <1>a, <2>1, <3>2 DEF Judge, GoTo, OfHost
      <4>2. req[h].sum + accum = 0 \/ req[h].new >= req[h].sum + accum
          BY <1>0, <3>2
      <4>. QED  BY <4>1, <4>2
    <3>. QED  BY <3>1, <3>2
  <2>2. CASE ~OfHost(h)
      BY <1>a, <2>2 DEF Judge, Finish, OfHost
  <2>. QED  BY <2>1, <2>2
<1>3. w.at = "write" /\ w.c = req[h].c /\ w.new = req[h].new
    BY <1>0 DEF Reqs
<1>4. r.at = "write" /\ r.c = req[h].c /\ r.new = m
    BY <1>0 DEF Reqs
<1>5. m \in Nat /\ (m = 0 \/ m <= req[h].host - req[h].sum - accum)
  <2>. DEFINE rest == req[h].host - req[h].sum - accum
  <2>1. rest \in Int
      BY <1>0
  <2>. HIDE DEF rest
  <2>2. Max({rest, 0}) = IF rest >= 0 THEN rest ELSE 0
      BY <2>1, MaxOfTwo
  <2>3. left = IF rest >= 0 THEN rest ELSE 0
      BY <2>2 DEF Allowed, rest
  <2>. HIDE DEF left
  <2>4. left \in Nat
      BY <2>1, <2>3
  <2>5. m = IF req[h].new =< left THEN req[h].new ELSE left
      BY <1>0, <2>4, MinOfTwo
  <2>. HIDE DEF m
  <2>6. m \in Nat /\ (m = 0 \/ m <= rest)
      BY <1>0, <2>1, <2>3, <2>4, <2>5
  <2>. QED  BY <2>6 DEF rest
<1>. HIDE DEF m, w, r, left
<1>6. ~Idle(h)
    BY <1>0, <1>1 DEF Idle
<1>7. /\ UNCHANGED <<loading, put>>
      /\ Calm => loading = Empty /\ NoPuts /\ (\A g \in Handlers \ {h} : Idle(g)) /\ StepOK(h)
    BY <1>6, ServedAlone DEF ServeLimits, configVars
<1>8. PICK q : Proceed(h, q) /\ q \in {NoReq, w, r}
    BY <1>2
<1>9. req'[h] = q /\ \A g \in Handlers \ {h} : req'[g] = req[g]
    BY <1>0, <1>8 DEF Proceed
<1>10. Calm => req[h].sum = sum /\ sum \in Nat /\ req[h].host = hostLimit /\ (req[h].c = None \/ req[h].c \in registered)
  <2>1. SumOfLimits({}) = 0
      BY SumEmpty DEF SumOfLimits
  <2>2. sum \in Nat
      BY <1>0, SumsOfLimits
  <2>. QED  BY <1>0, <1>1, <1>7, <2>1, <2>2 DEF StepOK
<1>11. Calm => Idle(h)' \/ StepOK(h)'
  <2>. SUFFICES ASSUME Calm PROVE Idle(h)' \/ StepOK(h)'
      OBVIOUS
  <2>1. CASE Proceed(h, NoReq)
    <3>1. req'[h] = NoReq
        BY <1>0, <2>1 DEF Proceed
    <3>. QED  BY <3>1 DEF Idle
  <2>2. CASE /\ Proceed(h, w) /\ req[h].c = None
             /\ req[h].sum + accum = 0 \/ req[h].new >= req[h].sum + accum
    <3>1. req'[h] = w
        BY <1>0, <2>2 DEF Proceed
    <3>2. sum = SumOfLimits(registered)
      <4>1. registered \ {req[h].c} = registered
          BY <1>0, <2>2, LimitsFacts
      <4>. QED  BY <4>1
    <3>3. req[h].new > 0 => Promised <= req[h].new
        BY <1>0, <1>10, <2>2, <3>2, PromisedFacts
    <3>4. Promised' = Promised
        BY <1>1 DEF Promised, storeVars
    <3>. QED  BY <1>1, <1>3, <2>2, <3>1, <3>3, <3>4 DEF StepOK
  <2>3. CASE Proceed(h, r) /\ req[h].c # None
    <3>1. req'[h] = r
        BY <1>0, <2>3 DEF Proceed
    <3>2. m <= limit[req[h].c] \/ sum + m + accum <= hostLimit
      <4>1. req[h].c \in Containers
          BY <1>0, <1>10, <2>3
      <4>2. limit[req[h].c] \in Nat
          BY <1>0, <4>1
      <4>. QED  BY <1>0, <1>5, <1>10, <4>2
    <3>. QED  BY <1>1, <1>4, <1>10, <2>3, <3>1, <3>2 DEF StepOK, SumOfLimits, storeVars
  <2>. QED  BY <1>2, <2>1, <2>2, <2>3
<1>. QED  BY <1>1, <1>7, <1>9, <1>11, KeepFrame DEF storeVars

\* What is written is what was judged.
LEMMA WriteKeep ==
    ASSUME LimitsWhole, Low, KeepInv, NEW h \in Handlers, ServeLimits(h), WriteHost(h) \/ WriteLimit(h)
    PROVE  KeepInv'
<1>0. /\ NoReq.at = "none" /\ req \in [Handlers -> Reqs] /\ req[h] \in Reqs
      /\ req[h].new \in Nat /\ limit \in [Containers -> Nat]
      /\ registered \subseteq Containers /\ accum \in Nat /\ hostLimit \in Nat
    BY RequestIn DEF NoReq, LimitsWhole, StoreTyped, ReqTyped, Low, NotBelow
<1>1. /\ req[h].at = "write"
      /\ UNCHANGED <<registered, accum, keep, overdrawn, world>>
    BY DEF WriteHost, WriteLimit
<1>2. ~Idle(h)
    BY <1>0, <1>1 DEF Idle
<1>3. /\ UNCHANGED <<loading, put>>
      /\ Calm => loading = Empty /\ NoPuts /\ (\A g \in Handlers \ {h} : Idle(g)) /\ StepOK(h)
    BY <1>2, ServedAlone DEF ServeLimits, configVars
<1>4. CASE WriteHost(h)
  <2>1. /\ req[h].c = None /\ hostLimit' = req[h].new /\ UNCHANGED limit
        /\ req' = [req EXCEPT ![h] = NoReq]
      BY <1>4 DEF WriteHost, OfHost, Finish, Proceed
  <2>2. Idle(h)' /\ \A g \in Handlers \ {h} : req'[g] = req[g]
      BY <1>0, <2>1 DEF Idle
  <2>3. Promised' = Promised
      BY <1>1, <2>1 DEF Promised
  <2>4. Calm /\ keep => (req[h].new > 0 => Promised <= req[h].new)
      BY <1>1, <1>3, <2>1 DEF StepOK
  <2>5. Calm => WithinSum'
    <3>1. Promised \in Nat /\ overdrawn \in Nat
        BY PromisedFacts
    <3>. QED  BY <1>0, <1>1, <2>1, <2>3, <2>4, <3>1 DEF WithinSum
  <2>6. Calm => \A c \in Containers \ registered' : limit'[c] = 0
      BY <1>1, <2>1 DEF KeepInv
  <2>. QED  BY <1>1, <1>3, <2>2, <2>5, <2>6, KeepWrite
<1>5. CASE WriteLimit(h)
  <2>. DEFINE c == req[h].c
              r == [req[h] EXCEPT !.at = "apply"]
              u == limit'
              others == SumOfLimits(registered \ {req[h].c})
  <2>1. /\ c # None /\ limit' = [limit EXCEPT ![c] = req[h].new] /\ UNCHANGED hostLimit
        /\ req' = [req EXCEPT ![h] = r]
      BY <1>5 DEF WriteLimit, OfHost, GoTo, Proceed
  <2>2. r.at = "apply" /\ r.c = c
      BY <1>0 DEF Reqs
  <2>. HIDE DEF r
  <2>3. req'[h] = r /\ \A g \in Handlers \ {h} : req'[g] = req[g]
      BY <1>0, <2>1
  <2>4. Calm => c \in registered
      BY <1>3, <2>1 DEF StepOK
  <2>5. Calm => StepOK(h)'
      BY <1>1, <2>2, <2>3, <2>4 DEF StepOK
  <2>6. Calm => \A d \in Containers \ registered' : limit'[d] = 0
      BY <1>0, <1>1, <2>1, <2>4 DEF KeepInv
  <2>7. Calm => WithinSum'
    <3>. SUFFICES ASSUME Calm, keep, hostLimit > 0 PROVE Promised' <= hostLimit + overdrawn
        BY <1>1, <2>1 DEF WithinSum
    <3>1. c \in registered /\ IsFiniteSet(registered)
        BY <1>0, <2>4, SumsOfLimits
    <3>2. /\ \A x \in registered : limit[x] \in Nat /\ u[x] \in Nat
          /\ u[c] = req[h].new /\ \A x \in registered \ {c} : limit[x] = u[x]
        BY <1>0, <2>1, <3>1
    <3>. HIDE DEF c
    <3>3. Promised' = SumFunctionOnSet(u, registered) + accum
        BY <1>1 DEF Promised
    <3>. HIDE DEF u
    <3>4. SumFunctionOnSet(u, registered) = SumFunctionOnSet(limit, registered) - limit[c] + req[h].new
        BY <3>1, <3>2, SumChange
    <3>. USE DEF c
    <3>5. SumFunctionOnSet(limit, registered) = limit[c] + others /\ others \in Nat /\ limit[c] \in Nat
        BY <1>0, <3>1, SumsOfLimits DEF SumOfLimits
    <3>6. SumOfLimits(registered) = SumFunctionOnSet(limit, registered)
        BY DEF SumOfLimits
    <3>7. Promised <= hostLimit + overdrawn
        BY DEF KeepInv, WithinSum
    <3>8. req[h].new <= limit[c] \/ others + req[h].new + accum <= hostLimit
        BY <1>1, <1>3, <2>1 DEF StepOK
    <3>. HIDE DEF others, c
    <3>9. overdrawn \in Nat /\ Promised = SumOfLimits(registered) + accum
        BY PromisedFacts
    <3>. QED  BY <1>0, <3>3, <3>4, <3>5, <3>6, <3>7, <3>8, <3>9
  <2>. QED  BY <1>1, <1>3, <2>3, <2>5, <2>6, <2>7, KeepWrite
<1>. QED  BY <1>4, <1>5

\* Steps of the request that is served.
LEMMA ServeKeep ==
    ASSUME LimitsWhole, Low, KeepInv, NEW h \in Handlers, ServeLimits(h)
    PROVE  KeepInv'
<1>0. /\ NoReq.at = "none" /\ NoReq.c = None /\ NoReq.sum = 0
      /\ req \in [Handlers -> Reqs] /\ req[h] \in Reqs /\ limit \in [Containers -> Nat]
      /\ registered \subseteq Containers /\ hostLimit \in Nat /\ ~MayFail
      /\ req[h].sum \in Nat
    BY RequestIn DEF NoReq, LimitsWhole, StoreTyped, ReqTyped, Low, NotBelow
<1>1. Serve(h)
    BY DEF ServeLimits
\* Requests are accepted while no other is served.
<1>a. ASSUME NEW r, Accept(h, r)
      PROVE  /\ req' = [req EXCEPT ![h] = r]
             /\ Calm => loading = Empty /\ NoPuts /\ \A g \in Handlers \ {h} : Idle(g)
             /\ UNCHANGED <<loading, put>>
    BY <1>a, ServedAlone DEF Accept, Quiet, Calm, ServeLimits, configVars
<1>b. ASSUME NEW r, Proceed(h, r), req[h].at # "none"
      PROVE  /\ req' = [req EXCEPT ![h] = r]
             /\ Calm => loading = Empty /\ NoPuts /\ (\A g \in Handlers \ {h} : Idle(g)) /\ StepOK(h)
             /\ UNCHANGED <<loading, put>>
  <2>1. ~Idle(h)
      BY <1>0, <1>b DEF Idle
  <2>. QED  BY <1>b, <2>1, ServedAlone DEF Proceed, ServeLimits, configVars
<1>2. ASSUME NEW op \in Ops, NEW amount \in Amounts, PutHost(h, op, amount) PROVE KeepInv'
  <2>. DEFINE r == [NoReq EXCEPT !.at = "validate", !.op = op, !.new = Result(op, hostLimit, amount)]
  <2>1. r.at = "validate" /\ r.c = None /\ r.op = op /\ r.sum = 0
      BY DEF NoReq
  <2>a. ReadOf(hostLimit) = {hostLimit}
      BY <1>0, LowReads
  <2>2. /\ Accept(h, r) /\ (op = "increase" => "grow" \in world.may)
        /\ UNCHANGED <<storeVars, budget, keep, untold, overdrawn, world>>
      BY <1>2, <2>a DEF PutHost
  <2>. HIDE DEF r
  <2>3. req'[h] = r /\ \A g \in Handlers \ {h} : req'[g] = req[g]
      BY <1>0, <1>a, <2>2
  <2>4. Calm => StepOK(h)'
      BY <2>1, <2>2, <2>3 DEF Calm, StepOK
  <2>. QED  BY <1>a, <2>2, <2>3, <2>4, KeepFrame DEF storeVars
<1>3. ASSUME NEW op \in Ops, NEW amount \in Amounts, NEW c \in Containers, PutLimit(h, c, op, amount)
      PROVE  KeepInv'
  <2>. DEFINE n == Result(op, limit[c], amount)
              r == [NoReq EXCEPT !.at = "validate", !.c = c, !.op = op, !.new = n]
  <2>1. r.at = "validate" /\ r.c = c /\ r.op = op /\ r.sum = 0 /\ r.new = n
      BY DEF NoReq
  <2>a. ReadOf(limit[c]) = {limit[c]}
      BY <1>0, LowReads
  <2>2. /\ Accept(h, r) /\ c \in registered /\ MaySend(amount)
        /\ UNCHANGED <<storeVars, budget, keep, untold, overdrawn, world>>
      BY <1>3, <2>a DEF PutLimit
  <2>3. Calm /\ op = "decrease" => n <= limit[c]
    <3>1. Calm => amount \in Nat
        BY <2>2, LimitsFacts DEF MaySend, Calm
    <3>. QED  BY <1>0, <3>1, ResultNotBelow
  <2>. HIDE DEF r, n
  <2>4. req'[h] = r /\ \A g \in Handlers \ {h} : req'[g] = req[g]
      BY <1>0, <1>a, <2>2
  <2>5. Calm => StepOK(h)'
      BY <2>1, <2>2, <2>3, <2>4, LimitsFacts DEF StepOK, storeVars
  <2>. QED  BY <1>a, <2>2, <2>4, <2>5, KeepFrame DEF storeVars
<1>4. ASSUME NEW c \in Containers, Register(h, c) PROVE KeepInv'
  <2>. DEFINE r == [NoReq EXCEPT !.at = "read", !.c = c]
  <2>1. r.at = "read" /\ r.c = c
      BY DEF NoReq
  <2>2. /\ Accept(h, r) /\ registered' = registered \cup {c}
        /\ UNCHANGED <<limit, hostLimit, accum, keep, overdrawn, world>>
      BY <1>4 DEF Register
  <2>. HIDE DEF r
  <2>3. req'[h] = r /\ \A g \in Handlers \ {h} : req'[g] = req[g]
      BY <1>0, <1>a, <2>2
  <2>4. StepOK(h)'
      BY <2>1, <2>2, <2>3 DEF StepOK
  <2>5. Calm => WithinSum'
    <3>. SUFFICES ASSUME Calm PROVE WithinSum'
        OBVIOUS
    <3>. DEFINE R == registered \cup {c}
    <3>1. R \subseteq Containers /\ c \in R
        BY <1>0
    <3>2. SumOfLimits(R) = SumOfLimits(registered)
      <4>1. CASE c \in registered
        <5>1. R = registered
            BY <4>1
        <5>. QED  BY <5>1
      <4>2. CASE c \notin registered
        <5>1. R \ {c} = registered /\ limit[c] = 0
            BY <4>2 DEF KeepInv
        <5>2. SumOfLimits(R) = limit[c] + SumOfLimits(R \ {c}) /\ SumOfLimits(R \ {c}) \in Nat
            BY <3>1, SumsOfLimits
        <5>. QED  BY <5>1, <5>2
      <4>. QED  BY <4>1, <4>2
    <3>3. Promised' = Promised
        BY <2>2, <3>2 DEF Promised, SumOfLimits
    <3>. QED  BY <2>2, <3>3 DEF WithinSum, KeepInv
  <2>6. Calm => \A d \in Containers \ registered' : limit'[d] = 0
      BY <2>2 DEF KeepInv
  <2>. QED  BY <1>a, <2>2, <2>3, <2>4, <2>5, <2>6, KeepWrite
<1>5. ASSUME NEW c \in Containers, Clone(h, c) PROVE KeepInv'
  <2>1. ~Calm /\ world' = world
      BY <1>5 DEF Clone, Calm
  <2>. QED  BY <2>1 DEF KeepInv, Calm
<1>6. ASSUME NEW c \in Containers, AddLimit(h, c) PROVE KeepInv'
  <2>. DEFINE r == [req[h] EXCEPT !.sum = @ + limit[c], !.todo = @ \ {c}]
  <2>1. /\ r.at = req[h].at /\ r.c = req[h].c /\ r.host = req[h].host
        /\ r.sum = req[h].sum + limit[c] /\ r.todo = req[h].todo \ {c}
      BY <1>0 DEF Reqs
  <2>a. ReadOf(limit[c]) = {limit[c]}
      BY <1>0, LowReads
  <2>2. /\ req[h].at = "sum" /\ c \in req[h].todo /\ Proceed(h, r)
        /\ UNCHANGED <<storeVars, budget, keep, untold, overdrawn, world>>
      BY <1>6, <2>a DEF AddLimit
  <2>. HIDE DEF r
  <2>3. req'[h] = r /\ \A g \in Handlers \ {h} : req'[g] = req[g]
      BY <1>0, <1>b, <2>2
  <2>4. req[h].sum + limit[c] + SumOfLimits(req[h].todo \ {c}) = req[h].sum + SumOfLimits(req[h].todo)
    <3>1. req[h].todo \in SUBSET Containers /\ req[h].sum \in Nat
        BY <1>0, RequestIn DEF LimitsWhole
    <3>2. /\ SumOfLimits(req[h].todo) = limit[c] + SumOfLimits(req[h].todo \ {c}) /\ limit[c] \in Nat
          /\ SumOfLimits(req[h].todo \ {c}) \in Nat
        BY <2>2, <3>1, SumsOfLimits
    <3>. QED  BY <3>1, <3>2
  <2>5. Calm => StepOK(h)'
      BY <1>b, <2>1, <2>2, <2>3, <2>4 DEF StepOK, SumOfLimits, storeVars
  <2>. QED  BY <1>b, <2>2, <2>3, <2>5, KeepFrame DEF storeVars
<1>7. ASSUME Validate(h) PROVE KeepInv'
  <2>. DEFINE r == [req[h] EXCEPT !.at = IF NeedsSum(h, hostLimit) THEN "list" ELSE "write",
                                  !.host = hostLimit]
  <2>a. ReadOf(hostLimit) = {hostLimit}
      BY <1>0, LowReads
  <2>1. /\ r.at = (IF NeedsSum(h, hostLimit) THEN "list" ELSE "write") /\ r.host = hostLimit
        /\ r.c = req[h].c /\ r.op = req[h].op /\ r.new = req[h].new /\ r.sum = req[h].sum
      BY <1>0 DEF Reqs
  <2>2. /\ req[h].at = "validate" /\ Proceed(h, r)
        /\ UNCHANGED <<storeVars, budget, keep, untold, overdrawn, world>>
      BY <1>7, <2>a DEF Validate
  <2>. HIDE DEF r
  <2>3. req'[h] = r /\ \A g \in Handlers \ {h} : req'[g] = req[g]
      BY <1>0, <1>b, <2>2
  <2>4. Calm => StepOK(h)'
    <3>. SUFFICES ASSUME Calm PROVE StepOK(h)'
        OBVIOUS
    <3>1. StepOK(h)
        BY <1>b, <2>2
    <3>2. CASE NeedsSum(h, hostLimit)
        BY <2>1, <2>2, <2>3, <3>1, <3>2 DEF StepOK, storeVars
    <3>3. CASE ~NeedsSum(h, hostLimit)
      <4>1. keep => IF req[h].c = None THEN FALSE ELSE hostLimit > 0 => req[h].new <= limit[req[h].c]
          BY <2>2, <3>1, <3>3 DEF NeedsSum, OfHost, StepOK
      <4>. QED  BY <2>1, <2>2, <2>3, <3>1, <3>3, <4>1 DEF StepOK, storeVars
    <3>. QED  BY <3>2, <3>3
  <2>. QED  BY <1>b, <2>2, <2>3, <2>4, KeepFrame DEF storeVars
<1>8. ASSUME ListContainers(h) PROVE KeepInv'
  <2>. DEFINE r == [req[h] EXCEPT !.at = "sum", !.todo = registered \ {req[h].c}]
  <2>1. /\ r.at = "sum" /\ r.host = req[h].host /\ r.todo = registered \ {req[h].c}
        /\ r.c = req[h].c /\ r.sum = req[h].sum
      BY <1>0 DEF Reqs
  <2>2. /\ req[h].at = "list" /\ Proceed(h, r)
        /\ UNCHANGED <<storeVars, budget, keep, untold, overdrawn, world>>
      BY <1>0, <1>8 DEF ListContainers
  <2>. HIDE DEF r
  <2>3. req'[h] = r /\ \A g \in Handlers \ {h} : req'[g] = req[g]
      BY <1>0, <1>b, <2>2
  <2>4. SumOfLimits(registered \ {req[h].c}) \in Nat
      BY <1>0, SumsOfLimits
  <2>5. Calm => StepOK(h)'
    <3>1. limit' = limit /\ registered' = registered /\ hostLimit' = hostLimit
        BY <2>2 DEF storeVars
    <3>2. /\ req'[h].at = "sum" /\ req'[h].host = req[h].host /\ req'[h].c = req[h].c
          /\ req'[h].sum = req[h].sum /\ req'[h].todo = registered \ {req[h].c}
        BY <2>1, <2>3
    <3>3. Calm => /\ req[h].c = None \/ req[h].c \in registered
                  /\ req[h].sum = 0 /\ req[h].host = hostLimit
        BY <1>b, <2>2 DEF StepOK
    <3>. QED  BY <2>4, <3>1, <3>2, <3>3 DEF StepOK, SumOfLimits
  <2>. QED  BY <1>b, <2>2, <2>3, <2>5, KeepFrame DEF storeVars
<1>9. ASSUME Judge(h) PROVE KeepInv'
    BY <1>9, JudgeKeep
<1>10. ASSUME WriteHost(h) PROVE KeepInv'
    BY <1>10, WriteKeep
<1>11. ASSUME WriteLimit(h) PROVE KeepInv'
    BY <1>11, WriteKeep
<1>12. ASSUME ApplyBudget(h) PROVE KeepInv'
  <2>1. /\ req[h].at = "apply" /\ Proceed(h, NoReq) /\ UNCHANGED <<storeVars, keep, untold, overdrawn, world>>
      BY <1>12 DEF ApplyBudget, Finish
  <2>2. req'[h] = NoReq /\ \A g \in Handlers \ {h} : req'[g] = req[g]
      BY <1>0, <1>b, <2>1
  <2>. QED  BY <1>b, <2>1, <2>2, KeepFrame DEF storeVars, Idle
<1>13. ASSUME ReadLimit(h) PROVE KeepInv'
  <2>0. PICK value \in ReadOf(limit[req[h].c]) : Proceed(h, [req[h] EXCEPT !.at = "apply", !.new = value])
      BY <1>13 DEF ReadLimit
  <2>. DEFINE r == [req[h] EXCEPT !.at = "apply", !.new = value]
  <2>1. r.at = "apply" /\ r.c = req[h].c
      BY <1>0 DEF Reqs
  <2>2. /\ req[h].at = "read" /\ Proceed(h, r)
        /\ UNCHANGED <<storeVars, budget, keep, overdrawn, world>>
      BY <1>13, <2>0 DEF ReadLimit
  <2>. HIDE DEF r
  <2>3. req'[h] = r /\ \A g \in Handlers \ {h} : req'[g] = req[g]
      BY <1>0, <1>b, <2>2
  <2>4. Calm => StepOK(h)'
      BY <1>b, <2>1, <2>2, <2>3 DEF StepOK, storeVars
  <2>. QED  BY <1>b, <2>2, <2>3, <2>4, KeepFrame DEF storeVars
<1>14. ASSUME CopyLimits(h) PROVE KeepInv'
  <2>1. req[h].at = "copy" /\ world' = world /\ Proceed(h, NoReq)
      BY <1>14 DEF CopyLimits, Finish
  <2>2. ~Calm
      BY <1>b, <2>1 DEF StepOK
  <2>. QED  BY <2>1, <2>2 DEF KeepInv, Calm
<1>15. ASSUME StoreFails(h) PROVE KeepInv'
    BY <1>0, <1>15 DEF StoreFails
<1>. QED
    BY <1>1, <1>2, <1>3, <1>4, <1>5, <1>6, <1>7, <1>8, <1>9, <1>10, <1>11, <1>12, <1>13, <1>14, <1>15 DEF Serve

\* A removed container takes its limit with it, and leaves what it used: beyond its limit, that
\* is overdrawn.
LEMMA RemoveKeep ==
    ASSUME LimitsWhole, Low, KeepInv, NEW c \in Containers, Remove(c), Serving, NoPuts, UNCHANGED configVars
    PROVE  KeepInv'
<1>. DEFINE R == registered \ {c}
            u == limit'
            over == Max({usage[c] - limit[c], 0})
<1>1. /\ c \in registered /\ registered' = R /\ accum' = accum + usage[c]
      /\ limit' = [limit EXCEPT ![c] = 0] /\ overdrawn' = overdrawn + over
      /\ Quiet \/ "together" \in world.may
      /\ UNCHANGED <<hostLimit, keep, req, world>>
    BY DEF Remove
<1>2. /\ limit \in [Containers -> Nat] /\ usage[c] \in Nat /\ accum \in Nat /\ overdrawn \in Nat /\ hostLimit \in Nat
      /\ limit[c] \in Nat /\ registered \subseteq Containers
    BY DEF LimitsWhole, StoreTyped, MarksTyped, Low
<1>3. over \in Nat /\ usage[c] - limit[c] <= over
  <2>1. usage[c] - limit[c] \in Int
      BY <1>2
  <2>2. over = IF usage[c] - limit[c] >= 0 THEN usage[c] - limit[c] ELSE 0
      BY <2>1, MaxOfTwo
  <2>. HIDE DEF over
  <2>. QED  BY <1>2, <2>2
<1>. SUFFICES ASSUME Calm PROVE KeepInv'
    BY <1>1 DEF KeepInv, Calm
<1>4. Quiet /\ Quiet'
    BY <1>1 DEF Calm, Quiet, Idle
<1>5. OneAtATime'
    BY <1>4 DEF OneAtATime, Quiet
<1>6. SumOfLimits(registered) = limit[c] + SumOfLimits(R) /\ SumOfLimits(R) \in Nat
    BY <1>1, <1>2, SumsOfLimits
<1>7. SumFunctionOnSet(u, R) = SumOfLimits(R)
  <2>1. IsFiniteSet(R) /\ \A x \in R : limit[x] = u[x]
      BY <1>1, <1>2, ContainersFinite, FS_Subset
  <2>. HIDE DEF u, R
  <2>. QED  BY <2>1, SumSame DEF SumOfLimits
<1>8. Promised' = SumOfLimits(R) + accum + usage[c]
    BY <1>1, <1>2, <1>6, <1>7 DEF Promised
<1>9. Promised = limit[c] + SumOfLimits(R) + accum
    BY <1>2, <1>6, PromisedFacts
<1>. HIDE DEF R, over
<1>10. WithinSum'
  <2>1. Promised' <= Promised + over
      BY <1>2, <1>3, <1>6, <1>8, <1>9
  <2>. QED  BY <1>1, <1>2, <1>3, <1>6, <1>8, <1>9, <2>1 DEF KeepInv, WithinSum
<1>11. \A d \in Containers \ registered' : limit'[d] = 0
    BY <1>1, <1>2 DEF KeepInv, R
<1>. QED  BY <1>4, <1>5, <1>10, <1>11 DEF KeepInv, Quiet

LEMMA StillKeep ==
    ASSUME KeepInv, UNCHANGED <<registered, limit, hostLimit, accum, keep, overdrawn, world, req, loading, put>>
    PROVE  KeepInv'
<1>1. (Calm' <=> Calm) /\ (OneAtATime' <=> OneAtATime) /\ (WithinSum' <=> WithinSum) /\ Promised' = Promised
    BY DEF Calm, OneAtATime, WithinSum, Promised, NoPuts, Quiet, Idle
<1>2. \A h \in Handlers : (Idle(h)' <=> Idle(h)) /\ (StepOK(h) => StepOK(h)')
    BY <1>1 DEF Idle, StepOK, SumOfLimits
<1>. QED  BY <1>1, <1>2 DEF KeepInv

\* The mode is turned on after a look at the limits there are.
LEMMA TurnedOn ==
    ASSUME Whole, Low, KeepInv, NEW k \in Keys, NEW value, Applicable(k, value), ApplyKey(k, value),
           UNCHANGED <<storeVars, req, overdrawn, world>>, Calm => Quiet
    PROVE  KeepInv'
<1>1. keep' = keep \/ keep' # TRUE \/ Consistent(Promised)
  <2>1. SumsRead = {Promised}
      BY DEF SumsRead, Low, Promised
  <2>. QED  BY <2>1 DEF Applicable, ApplyKey
<1>2. Consistent(Promised) => (hostLimit > 0 => Promised <= hostLimit + overdrawn)
  <2>1. Promised \in Nat /\ hostLimit \in Nat /\ overdrawn \in Nat
      BY PromisedFacts DEF Whole
  <2>. QED  BY <2>1 DEF Consistent
<1>3. Promised' = Promised
    BY DEF Promised, storeVars
<1>4. Calm => WithinSum'
    BY <1>1, <1>2, <1>3 DEF KeepInv, WithinSum, storeVars
<1>5. Calm => \A h \in Handlers : Idle(h)'
    BY DEF Quiet, Idle
<1>. QED  BY <1>4, <1>5, KeepSettings DEF storeVars

LEMMA NextWorld == Whole /\ [Next]_vars => world' = world
<1>. SUFFICES ASSUME Whole, [Next]_vars PROVE world' = world
    OBVIOUS
<1>1. ASSUME NEW h \in Handlers, ServeLimits(h) PROVE world' = world
    BY <1>1, ServeWhole DEF ServeLimits, Whole
<1>2. ASSUME NEW h \in Handlers, ServeConfig(h) PROVE world' = world
    BY <1>2 DEF ServeConfig, PutConfig, ApplyOne, Refuse, ReadFile, NotWritten, Truncate, WriteFile,
                WrittenInPart, limitsVars
<1>3. ASSUME NEW c \in Containers, Remove(c) \/ Use(c) PROVE world' = world
    BY <1>3 DEF Remove, Use
<1>4. ASSUME NEW value \in BOOLEAN, Switch(value) PROVE world' = world
    BY <1>4 DEF Switch, limitsVars
<1>5. ASSUME Restart PROVE world' = world
    BY <1>5 DEF Restart, RestoreProxy
<1>6. ASSUME NEW k \in Keys, LoadKey(k) \/ LoadFails(k) PROVE world' = world
    BY <1>6 DEF LoadKey, LoadFails, limitsVars
<1>7. ASSUME UNCHANGED vars PROVE world' = world
    BY <1>7 DEF vars, limitsVars
<1>. QED  BY <1>1, <1>2, <1>3, <1>4, <1>5, <1>6, <1>7 DEF Next

LEMMA NextKeep == Whole /\ NoneBelow /\ KeepInv /\ [Next]_vars => KeepInv'
<1>. SUFFICES ASSUME Whole, NoneBelow, KeepInv, [Next]_vars, Calm PROVE KeepInv'
    BY NextWorld DEF KeepInv, Calm
<1>low. Low
    BY CalmIsLow
<1>0. (Calm => WithinSum) /\ (Calm /\ (~NoPuts \/ loading # Empty) => Quiet)
    BY DEF KeepInv, OneAtATime
<1>1. ASSUME NEW h \in Handlers, ServeLimits(h) PROVE KeepInv'
    BY <1>1, <1>low, ServeKeep DEF Whole
<1>2. ASSUME UNCHANGED <<limitsVars>>, Calm => Quiet PROVE KeepInv'
  <2>1. Calm => \A h \in Handlers : Idle(h)'
      BY <1>2 DEF Quiet, Idle, limitsVars
  <2>2. Calm => WithinSum'
      BY <1>0, <1>2 DEF WithinSum, Promised, limitsVars, storeVars
  <2>. QED  BY <1>2, <2>1, <2>2, KeepSettings DEF limitsVars, storeVars
<1>3. ASSUME NEW h \in Handlers, NEW body \in Bodies[world], PutConfig(h, body) PROVE KeepInv'
  <2>1. UNCHANGED limitsVars /\ (Calm => Quiet)
      BY <1>3 DEF PutConfig, Calm
  <2>. QED  BY <1>2, <2>1
<1>4. ASSUME NEW h \in Handlers, put[h].at # "none" PROVE Calm => Quiet
  <2>1. put[h] # NoPut
      BY <1>4 DEF NoPut
  <2>. QED  BY <1>0, <2>1 DEF NoPuts
<1>5. ASSUME NEW h \in Handlers, NEW k \in Keys, ApplyOne(h, k) PROVE KeepInv'
  <2>1. /\ Applicable(k, put[h].todo[k]) /\ ApplyKey(k, put[h].todo[k]) /\ put[h].at # "none"
        /\ UNCHANGED <<storeVars, req, overdrawn, world>>
      BY <1>5 DEF ApplyOne
  <2>. QED  BY <1>4, <1>low, <2>1, TurnedOn
<1>6. ASSUME NEW h \in Handlers, NEW k \in Keys, Refuse(h, k) PROVE KeepInv'
    BY <1>2, <1>4, <1>6 DEF Refuse
<1>7. ASSUME NEW h \in Handlers,
             ReadFile(h) \/ Truncate(h) \/ WriteFile(h) \/ NotWritten(h) \/ WrittenInPart(h)
      PROVE  KeepInv'
  <2>1. UNCHANGED limitsVars /\ put[h].at # "none"
      BY <1>7 DEF ReadFile, Truncate, WriteFile, NotWritten, WrittenInPart
  <2>. QED  BY <1>2, <1>4, <2>1
<1>8. ASSUME NEW c \in Containers, Remove(c), Serving, NoPuts, UNCHANGED configVars PROVE KeepInv'
    BY <1>8, <1>low, RemoveKeep DEF Whole
<1>9. ASSUME NEW c \in Containers, Use(c), UNCHANGED configVars PROVE KeepInv'
    BY <1>9, StillKeep DEF Use, configVars
<1>10. ASSUME NEW value \in BOOLEAN, Switch(value) PROVE KeepInv'
    BY <1>10, StillKeep DEF Switch, limitsVars, storeVars
<1>11. ASSUME Restart PROVE KeepInv'
  <2>1. /\ keep' = FALSE /\ \A h \in Handlers : req'[h] = NoReq
        /\ UNCHANGED <<storeVars, overdrawn, world>>
      BY <1>11 DEF Restart, RestoreProxy
  <2>2. Calm => WithinSum' /\ \A h \in Handlers : Idle(h)'
      BY <2>1 DEF WithinSum, Idle
  <2>. QED  BY <2>1, <2>2, KeepSettings DEF storeVars
<1>12. ASSUME NEW k \in Keys, LoadKey(k) \/ LoadFails(k) PROVE KeepInv'
  <2>1. Calm => Quiet
    <3>1. k \in DOMAIN loading
        BY <1>12 DEF LoadKey, LoadFails, MayApply
    <3>2. loading # Empty
        BY <3>1, EmptySettings
    <3>. QED  BY <1>0, <3>2
  <2>2. CASE LoadKey(k)
      BY <1>low, <2>1, <2>2, TurnedOn DEF LoadKey
  <2>3. CASE LoadFails(k)
      BY <1>2, <2>1, <2>3 DEF LoadFails
  <2>. QED  BY <1>12, <2>2, <2>3
<1>13. ASSUME UNCHANGED vars PROVE KeepInv'
    BY <1>13, StillKeep DEF vars, limitsVars, storeVars, configVars
<1>. QED
    BY <1>1, <1>3, <1>5, <1>6, <1>7, <1>8, <1>9, <1>10, <1>11, <1>12, <1>13 DEF Next, ServeConfig

\* While the mode is on and requests come one at a time, the limits together stay within the
\* host's, but for what removed containers had used beyond their limits: whatever is set,
\* registered and removed, through changes of the mode and restarts, as long as no request
\* sends a value below zero and the store can be read.
THEOREM LimitsStayConsistent == Spec => []KeepsConsistent
<1>1. Spec => [](Whole /\ NoneBelow /\ KeepInv)
    BY InitWhole, NextWhole, InitNoneBelow, NextNoneBelow, InitKeep, NextKeep, PTL DEF Spec
<1>2. KeepInv => KeepsConsistent
    BY DEF KeepInv, WithinSum, KeepsConsistent, Calm
<1>. QED  BY <1>1, <1>2, PTL

-----------------------------------------------------------------------------
(* The settings whose PUT succeeded are in force. *)

\* Requests one at a time and no crash, where either no setting is of the wrong type or
\* the mode is never changed; it is never on where the file may fail.
Traced ==
    \/ world.may \subseteq {"host", "register", "mode", "plain", "restart"}
    \/ world.may \subseteq {"host", "plain", "refuse", "switch", "restart"}
    \/ world.may \subseteq {"host", "plain", "refuse", "switch", "restart", "badfile"} /\ ~world.keep

\* The settings of the request that are in memory.
Applied(h) == DOMAIN put[h].body \ DOMAIN put[h].todo

\* A file has of what was accepted all that is not marked as unsaved, as it was accepted;
\* of a file that could not be read, what it lacks will be marked.
Agrees(f, mayLack) ==
    /\ {"url", "models"} \cap DOMAIN f = {}
    /\ "keep" \in DOMAIN f => "keep" \in DOMAIN accepted \ unsaved
    /\ \A k \in DOMAIN accepted \ unsaved :
           /\ k \in DOMAIN f \/ mayLack
           /\ k \in DOMAIN f => f[k] = accepted[k]

\* What a request has applied is in force, the mode even where memory was changed
\* otherwise; it can still be refused only when it has not applied the mode; and what it
\* has read of the file agrees with what was accepted.
PutOK(h) ==
    /\ {"url", "models"} \cap DOMAIN put[h].body = {}
    /\ DOMAIN put[h].todo \subseteq DOMAIN put[h].body
    /\ \A k \in DOMAIN put[h].todo : put[h].todo[k] = put[h].body[k]
    /\ "keep" \in DOMAIN put[h].body => \A k \in DOMAIN put[h].body : put[h].body[k] # Wrong
    /\ \A k \in Applied(h) : k = "keep" \/ ~touched => InForce(k) = put[h].body[k]
    /\ FileMayFail => "keep" \notin DOMAIN put[h].body
    /\ put[h].at \in {"truncate", "write"} => Agrees(put[h].file, FileMayFail)

\* What is still to be loaded of what was accepted is as it was accepted, and the mode's
\* own check will not fail.
LoadOK ==
    /\ loading # Empty => NoPuts
    /\ {"url", "models"} \cap DOMAIN loading = {}
    /\ \A k \in DOMAIN loading \cap DOMAIN accepted : loading[k] = accepted[k]
    /\ "keep" \in DOMAIN loading /\ loading["keep"] => Consistent(Promised)

\* What was accepted and saved is in the file, unless that is just being written; and what
\* of it is neither to be loaded nor replaced by the request that is served is in force.
Kept ==
    /\ Agrees(disk, torn)
    /\ torn => DOMAIN accepted \subseteq unsaved \/ \E h \in Handlers : put[h].at = "write"
    /\ {"url", "models"} \cap DOMAIN accepted = {}
    /\ FileMayFail => "keep" \notin DOMAIN accepted
    /\ \A k \in DOMAIN accepted \ DOMAIN loading :
           (k = "keep" \/ ~touched) /\ (\A h \in Handlers : k \notin Applied(h))
               => InForce(k) = accepted[k]

AcceptInv ==
    Traced =>
        /\ \A g, h \in Handlers : put[g] = NoPut \/ put[h] = NoPut \/ g = h
        /\ overdrawn = 0
        /\ \A h \in Handlers : PutOK(h)
        /\ LoadOK
        /\ Kept

LEMMA TracedFacts ==
    ASSUME Traced
    PROVE  /\ Calm
           /\ world.may \cap {"url", "crash", "remove", "together"} = {}
           /\ "mode" \in world.may => "refuse" \notin world.may
           /\ FileMayFail => "mode" \notin world.may /\ ~world.keep
<1>. QED  BY DEF Traced, Calm, FileMayFail

\* A handler that serves no request.
LEMMA NoPutOK ==
    /\ NoPut.at = "none" /\ DOMAIN NoPut.body = {} /\ DOMAIN NoPut.todo = {}
    /\ \A h \in Handlers : put[h] = NoPut => PutOK(h) /\ Applied(h) = {}
    /\ \A h \in Handlers : put'[h] = NoPut => PutOK(h)' /\ Applied(h)' = {}
<1>1. NoPut.at = "none" /\ DOMAIN NoPut.body = {} /\ DOMAIN NoPut.todo = {}
  <2>1. DOMAIN Empty = {}
      BY EmptySettings
  <2>. QED  BY <2>1, NoPutTyped DEF NoPut
<1>2. ASSUME NEW h \in Handlers, put[h] = NoPut PROVE PutOK(h) /\ Applied(h) = {}
    BY <1>1, <1>2 DEF PutOK, Applied
<1>3. ASSUME NEW h \in Handlers, put'[h] = NoPut PROVE PutOK(h)' /\ Applied(h)' = {}
    BY <1>1, <1>3 DEF PutOK, Applied
<1>. QED  BY <1>1, <1>2, <1>3

\* The request that is served is the only one, and nothing is being loaded.
LEMMA PutAlone ==
    ASSUME AcceptInv, Traced, NEW h \in Handlers, put[h].at # "none"
    PROVE  /\ \A g \in Handlers \ {h} : put[g] = NoPut /\ Applied(g) = {}
           /\ loading = Empty /\ DOMAIN loading = {}
           /\ PutOK(h) /\ Kept /\ overdrawn = 0
<1>1. put[h] # NoPut
    BY NoPutOK
<1>2. \A g \in Handlers \ {h} : put[g] = NoPut /\ Applied(g) = {}
    BY <1>1, NoPutOK DEF AcceptInv
<1>3. loading = Empty
    BY <1>1 DEF AcceptInv, LoadOK, NoPuts
<1>. QED  BY <1>2, <1>3, EmptySettings DEF AcceptInv

\* Nothing has to be loaded when nothing is.
LEMMA LoadedOK ==
    ASSUME loading' = Empty
    PROVE  LoadOK'
<1>1. DOMAIN loading' = {}
    BY EmptySettings
<1>. QED  BY <1>1 DEF LoadOK

LEMMA InitAccept == Init => AcceptInv
<1>. SUFFICES ASSUME Init PROVE AcceptInv
    OBVIOUS
<1>. SUFFICES ASSUME Traced PROVE AcceptInv
    BY DEF AcceptInv
<1>1. /\ disk = accepted /\ loading = Empty /\ DOMAIN loading = {} /\ torn = FALSE /\ overdrawn = 0
      /\ unsaved = {} /\ \A h \in Handlers : put[h] = NoPut
    BY EmptySettings DEF Init, LimitsInit
<1>a. FileMayFail => "keep" \notin DOMAIN accepted
    BY TracedFacts, EmptySettings DEF Init
<1>2. \A k \in DOMAIN accepted : k = "keep" /\ accepted[k] = TRUE /\ keep = TRUE
  <2>1. CASE world.keep
      BY <2>1 DEF Init, LimitsInit
  <2>2. CASE ~world.keep
      BY <2>2, EmptySettings DEF Init
  <2>. QED  BY <2>1, <2>2
<1>3. LoadOK
    BY <1>1 DEF LoadOK
<1>4. Kept
    BY <1>1, <1>2, <1>a DEF Kept, Agrees, InForce
<1>. QED  BY <1>1, <1>3, <1>4, NoPutOK DEF AcceptInv

\* A step that has nothing to do with the settings.
LEMMA StillAccept ==
    ASSUME AcceptInv, UNCHANGED <<configVars, keep, overdrawn, world>>,
           Serving \/ UNCHANGED storeVars
    PROVE  AcceptInv'
<1>1. (\A k : InForce(k)' = InForce(k)) /\ (\A h \in Handlers : Applied(h)' = Applied(h)) /\ (Traced' <=> Traced)
    BY DEF InForce, Applied, Traced, configVars
<1>a. (FileMayFail' <=> FileMayFail) /\ \A f, mayLack : Agrees(f, mayLack) => Agrees(f, mayLack)'
    BY DEF Agrees, FileMayFail, configVars
<1>2. \A h \in Handlers : PutOK(h) => PutOK(h)'
  <2>. SUFFICES ASSUME NEW h \in Handlers, PutOK(h) PROVE PutOK(h)'
      OBVIOUS
  <2>1. put[h].at \in {"truncate", "write"} => Agrees(put[h].file, FileMayFail)'
      BY DEF PutOK, Agrees, FileMayFail, configVars
  <2>. QED  BY <1>1, <1>a, <2>1 DEF PutOK, configVars
<1>3. Kept => Kept'
    BY <1>1, <1>a DEF Kept, Agrees, configVars
<1>4. LoadOK => LoadOK'
  <2>1. CASE Serving
      BY <2>1, LoadedOK DEF Serving, configVars
  <2>2. CASE UNCHANGED storeVars
      BY <2>2 DEF LoadOK, NoPuts, Consistent, Promised, storeVars, configVars
  <2>. QED  BY <2>1, <2>2
<1>. QED  BY <1>1, <1>2, <1>3, <1>4 DEF AcceptInv, configVars

\* A request comes in.
LEMMA PutConfigAccept ==
    ASSUME Whole, AcceptInv, NEW h \in Handlers, NEW body \in Bodies[world], PutConfig(h, body)
    PROVE  AcceptInv'
<1>. DEFINE applied == But(body, "url")
<1>1. /\ put' = [put EXCEPT ![h] = [NoPut EXCEPT !.at = "apply", !.todo = body, !.body = applied]]
      /\ UNCHANGED <<limitsVars, conf, disk, torn, loading, accepted, unsaved, touched>>
      /\ Serving /\ (NoPuts \/ "together" \in world.may)
    BY DEF PutConfig
<1>. SUFFICES ASSUME Traced PROVE AcceptInv'
    BY <1>1 DEF AcceptInv, Traced, limitsVars
<1>2. NoPuts /\ Kept /\ overdrawn = 0
    BY <1>1, TracedFacts DEF AcceptInv
<1>3. PICK K \in SUBSET KeysOf(world) : body \in [K -> ValuesOf(world)]
    BY DEF Bodies, Whole, LimitsWhole, MarksTyped
<1>4. /\ {"url", "models"} \cap K = {}
      /\ "keep" \in K => "refuse" \notin world.may /\ ~FileMayFail
    BY TracedFacts, ConfigFacts DEF KeysOf
<1>5. "keep" \in K => \A k \in K : body[k] # Wrong
    BY <1>3, <1>4, ConfigFacts DEF ValuesOf
<1>6. DOMAIN applied = K /\ \A k \in K : applied[k] = body[k]
    BY <1>3, <1>4 DEF But
<1>. HIDE DEF applied
<1>7. /\ put'[h].at = "apply" /\ put'[h].todo = body /\ put'[h].body = applied
      /\ \A g \in Handlers \ {h} : put'[g] = NoPut
    BY <1>1, <1>2 DEF NoPut, NoPuts, Whole, ConfWhole, PutTyped
<1>8. (torn => DOMAIN accepted \subseteq unsaved) /\ FileMayFail' = FileMayFail
    BY <1>1, <1>2, NoPutOK DEF Kept, NoPuts, FileMayFail, limitsVars
<1>9. Applied(h)' = {}
    BY <1>3, <1>6, <1>7 DEF Applied
<1>10. PutOK(h)'
    BY <1>1, <1>3, <1>4, <1>5, <1>6, <1>7, <1>8, <1>9 DEF PutOK
<1>11. LoadOK'
    BY <1>1, LoadedOK DEF Serving
<1>12. Kept'
  <2>1. \A k : InForce(k)' = InForce(k)
      BY <1>1 DEF InForce, limitsVars
  <2>2. \A g \in Handlers : Applied(g) = {}
      BY <1>2, NoPutOK DEF NoPuts
  <2>. QED  BY <1>1, <1>2, <1>8, <2>1, <2>2 DEF Kept, Agrees
<1>13. \A f, g \in Handlers : put'[f] = NoPut \/ put'[g] = NoPut \/ f = g
    BY <1>7
<1>14. \A g \in Handlers : PutOK(g)'
    BY <1>7, <1>10, NoPutOK
<1>. QED  BY <1>1, <1>2, <1>11, <1>12, <1>13, <1>14 DEF AcceptInv, limitsVars

\* What an applied setting changes.
LEMMA AppliedInForce ==
    ASSUME ConfTyped, NEW k \in Keys, k # "url", NEW value, ApplyKey(k, value)
    PROVE  InForce(k)' = value /\ \A j \in Keys \ {k} : InForce(j)' = InForce(j)
<1>1. CASE k = "keep"
    BY <1>1 DEF ApplyKey, InForce, Keys
<1>2. CASE k # "keep"
    BY <1>2 DEF ApplyKey, InForce, ConfTyped, Keys
<1>. QED  BY <1>1, <1>2

\* A request that has not truncated the file found it whole, or nothing saved in it.
LEMMA NotWriting ==
    ASSUME AcceptInv, Traced, NEW h \in Handlers, put[h].at \in {"apply", "truncate"}
    PROVE  torn => DOMAIN accepted \subseteq unsaved
<1>1. Kept /\ \A g \in Handlers : put[g].at # "write"
    BY PutAlone, NoPutOK
<1>. QED  BY <1>1 DEF Kept

LEMMA ApplyOneAccept ==
    ASSUME Whole, AcceptInv, NEW h \in Handlers, NEW k \in Keys, ApplyOne(h, k)
    PROVE  AcceptInv'
<1>. DEFINE rest == But(put[h].todo, k)
<1>1. /\ put[h].at = "apply" /\ k \in DOMAIN put[h].todo
      /\ ApplyKey(k, put[h].todo[k])
      /\ put' = [put EXCEPT ![h].todo = But(@, k)]
      /\ UNCHANGED <<overdrawn, world, disk, torn, loading, accepted, unsaved, touched>>
    BY DEF ApplyOne, MayApply
<1>. SUFFICES ASSUME Traced PROVE AcceptInv'
    BY <1>1 DEF AcceptInv, Traced
<1>2. /\ \A g \in Handlers \ {h} : put[g] = NoPut /\ Applied(g) = {}
      /\ loading = Empty /\ PutOK(h) /\ Kept /\ overdrawn = 0
    BY <1>1, PutAlone
<1>3. /\ put \in [Handlers -> Puts] /\ put[h] \in Puts
      /\ put[h].todo \in Settings(BOOLEAN \cup {Wrong}) /\ put[h].body \in Settings(BOOLEAN \cup {Wrong})
      /\ accepted \in Settings(BOOLEAN)
    BY PutIn DEF Whole, ConfWhole, ConfTyped, PutTyped
<1>4. /\ DOMAIN rest = DOMAIN put[h].todo \ {k}
      /\ \A j \in DOMAIN put[h].todo \ {k} : rest[j] = put[h].todo[j]
  <2>1. put[h].todo \in Settings(BOOLEAN \cup {Wrong})
      BY <1>3
  <2>. QED  BY ONLY <2>1, ButRaw
<1>. HIDE DEF rest
<1>5. /\ put'[h].at = "apply" /\ put'[h].todo = rest /\ put'[h].body = put[h].body
      /\ \A g \in Handlers \ {h} : put'[g] = put[g]
    BY ONLY <1>1, <1>3 DEF Puts, rest
<1>7. k \in DOMAIN put[h].body /\ put[h].todo[k] = put[h].body[k] /\ k # "url"
    BY <1>1, <1>2 DEF PutOK
<1>6. /\ InForce(k)' = put[h].todo[k]
      /\ \A j \in Keys \ {k} : InForce(j)' = InForce(j)
    BY <1>1, <1>7, AppliedInForce DEF Whole, ConfWhole
<1>a. FileMayFail' = FileMayFail
    BY <1>1 DEF FileMayFail
<1>8. Applied(h)' = Applied(h) \cup {k}
    BY <1>4, <1>5, <1>7 DEF Applied
<1>9. DOMAIN put[h].body \subseteq Keys /\ DOMAIN accepted \subseteq Keys
    BY <1>3, SettingsAre
<1>10. \A j \in Applied(h)' : j = "keep" \/ ~touched => InForce(j)' = put[h].body[j]
  <2>1. ASSUME NEW j \in Applied(h), j # k, j = "keep" \/ ~touched
        PROVE  InForce(j)' = put[h].body[j]
      BY <1>2, <1>6, <1>9, <2>1 DEF PutOK, Applied
  <2>. QED  BY <1>6, <1>7, <1>8, <2>1
<1>11. PutOK(h)'
    BY <1>1, <1>2, <1>4, <1>5, <1>10, <1>a DEF PutOK
<1>12. LoadOK'
    BY <1>1, <1>2, LoadedOK
<1>13. Kept'
  <2>1. ASSUME NEW j \in DOMAIN accepted \ DOMAIN loading, j = "keep" \/ ~touched,
               \A g \in Handlers : j \notin Applied(g)'
        PROVE  InForce(j)' = accepted[j]
    <3>1. j # k /\ j \notin Applied(h)
        BY <1>8, <2>1
    <3>2. \A g \in Handlers : j \notin Applied(g)
        BY <1>2, <3>1
    <3>3. InForce(j) = accepted[j]
        BY <1>2, <2>1, <3>2 DEF Kept
    <3>. QED  BY <1>6, <1>9, <3>1, <3>3
  <2>2. torn => DOMAIN accepted \subseteq unsaved
      BY <1>1, NotWriting
  <2>. QED  BY <1>1, <1>2, <1>a, <2>1, <2>2 DEF Kept, Agrees
<1>14. \A g \in Handlers : PutOK(g)'
    BY <1>2, <1>5, <1>11, NoPutOK
<1>15. \A f, g \in Handlers : put'[f] = NoPut \/ put'[g] = NoPut \/ f = g
    BY <1>2, <1>5
<1>. QED  BY <1>1, <1>2, <1>12, <1>13, <1>14, <1>15 DEF AcceptInv

\* A request that has applied the mode is not refused, for its other settings are right.
LEMMA RefuseAccept ==
    ASSUME Whole, AcceptInv, NEW h \in Handlers, NEW k \in Keys, Refuse(h, k)
    PROVE  AcceptInv'
<1>1. /\ put[h].at = "apply" /\ k \in DOMAIN put[h].todo
      /\ Refusable(k, put[h].todo[k])
      /\ put' = [put EXCEPT ![h] = NoPut] /\ touched' = TRUE
      /\ UNCHANGED <<limitsVars, conf, disk, torn, loading, accepted, unsaved>>
    BY DEF Refuse, MayApply
<1>. SUFFICES ASSUME Traced PROVE AcceptInv'
    BY <1>1 DEF AcceptInv, Traced, limitsVars
<1>2. /\ \A g \in Handlers \ {h} : put[g] = NoPut /\ Applied(g) = {}
      /\ loading = Empty /\ PutOK(h) /\ Kept /\ overdrawn = 0
    BY <1>1, PutAlone
<1>3. \A g \in Handlers : put'[g] = NoPut
    BY <1>1, <1>2 DEF Whole, ConfWhole, PutTyped
<1>4. "keep" \notin Applied(h)
  <2>. SUFFICES ASSUME "keep" \in Applied(h) PROVE FALSE
      OBVIOUS
  <2>1. /\ \A j \in DOMAIN put[h].body : put[h].body[j] # Wrong
        /\ k \in DOMAIN put[h].body /\ put[h].todo[k] = put[h].body[k] /\ k # "models"
      BY <1>1, <1>2 DEF PutOK, Applied
  <2>2. k = "keep"
      BY <1>1, <2>1 DEF Refusable
  <2>. QED  BY <1>1, <2>2 DEF Applied
<1>5. Kept'
  <2>1. \A j : InForce(j)' = InForce(j)
      BY <1>1 DEF InForce, limitsVars
  <2>2. "keep" \in DOMAIN accepted \ DOMAIN loading => InForce("keep") = accepted["keep"]
      BY <1>2, <1>4 DEF Kept
  <2>3. (torn => DOMAIN accepted \subseteq unsaved) /\ FileMayFail' = FileMayFail
      BY <1>1, NotWriting DEF FileMayFail, limitsVars
  <2>. QED  BY <1>1, <1>2, <2>1, <2>2, <2>3 DEF Kept, Agrees
<1>6. LoadOK'
    BY <1>1, <1>2, LoadedOK
<1>. QED  BY <1>1, <1>2, <1>3, <1>5, <1>6, NoPutOK DEF AcceptInv, limitsVars

\* The file is read and truncated.
LEMMA FileAccept ==
    ASSUME Whole, AcceptInv, NEW h \in Handlers, ReadFile(h) \/ Truncate(h)
    PROVE  AcceptInv'
<1>1. /\ put[h].at \in {"apply", "truncate"}
      /\ UNCHANGED <<limitsVars, conf, disk, loading, accepted, unsaved, touched>>
    BY DEF ReadFile, Truncate
<1>. SUFFICES ASSUME Traced PROVE AcceptInv'
    BY <1>1 DEF AcceptInv, Traced, limitsVars
<1>2. /\ \A g \in Handlers \ {h} : put[g] = NoPut /\ Applied(g) = {}
      /\ loading = Empty /\ PutOK(h) /\ Kept /\ overdrawn = 0
    BY <1>1, PutAlone
<1>3. /\ put \in [Handlers -> Puts] /\ put[h] \in Puts
      /\ (torn => DOMAIN accepted \subseteq unsaved) /\ FileMayFail' = FileMayFail
    BY <1>1, PutIn, NotWriting DEF Whole, ConfWhole, PutTyped, FileMayFail, limitsVars
<1>4. /\ \A g \in Handlers \ {h} : put'[g] = put[g]
      /\ put'[h].todo = put[h].todo /\ put'[h].body = put[h].body /\ Agrees(put'[h].file, FileMayFail)
      /\ \/ put'[h].at = "truncate" /\ torn' = torn
         \/ put'[h].at = "write" /\ torn'
  <2>1. CASE ReadFile(h)
    <3>1. PICK f \in {IF torn THEN Empty ELSE disk} \cup (IF FileMayFail THEN {Empty} ELSE {}) :
              put' = [put EXCEPT ![h].at = "truncate", ![h].file = f]
        BY <2>1 DEF ReadFile
    <3>2. DOMAIN Empty = {}
        BY EmptySettings
    <3>3. Agrees(f, FileMayFail)
      <4>1. CASE f = Empty /\ (torn \/ FileMayFail)
          BY <1>3, <3>2, <4>1 DEF Agrees
      <4>2. CASE f = disk /\ ~torn
          BY <1>2, <4>2 DEF Kept, Agrees
      <4>. QED  BY <3>1, <4>1, <4>2
    <3>. QED  BY <1>3, <2>1, <3>1, <3>3 DEF ReadFile, Puts
  <2>2. CASE Truncate(h)
    <3>1. Agrees(put[h].file, FileMayFail)
        BY <1>2, <2>2 DEF Truncate, PutOK
    <3>. QED  BY <1>3, <2>2, <3>1 DEF Truncate, Puts
  <2>. QED  BY <2>1, <2>2
<1>a. Agrees(put[h].file, FileMayFail)'
    BY <1>1, <1>3, <1>4 DEF Agrees
<1>5. (\A k : InForce(k)' = InForce(k)) /\ \A g \in Handlers : Applied(g)' = Applied(g)
    BY <1>1, <1>4 DEF InForce, Applied, limitsVars
<1>6. PutOK(h)'
    BY <1>1, <1>2, <1>3, <1>4, <1>5, <1>a DEF PutOK
<1>7. Kept'
    BY <1>1, <1>2, <1>3, <1>4, <1>5 DEF Kept, Agrees
<1>8. \A g \in Handlers : PutOK(g)'
    BY <1>2, <1>4, <1>6, NoPutOK
<1>9. LoadOK'
    BY <1>1, <1>2, LoadedOK
<1>10. \A f, g \in Handlers : put'[f] = NoPut \/ put'[g] = NoPut \/ f = g
    BY <1>2, <1>4
<1>. QED  BY <1>1, <1>2, <1>7, <1>8, <1>9, <1>10 DEF AcceptInv, limitsVars

\* The request succeeds, whether it is stored or not.
LEMMA WriteAccept ==
    ASSUME Whole, AcceptInv, NEW h \in Handlers, WriteFile(h) \/ NotWritten(h) \/ WrittenInPart(h)
    PROVE  AcceptInv'
<1>1. /\ put[h].at \in {"truncate", "write"}
      /\ accepted' = Over(put[h].body, accepted)
      /\ put' = [put EXCEPT ![h] = NoPut]
      /\ UNCHANGED <<limitsVars, conf, loading, touched>>
    BY DEF WriteFile, NotWritten, WrittenInPart
<1>. SUFFICES ASSUME Traced PROVE AcceptInv'
    BY <1>1 DEF AcceptInv, Traced, limitsVars
<1>2. /\ \A g \in Handlers \ {h} : put[g] = NoPut /\ Applied(g) = {}
      /\ loading = Empty /\ DOMAIN loading = {} /\ PutOK(h) /\ Kept /\ overdrawn = 0
    BY <1>1, PutAlone
<1>3. \A g \in Handlers : put'[g] = NoPut
    BY <1>1, <1>2 DEF Whole, ConfWhole, PutTyped
<1>4. Applied(h) = DOMAIN put[h].body
    BY <1>1, EmptySettings, PutIn DEF Applied, Whole, ConfWhole, Checked
<1>5. /\ DOMAIN accepted' = DOMAIN put[h].body \cup DOMAIN accepted
      /\ \A k \in DOMAIN accepted' :
            accepted'[k] = IF k \in DOMAIN put[h].body THEN put[h].body[k] ELSE accepted[k]
    BY <1>1 DEF Over
<1>a. FileMayFail' = FileMayFail
    BY <1>1 DEF FileMayFail, limitsVars
<1>6. Agrees(disk, torn)' /\ (torn' => DOMAIN accepted' \subseteq unsaved')
  <2>1. CASE WriteFile(h)
    <3>1. /\ torn' = FALSE /\ disk' = Over(put[h].body, put[h].file)
          /\ unsaved' = (unsaved \cup Missing(h)) \ DOMAIN put[h].body
        BY <2>1 DEF WriteFile
    <3>2. Agrees(put[h].file, FileMayFail)
        BY <1>1, <1>2 DEF PutOK
    <3>3. /\ DOMAIN disk' = DOMAIN put[h].body \cup DOMAIN put[h].file
          /\ \A k \in DOMAIN disk' :
                disk'[k] = IF k \in DOMAIN put[h].body THEN put[h].body[k] ELSE put[h].file[k]
        BY <3>1 DEF Over
    <3>4. {"url", "models"} \cap DOMAIN disk' = {}
        BY <1>2, <3>2, <3>3 DEF PutOK, Agrees
    <3>5. Missing(h) \cap DOMAIN put[h].file = {}
        BY DEF Missing
    <3>6. "keep" \in DOMAIN disk' => "keep" \in DOMAIN accepted' \ unsaved'
        BY <1>5, <3>1, <3>2, <3>3, <3>5 DEF Agrees
    <3>7. ASSUME NEW k \in DOMAIN accepted' \ unsaved'
          PROVE  k \in DOMAIN disk' /\ disk'[k] = accepted'[k]
      <4>1. CASE k \in DOMAIN put[h].body
          BY <1>5, <3>3, <3>7, <4>1
      <4>2. CASE k \notin DOMAIN put[h].body
        <5>1. k \in DOMAIN accepted \ unsaved /\ k \notin Missing(h)
            BY <1>5, <3>1, <3>7, <4>2
        <5>2. k \in DOMAIN put[h].file
            BY <3>2, <5>1 DEF Agrees, Missing
        <5>. QED  BY <1>5, <3>2, <3>3, <3>7, <4>2, <5>1, <5>2 DEF Agrees
      <4>. QED  BY <4>1, <4>2
    <3>. QED  BY <3>1, <3>4, <3>6, <3>7 DEF Agrees
  <2>2. CASE NotWritten(h)
    <3>1. /\ UNCHANGED <<disk, torn>> /\ FileMayFail /\ put[h].at = "truncate"
          /\ unsaved' = unsaved \cup DOMAIN put[h].body
        BY <2>2 DEF NotWritten
    <3>2. torn => DOMAIN accepted \subseteq unsaved
        BY <3>1, NotWriting
    <3>3. "keep" \notin DOMAIN put[h].body /\ "keep" \notin DOMAIN disk
        BY <1>2, <3>1 DEF PutOK, Kept, Agrees
    <3>. QED  BY <1>2, <1>5, <3>1, <3>2, <3>3 DEF Kept, Agrees
  <2>3. CASE WrittenInPart(h)
    <3>1. UNCHANGED <<disk, torn>> /\ FileMayFail /\ unsaved' = DOMAIN accepted'
        BY <2>3 DEF WrittenInPart
    <3>2. "keep" \notin DOMAIN disk
        BY <1>2, <3>1 DEF Kept, Agrees
    <3>. QED  BY <1>2, <3>1, <3>2 DEF Kept, Agrees
  <2>. QED  BY <2>1, <2>2, <2>3
<1>7. /\ {"url", "models"} \cap DOMAIN accepted' = {}
      /\ FileMayFail' => "keep" \notin DOMAIN accepted'
    BY <1>2, <1>5, <1>a DEF PutOK, Kept
<1>8. ASSUME NEW k \in DOMAIN accepted', k = "keep" \/ ~touched
      PROVE  InForce(k)' = accepted'[k]
  <2>1. InForce(k)' = InForce(k)
      BY <1>1 DEF InForce, limitsVars
  <2>2. CASE k \in DOMAIN put[h].body
      BY <1>2, <1>4, <1>5, <1>8, <2>1, <2>2 DEF PutOK
  <2>3. CASE k \notin DOMAIN put[h].body
    <3>1. k \in DOMAIN accepted \ DOMAIN loading /\ \A g \in Handlers : k \notin Applied(g)
        BY <1>2, <1>4, <1>5, <2>3
    <3>. QED  BY <1>2, <1>5, <1>8, <2>1, <2>3, <3>1 DEF Kept
  <2>. QED  BY <2>2, <2>3
<1>9. Kept'
    BY <1>1, <1>6, <1>7, <1>8 DEF Kept
<1>10. LoadOK'
    BY <1>1, <1>2, LoadedOK
<1>. QED  BY <1>1, <1>2, <1>3, <1>9, <1>10, NoPutOK DEF AcceptInv, limitsVars

\* PUT /providers.
LEMMA SwitchAccept ==
    ASSUME Whole, AcceptInv, NEW value \in BOOLEAN, Switch(value)
    PROVE  AcceptInv'
<1>1. /\ conf' = [conf EXCEPT ![Provider] = value] /\ touched' = TRUE /\ loading = Empty
      /\ UNCHANGED <<limitsVars, disk, torn, put, loading, accepted, unsaved>>
    BY DEF Switch, Serving
<1>2. InForce("keep")' = InForce("keep") /\ \A g \in Handlers : Applied(g)' = Applied(g)
    BY <1>1 DEF InForce, Applied, limitsVars
<1>a. FileMayFail' = FileMayFail
    BY <1>1 DEF FileMayFail, limitsVars
<1>3. \A g \in Handlers : PutOK(g) => PutOK(g)'
  <2>. SUFFICES ASSUME NEW g \in Handlers, PutOK(g) PROVE PutOK(g)'
      OBVIOUS
  <2>1. put[g].at \in {"truncate", "write"} => Agrees(put[g].file, FileMayFail)'
      BY <1>1, <1>a DEF PutOK, Agrees
  <2>. QED  BY <1>1, <1>2, <1>a, <2>1 DEF PutOK
<1>4. Kept => Kept'
    BY <1>1, <1>2, <1>a DEF Kept, Agrees
<1>5. LoadOK'
    BY <1>1, LoadedOK
<1>. QED  BY <1>1, <1>3, <1>4, <1>5 DEF AcceptInv, Traced, limitsVars

\* The daemon restarts: the mode that is stored was in force, so that the limits it finds
\* are consistent.
LEMMA RestartAccept ==
    ASSUME Whole, NoneBelow, KeepInv, AcceptInv, Restart
    PROVE  AcceptInv'
<1>1. /\ Serving /\ ("crash" \in world.may \/ NoPuts)
      /\ \A h \in Handlers : put'[h] = NoPut
      /\ unsaved' = {}
      /\ UNCHANGED <<storeVars, overdrawn, world, disk, torn>>
    BY DEF Restart, RestoreProxy
<1>a. PICK readable \in BOOLEAN :
          /\ loading' = IF torn \/ ~readable THEN Empty ELSE disk
          /\ accepted' = [k \in IF readable THEN DOMAIN accepted \ unsaved ELSE {} |-> accepted[k]]
          /\ readable \/ FileMayFail
    BY DEF Restart
<1>. SUFFICES ASSUME Traced PROVE AcceptInv'
    BY <1>1 DEF AcceptInv, Traced
<1>2. NoPuts /\ Kept /\ overdrawn = 0 /\ FileMayFail' = FileMayFail
    BY <1>1, TracedFacts DEF AcceptInv, FileMayFail
<1>3. torn => DOMAIN accepted \subseteq unsaved
    BY <1>2, NoPutOK DEF Kept, NoPuts
<1>4. /\ DOMAIN accepted' \subseteq DOMAIN accepted \ unsaved
      /\ readable => DOMAIN accepted' = DOMAIN accepted \ unsaved
      /\ ~readable => DOMAIN accepted' = {}
      /\ \A k \in DOMAIN accepted' : accepted'[k] = accepted[k]
    BY <1>a
<1>b. /\ Agrees(disk, torn) /\ (~readable => "keep" \notin DOMAIN disk)
      /\ DOMAIN Empty = {}
    BY <1>a, <1>2, EmptySettings DEF Kept, Agrees
<1>5. "keep" \in DOMAIN loading' /\ loading'["keep"] => Consistent(Promised)
  <2>. SUFFICES ASSUME "keep" \in DOMAIN loading', loading'["keep"], hostLimit # 0
                PROVE  Promised <= hostLimit
      BY DEF Consistent
  <2>a. "keep" \in DOMAIN accepted /\ accepted["keep"]
      BY <1>a, <1>b DEF Agrees
  <2>1. DOMAIN loading = {} /\ \A h \in Handlers : Applied(h) = {}
      BY <1>1, <1>2, EmptySettings, NoPutOK DEF Serving, NoPuts
  <2>2. InForce("keep") = accepted["keep"]
      BY <1>2, <2>1, <2>a DEF Kept
  <2>3. hostLimit \in Nat
      BY TracedFacts, CalmIsLow DEF Low
  <2>4. Promised <= hostLimit + overdrawn
      BY <2>2, <2>3, <2>a, TracedFacts DEF InForce, KeepInv, WithinSum
  <2>. QED  BY <1>2, <2>3, <2>4
<1>6. Consistent(Promised)' <=> Consistent(Promised)
    BY <1>1 DEF Consistent, Promised, storeVars
<1>c. /\ {"url", "models"} \cap DOMAIN loading' = {}
      /\ \A k \in DOMAIN loading' \cap DOMAIN accepted' : loading'[k] = accepted'[k]
      /\ DOMAIN accepted' \subseteq DOMAIN loading'
    BY <1>a, <1>b, <1>3, <1>4 DEF Agrees
<1>7. LoadOK'
    BY <1>1, <1>5, <1>6, <1>c DEF LoadOK, NoPuts
<1>8. Kept'
  <2>1. Agrees(disk, torn)'
      BY <1>1, <1>4, <1>b, <1>a, <1>3 DEF Agrees
  <2>. QED  BY <1>1, <1>2, <1>3, <1>4, <1>c, <2>1 DEF Kept
<1>. QED  BY <1>1, <1>2, <1>7, <1>8, NoPutOK DEF AcceptInv

LEMMA LoadKeyAccept ==
    ASSUME Whole, AcceptInv, NEW k \in Keys, LoadKey(k)
    PROVE  AcceptInv'
<1>1. /\ k \in DOMAIN loading /\ ApplyKey(k, loading[k])
      /\ loading' = But(loading, k)
      /\ UNCHANGED <<storeVars, overdrawn, world, disk, torn, put, accepted, unsaved, touched>>
    BY DEF LoadKey, MayApply
<1>. SUFFICES ASSUME Traced PROVE AcceptInv'
    BY <1>1 DEF AcceptInv, Traced
<1>2. /\ LoadOK /\ Kept /\ overdrawn = 0
      /\ loading \in Settings(BOOLEAN) /\ accepted \in Settings(BOOLEAN)
    BY DEF AcceptInv, Whole, ConfWhole, ConfTyped
<1>3. NoPuts /\ \A h \in Handlers : put[h] = NoPut /\ Applied(h) = {}
    BY <1>1, <1>2, EmptySettings, NoPutOK DEF LoadOK, NoPuts
<1>4. DOMAIN loading' = DOMAIN loading \ {k} /\ \A j \in DOMAIN loading' : loading'[j] = loading[j]
    BY <1>1, <1>2, ButSettings
<1>5. /\ InForce(k)' = loading[k]
      /\ \A j \in Keys \ {k} : InForce(j)' = InForce(j)
  <2>1. k # "url"
      BY <1>1, <1>2 DEF LoadOK
  <2>. QED  BY <1>1, <2>1, AppliedInForce DEF Whole, ConfWhole
<1>6. (k \in DOMAIN accepted => loading[k] = accepted[k]) /\ DOMAIN accepted \subseteq Keys
    BY <1>1, <1>2, SettingsAre DEF LoadOK
<1>7. LoadOK'
    BY <1>1, <1>2, <1>3, <1>4 DEF LoadOK, NoPuts, Consistent, Promised, storeVars
<1>8. ASSUME NEW j \in DOMAIN accepted \ DOMAIN loading', j = "keep" \/ ~touched
      PROVE  InForce(j)' = accepted[j]
  <2>1. CASE j = k
      BY <1>5, <1>6, <2>1
  <2>2. CASE j # k
      BY <1>2, <1>3, <1>4, <1>5, <1>6, <1>8, <2>2 DEF Kept
  <2>. QED  BY <2>1, <2>2
<1>9. Kept'
  <2>1. FileMayFail' = FileMayFail
      BY <1>1 DEF FileMayFail
  <2>. QED  BY <1>1, <1>2, <1>8, <2>1 DEF Kept, Agrees
<1>10. \A h \in Handlers : put'[h] = NoPut
    BY <1>1, <1>3
<1>. QED  BY <1>1, <1>2, <1>7, <1>9, <1>10, NoPutOK DEF AcceptInv

\* No key that was accepted fails to be loaded.
LEMMA LoadSucceeds ==
    ASSUME Whole, NoneBelow, AcceptInv, Traced, NEW k \in Keys, LoadFails(k)
    PROVE  FALSE
<1>1. k \in DOMAIN loading /\ Refusable(k, loading[k])
    BY DEF LoadFails, MayApply
<1>2. loading[k] # Wrong
    BY <1>1, SettingsAre, ConfigFacts DEF Whole, ConfWhole, ConfTyped
<1>3. k # "models"
    BY <1>1 DEF AcceptInv, LoadOK, Kept
<1>4. ~MayFail /\ SumsRead = {Promised}
    BY TracedFacts, CalmIsLow DEF Low, SumsRead, Promised
<1>5. k = "keep" /\ loading["keep"] /\ ~Consistent(Promised)
    BY <1>1, <1>2, <1>3, <1>4 DEF Refusable
<1>. QED  BY <1>1, <1>5 DEF AcceptInv, LoadOK

LEMMA NextAccept == Whole /\ NoneBelow /\ KeepInv /\ AcceptInv /\ [Next]_vars => AcceptInv'
<1>. SUFFICES ASSUME Whole, NoneBelow, KeepInv, AcceptInv, [Next]_vars PROVE AcceptInv'
    OBVIOUS
<1>1. ASSUME NEW h \in Handlers, ServeLimits(h) PROVE AcceptInv'
  <2>1. Serving /\ UNCHANGED configVars /\ Serve(h)
      BY <1>1 DEF ServeLimits
  <2>2. UNCHANGED <<keep, overdrawn, world>>
    <3>1. ASSUME NEW op, NEW amount, PutHost(h, op, amount) PROVE UNCHANGED <<keep, overdrawn, world>>
        BY <3>1, Zenon DEF PutHost
    <3>2. ASSUME NEW c, NEW op, NEW amount, PutLimit(h, c, op, amount)
          PROVE  UNCHANGED <<keep, overdrawn, world>>
        BY <3>2, Zenon DEF PutLimit
    <3>3. ASSUME NEW c, Register(h, c) \/ Clone(h, c) \/ AddLimit(h, c)
          PROVE  UNCHANGED <<keep, overdrawn, world>>
        BY <3>3, Zenon DEF Register, Clone, AddLimit
    <3>4. CASE Validate(h) \/ ListContainers(h) \/ Judge(h)
        BY <3>4, Zenon DEF Validate, ListContainers, Judge
    <3>5. CASE WriteHost(h) \/ WriteLimit(h) \/ ApplyBudget(h) \/ ReadLimit(h) \/ CopyLimits(h)
        BY <3>5, Zenon DEF WriteHost, WriteLimit, ApplyBudget, ReadLimit, CopyLimits
    <3>6. CASE StoreFails(h)
        BY <3>6, Zenon DEF StoreFails
    <3>. QED  BY <2>1, <3>1, <3>2, <3>3, <3>4, <3>5, <3>6 DEF Serve
  <2>. QED  BY <2>1, <2>2, StillAccept
<1>2. ASSUME NEW h \in Handlers, ServeConfig(h) PROVE AcceptInv'
    BY <1>2, PutConfigAccept, ApplyOneAccept, RefuseAccept, FileAccept, WriteAccept DEF ServeConfig
<1>3. ASSUME NEW c \in Containers, Remove(c) PROVE AcceptInv'
  <2>1. "remove" \in world.may /\ UNCHANGED world
      BY <1>3 DEF Remove
  <2>. QED  BY <2>1, TracedFacts DEF AcceptInv, Traced
<1>4. ASSUME NEW c \in Containers, Use(c), UNCHANGED configVars, Serving PROVE AcceptInv'
    BY <1>4, StillAccept DEF Use
<1>5. ASSUME NEW value \in BOOLEAN, Switch(value) PROVE AcceptInv'
    BY <1>5, SwitchAccept
<1>6. CASE Restart
    BY <1>6, RestartAccept
<1>7. ASSUME NEW k \in Keys, LoadKey(k) PROVE AcceptInv'
    BY <1>7, LoadKeyAccept
<1>8. ASSUME NEW k \in Keys, LoadFails(k) PROVE AcceptInv'
    BY <1>8, LoadSucceeds DEF LoadFails, AcceptInv, Traced, limitsVars
<1>9. CASE UNCHANGED vars
    BY <1>9, StillAccept DEF vars, limitsVars
<1>. QED  BY <1>1, <1>2, <1>3, <1>4, <1>5, <1>6, <1>7, <1>8, <1>9 DEF Next

\* Whatever settings are put one after the other, refused or not, and through any number of
\* restarts: when the server is at rest, what succeeded is in force, unless memory was
\* changed by a request that stores nothing.  Where config.json may fail, that is all that
\* succeeded since the last start, and of what succeeded before it all that was written to
\* the file and could be read again.
THEOREM AcceptedStaysInForce == Spec => []AcceptedInForce
<1>1. Spec => [](Whole /\ NoneBelow /\ KeepInv /\ AcceptInv)
    BY InitWhole, NextWhole, InitNoneBelow, NextNoneBelow, InitKeep, NextKeep,
       InitAccept, NextAccept, PTL DEF Spec
<1>2. AcceptInv => AcceptedInForce
  <2>. SUFFICES ASSUME AcceptInv, Settled, Traced, NEW k \in DOMAIN accepted
                PROVE  InForce(k) = accepted[k]
      BY DEF AcceptedInForce, Traced
  <2>1. DOMAIN loading = {} /\ \A h \in Handlers : Applied(h) = {}
      BY EmptySettings, NoPutOK DEF Settled, Serving, NoPuts
  <2>. QED  BY <2>1 DEF AcceptInv, Kept, Settled
<1>. QED  BY <1>1, <1>2, PTL
=============================================================================
